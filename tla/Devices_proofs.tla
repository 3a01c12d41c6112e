----------------------------- MODULE Devices_proofs -----------------------------
(***************************************************************************)
(* Proofs about the devices of virtual machines (KvmDevices.tla), the file *)
(* systems of containers (Sandbox.tla) and the file commands               *)
(* (FileHandles.tla): for each an inductive invariant, one lemma for every *)
(* action, and the theorem.                                                *)
(***************************************************************************)
EXTENDS KvmDevices, Sandbox, FileHandles, FiniteSetTheorems, SequenceTheorems, TLAPS

-----------------------------------------------------------------------------
(* Devices of virtual machines.                                            *)

\* Jobs at work, those that have a channel, and those that may still read it.
Busy(j) == devOp[j].at # "idle"
Holding(j) == devOp[j].at \in {"detach", "wait", "select", "unexpect"}
Reading(j) == devOp[j].at \in {"detach", "wait", "select"}

Where == {"idle", "attach", "added", "expect", "detach", "wait", "select", "unexpect", "removed"}
\* What a job does to a device.
OpRecord == [at : Where, dev : Device \cup {NoDevice}, chan : Nat,
             result : {"none", "ok", "failed", "timeout"}, answered : BOOLEAN]

\* The types of the variables.
DevicesTypeOK ==
  /\ devLive \subseteq Device /\ devInfo \subseteq Device /\ removing \subseteq Device
  /\ qemuArgs \in BOOLEAN /\ syncStuck \in BOOLEAN /\ messy \in BOOLEAN
  /\ devOp \in [Job -> OpRecord]
  /\ channel \in Seq({"empty", "full", "closed"})
  /\ expected \in [Device -> 0..Len(channel)]
  /\ lvEvents \in Seq(Device \cup {NoDevice})
  /\ evch \in Nat /\ life \in Nat /\ overlapped \subseteq Device

\* A job is idle or works on a device; it has a result from the end of its wait on.
OpsAreWell ==
  \A j \in Job : /\ devOp[j].at = "idle" => devOp[j] = NoOp
                 /\ devOp[j].at # "idle" => devOp[j].dev \in Device
                 /\ devOp[j].result # "none" => devOp[j].at \in {"unexpect", "removed"}
                 /\ devOp[j].at = "removed" => devOp[j].result = "ok"
                 /\ devOp[j].at = "unexpect" => devOp[j].result # "none"

\* Channels are of one device each.
ChannelsAreOwn ==
  \A d, e \in Device : expected[d] = expected[e] /\ expected[d] # 0 => d = e

\* A channel that is waited for is not closed.
ChannelsAreOpen == \A d \in Device : expected[d] # 0 => channel[expected[d]] # "closed"

\* A job that expects an answer of a device no other job removes has a channel.
HoldersAreKnown ==
  \A j \in Job : Holding(j) /\ devOp[j].dev \notin overlapped =>
    /\ expected[devOp[j].dev] # 0
    /\ \A i \in Job : Holding(i) /\ devOp[i].dev = devOp[j].dev => i = j

\* It reads that channel, in which there is nothing but the answer.
ReadersAreAnswered ==
  \A j \in Job : Reading(j) /\ devOp[j].dev \notin overlapped =>
    /\ devOp[j].at = "select" => devOp[j].chan = expected[devOp[j].dev]
    /\ channel[expected[devOp[j].dev]] = "full" => devOp[j].answered

\* Whoever reads has a channel, closed or not.
SelectHasChannel ==
  \A j \in Job : devOp[j].at = "select" => devOp[j].chan \in DOMAIN channel

\* Nothing of libvirt is under way.
NoAnswers == \A i \in DOMAIN lvEvents : lvEvents[i] = NoDevice
Quiet == removing = {} /\ NoAnswers

\* The DomainInfo tells of a device what the domain has.
Same(d) == (d \in devInfo <=> d \in devLive) \/ (qemuArgs /\ d \in Disk)

\* Before any overlap there is one job at a time,
OneJob == \A i, j \in Job : Busy(i) /\ Busy(j) => i = j

\* a channel is of the job that is at work,
ChannelHasJob ==
  \A d \in Device : expected[d] # 0 => \E j \in Job : Holding(j) /\ devOp[j].dev = d

\* at most one answer is under way, for the job that waits for it,
OneAnswer(j) ==
  LET d == devOp[j].dev IN
  /\ removing \subseteq {d}
  /\ removing # {} => NoAnswers
  /\ \A i \in DOMAIN lvEvents : lvEvents[i] \in {d, NoDevice}
  /\ \A i, k \in DOMAIN lvEvents : lvEvents[i] = d /\ lvEvents[k] = d => i = k
  /\ channel[expected[d]] = "full" => Quiet

AnswersAreOne ==
  /\ (\A j \in Job : ~Busy(j)) => Quiet
  /\ \A j \in Job : IF devOp[j].at \in {"wait", "select"} THEN OneAnswer(j)
                    ELSE Busy(j) => Quiet
  /\ \A j \in Job : devOp[j].at = "detach" => channel[expected[devOp[j].dev]] # "full"

\* and but for its device the DomainInfo is true.
InfoButOne ==
  /\ (\A j \in Job : ~Busy(j)) => \A d \in Device : Same(d)
  /\ \A j \in Job : Busy(j) =>
       /\ \A d \in Device \ {devOp[j].dev} : Same(d)
       /\ devOp[j].at \in {"attach", "expect", "detach"} => Same(devOp[j].dev)
       /\ devOp[j].at = "unexpect" =>
            \/ devOp[j].result = "ok"
            \/ devOp[j].result = "failed" /\ Same(devOp[j].dev)
       /\ devOp[j].at = "added" => devOp[j].dev \in devLive
       /\ devOp[j].at \in {"wait", "select", "unexpect", "removed"} /\ devOp[j].dev \in devLive \cap Nic =>
            devOp[j].dev \in devInfo

\* All this, as long as no two jobs were at work at once.
OrderlyJobs ==
  ~messy => /\ overlapped = {} /\ ~syncStuck
            /\ OneJob /\ ChannelHasJob /\ AnswersAreOne /\ InfoButOne

\* The inductive invariant of the devices.
DevicesIInv ==
  /\ DevicesTypeOK /\ OpsAreWell /\ ChannelsAreOwn /\ ChannelsAreOpen /\ HoldersAreKnown
  /\ ReadersAreAnswered /\ SelectHasChannel /\ SyncStuckOnlyByOverlap /\ RemovalWasAnswered
  /\ OrderlyJobs

-----------------------------------------------------------------------------
(* Facts about sequences and jobs.                                         *)

\* A sequence some of whose elements are replaced.
LEMMA MappedSeq ==
  ASSUME NEW S, NEW s \in Seq(S), NEW t \in [DOMAIN s -> S]
  PROVE  t \in Seq(S) /\ Len(t) = Len(s) /\ DOMAIN t = DOMAIN s
<1>1. PICK n \in Nat : n = Len(s) /\ DOMAIN s = 1..n
  OBVIOUS
<1>2. t \in [1..n -> S]
  BY <1>1
<1> QED
  BY <1>1, <1>2

\* A lookup that leaves no trace found nobody else at work.
LEMMA AloneAtLookup ==
  ASSUME DevicesTypeOK, NEW j \in Job, messy' = (messy \/ Others(j) # {}), ~messy'
  PROVE  ~messy /\ \A i \in Job : i = j \/ devOp[i].at = "idle"
<1>1. ~messy /\ Others(j) = {}
  OBVIOUS
<1>2. \A i \in Job : i = j \/ devOp[i] = NoOp
  BY <1>1 DEF Others
<1> QED
  BY <1>1, <1>2 DEF NoOp

\* An attach starts: a job that was idle gets to work on a device.
LEMMA AttachLookupIInv ==
  ASSUME DevicesIInv, NEW j \in Job, NEW d \in Device, AttachLookup(j, d)
  PROVE  DevicesIInv'
<1> USE DevicesAssumption DEF DevicesIInv
<1>1. PICK m \in OpRecord : m = devOp[j]
  BY DEF DevicesTypeOK
<1>2. PICK f : f = [NoOp EXCEPT !.at = "attach", !.dev = d]
  OBVIOUS
<1>3. /\ f \in OpRecord
      /\ f.at = "attach" /\ f.dev = d /\ f.chan = 0 /\ f.result = "none" /\ f.answered = FALSE
  BY <1>1, <1>2 DEF OpRecord, Where, NoOp, AttachLookup
<1>4. devOp' = [devOp EXCEPT ![j] = f]
  BY <1>1, <1>2 DEF AttachLookup, Others, NoOp
<1>5. \A i \in Job : devOp'[i] = IF i = j THEN f ELSE devOp[i]
  BY <1>4 DEF DevicesTypeOK
<1>6. /\ m.at = "idle" /\ d \notin devLive /\ messy' \in BOOLEAN
      /\ ~messy' => ~messy /\ \A i \in Job : i = j \/ devOp[i].at = "idle"
  <2>1. m.at = "idle" /\ messy' = (messy \/ Others(j) # {})
    BY <1>1 DEF AttachLookup, DetachLookup, NoOp
  <2>2. ~messy' => ~messy /\ \A i \in Job : i = j \/ devOp[i].at = "idle"
    BY <2>1, AloneAtLookup
  <2> QED
    BY <2>1, <2>2 DEF AttachLookup, DetachLookup, DevicesTypeOK
<1>7. UNCHANGED <<devLive, devInfo, qemuArgs, removing, expected, channel, syncStuck, lvEvents, evch, life, overlapped>>
  BY <1>1 DEF AttachLookup, Others, NoOp
<1>10. DevicesTypeOK'
  BY <1>1, <1>3, <1>4, <1>5, <1>6, <1>7 DEF DevicesTypeOK, OpsAreWell
<1>11. OpsAreWell'
  BY <1>2, <1>1, <1>3, <1>4, <1>5, <1>6, <1>7 DEF OpsAreWell, DevicesTypeOK, NoOp
<1>12. ChannelsAreOwn'
  BY <1>1, <1>3, <1>4, <1>5, <1>6, <1>7 DEF ChannelsAreOwn, DevicesTypeOK, OpsAreWell
<1>13. ChannelsAreOpen'
  BY <1>1, <1>3, <1>4, <1>5, <1>6, <1>7 DEF ChannelsAreOpen, DevicesTypeOK, OpsAreWell, ChannelsAreOwn
<1>14. HoldersAreKnown'
  BY <1>1, <1>3, <1>4, <1>5, <1>6, <1>7 DEF HoldersAreKnown, DevicesTypeOK, OpsAreWell, Holding
<1>15. ReadersAreAnswered'
  BY <1>1, <1>3, <1>4, <1>5, <1>6, <1>7 DEF ReadersAreAnswered, DevicesTypeOK, OpsAreWell, Reading, Holding, HoldersAreKnown, ChannelsAreOwn, ChannelsAreOpen
<1>16. SelectHasChannel'
  BY <1>1, <1>3, <1>4, <1>5, <1>6, <1>7 DEF SelectHasChannel, DevicesTypeOK, OpsAreWell
<1>17. SyncStuckOnlyByOverlap'
  BY <1>1, <1>3, <1>4, <1>5, <1>6, <1>7 DEF SyncStuckOnlyByOverlap, DevicesTypeOK, OpsAreWell, Holding, HoldersAreKnown
<1>18. RemovalWasAnswered'
  BY <1>1, <1>3, <1>4, <1>5, <1>6, <1>7 DEF RemovalWasAnswered, DevicesTypeOK, OpsAreWell, Reading, Holding, HoldersAreKnown, ReadersAreAnswered, ChannelsAreOpen
<1>19. OrderlyJobs'
  <2> SUFFICES ASSUME ~messy' PROVE OrderlyJobs'
    BY DEF OrderlyJobs
  <2>1. /\ ~messy /\ overlapped = {} /\ ~syncStuck
       /\ OneJob /\ ChannelHasJob /\ AnswersAreOne /\ InfoButOne
    BY <1>1, <1>3, <1>4, <1>5, <1>6, <1>7 DEF OrderlyJobs, DevicesTypeOK
  <2>2. overlapped' = {} /\ ~syncStuck'
    BY <2>1, <1>1, <1>3, <1>4, <1>5, <1>6, <1>7 DEF DevicesTypeOK, OpsAreWell, HoldersAreKnown, Holding, ChannelHasJob, OneJob, Busy
  <2>3. OneJob'
    BY <2>1, <1>1, <1>3, <1>4, <1>5, <1>6, <1>7 DEF OneJob, DevicesTypeOK, OpsAreWell, Busy
  <2>4. ChannelHasJob'
    BY <2>1, <1>1, <1>3, <1>4, <1>5, <1>6, <1>7 DEF ChannelHasJob, DevicesTypeOK, OpsAreWell, OneJob, Holding, Busy
  <2>5. AnswersAreOne'
    BY <2>1, <1>1, <1>3, <1>4, <1>5, <1>6, <1>7 DEF AnswersAreOne, DevicesTypeOK, OpsAreWell, OneJob, OneAnswer, Quiet, NoAnswers, Busy, ChannelsAreOpen
  <2>6. InfoButOne'
    BY <2>1, <1>1, <1>3, <1>4, <1>5, <1>6, <1>7 DEF InfoButOne, DevicesTypeOK, OpsAreWell, OneJob, Same, Busy
  <2> QED
    BY <2>2, <2>3, <2>4, <2>5, <2>6 DEF OrderlyJobs
<1> QED
  BY <1>10, <1>11, <1>12, <1>13, <1>14, <1>15, <1>16, <1>17, <1>18, <1>19

\* attachDevice: the device is live, or it was there or libvirt failed.
LEMMA AttachDeviceIInv ==
  ASSUME DevicesIInv, NEW j \in Job, AttachDevice(j)
  PROVE  DevicesIInv'
<1> USE DevicesAssumption DEF DevicesIInv
<1>1. CASE devOp[j].dev \notin devLive /\ devLive' = devLive \cup {devOp[j].dev} /\ Step(j, "added")
  <2>1. PICK m \in OpRecord : m = devOp[j]
    BY DEF DevicesTypeOK
  <2>2. PICK f : f = [m EXCEPT !.at = "added"]
    OBVIOUS
  <2>3. /\ f \in OpRecord
        /\ f.at = "added" /\ f.dev = m.dev /\ f.chan = m.chan /\ f.result = m.result /\ f.answered = m.answered
    BY <1>1, <2>1, <2>2 DEF OpRecord, Where, NoOp, AttachDevice
  <2>4. devOp' = [devOp EXCEPT ![j] = f]
    BY <1>1, <2>1, <2>2 DEF AttachDevice, Step
  <2>5. \A i \in Job : devOp'[i] = IF i = j THEN f ELSE devOp[i]
    BY <2>4 DEF DevicesTypeOK
  <2>6. m.at = "attach" /\ devLive' = devLive \cup {m.dev}
    BY <1>1, <2>1 DEF AttachDevice, Step
  <2>7. UNCHANGED <<devInfo, qemuArgs, removing, expected, channel, syncStuck, lvEvents, evch, life, overlapped, messy>>
    BY <1>1, <2>1 DEF AttachDevice, Step
  <2>10. DevicesTypeOK'
    BY <2>1, <2>3, <2>4, <2>5, <2>6, <2>7 DEF DevicesTypeOK, OpsAreWell
  <2>11. OpsAreWell'
    BY <2>2, <2>1, <2>3, <2>4, <2>5, <2>6, <2>7 DEF OpsAreWell, DevicesTypeOK, NoOp
  <2>12. ChannelsAreOwn'
    BY <2>1, <2>3, <2>4, <2>5, <2>6, <2>7 DEF ChannelsAreOwn, DevicesTypeOK, OpsAreWell
  <2>13. ChannelsAreOpen'
    BY <2>1, <2>3, <2>4, <2>5, <2>6, <2>7 DEF ChannelsAreOpen, DevicesTypeOK, OpsAreWell, ChannelsAreOwn
  <2>14. HoldersAreKnown'
    BY <2>1, <2>3, <2>4, <2>5, <2>6, <2>7 DEF HoldersAreKnown, DevicesTypeOK, OpsAreWell, Holding
  <2>15. ReadersAreAnswered'
    BY <2>1, <2>3, <2>4, <2>5, <2>6, <2>7 DEF ReadersAreAnswered, DevicesTypeOK, OpsAreWell, Reading, Holding, HoldersAreKnown, ChannelsAreOwn, ChannelsAreOpen
  <2>16. SelectHasChannel'
    BY <2>1, <2>3, <2>4, <2>5, <2>6, <2>7 DEF SelectHasChannel, DevicesTypeOK, OpsAreWell
  <2>17. SyncStuckOnlyByOverlap'
    BY <2>1, <2>3, <2>4, <2>5, <2>6, <2>7 DEF SyncStuckOnlyByOverlap, DevicesTypeOK, OpsAreWell, Holding, HoldersAreKnown
  <2>18. RemovalWasAnswered'
    BY <2>1, <2>3, <2>4, <2>5, <2>6, <2>7 DEF RemovalWasAnswered, DevicesTypeOK, OpsAreWell, Reading, Holding, HoldersAreKnown, ReadersAreAnswered, ChannelsAreOpen
  <2>19. OrderlyJobs'
    <3> SUFFICES ASSUME ~messy' PROVE OrderlyJobs'
      BY DEF OrderlyJobs
    <3>1. /\ ~messy /\ overlapped = {} /\ ~syncStuck
         /\ OneJob /\ ChannelHasJob /\ AnswersAreOne /\ InfoButOne
      BY <2>1, <2>3, <2>4, <2>5, <2>6, <2>7 DEF OrderlyJobs, DevicesTypeOK
    <3>2. overlapped' = {} /\ ~syncStuck'
      BY <3>1, <2>1, <2>3, <2>4, <2>5, <2>6, <2>7 DEF DevicesTypeOK, OpsAreWell, HoldersAreKnown, Holding, ChannelHasJob, OneJob, Busy
    <3>3. OneJob'
      BY <3>1, <2>1, <2>3, <2>4, <2>5, <2>6, <2>7 DEF OneJob, DevicesTypeOK, OpsAreWell, Busy
    <3>4. ChannelHasJob'
      BY <3>1, <2>1, <2>3, <2>4, <2>5, <2>6, <2>7 DEF ChannelHasJob, DevicesTypeOK, OpsAreWell, OneJob, Holding, Busy
    <3>5. AnswersAreOne'
      BY <3>1, <2>1, <2>3, <2>4, <2>5, <2>6, <2>7 DEF AnswersAreOne, DevicesTypeOK, OpsAreWell, OneJob, OneAnswer, Quiet, NoAnswers, Busy, ChannelsAreOpen
    <3>6. InfoButOne'
      BY <3>1, <2>1, <2>3, <2>4, <2>5, <2>6, <2>7 DEF InfoButOne, DevicesTypeOK, OpsAreWell, OneJob, Same, Busy
    <3> QED
      BY <3>2, <3>3, <3>4, <3>5, <3>6 DEF OrderlyJobs
  <2> QED
    BY <2>10, <2>11, <2>12, <2>13, <2>14, <2>15, <2>16, <2>17, <2>18, <2>19
<1>2. CASE devOp' = [devOp EXCEPT ![j] = NoOp] /\ UNCHANGED devLive
  <2>1. PICK m \in OpRecord : m = devOp[j]
    BY DEF DevicesTypeOK
  <2>2. PICK f : f = NoOp
    OBVIOUS
  <2>3. /\ f \in OpRecord
        /\ f.at = "idle" /\ f.dev = NoDevice /\ f.chan = 0 /\ f.result = "none" /\ f.answered = FALSE
    BY <1>2, <2>1, <2>2 DEF OpRecord, Where, NoOp, AttachDevice
  <2>4. devOp' = [devOp EXCEPT ![j] = f]
    BY <1>2, <2>1, <2>2 DEF AttachDevice, Step
  <2>5. \A i \in Job : devOp'[i] = IF i = j THEN f ELSE devOp[i]
    BY <2>4 DEF DevicesTypeOK
  <2>6. m.at = "attach"
    BY <1>2, <2>1 DEF AttachDevice, Step
  <2>7. UNCHANGED <<devLive, devInfo, qemuArgs, removing, expected, channel, syncStuck, lvEvents, evch, life, overlapped, messy>>
    BY <1>2, <2>1 DEF AttachDevice, Step
  <2>10. DevicesTypeOK'
    BY <2>1, <2>3, <2>4, <2>5, <2>6, <2>7 DEF DevicesTypeOK, OpsAreWell
  <2>11. OpsAreWell'
    BY <2>2, <2>1, <2>3, <2>4, <2>5, <2>6, <2>7 DEF OpsAreWell, DevicesTypeOK, NoOp
  <2>12. ChannelsAreOwn'
    BY <2>1, <2>3, <2>4, <2>5, <2>6, <2>7 DEF ChannelsAreOwn, DevicesTypeOK, OpsAreWell
  <2>13. ChannelsAreOpen'
    BY <2>1, <2>3, <2>4, <2>5, <2>6, <2>7 DEF ChannelsAreOpen, DevicesTypeOK, OpsAreWell, ChannelsAreOwn
  <2>14. HoldersAreKnown'
    BY <2>1, <2>3, <2>4, <2>5, <2>6, <2>7 DEF HoldersAreKnown, DevicesTypeOK, OpsAreWell, Holding
  <2>15. ReadersAreAnswered'
    BY <2>1, <2>3, <2>4, <2>5, <2>6, <2>7 DEF ReadersAreAnswered, DevicesTypeOK, OpsAreWell, Reading, Holding, HoldersAreKnown, ChannelsAreOwn, ChannelsAreOpen
  <2>16. SelectHasChannel'
    BY <2>1, <2>3, <2>4, <2>5, <2>6, <2>7 DEF SelectHasChannel, DevicesTypeOK, OpsAreWell
  <2>17. SyncStuckOnlyByOverlap'
    BY <2>1, <2>3, <2>4, <2>5, <2>6, <2>7 DEF SyncStuckOnlyByOverlap, DevicesTypeOK, OpsAreWell, Holding, HoldersAreKnown
  <2>18. RemovalWasAnswered'
    BY <2>1, <2>3, <2>4, <2>5, <2>6, <2>7 DEF RemovalWasAnswered, DevicesTypeOK, OpsAreWell, Reading, Holding, HoldersAreKnown, ReadersAreAnswered, ChannelsAreOpen
  <2>19. OrderlyJobs'
    <3> SUFFICES ASSUME ~messy' PROVE OrderlyJobs'
      BY DEF OrderlyJobs
    <3>1. /\ ~messy /\ overlapped = {} /\ ~syncStuck
         /\ OneJob /\ ChannelHasJob /\ AnswersAreOne /\ InfoButOne
      BY <2>1, <2>3, <2>4, <2>5, <2>6, <2>7 DEF OrderlyJobs, DevicesTypeOK
    <3>2. overlapped' = {} /\ ~syncStuck'
      BY <3>1, <2>1, <2>3, <2>4, <2>5, <2>6, <2>7 DEF DevicesTypeOK, OpsAreWell, HoldersAreKnown, Holding, ChannelHasJob, OneJob, Busy
    <3>3. OneJob'
      BY <3>1, <2>1, <2>3, <2>4, <2>5, <2>6, <2>7 DEF OneJob, DevicesTypeOK, OpsAreWell, Busy
    <3>4. ChannelHasJob'
      BY <3>1, <2>1, <2>3, <2>4, <2>5, <2>6, <2>7 DEF ChannelHasJob, DevicesTypeOK, OpsAreWell, OneJob, Holding, Busy
    <3>5. AnswersAreOne'
      BY <3>1, <2>1, <2>3, <2>4, <2>5, <2>6, <2>7 DEF AnswersAreOne, DevicesTypeOK, OpsAreWell, OneJob, OneAnswer, Quiet, NoAnswers, Busy, ChannelsAreOpen
    <3>6. InfoButOne'
      BY <3>1, <2>1, <2>3, <2>4, <2>5, <2>6, <2>7 DEF InfoButOne, DevicesTypeOK, OpsAreWell, OneJob, Same, Busy
    <3> QED
      BY <3>2, <3>3, <3>4, <3>5, <3>6 DEF OrderlyJobs
  <2> QED
    BY <2>10, <2>11, <2>12, <2>13, <2>14, <2>15, <2>16, <2>17, <2>18, <2>19
<1> QED
  BY <1>1, <1>2 DEF AttachDevice, Step

\* An attach ends, and what is known of the domain is brought up to date.
LEMMA AttachInfoIInv ==
  ASSUME DevicesIInv, NEW j \in Job, AttachInfo(j)
  PROVE  DevicesIInv'
<1> USE DevicesAssumption DEF DevicesIInv
<1>1. PICK m \in OpRecord : m = devOp[j]
  BY DEF DevicesTypeOK
<1>2. PICK f : f = NoOp
  OBVIOUS
<1>3. /\ f \in OpRecord
      /\ f.at = "idle" /\ f.dev = NoDevice /\ f.chan = 0 /\ f.result = "none" /\ f.answered = FALSE
  BY <1>1, <1>2 DEF OpRecord, Where, NoOp, AttachInfo
<1>4. devOp' = [devOp EXCEPT ![j] = f]
  BY <1>1, <1>2 DEF AttachInfo
<1>5. \A i \in Job : devOp'[i] = IF i = j THEN f ELSE devOp[i]
  BY <1>4 DEF DevicesTypeOK
<1>6. /\ m.at = "added"
      /\ devInfo' = IF m.dev \in Disk THEN InfoAfterDisk ELSE devInfo \cup {m.dev}
  BY <1>1 DEF AttachInfo
<1>7. UNCHANGED <<devLive, qemuArgs, removing, expected, channel, syncStuck, lvEvents, evch, life, overlapped, messy>>
  BY <1>1 DEF AttachInfo
<1>10. DevicesTypeOK'
  BY <1>1, <1>3, <1>4, <1>5, <1>6, <1>7 DEF DevicesTypeOK, OpsAreWell, InfoAfterDisk, InfoAfterNic, Device
<1>11. OpsAreWell'
  BY <1>2, <1>1, <1>3, <1>4, <1>5, <1>6, <1>7 DEF OpsAreWell, DevicesTypeOK, NoOp
<1>12. ChannelsAreOwn'
  BY <1>1, <1>3, <1>4, <1>5, <1>6, <1>7 DEF ChannelsAreOwn, DevicesTypeOK, OpsAreWell
<1>13. ChannelsAreOpen'
  BY <1>1, <1>3, <1>4, <1>5, <1>6, <1>7 DEF ChannelsAreOpen, DevicesTypeOK, OpsAreWell, ChannelsAreOwn
<1>14. HoldersAreKnown'
  BY <1>1, <1>3, <1>4, <1>5, <1>6, <1>7 DEF HoldersAreKnown, DevicesTypeOK, OpsAreWell, Holding
<1>15. ReadersAreAnswered'
  BY <1>1, <1>3, <1>4, <1>5, <1>6, <1>7 DEF ReadersAreAnswered, DevicesTypeOK, OpsAreWell, Reading, Holding, HoldersAreKnown, ChannelsAreOwn, ChannelsAreOpen
<1>16. SelectHasChannel'
  BY <1>1, <1>3, <1>4, <1>5, <1>6, <1>7 DEF SelectHasChannel, DevicesTypeOK, OpsAreWell
<1>17. SyncStuckOnlyByOverlap'
  BY <1>1, <1>3, <1>4, <1>5, <1>6, <1>7 DEF SyncStuckOnlyByOverlap, DevicesTypeOK, OpsAreWell, Holding, HoldersAreKnown
<1>18. RemovalWasAnswered'
  BY <1>1, <1>3, <1>4, <1>5, <1>6, <1>7 DEF RemovalWasAnswered, DevicesTypeOK, OpsAreWell, Reading, Holding, HoldersAreKnown, ReadersAreAnswered, ChannelsAreOpen
<1>19. OrderlyJobs'
  <2> SUFFICES ASSUME ~messy' PROVE OrderlyJobs'
    BY DEF OrderlyJobs
  <2>1. /\ ~messy /\ overlapped = {} /\ ~syncStuck
       /\ OneJob /\ ChannelHasJob /\ AnswersAreOne /\ InfoButOne
    BY <1>1, <1>3, <1>4, <1>5, <1>6, <1>7 DEF OrderlyJobs, DevicesTypeOK
  <2>2. overlapped' = {} /\ ~syncStuck'
    BY <2>1, <1>1, <1>3, <1>4, <1>5, <1>6, <1>7 DEF DevicesTypeOK, OpsAreWell, HoldersAreKnown, Holding, ChannelHasJob, OneJob, Busy
  <2>3. OneJob'
    BY <2>1, <1>1, <1>3, <1>4, <1>5, <1>6, <1>7 DEF OneJob, DevicesTypeOK, OpsAreWell, Busy
  <2>4. ChannelHasJob'
    BY <2>1, <1>1, <1>3, <1>4, <1>5, <1>6, <1>7 DEF ChannelHasJob, DevicesTypeOK, OpsAreWell, OneJob, Holding, Busy
  <2>5. AnswersAreOne'
    BY <2>1, <1>1, <1>3, <1>4, <1>5, <1>6, <1>7 DEF AnswersAreOne, DevicesTypeOK, OpsAreWell, OneJob, OneAnswer, Quiet, NoAnswers, Busy, ChannelsAreOpen
  <2>6. InfoButOne'
    BY <2>1, <1>1, <1>3, <1>4, <1>5, <1>6, <1>7 DEF InfoButOne, DevicesTypeOK, OpsAreWell, OneJob, Same, Busy, InfoAfterDisk, InfoAfterNic, Device
  <2> QED
    BY <2>2, <2>3, <2>4, <2>5, <2>6 DEF OrderlyJobs
<1> QED
  BY <1>10, <1>11, <1>12, <1>13, <1>14, <1>15, <1>16, <1>17, <1>18, <1>19

\* A detach starts with a device that is live.
LEMMA DetachLookupIInv ==
  ASSUME DevicesIInv, NEW j \in Job, NEW d \in Device, DetachLookup(j, d)
  PROVE  DevicesIInv'
<1> USE DevicesAssumption DEF DevicesIInv
<1>1. PICK m \in OpRecord : m = devOp[j]
  BY DEF DevicesTypeOK
<1>2. PICK f : f = [NoOp EXCEPT !.at = "expect", !.dev = d]
  OBVIOUS
<1>3. /\ f \in OpRecord
      /\ f.at = "expect" /\ f.dev = d /\ f.chan = 0 /\ f.result = "none" /\ f.answered = FALSE
  BY <1>1, <1>2 DEF OpRecord, Where, NoOp, DetachLookup
<1>4. devOp' = [devOp EXCEPT ![j] = f]
  BY <1>1, <1>2 DEF DetachLookup, Others, NoOp
<1>5. \A i \in Job : devOp'[i] = IF i = j THEN f ELSE devOp[i]
  BY <1>4 DEF DevicesTypeOK
<1>6. /\ m.at = "idle" /\ d \in devLive /\ messy' \in BOOLEAN
      /\ ~messy' => ~messy /\ \A i \in Job : i = j \/ devOp[i].at = "idle"
  <2>1. m.at = "idle" /\ messy' = (messy \/ Others(j) # {})
    BY <1>1 DEF AttachLookup, DetachLookup, NoOp
  <2>2. ~messy' => ~messy /\ \A i \in Job : i = j \/ devOp[i].at = "idle"
    BY <2>1, AloneAtLookup
  <2> QED
    BY <2>1, <2>2 DEF AttachLookup, DetachLookup, DevicesTypeOK
<1>7. UNCHANGED <<devLive, devInfo, qemuArgs, removing, expected, channel, syncStuck, lvEvents, evch, life, overlapped>>
  BY <1>1 DEF DetachLookup, Others, NoOp
<1>10. DevicesTypeOK'
  BY <1>1, <1>3, <1>4, <1>5, <1>6, <1>7 DEF DevicesTypeOK, OpsAreWell
<1>11. OpsAreWell'
  BY <1>2, <1>1, <1>3, <1>4, <1>5, <1>6, <1>7 DEF OpsAreWell, DevicesTypeOK, NoOp
<1>12. ChannelsAreOwn'
  BY <1>1, <1>3, <1>4, <1>5, <1>6, <1>7 DEF ChannelsAreOwn, DevicesTypeOK, OpsAreWell
<1>13. ChannelsAreOpen'
  BY <1>1, <1>3, <1>4, <1>5, <1>6, <1>7 DEF ChannelsAreOpen, DevicesTypeOK, OpsAreWell, ChannelsAreOwn
<1>14. HoldersAreKnown'
  BY <1>1, <1>3, <1>4, <1>5, <1>6, <1>7 DEF HoldersAreKnown, DevicesTypeOK, OpsAreWell, Holding
<1>15. ReadersAreAnswered'
  BY <1>1, <1>3, <1>4, <1>5, <1>6, <1>7 DEF ReadersAreAnswered, DevicesTypeOK, OpsAreWell, Reading, Holding, HoldersAreKnown, ChannelsAreOwn, ChannelsAreOpen
<1>16. SelectHasChannel'
  BY <1>1, <1>3, <1>4, <1>5, <1>6, <1>7 DEF SelectHasChannel, DevicesTypeOK, OpsAreWell
<1>17. SyncStuckOnlyByOverlap'
  BY <1>1, <1>3, <1>4, <1>5, <1>6, <1>7 DEF SyncStuckOnlyByOverlap, DevicesTypeOK, OpsAreWell, Holding, HoldersAreKnown
<1>18. RemovalWasAnswered'
  BY <1>1, <1>3, <1>4, <1>5, <1>6, <1>7 DEF RemovalWasAnswered, DevicesTypeOK, OpsAreWell, Reading, Holding, HoldersAreKnown, ReadersAreAnswered, ChannelsAreOpen
<1>19. OrderlyJobs'
  <2> SUFFICES ASSUME ~messy' PROVE OrderlyJobs'
    BY DEF OrderlyJobs
  <2>1. /\ ~messy /\ overlapped = {} /\ ~syncStuck
       /\ OneJob /\ ChannelHasJob /\ AnswersAreOne /\ InfoButOne
    BY <1>1, <1>3, <1>4, <1>5, <1>6, <1>7 DEF OrderlyJobs, DevicesTypeOK
  <2>2. overlapped' = {} /\ ~syncStuck'
    BY <2>1, <1>1, <1>3, <1>4, <1>5, <1>6, <1>7 DEF DevicesTypeOK, OpsAreWell, HoldersAreKnown, Holding, ChannelHasJob, OneJob, Busy
  <2>3. OneJob'
    BY <2>1, <1>1, <1>3, <1>4, <1>5, <1>6, <1>7 DEF OneJob, DevicesTypeOK, OpsAreWell, Busy
  <2>4. ChannelHasJob'
    BY <2>1, <1>1, <1>3, <1>4, <1>5, <1>6, <1>7 DEF ChannelHasJob, DevicesTypeOK, OpsAreWell, OneJob, Holding, Busy
  <2>5. AnswersAreOne'
    BY <2>1, <1>1, <1>3, <1>4, <1>5, <1>6, <1>7 DEF AnswersAreOne, DevicesTypeOK, OpsAreWell, OneJob, OneAnswer, Quiet, NoAnswers, Busy, ChannelsAreOpen
  <2>6. InfoButOne'
    BY <2>1, <1>1, <1>3, <1>4, <1>5, <1>6, <1>7 DEF InfoButOne, DevicesTypeOK, OpsAreWell, OneJob, Same, Busy
  <2> QED
    BY <2>2, <2>3, <2>4, <2>5, <2>6 DEF OrderlyJobs
<1> QED
  BY <1>10, <1>11, <1>12, <1>13, <1>14, <1>15, <1>16, <1>17, <1>18, <1>19

\* Expect: the device gets a new channel, which is open and nobody else has.
LEMMA DetachExpectIInv ==
  ASSUME DevicesIInv, NEW j \in Job, DetachExpect(j)
  PROVE  DevicesIInv'
<1> USE DevicesAssumption DEF DevicesIInv
<1>1. PICK m \in OpRecord : m = devOp[j]
  BY DEF DevicesTypeOK
<1>2. PICK f : f = [m EXCEPT !.at = "detach"]
  OBVIOUS
<1>3. /\ f \in OpRecord
      /\ f.at = "detach" /\ f.dev = m.dev /\ f.chan = m.chan /\ f.result = m.result /\ f.answered = m.answered
  BY <1>1, <1>2 DEF OpRecord, Where, NoOp, DetachExpect
<1>4. devOp' = [devOp EXCEPT ![j] = f]
  BY <1>1, <1>2 DEF DetachExpect, Expect, Step
<1>5. \A i \in Job : devOp'[i] = IF i = j THEN f ELSE devOp[i]
  BY <1>4 DEF DevicesTypeOK
<1>6. /\ m.at = "expect" /\ channel' = Append(channel, "empty")
      /\ expected' = [expected EXCEPT ![m.dev] = Len(channel) + 1]
      /\ overlapped' = IF expected[m.dev] # 0 THEN overlapped \cup {m.dev} ELSE overlapped
  BY <1>1 DEF DetachExpect, Expect, Step
<1>7. UNCHANGED <<devLive, devInfo, qemuArgs, removing, syncStuck, lvEvents, evch, life, messy>>
  BY <1>1 DEF DetachExpect, Expect, Step
<1>10. DevicesTypeOK'
  BY <1>1, <1>3, <1>4, <1>5, <1>6, <1>7 DEF DevicesTypeOK, OpsAreWell
<1>11. OpsAreWell'
  BY <1>2, <1>1, <1>3, <1>4, <1>5, <1>6, <1>7 DEF OpsAreWell, DevicesTypeOK, NoOp
<1>12. ChannelsAreOwn'
  BY <1>1, <1>3, <1>4, <1>5, <1>6, <1>7 DEF ChannelsAreOwn, DevicesTypeOK, OpsAreWell
<1>13. ChannelsAreOpen'
  BY <1>1, <1>3, <1>4, <1>5, <1>6, <1>7 DEF ChannelsAreOpen, DevicesTypeOK, OpsAreWell, ChannelsAreOwn
<1>14. HoldersAreKnown'
  BY <1>1, <1>3, <1>4, <1>5, <1>6, <1>7 DEF HoldersAreKnown, DevicesTypeOK, OpsAreWell, Holding
<1>15. ReadersAreAnswered'
  BY <1>1, <1>3, <1>4, <1>5, <1>6, <1>7 DEF ReadersAreAnswered, DevicesTypeOK, OpsAreWell, Reading, Holding, HoldersAreKnown, ChannelsAreOwn, ChannelsAreOpen
<1>16. SelectHasChannel'
  BY <1>1, <1>3, <1>4, <1>5, <1>6, <1>7 DEF SelectHasChannel, DevicesTypeOK, OpsAreWell
<1>17. SyncStuckOnlyByOverlap'
  BY <1>1, <1>3, <1>4, <1>5, <1>6, <1>7 DEF SyncStuckOnlyByOverlap, DevicesTypeOK, OpsAreWell, Holding, HoldersAreKnown
<1>18. RemovalWasAnswered'
  BY <1>1, <1>3, <1>4, <1>5, <1>6, <1>7 DEF RemovalWasAnswered, DevicesTypeOK, OpsAreWell, Reading, Holding, HoldersAreKnown, ReadersAreAnswered, ChannelsAreOpen
<1>19. OrderlyJobs'
  <2> SUFFICES ASSUME ~messy' PROVE OrderlyJobs'
    BY DEF OrderlyJobs
  <2>1. /\ ~messy /\ overlapped = {} /\ ~syncStuck
       /\ OneJob /\ ChannelHasJob /\ AnswersAreOne /\ InfoButOne
    BY <1>1, <1>3, <1>4, <1>5, <1>6, <1>7 DEF OrderlyJobs, DevicesTypeOK
  <2>2. overlapped' = {} /\ ~syncStuck'
    <3>1. expected[m.dev] = 0
      <4> SUFFICES ASSUME expected[m.dev] # 0 PROVE FALSE
        OBVIOUS
      <4>1. m.dev \in Device
        BY <1>1, <1>6 DEF OpsAreWell
      <4>2. PICK i \in Job : Holding(i) /\ devOp[i].dev = m.dev
        BY <2>1, <4>1 DEF ChannelHasJob
      <4> QED
        BY <2>1, <4>2, <1>1, <1>6 DEF OneJob, Holding, Busy
    <3> QED
      BY <2>1, <3>1, <1>6, <1>7
  <2>3. OneJob'
    BY <2>1, <1>1, <1>3, <1>4, <1>5, <1>6, <1>7 DEF OneJob, DevicesTypeOK, OpsAreWell, Busy
  <2>4. ChannelHasJob'
    BY <2>1, <1>1, <1>3, <1>4, <1>5, <1>6, <1>7 DEF ChannelHasJob, DevicesTypeOK, OpsAreWell, OneJob, Holding, Busy
  <2>5. AnswersAreOne'
    BY <2>1, <1>1, <1>3, <1>4, <1>5, <1>6, <1>7 DEF AnswersAreOne, DevicesTypeOK, OpsAreWell, OneJob, OneAnswer, Quiet, NoAnswers, Busy, ChannelsAreOpen
  <2>6. InfoButOne'
    BY <2>1, <1>1, <1>3, <1>4, <1>5, <1>6, <1>7 DEF InfoButOne, DevicesTypeOK, OpsAreWell, OneJob, Same, Busy
  <2> QED
    BY <2>2, <2>3, <2>4, <2>5, <2>6 DEF OrderlyJobs
<1> QED
  BY <1>10, <1>11, <1>12, <1>13, <1>14, <1>15, <1>16, <1>17, <1>18, <1>19

\* The guest is asked for the device, or libvirt fails.
LEMMA DetachAskIInv ==
  ASSUME DevicesIInv, NEW j \in Job, DetachAsk(j)
  PROVE  DevicesIInv'
<1> USE DevicesAssumption DEF DevicesIInv
<1>1. CASE devOp[j].dev \in devLive /\ removing' = removing \cup {devOp[j].dev} /\ Step(j, "wait")
  <2>1. PICK m \in OpRecord : m = devOp[j]
    BY DEF DevicesTypeOK
  <2>2. PICK f : f = [m EXCEPT !.at = "wait"]
    OBVIOUS
  <2>3. /\ f \in OpRecord
        /\ f.at = "wait" /\ f.dev = m.dev /\ f.chan = m.chan /\ f.result = m.result /\ f.answered = m.answered
    BY <1>1, <2>1, <2>2 DEF OpRecord, Where, NoOp, DetachAsk
  <2>4. devOp' = [devOp EXCEPT ![j] = f]
    BY <1>1, <2>1, <2>2 DEF DetachAsk, Step
  <2>5. \A i \in Job : devOp'[i] = IF i = j THEN f ELSE devOp[i]
    BY <2>4 DEF DevicesTypeOK
  <2>6. m.at = "detach" /\ m.dev \in devLive /\ removing' = removing \cup {m.dev}
    BY <1>1, <2>1 DEF DetachAsk, Step
  <2>7. UNCHANGED <<devLive, devInfo, qemuArgs, expected, channel, syncStuck, lvEvents, evch, life, overlapped, messy>>
    BY <1>1, <2>1 DEF DetachAsk, Step
  <2>10. DevicesTypeOK'
    BY <2>1, <2>3, <2>4, <2>5, <2>6, <2>7 DEF DevicesTypeOK, OpsAreWell
  <2>11. OpsAreWell'
    BY <2>2, <2>1, <2>3, <2>4, <2>5, <2>6, <2>7 DEF OpsAreWell, DevicesTypeOK, NoOp
  <2>12. ChannelsAreOwn'
    BY <2>1, <2>3, <2>4, <2>5, <2>6, <2>7 DEF ChannelsAreOwn, DevicesTypeOK, OpsAreWell
  <2>13. ChannelsAreOpen'
    BY <2>1, <2>3, <2>4, <2>5, <2>6, <2>7 DEF ChannelsAreOpen, DevicesTypeOK, OpsAreWell, ChannelsAreOwn
  <2>14. HoldersAreKnown'
    BY <2>1, <2>3, <2>4, <2>5, <2>6, <2>7 DEF HoldersAreKnown, DevicesTypeOK, OpsAreWell, Holding
  <2>15. ReadersAreAnswered'
    BY <2>1, <2>3, <2>4, <2>5, <2>6, <2>7 DEF ReadersAreAnswered, DevicesTypeOK, OpsAreWell, Reading, Holding, HoldersAreKnown, ChannelsAreOwn, ChannelsAreOpen
  <2>16. SelectHasChannel'
    BY <2>1, <2>3, <2>4, <2>5, <2>6, <2>7 DEF SelectHasChannel, DevicesTypeOK, OpsAreWell
  <2>17. SyncStuckOnlyByOverlap'
    BY <2>1, <2>3, <2>4, <2>5, <2>6, <2>7 DEF SyncStuckOnlyByOverlap, DevicesTypeOK, OpsAreWell, Holding, HoldersAreKnown
  <2>18. RemovalWasAnswered'
    BY <2>1, <2>3, <2>4, <2>5, <2>6, <2>7 DEF RemovalWasAnswered, DevicesTypeOK, OpsAreWell, Reading, Holding, HoldersAreKnown, ReadersAreAnswered, ChannelsAreOpen
  <2>19. OrderlyJobs'
    <3> SUFFICES ASSUME ~messy' PROVE OrderlyJobs'
      BY DEF OrderlyJobs
    <3>1. /\ ~messy /\ overlapped = {} /\ ~syncStuck
         /\ OneJob /\ ChannelHasJob /\ AnswersAreOne /\ InfoButOne
      BY <2>1, <2>3, <2>4, <2>5, <2>6, <2>7 DEF OrderlyJobs, DevicesTypeOK
    <3>2. overlapped' = {} /\ ~syncStuck'
      BY <3>1, <2>1, <2>3, <2>4, <2>5, <2>6, <2>7 DEF DevicesTypeOK, OpsAreWell, HoldersAreKnown, Holding, ChannelHasJob, OneJob, Busy
    <3>3. OneJob'
      BY <3>1, <2>1, <2>3, <2>4, <2>5, <2>6, <2>7 DEF OneJob, DevicesTypeOK, OpsAreWell, Busy
    <3>4. ChannelHasJob'
      BY <3>1, <2>1, <2>3, <2>4, <2>5, <2>6, <2>7 DEF ChannelHasJob, DevicesTypeOK, OpsAreWell, OneJob, Holding, Busy
    <3>5. AnswersAreOne'
      BY <3>1, <2>1, <2>3, <2>4, <2>5, <2>6, <2>7 DEF AnswersAreOne, DevicesTypeOK, OpsAreWell, OneJob, OneAnswer, Quiet, NoAnswers, Busy, ChannelsAreOpen
    <3>6. InfoButOne'
      BY <3>1, <2>1, <2>3, <2>4, <2>5, <2>6, <2>7 DEF InfoButOne, DevicesTypeOK, OpsAreWell, OneJob, Same, Busy
    <3> QED
      BY <3>2, <3>3, <3>4, <3>5, <3>6 DEF OrderlyJobs
  <2> QED
    BY <2>10, <2>11, <2>12, <2>13, <2>14, <2>15, <2>16, <2>17, <2>18, <2>19
<1>2. CASE devOp' = [devOp EXCEPT ![j].at = "unexpect", ![j].result = "failed"] /\ UNCHANGED removing
  <2>1. PICK m \in OpRecord : m = devOp[j]
    BY DEF DevicesTypeOK
  <2>2. PICK f : f = [m EXCEPT !.at = "unexpect", !.result = "failed"]
    OBVIOUS
  <2>3. /\ f \in OpRecord
        /\ f.at = "unexpect" /\ f.dev = m.dev /\ f.chan = m.chan /\ f.result = "failed" /\ f.answered = m.answered
    BY <1>2, <2>1, <2>2 DEF OpRecord, Where, NoOp, DetachAsk
  <2>4. devOp' = [devOp EXCEPT ![j] = f]
    BY <1>2, <2>1, <2>2 DEF DetachAsk, Step
  <2>5. \A i \in Job : devOp'[i] = IF i = j THEN f ELSE devOp[i]
    BY <2>4 DEF DevicesTypeOK
  <2>6. m.at = "detach"
    BY <1>2, <2>1 DEF DetachAsk, Step
  <2>7. UNCHANGED <<devLive, devInfo, qemuArgs, removing, expected, channel, syncStuck, lvEvents, evch, life, overlapped, messy>>
    BY <1>2, <2>1 DEF DetachAsk, Step
  <2>10. DevicesTypeOK'
    BY <2>1, <2>3, <2>4, <2>5, <2>6, <2>7 DEF DevicesTypeOK, OpsAreWell
  <2>11. OpsAreWell'
    BY <2>2, <2>1, <2>3, <2>4, <2>5, <2>6, <2>7 DEF OpsAreWell, DevicesTypeOK, NoOp
  <2>12. ChannelsAreOwn'
    BY <2>1, <2>3, <2>4, <2>5, <2>6, <2>7 DEF ChannelsAreOwn, DevicesTypeOK, OpsAreWell
  <2>13. ChannelsAreOpen'
    BY <2>1, <2>3, <2>4, <2>5, <2>6, <2>7 DEF ChannelsAreOpen, DevicesTypeOK, OpsAreWell, ChannelsAreOwn
  <2>14. HoldersAreKnown'
    BY <2>1, <2>3, <2>4, <2>5, <2>6, <2>7 DEF HoldersAreKnown, DevicesTypeOK, OpsAreWell, Holding
  <2>15. ReadersAreAnswered'
    BY <2>1, <2>3, <2>4, <2>5, <2>6, <2>7 DEF ReadersAreAnswered, DevicesTypeOK, OpsAreWell, Reading, Holding, HoldersAreKnown, ChannelsAreOwn, ChannelsAreOpen
  <2>16. SelectHasChannel'
    BY <2>1, <2>3, <2>4, <2>5, <2>6, <2>7 DEF SelectHasChannel, DevicesTypeOK, OpsAreWell
  <2>17. SyncStuckOnlyByOverlap'
    BY <2>1, <2>3, <2>4, <2>5, <2>6, <2>7 DEF SyncStuckOnlyByOverlap, DevicesTypeOK, OpsAreWell, Holding, HoldersAreKnown
  <2>18. RemovalWasAnswered'
    BY <2>1, <2>3, <2>4, <2>5, <2>6, <2>7 DEF RemovalWasAnswered, DevicesTypeOK, OpsAreWell, Reading, Holding, HoldersAreKnown, ReadersAreAnswered, ChannelsAreOpen
  <2>19. OrderlyJobs'
    <3> SUFFICES ASSUME ~messy' PROVE OrderlyJobs'
      BY DEF OrderlyJobs
    <3>1. /\ ~messy /\ overlapped = {} /\ ~syncStuck
         /\ OneJob /\ ChannelHasJob /\ AnswersAreOne /\ InfoButOne
      BY <2>1, <2>3, <2>4, <2>5, <2>6, <2>7 DEF OrderlyJobs, DevicesTypeOK
    <3>2. overlapped' = {} /\ ~syncStuck'
      BY <3>1, <2>1, <2>3, <2>4, <2>5, <2>6, <2>7 DEF DevicesTypeOK, OpsAreWell, HoldersAreKnown, Holding, ChannelHasJob, OneJob, Busy
    <3>3. OneJob'
      BY <3>1, <2>1, <2>3, <2>4, <2>5, <2>6, <2>7 DEF OneJob, DevicesTypeOK, OpsAreWell, Busy
    <3>4. ChannelHasJob'
      BY <3>1, <2>1, <2>3, <2>4, <2>5, <2>6, <2>7 DEF ChannelHasJob, DevicesTypeOK, OpsAreWell, OneJob, Holding, Busy
    <3>5. AnswersAreOne'
      BY <3>1, <2>1, <2>3, <2>4, <2>5, <2>6, <2>7 DEF AnswersAreOne, DevicesTypeOK, OpsAreWell, OneJob, OneAnswer, Quiet, NoAnswers, Busy, ChannelsAreOpen
    <3>6. InfoButOne'
      BY <3>1, <2>1, <2>3, <2>4, <2>5, <2>6, <2>7 DEF InfoButOne, DevicesTypeOK, OpsAreWell, OneJob, Same, Busy
    <3> QED
      BY <3>2, <3>3, <3>4, <3>5, <3>6 DEF OrderlyJobs
  <2> QED
    BY <2>10, <2>11, <2>12, <2>13, <2>14, <2>15, <2>16, <2>17, <2>18, <2>19
<1> QED
  BY <1>1, <1>2 DEF DetachAsk, Step

\* Wait finds the channel of its device, or returns with the lock.
LEMMA WaitLookupIInv ==
  ASSUME DevicesIInv, NEW j \in Job, WaitLookup(j)
  PROVE  DevicesIInv'
<1> USE DevicesAssumption DEF DevicesIInv
<1>1. CASE expected[devOp[j].dev] = 0
  <2>1. PICK m \in OpRecord : m = devOp[j]
    BY DEF DevicesTypeOK
  <2>2. PICK f : f = [m EXCEPT !.at = "unexpect", !.result = "failed"]
    OBVIOUS
  <2>3. /\ f \in OpRecord
        /\ f.at = "unexpect" /\ f.dev = m.dev /\ f.chan = m.chan /\ f.result = "failed" /\ f.answered = m.answered
    BY <1>1, <2>1, <2>2 DEF OpRecord, Where, NoOp, WaitLookup
  <2>4. devOp' = [devOp EXCEPT ![j] = f]
    BY <1>1, <2>1, <2>2 DEF WaitLookup
  <2>5. \A i \in Job : devOp'[i] = IF i = j THEN f ELSE devOp[i]
    BY <2>4 DEF DevicesTypeOK
  <2>6. m.at = "wait" /\ expected[m.dev] = 0 /\ syncStuck' = TRUE
    BY <1>1, <2>1 DEF WaitLookup
  <2>7. UNCHANGED <<devLive, devInfo, qemuArgs, removing, expected, channel, lvEvents, evch, life, overlapped, messy>>
    BY <1>1, <2>1 DEF WaitLookup
  <2>10. DevicesTypeOK'
    BY <2>1, <2>3, <2>4, <2>5, <2>6, <2>7 DEF DevicesTypeOK, OpsAreWell
  <2>11. OpsAreWell'
    BY <2>2, <2>1, <2>3, <2>4, <2>5, <2>6, <2>7 DEF OpsAreWell, DevicesTypeOK, NoOp
  <2>12. ChannelsAreOwn'
    BY <2>1, <2>3, <2>4, <2>5, <2>6, <2>7 DEF ChannelsAreOwn, DevicesTypeOK, OpsAreWell
  <2>13. ChannelsAreOpen'
    BY <2>1, <2>3, <2>4, <2>5, <2>6, <2>7 DEF ChannelsAreOpen, DevicesTypeOK, OpsAreWell, ChannelsAreOwn
  <2>14. HoldersAreKnown'
    BY <2>1, <2>3, <2>4, <2>5, <2>6, <2>7 DEF HoldersAreKnown, DevicesTypeOK, OpsAreWell, Holding
  <2>15. ReadersAreAnswered'
    BY <2>1, <2>3, <2>4, <2>5, <2>6, <2>7 DEF ReadersAreAnswered, DevicesTypeOK, OpsAreWell, Reading, Holding, HoldersAreKnown, ChannelsAreOwn, ChannelsAreOpen
  <2>16. SelectHasChannel'
    BY <2>1, <2>3, <2>4, <2>5, <2>6, <2>7 DEF SelectHasChannel, DevicesTypeOK, OpsAreWell
  <2>17. SyncStuckOnlyByOverlap'
    BY <2>1, <2>3, <2>4, <2>5, <2>6, <2>7 DEF SyncStuckOnlyByOverlap, DevicesTypeOK, OpsAreWell, Holding, HoldersAreKnown
  <2>18. RemovalWasAnswered'
    BY <2>1, <2>3, <2>4, <2>5, <2>6, <2>7 DEF RemovalWasAnswered, DevicesTypeOK, OpsAreWell, Reading, Holding, HoldersAreKnown, ReadersAreAnswered, ChannelsAreOpen
  <2>19. OrderlyJobs'
    <3> SUFFICES ASSUME ~messy' PROVE OrderlyJobs'
      BY DEF OrderlyJobs
    <3>1. /\ ~messy /\ overlapped = {} /\ ~syncStuck
         /\ OneJob /\ ChannelHasJob /\ AnswersAreOne /\ InfoButOne
      BY <2>1, <2>3, <2>4, <2>5, <2>6, <2>7 DEF OrderlyJobs, DevicesTypeOK
    <3>2. overlapped' = {} /\ ~syncStuck'
      BY <3>1, <2>1, <2>3, <2>4, <2>5, <2>6, <2>7 DEF DevicesTypeOK, OpsAreWell, HoldersAreKnown, Holding, ChannelHasJob, OneJob, Busy
    <3>3. OneJob'
      BY <3>1, <2>1, <2>3, <2>4, <2>5, <2>6, <2>7 DEF OneJob, DevicesTypeOK, OpsAreWell, Busy
    <3>4. ChannelHasJob'
      BY <3>1, <2>1, <2>3, <2>4, <2>5, <2>6, <2>7 DEF ChannelHasJob, DevicesTypeOK, OpsAreWell, OneJob, Holding, Busy
    <3>5. AnswersAreOne'
      BY <3>2, <2>6
    <3>6. InfoButOne'
      BY <3>2, <2>6
    <3> QED
      BY <3>2, <3>3, <3>4, <3>5, <3>6 DEF OrderlyJobs
  <2> QED
    BY <2>10, <2>11, <2>12, <2>13, <2>14, <2>15, <2>16, <2>17, <2>18, <2>19
<1>2. CASE expected[devOp[j].dev] # 0
  <2>1. PICK m \in OpRecord : m = devOp[j]
    BY DEF DevicesTypeOK
  <2>2. PICK f : f = [m EXCEPT !.at = "select", !.chan = expected[m.dev]]
    OBVIOUS
  <2>8. m.at = "wait"
    BY <2>1 DEF WaitLookup
  <2>9. m.dev \in Device
    BY <2>1, <2>8 DEF OpsAreWell
  <2>0. expected[m.dev] \in Nat
    BY <2>9 DEF DevicesTypeOK
  <2>3. /\ f \in OpRecord
        /\ f.at = "select" /\ f.dev = m.dev /\ f.chan = expected[m.dev] /\ f.result = m.result /\ f.answered = m.answered
    BY <1>2, <2>0, <2>1, <2>2 DEF OpRecord, Where, NoOp, WaitLookup
  <2>4. devOp' = [devOp EXCEPT ![j] = f]
    BY <1>2, <2>0, <2>1, <2>2 DEF WaitLookup
  <2>5. \A i \in Job : devOp'[i] = IF i = j THEN f ELSE devOp[i]
    BY <2>4 DEF DevicesTypeOK
  <2>6. m.at = "wait" /\ expected[m.dev] # 0
    BY <1>2, <2>0, <2>1 DEF WaitLookup
  <2>7. UNCHANGED <<devLive, devInfo, qemuArgs, removing, expected, channel, syncStuck, lvEvents, evch, life, overlapped, messy>>
    BY <1>2, <2>0, <2>1 DEF WaitLookup
  <2>10. DevicesTypeOK'
    BY <2>1, <2>3, <2>4, <2>5, <2>6, <2>7 DEF DevicesTypeOK, OpsAreWell
  <2>11. OpsAreWell'
    BY <2>2, <2>1, <2>3, <2>4, <2>5, <2>6, <2>7 DEF OpsAreWell, DevicesTypeOK, NoOp
  <2>12. ChannelsAreOwn'
    BY <2>1, <2>3, <2>4, <2>5, <2>6, <2>7 DEF ChannelsAreOwn, DevicesTypeOK, OpsAreWell
  <2>13. ChannelsAreOpen'
    BY <2>1, <2>3, <2>4, <2>5, <2>6, <2>7 DEF ChannelsAreOpen, DevicesTypeOK, OpsAreWell, ChannelsAreOwn
  <2>14. HoldersAreKnown'
    BY <2>1, <2>3, <2>4, <2>5, <2>6, <2>7 DEF HoldersAreKnown, DevicesTypeOK, OpsAreWell, Holding
  <2>15. ReadersAreAnswered'
    BY <2>1, <2>3, <2>4, <2>5, <2>6, <2>7 DEF ReadersAreAnswered, DevicesTypeOK, OpsAreWell, Reading, Holding, HoldersAreKnown, ChannelsAreOwn, ChannelsAreOpen
  <2>16. SelectHasChannel'
    BY <2>1, <2>3, <2>4, <2>5, <2>6, <2>7 DEF SelectHasChannel, DevicesTypeOK, OpsAreWell
  <2>17. SyncStuckOnlyByOverlap'
    BY <2>1, <2>3, <2>4, <2>5, <2>6, <2>7 DEF SyncStuckOnlyByOverlap, DevicesTypeOK, OpsAreWell, Holding, HoldersAreKnown
  <2>18. RemovalWasAnswered'
    BY <2>1, <2>3, <2>4, <2>5, <2>6, <2>7 DEF RemovalWasAnswered, DevicesTypeOK, OpsAreWell, Reading, Holding, HoldersAreKnown, ReadersAreAnswered, ChannelsAreOpen
  <2>19. OrderlyJobs'
    <3> SUFFICES ASSUME ~messy' PROVE OrderlyJobs'
      BY DEF OrderlyJobs
    <3>1. /\ ~messy /\ overlapped = {} /\ ~syncStuck
         /\ OneJob /\ ChannelHasJob /\ AnswersAreOne /\ InfoButOne
      BY <2>1, <2>3, <2>4, <2>5, <2>6, <2>7 DEF OrderlyJobs, DevicesTypeOK
    <3>2. overlapped' = {} /\ ~syncStuck'
      BY <3>1, <2>1, <2>3, <2>4, <2>5, <2>6, <2>7 DEF DevicesTypeOK, OpsAreWell, HoldersAreKnown, Holding, ChannelHasJob, OneJob, Busy
    <3>3. OneJob'
      BY <3>1, <2>1, <2>3, <2>4, <2>5, <2>6, <2>7 DEF OneJob, DevicesTypeOK, OpsAreWell, Busy
    <3>4. ChannelHasJob'
      BY <3>1, <2>1, <2>3, <2>4, <2>5, <2>6, <2>7 DEF ChannelHasJob, DevicesTypeOK, OpsAreWell, OneJob, Holding, Busy
    <3>5. AnswersAreOne'
      BY <3>1, <2>1, <2>3, <2>4, <2>5, <2>6, <2>7 DEF AnswersAreOne, DevicesTypeOK, OpsAreWell, OneJob, OneAnswer, Quiet, NoAnswers, Busy, ChannelsAreOpen
    <3>6. InfoButOne'
      BY <3>1, <2>1, <2>3, <2>4, <2>5, <2>6, <2>7 DEF InfoButOne, DevicesTypeOK, OpsAreWell, OneJob, Same, Busy
    <3> QED
      BY <3>2, <3>3, <3>4, <3>5, <3>6 DEF OrderlyJobs
  <2> QED
    BY <2>10, <2>11, <2>12, <2>13, <2>14, <2>15, <2>16, <2>17, <2>18, <2>19
<1> QED
  BY <1>1, <1>2 DEF WaitLookup

\* The select ends with an answer or with the time.
LEMMA WaitSelectIInv ==
  ASSUME DevicesIInv, NEW j \in Job, WaitSelect(j)
  PROVE  DevicesIInv'
<1> USE DevicesAssumption DEF DevicesIInv
<1>1. CASE channel[devOp[j].chan] # "empty" /\ channel' = [channel EXCEPT ![devOp[j].chan] = IF @ = "full" THEN "empty" ELSE @]
                  /\ devOp' = [devOp EXCEPT ![j].at = "unexpect", ![j].result = "ok"] /\ UNCHANGED messy
  <2>1. PICK m \in OpRecord : m = devOp[j]
    BY DEF DevicesTypeOK
  <2>2. PICK f : f = [m EXCEPT !.at = "unexpect", !.result = "ok"]
    OBVIOUS
  <2>3. /\ f \in OpRecord
        /\ f.at = "unexpect" /\ f.dev = m.dev /\ f.chan = m.chan /\ f.result = "ok" /\ f.answered = m.answered
    BY <1>1, <2>1, <2>2 DEF OpRecord, Where, NoOp, WaitSelect
  <2>4. devOp' = [devOp EXCEPT ![j] = f]
    BY <1>1, <2>1, <2>2 DEF WaitSelect, TimedOut
  <2>5. \A i \in Job : devOp'[i] = IF i = j THEN f ELSE devOp[i]
    BY <2>4 DEF DevicesTypeOK
  <2>6. /\ m.at = "select" /\ channel[m.chan] # "empty"
        /\ channel' = [channel EXCEPT ![m.chan] = IF channel[m.chan] = "full" THEN "empty" ELSE channel[m.chan]]
    BY <1>1, <2>1 DEF WaitSelect, TimedOut
  <2>7. UNCHANGED <<devLive, devInfo, qemuArgs, removing, expected, syncStuck, lvEvents, evch, life, overlapped, messy>>
    BY <1>1, <2>1 DEF WaitSelect, TimedOut
  <2>10. DevicesTypeOK'
    <3>1. m.chan \in DOMAIN channel
      BY <2>1, <2>6 DEF SelectHasChannel
    <3>2. channel' \in [DOMAIN channel -> {"empty", "full", "closed"}]
      BY <2>6, <3>1 DEF DevicesTypeOK
    <3>3. channel' \in Seq({"empty", "full", "closed"}) /\ Len(channel') = Len(channel)
      BY <3>2, MappedSeq DEF DevicesTypeOK
    <3> QED
      BY <3>3, <2>1, <2>3, <2>4, <2>5, <2>6, <2>7 DEF DevicesTypeOK, OpsAreWell
  <2>11. OpsAreWell'
    BY <2>2, <2>1, <2>3, <2>4, <2>5, <2>6, <2>7 DEF OpsAreWell, DevicesTypeOK, NoOp
  <2>12. ChannelsAreOwn'
    BY <2>1, <2>3, <2>4, <2>5, <2>6, <2>7 DEF ChannelsAreOwn, DevicesTypeOK, OpsAreWell
  <2>13. ChannelsAreOpen'
    BY <2>1, <2>3, <2>4, <2>5, <2>6, <2>7 DEF ChannelsAreOpen, DevicesTypeOK, OpsAreWell, ChannelsAreOwn
  <2>14. HoldersAreKnown'
    BY <2>1, <2>3, <2>4, <2>5, <2>6, <2>7 DEF HoldersAreKnown, DevicesTypeOK, OpsAreWell, Holding
  <2>15. ReadersAreAnswered'
    BY <2>1, <2>3, <2>4, <2>5, <2>6, <2>7 DEF ReadersAreAnswered, DevicesTypeOK, OpsAreWell, Reading, Holding, HoldersAreKnown, ChannelsAreOwn, ChannelsAreOpen
  <2>16. SelectHasChannel'
    BY <2>1, <2>3, <2>4, <2>5, <2>6, <2>7 DEF SelectHasChannel, DevicesTypeOK, OpsAreWell
  <2>17. SyncStuckOnlyByOverlap'
    BY <2>1, <2>3, <2>4, <2>5, <2>6, <2>7 DEF SyncStuckOnlyByOverlap, DevicesTypeOK, OpsAreWell, Holding, HoldersAreKnown
  <2>18. RemovalWasAnswered'
    BY <2>1, <2>3, <2>4, <2>5, <2>6, <2>7 DEF RemovalWasAnswered, DevicesTypeOK, OpsAreWell, Reading, Holding, HoldersAreKnown, ReadersAreAnswered, ChannelsAreOpen
  <2>19. OrderlyJobs'
    <3> SUFFICES ASSUME ~messy' PROVE OrderlyJobs'
      BY DEF OrderlyJobs
    <3>1. /\ ~messy /\ overlapped = {} /\ ~syncStuck
         /\ OneJob /\ ChannelHasJob /\ AnswersAreOne /\ InfoButOne
      BY <2>1, <2>3, <2>4, <2>5, <2>6, <2>7 DEF OrderlyJobs, DevicesTypeOK
    <3>2. overlapped' = {} /\ ~syncStuck'
      BY <3>1, <2>1, <2>3, <2>4, <2>5, <2>6, <2>7 DEF DevicesTypeOK, OpsAreWell, HoldersAreKnown, Holding, ChannelHasJob, OneJob, Busy
    <3>3. OneJob'
      BY <3>1, <2>1, <2>3, <2>4, <2>5, <2>6, <2>7 DEF OneJob, DevicesTypeOK, OpsAreWell, Busy
    <3>4. ChannelHasJob'
      BY <3>1, <2>1, <2>3, <2>4, <2>5, <2>6, <2>7 DEF ChannelHasJob, DevicesTypeOK, OpsAreWell, OneJob, Holding, Busy
    <3>5. AnswersAreOne'
      <4>1. m.chan = expected[m.dev] /\ expected[m.dev] # 0 /\ m.dev \in Device
        BY <3>1, <2>1, <2>6 DEF ReadersAreAnswered, HoldersAreKnown, Holding, Reading, OpsAreWell
      <4>2. channel[m.chan] = "full"
        BY <4>1, <2>6 DEF ChannelsAreOpen, DevicesTypeOK
      <4>3. Quiet
        BY <3>1, <4>1, <4>2, <2>1, <2>6 DEF AnswersAreOne, OneAnswer
      <4> QED
        BY <3>1, <4>3, <2>1, <2>3, <2>4, <2>5, <2>6, <2>7 DEF AnswersAreOne, OneAnswer, Quiet, NoAnswers, OneJob, Busy, DevicesTypeOK
    <3>6. InfoButOne'
      BY <3>1, <2>1, <2>3, <2>4, <2>5, <2>6, <2>7 DEF InfoButOne, DevicesTypeOK, OpsAreWell, OneJob, Same, Busy
    <3> QED
      BY <3>2, <3>3, <3>4, <3>5, <3>6 DEF OrderlyJobs
  <2> QED
    BY <2>10, <2>11, <2>12, <2>13, <2>14, <2>15, <2>16, <2>17, <2>18, <2>19
<1>2. CASE devOp' = [devOp EXCEPT ![j].at = "unexpect", ![j].result = TimedOut] /\ messy' = TRUE /\ UNCHANGED channel
  <2>1. PICK m \in OpRecord : m = devOp[j]
    BY DEF DevicesTypeOK
  <2>2. PICK f : f = [m EXCEPT !.at = "unexpect", !.result = "timeout"]
    OBVIOUS
  <2>3. /\ f \in OpRecord
        /\ f.at = "unexpect" /\ f.dev = m.dev /\ f.chan = m.chan /\ f.result = "timeout" /\ f.answered = m.answered
    BY <1>2, <2>1, <2>2 DEF OpRecord, Where, NoOp, WaitSelect
  <2>4. devOp' = [devOp EXCEPT ![j] = f]
    BY <1>2, <2>1, <2>2 DEF WaitSelect, TimedOut
  <2>5. \A i \in Job : devOp'[i] = IF i = j THEN f ELSE devOp[i]
    BY <2>4 DEF DevicesTypeOK
  <2>6. m.at = "select" /\ messy' = TRUE
    BY <1>2, <2>1 DEF WaitSelect, TimedOut
  <2>7. UNCHANGED <<devLive, devInfo, qemuArgs, removing, expected, channel, syncStuck, lvEvents, evch, life, overlapped>>
    BY <1>2, <2>1 DEF WaitSelect, TimedOut
  <2>10. DevicesTypeOK'
    BY <2>1, <2>3, <2>4, <2>5, <2>6, <2>7 DEF DevicesTypeOK, OpsAreWell
  <2>11. OpsAreWell'
    BY <2>2, <2>1, <2>3, <2>4, <2>5, <2>6, <2>7 DEF OpsAreWell, DevicesTypeOK, NoOp
  <2>12. ChannelsAreOwn'
    BY <2>1, <2>3, <2>4, <2>5, <2>6, <2>7 DEF ChannelsAreOwn, DevicesTypeOK, OpsAreWell
  <2>13. ChannelsAreOpen'
    BY <2>1, <2>3, <2>4, <2>5, <2>6, <2>7 DEF ChannelsAreOpen, DevicesTypeOK, OpsAreWell, ChannelsAreOwn
  <2>14. HoldersAreKnown'
    BY <2>1, <2>3, <2>4, <2>5, <2>6, <2>7 DEF HoldersAreKnown, DevicesTypeOK, OpsAreWell, Holding
  <2>15. ReadersAreAnswered'
    BY <2>1, <2>3, <2>4, <2>5, <2>6, <2>7 DEF ReadersAreAnswered, DevicesTypeOK, OpsAreWell, Reading, Holding, HoldersAreKnown, ChannelsAreOwn, ChannelsAreOpen
  <2>16. SelectHasChannel'
    BY <2>1, <2>3, <2>4, <2>5, <2>6, <2>7 DEF SelectHasChannel, DevicesTypeOK, OpsAreWell
  <2>17. SyncStuckOnlyByOverlap'
    BY <2>1, <2>3, <2>4, <2>5, <2>6, <2>7 DEF SyncStuckOnlyByOverlap, DevicesTypeOK, OpsAreWell, Holding, HoldersAreKnown
  <2>18. RemovalWasAnswered'
    BY <2>1, <2>3, <2>4, <2>5, <2>6, <2>7 DEF RemovalWasAnswered, DevicesTypeOK, OpsAreWell, Reading, Holding, HoldersAreKnown, ReadersAreAnswered, ChannelsAreOpen
  <2>19. OrderlyJobs'
    <3> SUFFICES ASSUME ~messy' PROVE OrderlyJobs'
      BY DEF OrderlyJobs
    <3>1. /\ ~messy /\ overlapped = {} /\ ~syncStuck
         /\ OneJob /\ ChannelHasJob /\ AnswersAreOne /\ InfoButOne
      BY <2>1, <2>3, <2>4, <2>5, <2>6, <2>7 DEF OrderlyJobs, DevicesTypeOK
    <3>2. overlapped' = {} /\ ~syncStuck'
      BY <3>1, <2>1, <2>3, <2>4, <2>5, <2>6, <2>7 DEF DevicesTypeOK, OpsAreWell, HoldersAreKnown, Holding, ChannelHasJob, OneJob, Busy
    <3>3. OneJob'
      BY <3>1, <2>1, <2>3, <2>4, <2>5, <2>6, <2>7 DEF OneJob, DevicesTypeOK, OpsAreWell, Busy
    <3>4. ChannelHasJob'
      BY <3>1, <2>1, <2>3, <2>4, <2>5, <2>6, <2>7 DEF ChannelHasJob, DevicesTypeOK, OpsAreWell, OneJob, Holding, Busy
    <3>5. AnswersAreOne'
      BY <3>1, <2>1, <2>3, <2>4, <2>5, <2>6, <2>7 DEF AnswersAreOne, DevicesTypeOK, OpsAreWell, OneJob, OneAnswer, Quiet, NoAnswers, Busy, ChannelsAreOpen
    <3>6. InfoButOne'
      BY <3>1, <2>1, <2>3, <2>4, <2>5, <2>6, <2>7 DEF InfoButOne, DevicesTypeOK, OpsAreWell, OneJob, Same, Busy
    <3> QED
      BY <3>2, <3>3, <3>4, <3>5, <3>6 DEF OrderlyJobs
  <2> QED
    BY <2>10, <2>11, <2>12, <2>13, <2>14, <2>15, <2>16, <2>17, <2>18, <2>19
<1> QED
  BY <1>1, <1>2 DEF WaitSelect, TimedOut

\* Unexpect closes the channel of the device, if it has one.
LEMMA DetachUnexpectIInv ==
  ASSUME DevicesIInv, NEW j \in Job, DetachUnexpect(j)
  PROVE  DevicesIInv'
<1> USE DevicesAssumption DEF DevicesIInv
<1>1. CASE devOp[j].result = "ok"
  <2>1. PICK m \in OpRecord : m = devOp[j]
    BY DEF DevicesTypeOK
  <2>2. PICK f : f = [m EXCEPT !.at = "removed"]
    OBVIOUS
  <2>3. /\ f \in OpRecord
        /\ f.at = "removed" /\ f.dev = m.dev /\ f.chan = m.chan /\ f.result = m.result /\ f.answered = m.answered
    BY <1>1, <2>1, <2>2 DEF OpRecord, Where, NoOp, DetachUnexpect
  <2>4. devOp' = [devOp EXCEPT ![j] = f]
    BY <1>1, <2>1, <2>2 DEF DetachUnexpect
  <2>5. \A i \in Job : devOp'[i] = IF i = j THEN f ELSE devOp[i]
    BY <2>4 DEF DevicesTypeOK
  <2>6. /\ m.at = "unexpect" /\ expected' = [expected EXCEPT ![m.dev] = 0]
        /\ channel' = [i \in DOMAIN channel |-> IF i = expected[m.dev] THEN "closed" ELSE channel[i]] /\ m.result = "ok"
    BY <1>1, <2>1 DEF DetachUnexpect
  <2>7. UNCHANGED <<devLive, devInfo, qemuArgs, removing, syncStuck, lvEvents, evch, life, overlapped, messy>>
    BY <1>1, <2>1 DEF DetachUnexpect
  <2>10. DevicesTypeOK'
    <3>1. channel' \in [DOMAIN channel -> {"empty", "full", "closed"}]
      BY <2>6 DEF DevicesTypeOK
    <3>2. channel' \in Seq({"empty", "full", "closed"}) /\ Len(channel') = Len(channel)
      BY <3>1, MappedSeq DEF DevicesTypeOK
    <3> QED
      BY <3>2, <2>1, <2>3, <2>4, <2>5, <2>6, <2>7 DEF DevicesTypeOK, OpsAreWell
  <2>11. OpsAreWell'
    BY <2>2, <2>1, <2>3, <2>4, <2>5, <2>6, <2>7 DEF OpsAreWell, DevicesTypeOK, NoOp
  <2>12. ChannelsAreOwn'
    BY <2>1, <2>3, <2>4, <2>5, <2>6, <2>7 DEF ChannelsAreOwn, DevicesTypeOK, OpsAreWell
  <2>13. ChannelsAreOpen'
    BY <2>1, <2>3, <2>4, <2>5, <2>6, <2>7 DEF ChannelsAreOpen, DevicesTypeOK, OpsAreWell, ChannelsAreOwn
  <2>14. HoldersAreKnown'
    BY <2>1, <2>3, <2>4, <2>5, <2>6, <2>7 DEF HoldersAreKnown, DevicesTypeOK, OpsAreWell, Holding
  <2>15. ReadersAreAnswered'
    BY <2>1, <2>3, <2>4, <2>5, <2>6, <2>7 DEF ReadersAreAnswered, DevicesTypeOK, OpsAreWell, Reading, Holding, HoldersAreKnown, ChannelsAreOwn, ChannelsAreOpen
  <2>16. SelectHasChannel'
    BY <2>1, <2>3, <2>4, <2>5, <2>6, <2>7 DEF SelectHasChannel, DevicesTypeOK, OpsAreWell
  <2>17. SyncStuckOnlyByOverlap'
    BY <2>1, <2>3, <2>4, <2>5, <2>6, <2>7 DEF SyncStuckOnlyByOverlap, DevicesTypeOK, OpsAreWell, Holding, HoldersAreKnown
  <2>18. RemovalWasAnswered'
    BY <2>1, <2>3, <2>4, <2>5, <2>6, <2>7 DEF RemovalWasAnswered, DevicesTypeOK, OpsAreWell, Reading, Holding, HoldersAreKnown, ReadersAreAnswered, ChannelsAreOpen
  <2>19. OrderlyJobs'
    <3> SUFFICES ASSUME ~messy' PROVE OrderlyJobs'
      BY DEF OrderlyJobs
    <3>1. /\ ~messy /\ overlapped = {} /\ ~syncStuck
         /\ OneJob /\ ChannelHasJob /\ AnswersAreOne /\ InfoButOne
      BY <2>1, <2>3, <2>4, <2>5, <2>6, <2>7 DEF OrderlyJobs, DevicesTypeOK
    <3>2. overlapped' = {} /\ ~syncStuck'
      BY <3>1, <2>1, <2>3, <2>4, <2>5, <2>6, <2>7 DEF DevicesTypeOK, OpsAreWell, HoldersAreKnown, Holding, ChannelHasJob, OneJob, Busy
    <3>3. OneJob'
      BY <3>1, <2>1, <2>3, <2>4, <2>5, <2>6, <2>7 DEF OneJob, DevicesTypeOK, OpsAreWell, Busy
    <3>4. ChannelHasJob'
      BY <3>1, <2>1, <2>3, <2>4, <2>5, <2>6, <2>7 DEF ChannelHasJob, DevicesTypeOK, OpsAreWell, OneJob, Holding, Busy
    <3>5. AnswersAreOne'
      BY <3>1, <2>1, <2>3, <2>4, <2>5, <2>6, <2>7 DEF AnswersAreOne, DevicesTypeOK, OpsAreWell, OneJob, OneAnswer, Quiet, NoAnswers, Busy, ChannelsAreOpen
    <3>6. InfoButOne'
      BY <3>1, <2>1, <2>3, <2>4, <2>5, <2>6, <2>7 DEF InfoButOne, DevicesTypeOK, OpsAreWell, OneJob, Same, Busy
    <3> QED
      BY <3>2, <3>3, <3>4, <3>5, <3>6 DEF OrderlyJobs
  <2> QED
    BY <2>10, <2>11, <2>12, <2>13, <2>14, <2>15, <2>16, <2>17, <2>18, <2>19
<1>2. CASE devOp[j].result # "ok"
  <2>1. PICK m \in OpRecord : m = devOp[j]
    BY DEF DevicesTypeOK
  <2>2. PICK f : f = NoOp
    OBVIOUS
  <2>3. /\ f \in OpRecord
        /\ f.at = "idle" /\ f.dev = NoDevice /\ f.chan = 0 /\ f.result = "none" /\ f.answered = FALSE
    BY <1>2, <2>1, <2>2 DEF OpRecord, Where, NoOp, DetachUnexpect
  <2>4. devOp' = [devOp EXCEPT ![j] = f]
    BY <1>2, <2>1, <2>2 DEF DetachUnexpect
  <2>5. \A i \in Job : devOp'[i] = IF i = j THEN f ELSE devOp[i]
    BY <2>4 DEF DevicesTypeOK
  <2>6. /\ m.at = "unexpect" /\ expected' = [expected EXCEPT ![m.dev] = 0]
        /\ channel' = [i \in DOMAIN channel |-> IF i = expected[m.dev] THEN "closed" ELSE channel[i]] /\ m.result # "ok"
    BY <1>2, <2>1 DEF DetachUnexpect
  <2>7. UNCHANGED <<devLive, devInfo, qemuArgs, removing, syncStuck, lvEvents, evch, life, overlapped, messy>>
    BY <1>2, <2>1 DEF DetachUnexpect
  <2>10. DevicesTypeOK'
    <3>1. channel' \in [DOMAIN channel -> {"empty", "full", "closed"}]
      BY <2>6 DEF DevicesTypeOK
    <3>2. channel' \in Seq({"empty", "full", "closed"}) /\ Len(channel') = Len(channel)
      BY <3>1, MappedSeq DEF DevicesTypeOK
    <3> QED
      BY <3>2, <2>1, <2>3, <2>4, <2>5, <2>6, <2>7 DEF DevicesTypeOK, OpsAreWell
  <2>11. OpsAreWell'
    BY <2>2, <2>1, <2>3, <2>4, <2>5, <2>6, <2>7 DEF OpsAreWell, DevicesTypeOK, NoOp
  <2>12. ChannelsAreOwn'
    BY <2>1, <2>3, <2>4, <2>5, <2>6, <2>7 DEF ChannelsAreOwn, DevicesTypeOK, OpsAreWell
  <2>13. ChannelsAreOpen'
    BY <2>1, <2>3, <2>4, <2>5, <2>6, <2>7 DEF ChannelsAreOpen, DevicesTypeOK, OpsAreWell, ChannelsAreOwn
  <2>14. HoldersAreKnown'
    BY <2>1, <2>3, <2>4, <2>5, <2>6, <2>7 DEF HoldersAreKnown, DevicesTypeOK, OpsAreWell, Holding
  <2>15. ReadersAreAnswered'
    BY <2>1, <2>3, <2>4, <2>5, <2>6, <2>7 DEF ReadersAreAnswered, DevicesTypeOK, OpsAreWell, Reading, Holding, HoldersAreKnown, ChannelsAreOwn, ChannelsAreOpen
  <2>16. SelectHasChannel'
    BY <2>1, <2>3, <2>4, <2>5, <2>6, <2>7 DEF SelectHasChannel, DevicesTypeOK, OpsAreWell
  <2>17. SyncStuckOnlyByOverlap'
    BY <2>1, <2>3, <2>4, <2>5, <2>6, <2>7 DEF SyncStuckOnlyByOverlap, DevicesTypeOK, OpsAreWell, Holding, HoldersAreKnown
  <2>18. RemovalWasAnswered'
    BY <2>1, <2>3, <2>4, <2>5, <2>6, <2>7 DEF RemovalWasAnswered, DevicesTypeOK, OpsAreWell, Reading, Holding, HoldersAreKnown, ReadersAreAnswered, ChannelsAreOpen
  <2>19. OrderlyJobs'
    <3> SUFFICES ASSUME ~messy' PROVE OrderlyJobs'
      BY DEF OrderlyJobs
    <3>1. /\ ~messy /\ overlapped = {} /\ ~syncStuck
         /\ OneJob /\ ChannelHasJob /\ AnswersAreOne /\ InfoButOne
      BY <2>1, <2>3, <2>4, <2>5, <2>6, <2>7 DEF OrderlyJobs, DevicesTypeOK
    <3>2. overlapped' = {} /\ ~syncStuck'
      BY <3>1, <2>1, <2>3, <2>4, <2>5, <2>6, <2>7 DEF DevicesTypeOK, OpsAreWell, HoldersAreKnown, Holding, ChannelHasJob, OneJob, Busy
    <3>3. OneJob'
      BY <3>1, <2>1, <2>3, <2>4, <2>5, <2>6, <2>7 DEF OneJob, DevicesTypeOK, OpsAreWell, Busy
    <3>4. ChannelHasJob'
      BY <3>1, <2>1, <2>3, <2>4, <2>5, <2>6, <2>7 DEF ChannelHasJob, DevicesTypeOK, OpsAreWell, OneJob, Holding, Busy
    <3>5. AnswersAreOne'
      BY <3>1, <2>1, <2>3, <2>4, <2>5, <2>6, <2>7 DEF AnswersAreOne, DevicesTypeOK, OpsAreWell, OneJob, OneAnswer, Quiet, NoAnswers, Busy, ChannelsAreOpen
    <3>6. InfoButOne'
      BY <3>1, <2>1, <2>3, <2>4, <2>5, <2>6, <2>7 DEF InfoButOne, DevicesTypeOK, OpsAreWell, OneJob, Same, Busy
    <3> QED
      BY <3>2, <3>3, <3>4, <3>5, <3>6 DEF OrderlyJobs
  <2> QED
    BY <2>10, <2>11, <2>12, <2>13, <2>14, <2>15, <2>16, <2>17, <2>18, <2>19
<1> QED
  BY <1>1, <1>2 DEF DetachUnexpect

\* A detach ends, and what is known of the domain is brought up to date.
LEMMA DetachInfoIInv ==
  ASSUME DevicesIInv, NEW j \in Job, DetachInfo(j)
  PROVE  DevicesIInv'
<1> USE DevicesAssumption DEF DevicesIInv
<1>1. PICK m \in OpRecord : m = devOp[j]
  BY DEF DevicesTypeOK
<1>2. PICK f : f = NoOp
  OBVIOUS
<1>3. /\ f \in OpRecord
      /\ f.at = "idle" /\ f.dev = NoDevice /\ f.chan = 0 /\ f.result = "none" /\ f.answered = FALSE
  BY <1>1, <1>2 DEF OpRecord, Where, NoOp, DetachInfo
<1>4. devOp' = [devOp EXCEPT ![j] = f]
  BY <1>1, <1>2 DEF DetachInfo
<1>5. \A i \in Job : devOp'[i] = IF i = j THEN f ELSE devOp[i]
  BY <1>4 DEF DevicesTypeOK
<1>6. /\ m.at = "removed"
      /\ devInfo' = IF m.dev \in Disk THEN InfoAfterDisk ELSE InfoAfterNic
  BY <1>1 DEF DetachInfo
<1>7. UNCHANGED <<devLive, qemuArgs, removing, expected, channel, syncStuck, lvEvents, evch, life, overlapped, messy>>
  BY <1>1 DEF DetachInfo
<1>10. DevicesTypeOK'
  BY <1>1, <1>3, <1>4, <1>5, <1>6, <1>7 DEF DevicesTypeOK, OpsAreWell, InfoAfterDisk, InfoAfterNic, Device
<1>11. OpsAreWell'
  BY <1>2, <1>1, <1>3, <1>4, <1>5, <1>6, <1>7 DEF OpsAreWell, DevicesTypeOK, NoOp
<1>12. ChannelsAreOwn'
  BY <1>1, <1>3, <1>4, <1>5, <1>6, <1>7 DEF ChannelsAreOwn, DevicesTypeOK, OpsAreWell
<1>13. ChannelsAreOpen'
  BY <1>1, <1>3, <1>4, <1>5, <1>6, <1>7 DEF ChannelsAreOpen, DevicesTypeOK, OpsAreWell, ChannelsAreOwn
<1>14. HoldersAreKnown'
  BY <1>1, <1>3, <1>4, <1>5, <1>6, <1>7 DEF HoldersAreKnown, DevicesTypeOK, OpsAreWell, Holding
<1>15. ReadersAreAnswered'
  BY <1>1, <1>3, <1>4, <1>5, <1>6, <1>7 DEF ReadersAreAnswered, DevicesTypeOK, OpsAreWell, Reading, Holding, HoldersAreKnown, ChannelsAreOwn, ChannelsAreOpen
<1>16. SelectHasChannel'
  BY <1>1, <1>3, <1>4, <1>5, <1>6, <1>7 DEF SelectHasChannel, DevicesTypeOK, OpsAreWell
<1>17. SyncStuckOnlyByOverlap'
  BY <1>1, <1>3, <1>4, <1>5, <1>6, <1>7 DEF SyncStuckOnlyByOverlap, DevicesTypeOK, OpsAreWell, Holding, HoldersAreKnown
<1>18. RemovalWasAnswered'
  BY <1>1, <1>3, <1>4, <1>5, <1>6, <1>7 DEF RemovalWasAnswered, DevicesTypeOK, OpsAreWell, Reading, Holding, HoldersAreKnown, ReadersAreAnswered, ChannelsAreOpen
<1>19. OrderlyJobs'
  <2> SUFFICES ASSUME ~messy' PROVE OrderlyJobs'
    BY DEF OrderlyJobs
  <2>1. /\ ~messy /\ overlapped = {} /\ ~syncStuck
       /\ OneJob /\ ChannelHasJob /\ AnswersAreOne /\ InfoButOne
    BY <1>1, <1>3, <1>4, <1>5, <1>6, <1>7 DEF OrderlyJobs, DevicesTypeOK
  <2>2. overlapped' = {} /\ ~syncStuck'
    BY <2>1, <1>1, <1>3, <1>4, <1>5, <1>6, <1>7 DEF DevicesTypeOK, OpsAreWell, HoldersAreKnown, Holding, ChannelHasJob, OneJob, Busy
  <2>3. OneJob'
    BY <2>1, <1>1, <1>3, <1>4, <1>5, <1>6, <1>7 DEF OneJob, DevicesTypeOK, OpsAreWell, Busy
  <2>4. ChannelHasJob'
    BY <2>1, <1>1, <1>3, <1>4, <1>5, <1>6, <1>7 DEF ChannelHasJob, DevicesTypeOK, OpsAreWell, OneJob, Holding, Busy
  <2>5. AnswersAreOne'
    BY <2>1, <1>1, <1>3, <1>4, <1>5, <1>6, <1>7 DEF AnswersAreOne, DevicesTypeOK, OpsAreWell, OneJob, OneAnswer, Quiet, NoAnswers, Busy, ChannelsAreOpen
  <2>6. InfoButOne'
    BY <2>1, <1>1, <1>3, <1>4, <1>5, <1>6, <1>7 DEF InfoButOne, DevicesTypeOK, OpsAreWell, OneJob, Same, Busy, InfoAfterDisk, InfoAfterNic, Device
  <2> QED
    BY <2>2, <2>3, <2>4, <2>5, <2>6 DEF OrderlyJobs
<1> QED
  BY <1>10, <1>11, <1>12, <1>13, <1>14, <1>15, <1>16, <1>17, <1>18, <1>19

\* What is in a sequence that got longer, or lost its head.
LEMMA AppendFacts ==
  ASSUME NEW S, NEW s \in Seq(S), NEW x \in S
  PROVE  /\ Append(s, x) \in Seq(S)
         /\ \A i \in DOMAIN Append(s, x) : IF i \in DOMAIN s THEN Append(s, x)[i] = s[i] ELSE Append(s, x)[i] = x
         /\ \A i \in DOMAIN Append(s, x) : i \notin DOMAIN s => i = Len(s) + 1
OBVIOUS

\* What is left of a sequence of events when the first is taken.
LEMMA TailFacts ==
  ASSUME NEW S, NEW s \in Seq(S), s # <<>>
  PROVE  /\ Tail(s) \in Seq(S) /\ 1 \in DOMAIN s /\ Head(s) = s[1]
         /\ \A i \in DOMAIN Tail(s) : i \in Nat /\ i >= 1 /\ i + 1 \in DOMAIN s /\ Tail(s)[i] = s[i + 1]
OBVIOUS

\* What is not about events and jobs.
LEMMA EventStep ==
  ASSUME DevicesIInv, lvEvents' \in Seq(Device \cup {NoDevice}), evch' \in Nat, life' \in Nat,
         devLive' \subseteq Device, removing' \subseteq Device,
         UNCHANGED <<devInfo, qemuArgs, devOp, expected, channel, syncStuck, overlapped, messy>>,
         ~messy => AnswersAreOne' /\ InfoButOne'
  PROVE  DevicesIInv'
<1> USE DEF DevicesIInv
<1>1. DevicesTypeOK' /\ OpsAreWell' /\ ChannelsAreOwn' /\ ChannelsAreOpen'
  BY DEF DevicesTypeOK, OpsAreWell, ChannelsAreOwn, ChannelsAreOpen
<1>2. HoldersAreKnown' /\ ReadersAreAnswered' /\ SelectHasChannel'
  BY DEF HoldersAreKnown, ReadersAreAnswered, SelectHasChannel, Holding, Reading
<1>3. SyncStuckOnlyByOverlap' /\ RemovalWasAnswered'
  BY DEF SyncStuckOnlyByOverlap, RemovalWasAnswered
<1>4. OrderlyJobs'
  BY DEF OrderlyJobs, OneJob, ChannelHasJob, Busy, Holding
<1> QED
  BY <1>1, <1>2, <1>3, <1>4

\* A guest gives up a device it was asked for, and libvirt reports it.
LEMMA GuestAnswersIInv ==
  ASSUME DevicesIInv, NEW d \in Device, GuestAnswers(d)
  PROVE  DevicesIInv'
<1> USE DevicesAssumption DEF DevicesIInv
<1>1. PICK ev \in Seq(Device \cup {NoDevice}) : ev = Append(lvEvents, d) /\ lvEvents' = ev
  BY AppendFacts DEF GuestAnswers, DevicesTypeOK
<1>2. /\ \A i \in DOMAIN ev : IF i \in DOMAIN lvEvents THEN ev[i] = lvEvents[i] ELSE ev[i] = d
      /\ \A i \in DOMAIN ev : i \notin DOMAIN lvEvents => i = Len(lvEvents) + 1
  BY <1>1, AppendFacts DEF DevicesTypeOK
<1>3. d \in removing /\ removing' = removing \ {d} /\ devLive' \in {devLive, devLive \ {d}}
  BY DEF GuestAnswers
<1>4. UNCHANGED <<devInfo, qemuArgs, devOp, expected, channel, syncStuck, overlapped, messy, evch, life>>
  BY DEF GuestAnswers
<1>5. ASSUME ~messy PROVE AnswersAreOne' /\ InfoButOne'
  <2>1. AnswersAreOne /\ InfoButOne /\ OneJob
    BY <1>5 DEF OrderlyJobs
  <2>2. PICK j \in Job : devOp[j].at \in {"wait", "select"}
    BY <2>1, <1>3 DEF AnswersAreOne, Quiet, Busy
  <2>3. /\ OneAnswer(j) /\ Busy(j) /\ \A i \in Job : i # j => ~Busy(i)
    BY <2>1, <2>2 DEF AnswersAreOne, OneJob, Busy
  <2>4. /\ devOp[j].dev = d /\ removing' = {} /\ NoAnswers
        /\ channel[expected[d]] # "full"
    BY <1>3, <2>3 DEF OneAnswer, Quiet
  <2>5. OneAnswer(j)'
    BY <1>1, <1>2, <1>3, <1>4, <2>4 DEF OneAnswer, NoAnswers
  <2>6. AnswersAreOne'
    BY <1>4, <2>2, <2>3, <2>5 DEF AnswersAreOne, Busy
  <2>7. InfoButOne'
    BY <1>3, <1>4, <2>1, <2>2, <2>3, <2>4 DEF InfoButOne, Busy, Same
  <2> QED
    BY <2>6, <2>7
<1>6. devLive' \subseteq Device /\ removing' \subseteq Device /\ evch' \in Nat /\ life' \in Nat
  BY <1>3, <1>4 DEF DevicesTypeOK
<1> QED
  BY <1>1, <1>4, <1>5, <1>6, EventStep

\* libvirt reports an event that is not about a device.
LEMMA LifecycleEventIInv ==
  ASSUME DevicesIInv, LifecycleEvent
  PROVE  DevicesIInv'
<1> USE DevicesAssumption DEF DevicesIInv
<1>1. PICK ev \in Seq(Device \cup {NoDevice}) : ev = Append(lvEvents, NoDevice) /\ lvEvents' = ev
  BY AppendFacts DEF LifecycleEvent, DevicesTypeOK
<1>2. /\ \A i \in DOMAIN ev : IF i \in DOMAIN lvEvents THEN ev[i] = lvEvents[i] ELSE ev[i] = NoDevice
  BY <1>1, AppendFacts DEF DevicesTypeOK
<1>3. UNCHANGED <<devLive, devInfo, qemuArgs, removing, devOp, expected, channel, syncStuck, evch, overlapped, messy>>
  BY DEF LifecycleEvent
<1>4. ASSUME ~messy PROVE AnswersAreOne' /\ InfoButOne'
  <2>1. AnswersAreOne /\ InfoButOne
    BY <1>4 DEF OrderlyJobs
  <2>2. NoAnswers => NoAnswers'
    BY <1>1, <1>2 DEF NoAnswers
  <2>3. ASSUME NEW j \in Job, Busy(j), OneAnswer(j) PROVE OneAnswer(j)'
    <3>1. devOp[j].dev # NoDevice
      BY <2>3 DEF OpsAreWell, Busy
    <3> QED
      BY <1>1, <1>2, <1>3, <2>2, <2>3, <3>1 DEF OneAnswer, Quiet
  <2>4. AnswersAreOne'
    BY <1>3, <2>1, <2>2, <2>3 DEF AnswersAreOne, Busy, Quiet
  <2> QED
    BY <1>3, <2>1, <2>4 DEF InfoButOne, Busy, Same
<1>5. devLive' \subseteq Device /\ removing' \subseteq Device /\ evch' \in Nat /\ life' \in Nat
  BY <1>3 DEF DevicesTypeOK, LifecycleEvent
<1> QED
  BY <1>1, <1>3, <1>4, <1>5, EventStep

\* An event that is no answer is taken, and goes on to evch.
LEMMA HandleLifecycleIInv ==
  ASSUME DevicesIInv, HandleLifecycle
  PROVE  DevicesIInv'
<1> USE DevicesAssumption DEF DevicesIInv
<1>1. PICK ev \in Seq(Device \cup {NoDevice}) : ev = Tail(lvEvents) /\ lvEvents' = ev
  BY TailFacts DEF HandleLifecycle, DevicesTypeOK
<1>2. \A i \in DOMAIN ev : i \in Nat /\ i + 1 \in DOMAIN lvEvents /\ ev[i] = lvEvents[i + 1]
  BY <1>1, TailFacts DEF DevicesTypeOK, HandleLifecycle
<1>3. UNCHANGED <<devLive, devInfo, qemuArgs, removing, devOp, expected, channel, syncStuck, life, overlapped, messy>>
  BY DEF HandleLifecycle
<1>4. ASSUME ~messy PROVE AnswersAreOne' /\ InfoButOne'
  <2>1. AnswersAreOne /\ InfoButOne
    BY <1>4 DEF OrderlyJobs
  <2>2. NoAnswers => NoAnswers'
    BY <1>1, <1>2 DEF NoAnswers
  <2>3. ASSUME NEW j \in Job, OneAnswer(j) PROVE OneAnswer(j)'
    <3>1. ASSUME NEW i \in DOMAIN ev, NEW k \in DOMAIN ev, ev[i] = devOp[j].dev, ev[k] = devOp[j].dev
          PROVE  i = k
      <4>1. i + 1 = k + 1
        BY <1>2, <2>3, <3>1 DEF OneAnswer
      <4> QED
        BY <1>2, <4>1
    <3> QED
      BY <1>1, <1>2, <1>3, <2>2, <2>3, <3>1 DEF OneAnswer, Quiet
  <2>4. AnswersAreOne'
    BY <1>3, <2>1, <2>2, <2>3 DEF AnswersAreOne, Busy, Quiet
  <2> QED
    BY <1>3, <2>1, <2>4 DEF InfoButOne, Busy, Same
<1>5. devLive' \subseteq Device /\ removing' \subseteq Device /\ evch' \in Nat /\ life' \in Nat
  BY <1>3 DEF DevicesTypeOK, HandleLifecycle
<1> QED
  BY <1>1, <1>3, <1>4, <1>5, EventStep

\* kvm.events takes an event that was passed on.
LEMMA EventsReadIInv ==
  ASSUME DevicesIInv, EventsRead
  PROVE  DevicesIInv'
<1> USE DEF DevicesIInv
<1>1. UNCHANGED <<devLive, devInfo, qemuArgs, removing, devOp, expected, channel, syncStuck, lvEvents, life, overlapped, messy>>
  BY DEF EventsRead
<1>2. ~messy => AnswersAreOne' /\ InfoButOne'
  BY <1>1 DEF OrderlyJobs, AnswersAreOne, OneAnswer, Quiet, NoAnswers, Busy, InfoButOne, Same
<1>3. /\ lvEvents' \in Seq(Device \cup {NoDevice}) /\ evch' \in Nat /\ life' \in Nat
      /\ devLive' \subseteq Device /\ removing' \subseteq Device
  BY <1>1 DEF DevicesTypeOK, EventsRead
<1> QED
  BY <1>1, <1>2, <1>3, EventStep

\* Release gives an answer to the channel of its device, and to every job that
\* works on the device.
LEMMA HandleDeviceIInv ==
  ASSUME DevicesIInv, HandleDevice
  PROVE  DevicesIInv'
<1> USE DevicesAssumption DEF DevicesIInv
<1>1. PICK ev \in Seq(Device \cup {NoDevice}) : ev = Tail(lvEvents) /\ lvEvents' = ev
  BY TailFacts DEF HandleDevice, DevicesTypeOK
<1>2. /\ \A i \in DOMAIN ev : i \in Nat /\ i >= 1 /\ i + 1 \in DOMAIN lvEvents /\ ev[i] = lvEvents[i + 1]
      /\ 1 \in DOMAIN lvEvents /\ Head(lvEvents) = lvEvents[1]
  BY <1>1, TailFacts DEF DevicesTypeOK, HandleDevice
<1>3. PICK d \in Device : d = lvEvents[1]
  BY <1>2 DEF HandleDevice
<1>4. channel' = [i \in DOMAIN channel |-> IF i = expected[d] THEN "full" ELSE channel[i]]
  BY <1>2, <1>3 DEF HandleDevice
<1>5. channel' \in Seq({"empty", "full", "closed"}) /\ Len(channel') = Len(channel) /\ DOMAIN channel' = DOMAIN channel
  <2>1. channel' \in [DOMAIN channel -> {"empty", "full", "closed"}]
    BY <1>4 DEF DevicesTypeOK
  <2> QED
    BY <2>1, MappedSeq DEF DevicesTypeOK
<1>6. \A e \in Device : expected[e] # 0 =>
        expected[e] \in DOMAIN channel /\ channel'[expected[e]] = IF e = d THEN "full" ELSE channel[expected[e]]
  BY <1>4 DEF DevicesTypeOK, ChannelsAreOwn
<1>7. /\ devOp' \in [Job -> OpRecord]
      /\ \A i \in Job : /\ devOp'[i].at = devOp[i].at /\ devOp'[i].dev = devOp[i].dev
                        /\ devOp'[i].chan = devOp[i].chan /\ devOp'[i].result = devOp[i].result
                        /\ devOp'[i].answered = (devOp[i].answered \/ devOp[i].dev = d)
  <2>1. devOp' = [i \in Job |-> IF devOp[i].dev = d THEN [devOp[i] EXCEPT !.answered = TRUE] ELSE devOp[i]]
    BY <1>2, <1>3 DEF HandleDevice
  <2>2. ASSUME NEW i \in Job
        PROVE  /\ devOp'[i] \in OpRecord
               /\ devOp'[i].at = devOp[i].at /\ devOp'[i].dev = devOp[i].dev
               /\ devOp'[i].chan = devOp[i].chan /\ devOp'[i].result = devOp[i].result
               /\ devOp'[i].answered = (devOp[i].answered \/ devOp[i].dev = d)
    <3>1. PICK m \in OpRecord : m = devOp[i]
      BY DEF DevicesTypeOK
    <3>2. CASE m.dev = d
      <4>1. devOp'[i] = [m EXCEPT !.answered = TRUE]
        BY <2>1, <3>1, <3>2
      <4> QED
        BY <3>1, <3>2, <4>1 DEF OpRecord
    <3>3. CASE m.dev # d
      <4>1. devOp'[i] = m
        BY <2>1, <3>1, <3>3
      <4> QED
        BY <3>1, <3>3, <4>1 DEF OpRecord
    <3> QED
      BY <3>2, <3>3
  <2>3. devOp' \in [Job -> OpRecord]
    BY <2>1, <2>2
  <2> QED
    BY <2>2, <2>3
<1>8. UNCHANGED <<devLive, devInfo, qemuArgs, removing, expected, syncStuck, evch, life, overlapped, messy>>
  BY DEF HandleDevice
<1>9. \A i \in Job : devOp[i].at = "idle" => devOp'[i] = devOp[i]
  <2> SUFFICES ASSUME NEW i \in Job, devOp[i].at = "idle" PROVE devOp'[i] = devOp[i]
    OBVIOUS
  <2>1. devOp[i].dev # d
    BY <1>3 DEF OpsAreWell, NoOp
  <2> QED
    BY <1>2, <1>3, <2>1 DEF HandleDevice
<1>10. DevicesTypeOK'
  BY <1>1, <1>5, <1>7, <1>8 DEF DevicesTypeOK
<1>11. OpsAreWell'
  BY <1>7, <1>9 DEF OpsAreWell
<1>12. ChannelsAreOwn' /\ ChannelsAreOpen'
  BY <1>6, <1>8 DEF ChannelsAreOwn, ChannelsAreOpen
<1>13. HoldersAreKnown'
  BY <1>7, <1>8 DEF HoldersAreKnown, Holding
<1>14. ReadersAreAnswered'
  <2> SUFFICES ASSUME NEW j \in Job, Reading(j)', devOp'[j].dev \notin overlapped'
               PROVE  /\ devOp'[j].at = "select" => devOp'[j].chan = expected'[devOp'[j].dev]
                      /\ channel'[expected'[devOp'[j].dev]] = "full" => devOp'[j].answered
    BY DEF ReadersAreAnswered
  <2>1. Reading(j) /\ Holding(j) /\ devOp[j].dev \notin overlapped
    BY <1>7, <1>8 DEF Reading, Holding
  <2>2. devOp[j].dev \in Device /\ expected[devOp[j].dev] # 0
    BY <2>1 DEF OpsAreWell, HoldersAreKnown, Holding
  <2>3. devOp'[j].at = "select" => devOp'[j].chan = expected'[devOp'[j].dev]
    BY <1>7, <1>8, <2>1 DEF ReadersAreAnswered
  <2>4. ASSUME channel'[expected'[devOp'[j].dev]] = "full" PROVE devOp[j].answered \/ devOp[j].dev = d
    <3>1. devOp[j].dev # d => channel[expected[devOp[j].dev]] = "full"
      BY <1>6, <1>7, <1>8, <2>2, <2>4
    <3> QED
      BY <2>1, <3>1 DEF ReadersAreAnswered
  <2> QED
    BY <1>7, <2>3, <2>4
<1>15. SelectHasChannel' /\ SyncStuckOnlyByOverlap' /\ RemovalWasAnswered'
  BY <1>5, <1>7, <1>8 DEF SelectHasChannel, SyncStuckOnlyByOverlap, RemovalWasAnswered
<1>16. OrderlyJobs'
  <2> SUFFICES ASSUME ~messy' PROVE OrderlyJobs'
    BY DEF OrderlyJobs
  <2>1. /\ ~messy /\ overlapped = {} /\ ~syncStuck
        /\ OneJob /\ ChannelHasJob /\ AnswersAreOne /\ InfoButOne
    BY <1>8 DEF OrderlyJobs
  <2>2. OneJob' /\ ChannelHasJob'
    BY <1>7, <1>8, <2>1 DEF OneJob, ChannelHasJob, Busy, Holding
  <2>3. PICK j \in Job : devOp[j].at \in {"wait", "select"}
    BY <1>2, <1>3, <2>1 DEF AnswersAreOne, Quiet, NoAnswers, Busy
  <2>4. OneAnswer(j) /\ \A i \in Job : i # j => ~Busy(i)
    BY <2>1, <2>3 DEF AnswersAreOne, OneJob, Busy
  <2>5. devOp[j].dev = d /\ removing = {}
    BY <1>2, <1>3, <2>4 DEF OneAnswer, NoAnswers
  <2>6. \A i \in DOMAIN ev : ev[i] = NoDevice
    <3> SUFFICES ASSUME NEW i \in DOMAIN ev, ev[i] # NoDevice PROVE FALSE
      OBVIOUS
    <3>1. i + 1 \in DOMAIN lvEvents /\ lvEvents[i + 1] = d /\ i >= 1 /\ i \in Nat
      BY <1>2, <2>4, <2>5 DEF OneAnswer
    <3>2. i + 1 = 1
      BY <1>2, <1>3, <2>4, <2>5, <3>1 DEF OneAnswer
    <3> QED
      BY <3>1, <3>2
  <2>7. Quiet'
    BY <1>1, <1>8, <2>5, <2>6 DEF Quiet, NoAnswers
  <2>8. OneAnswer(j)'
    BY <2>7, <2>6, <2>5, <1>7, <1>3, <1>1 DEF OneAnswer, Quiet, NoAnswers
  <2>9. AnswersAreOne'
    BY <1>7, <2>3, <2>4, <2>7, <2>8 DEF AnswersAreOne, Busy
  <2>10. InfoButOne'
    BY <1>7, <1>8, <2>1 DEF InfoButOne, Busy, Same
  <2> QED
    BY <1>8, <2>1, <2>2, <2>9, <2>10 DEF OrderlyJobs
<1> QED
  BY <1>10, <1>11, <1>12, <1>13, <1>14, <1>15, <1>16

\* No job is at work at first, and no channel is open.
LEMMA DevicesInitIInv == DevicesInit => DevicesIInv
<1> SUFFICES ASSUME DevicesInit PROVE DevicesIInv
  OBVIOUS
<1> USE DevicesAssumption DEF DevicesInit
<1>1. NoOp \in OpRecord /\ \A j \in Job : devOp[j] = NoOp
  BY DEF NoOp, OpRecord, Where
<1>2. /\ NoOp.at = "idle" /\ NoOp.result = "none"
  BY DEF NoOp
<1>3. DevicesTypeOK
  <2>1. channel \in Seq({"empty", "full", "closed"}) /\ lvEvents \in Seq(Device \cup {NoDevice}) /\ Len(channel) = 0
    OBVIOUS
  <2>2. expected \in [Device -> 0..Len(channel)]
    BY <2>1
  <2>3. devOp \in [Job -> OpRecord]
    BY <1>1
  <2> QED
    BY <2>1, <2>2, <2>3 DEF DevicesTypeOK
<1>4. OpsAreWell /\ SelectHasChannel /\ RemovalWasAnswered
  BY <1>1, <1>2 DEF OpsAreWell, SelectHasChannel, RemovalWasAnswered
<1>5. HoldersAreKnown /\ ReadersAreAnswered
  BY <1>1, <1>2 DEF HoldersAreKnown, ReadersAreAnswered, Holding, Reading
<1>6. ChannelsAreOwn /\ ChannelsAreOpen /\ SyncStuckOnlyByOverlap
  BY DEF ChannelsAreOwn, ChannelsAreOpen, SyncStuckOnlyByOverlap
<1>7. OneJob /\ ChannelHasJob /\ AnswersAreOne
  BY <1>1, <1>2 DEF OneJob, ChannelHasJob, Busy, AnswersAreOne, Quiet, NoAnswers
<1>8. InfoButOne
  BY <1>1, <1>2 DEF InfoButOne, Busy, Same
<1> QED
  BY <1>3, <1>4, <1>5, <1>6, <1>7, <1>8 DEF DevicesIInv, OrderlyJobs

\* A step that changes nothing.
LEMMA DevicesStutter ==
  ASSUME DevicesIInv, UNCHANGED deviceVars
  PROVE  DevicesIInv'
<1> USE DEF DevicesIInv, deviceVars
<1>1. DevicesTypeOK' /\ OpsAreWell' /\ ChannelsAreOwn' /\ ChannelsAreOpen'
  BY DEF DevicesTypeOK, OpsAreWell, ChannelsAreOwn, ChannelsAreOpen
<1>2. ~messy => AnswersAreOne' /\ InfoButOne'
  BY DEF OrderlyJobs, AnswersAreOne, OneAnswer, Quiet, NoAnswers, Busy, InfoButOne, Same
<1> QED
  BY <1>1, <1>2, EventStep DEF DevicesTypeOK

\* subsys/kvm: whatever jobs attach and detach devices of a machine, and however late
\* or never the guest answers, the lock of Sync is lost only by removals of one device
\* that overlap, a job reports a removal only after libvirt answered about that very
\* device, and an undisturbed DomainInfo tells what the domain has.
THEOREM DevicesKnown == DevicesSpec => []DevicesAreKnown
<1>1. DevicesInit => DevicesIInv
  BY DevicesInitIInv
<1>2. DevicesIInv /\ [DevicesNext]_deviceVars => DevicesIInv'
  <2> SUFFICES ASSUME DevicesIInv, [DevicesNext]_deviceVars PROVE DevicesIInv'
    OBVIOUS
  <2>1. ASSUME NEW j \in Job, NEW d \in Device, AttachLookup(j, d) \/ DetachLookup(j, d)
        PROVE  DevicesIInv'
    BY <2>1, AttachLookupIInv, DetachLookupIInv
  <2>2. ASSUME NEW j \in Job, \/ AttachDevice(j) \/ AttachInfo(j)
                              \/ DetachExpect(j) \/ DetachAsk(j) \/ WaitLookup(j) \/ WaitSelect(j)
                              \/ DetachUnexpect(j) \/ DetachInfo(j)
        PROVE  DevicesIInv'
    BY <2>2, AttachDeviceIInv, AttachInfoIInv, DetachExpectIInv, DetachAskIInv, WaitLookupIInv,
       WaitSelectIInv, DetachUnexpectIInv, DetachInfoIInv
  <2>3. ASSUME NEW d \in Device, GuestAnswers(d)
        PROVE  DevicesIInv'
    BY <2>3, GuestAnswersIInv
  <2>4. CASE LifecycleEvent \/ HandleDevice \/ HandleLifecycle \/ EventsRead
    BY <2>4, LifecycleEventIInv, HandleDeviceIInv, HandleLifecycleIInv, EventsReadIInv
  <2>5. CASE UNCHANGED deviceVars
    BY <2>5, DevicesStutter
  <2> QED
    BY <2>1, <2>2, <2>3, <2>4, <2>5 DEF DevicesNext
<1>3. DevicesIInv => DevicesAreKnown
  <2> SUFFICES ASSUME DevicesIInv, ~messy, \A j \in Job : devOp[j] = NoOp
               PROVE  \A d \in Device : Same(d)
    BY DEF DevicesIInv, DevicesAreKnown, InfoFollowsDevices, Same
  <2>1. \A j \in Job : ~Busy(j)
    BY DEF Busy, NoOp
  <2> QED
    BY <2>1 DEF DevicesIInv, OrderlyJobs, InfoButOne
<1> QED
  BY <1>1, <1>2, <1>3, PTL DEF DevicesSpec

-----------------------------------------------------------------------------
(* File systems and archives of containers.                                *)

\* A daemon that has ended, at each place of its exit hook.
Ends == {"failed", "ended", "stuck", "over"}

\* The types of the variables.
SandboxTypeOK ==
  /\ start \in {"new", "root", "extra", "extras", "assign", "up", "failing", "failed"}
  /\ todo \subseteq Extra /\ now \in FS
  /\ fs \in [FS -> {"none", "run", "mounted"} \cup Ends]
  /\ once \in [FS -> {"no", "ready", "exit"}] /\ jSet \in [FS -> BOOLEAN]
  /\ core \in {"none", "alive", "dead"} /\ sb \in {"none", "wait", "clean", "done"}
  /\ archive \in [Archiver -> {"idle", "ready", "run", "over"}]
  /\ backend \in BOOLEAN /\ coreRunner \in BOOLEAN /\ coreOver \in BOOLEAN /\ pidSet \in BOOLEAN
  /\ missed \in BOOLEAN /\ stopped \in BOOLEAN /\ meta \in BOOLEAN /\ overlap \in BOOLEAN

\* What Start works on is no longer to do, and a daemon that was started neither.
StartIsForward ==
  /\ now # "root" => now \notin todo
  /\ \A f \in FS : fs[f] # "none" /\ f # "root" => f \notin todo

\* Only the daemon Start waits for is not decided.
OnlyNowRuns ==
  \A f \in FS : /\ fs[f] = "run" => f = now /\ start \in {"root", "extra"}
                /\ fs[f] \in {"none", "run"} => once[f] = "no"

\* coreX is there once Start has run it, and Start goes on only with it.
CoreIsStarted ==
  /\ core # "none" <=> start \in {"assign", "up"}
  /\ coreRunner => start = "up"
  /\ pidSet => core # "none"
  /\ coreOver => core = "dead" /\ mounts = {}
  /\ start = "failed" => mounts = {}

\* onSBExit follows the end of the root's daemon; unless it missed coreX, coreX is dead
\* when it cleans up.
ExitFollowsEnd ==
  /\ sb # "none" => fs["root"] \in Ends
  /\ sb = "wait" => coreRunner
  /\ sb \in {"clean", "done"} /\ ~missed => core = "dead"
  /\ sb = "done" /\ backend => missed /\ now # "root"

\* An archiver at work has stopped the container, unless there are two.
ArchivesAreMade ==
  /\ \A a \in Archiver : archive[a] # "idle" => core # "none"
  /\ \A a, b \in Archiver : Running(a) /\ Running(b) /\ a # b => overlap
  /\ \A a \in Archiver : Running(a) => meta \/ overlap
  /\ stopped => \E a \in Archiver : archive[a] = "run"

\* The inductive invariant of the file systems.
SandboxIInv ==
  /\ SandboxTypeOK /\ StartIsForward /\ OnlyNowRuns /\ CoreIsStarted /\ ExitFollowsEnd
  /\ ArchivesAreMade /\ ArchiveIsConsistent /\ BackendIsOwn

\* sandbox: the root is to be mounted.
LEMMA StartSandboxIInv ==
  ASSUME SandboxIInv, StartSandbox
  PROVE  SandboxIInv'
<1> USE SandboxAssumption DEF SandboxIInv
<1>1. SandboxTypeOK'
  BY ZenonT(30) DEF SandboxTypeOK, Ends, FS, StartSandbox, startVars, fsVars, coreVars, archiveVars, StartGoes
<1>2. StartIsForward'
  BY DEF StartIsForward, SandboxTypeOK, FS, StartSandbox, startVars, fsVars, coreVars, archiveVars, StartGoes
<1>3. OnlyNowRuns'
  BY DEF OnlyNowRuns, SandboxTypeOK, StartSandbox, startVars, fsVars, coreVars, archiveVars, StartGoes
<1>4. CoreIsStarted'
  BY DEF CoreIsStarted, SandboxTypeOK, OnlyNowRuns, StartSandbox, startVars, fsVars, coreVars, archiveVars, StartGoes
<1>5. ExitFollowsEnd'
  BY DEF ExitFollowsEnd, SandboxTypeOK, CoreIsStarted, FS, Ends, StartSandbox, startVars, fsVars, coreVars, archiveVars, StartGoes
<1>6. ArchivesAreMade'
  BY DEF ArchivesAreMade, SandboxTypeOK, CoreIsStarted, Running, StartSandbox, startVars, fsVars, coreVars, archiveVars, StartGoes
<1>7. ArchiveIsConsistent'
  BY DEF ArchiveIsConsistent, SandboxTypeOK, CoreIsStarted, ArchivesAreMade, Running, StartSandbox, startVars, fsVars, coreVars, archiveVars, StartGoes
<1>8. BackendIsOwn'
  BY DEF BackendIsOwn, SandboxTypeOK, StartIsForward, BackendOf, FS, StartSandbox, startVars, fsVars, coreVars, archiveVars, StartGoes
<1> QED
  BY <1>1, <1>2, <1>3, <1>4, <1>5, <1>6, <1>7, <1>8

\* The next of Args.Mount, or the end of them.
LEMMA StartMountIInv ==
  ASSUME SandboxIInv, StartMount
  PROVE  SandboxIInv'
<1> USE SandboxAssumption DEF SandboxIInv
<1>1. SandboxTypeOK'
  BY DEF SandboxTypeOK, Ends, FS, StartMount, startVars, fsVars, coreVars, archiveVars
<1>2. StartIsForward'
  BY DEF StartIsForward, SandboxTypeOK, FS, StartMount, startVars, fsVars, coreVars, archiveVars
<1>3. OnlyNowRuns'
  BY DEF OnlyNowRuns, SandboxTypeOK, StartMount, startVars, fsVars, coreVars, archiveVars
<1>4. CoreIsStarted'
  BY DEF CoreIsStarted, SandboxTypeOK, OnlyNowRuns, StartMount, startVars, fsVars, coreVars, archiveVars
<1>5. ExitFollowsEnd'
  BY DEF ExitFollowsEnd, SandboxTypeOK, CoreIsStarted, FS, Ends, StartMount, startVars, fsVars, coreVars, archiveVars
<1>6. ArchivesAreMade'
  BY DEF ArchivesAreMade, SandboxTypeOK, CoreIsStarted, Running, StartMount, startVars, fsVars, coreVars, archiveVars
<1>7. ArchiveIsConsistent'
  BY DEF ArchiveIsConsistent, SandboxTypeOK, CoreIsStarted, ArchivesAreMade, Running, StartMount, startVars, fsVars, coreVars, archiveVars
<1>8. BackendIsOwn'
  BY DEF BackendIsOwn, SandboxTypeOK, StartIsForward, BackendOf, FS, StartMount, startVars, fsVars, coreVars, archiveVars
<1> QED
  BY <1>1, <1>2, <1>3, <1>4, <1>5, <1>6, <1>7, <1>8

\* coreX is run, or Start fails.
LEMMA StartRunIInv ==
  ASSUME SandboxIInv, StartRun
  PROVE  SandboxIInv'
<1> USE SandboxAssumption DEF SandboxIInv
<1>1. SandboxTypeOK'
  BY DEF SandboxTypeOK, Ends, FS, StartRun, startVars, fsVars, coreVars, archiveVars
<1>2. StartIsForward'
  BY DEF StartIsForward, SandboxTypeOK, FS, StartRun, startVars, fsVars, coreVars, archiveVars
<1>3. OnlyNowRuns'
  BY DEF OnlyNowRuns, SandboxTypeOK, StartRun, startVars, fsVars, coreVars, archiveVars
<1>4. CoreIsStarted'
  BY DEF CoreIsStarted, SandboxTypeOK, OnlyNowRuns, StartRun, startVars, fsVars, coreVars, archiveVars
<1>5. ExitFollowsEnd'
  BY DEF ExitFollowsEnd, SandboxTypeOK, CoreIsStarted, FS, Ends, StartRun, startVars, fsVars, coreVars, archiveVars
<1>6. ArchivesAreMade'
  BY DEF ArchivesAreMade, SandboxTypeOK, CoreIsStarted, Running, StartRun, startVars, fsVars, coreVars, archiveVars
<1>7. ArchiveIsConsistent'
  BY DEF ArchiveIsConsistent, SandboxTypeOK, CoreIsStarted, ArchivesAreMade, Running, StartRun, startVars, fsVars, coreVars, archiveVars
<1>8. BackendIsOwn'
  BY DEF BackendIsOwn, SandboxTypeOK, StartIsForward, BackendOf, FS, StartRun, startVars, fsVars, coreVars, archiveVars
<1> QED
  BY <1>1, <1>2, <1>3, <1>4, <1>5, <1>6, <1>7, <1>8

\* Start assigns runner.
LEMMA StartAssignIInv ==
  ASSUME SandboxIInv, StartAssign
  PROVE  SandboxIInv'
<1> USE SandboxAssumption DEF SandboxIInv
<1>1. SandboxTypeOK'
  BY DEF SandboxTypeOK, Ends, FS, StartAssign, startVars, fsVars, coreVars, archiveVars, StartGoes
<1>2. StartIsForward'
  BY DEF StartIsForward, SandboxTypeOK, FS, StartAssign, startVars, fsVars, coreVars, archiveVars, StartGoes
<1>3. OnlyNowRuns'
  BY DEF OnlyNowRuns, SandboxTypeOK, StartAssign, startVars, fsVars, coreVars, archiveVars, StartGoes
<1>4. CoreIsStarted'
  BY DEF CoreIsStarted, SandboxTypeOK, OnlyNowRuns, StartAssign, startVars, fsVars, coreVars, archiveVars, StartGoes
<1>5. ExitFollowsEnd'
  BY DEF ExitFollowsEnd, SandboxTypeOK, CoreIsStarted, FS, Ends, StartAssign, startVars, fsVars, coreVars, archiveVars, StartGoes
<1>6. ArchivesAreMade'
  BY DEF ArchivesAreMade, SandboxTypeOK, CoreIsStarted, Running, StartAssign, startVars, fsVars, coreVars, archiveVars, StartGoes
<1>7. ArchiveIsConsistent'
  BY DEF ArchiveIsConsistent, SandboxTypeOK, CoreIsStarted, ArchivesAreMade, Running, StartAssign, startVars, fsVars, coreVars, archiveVars, StartGoes
<1>8. BackendIsOwn'
  BY DEF BackendIsOwn, SandboxTypeOK, StartIsForward, BackendOf, FS, StartAssign, startVars, fsVars, coreVars, archiveVars, StartGoes
<1> QED
  BY <1>1, <1>2, <1>3, <1>4, <1>5, <1>6, <1>7, <1>8

\* A Start that failed cleans up.
LEMMA StartCleanupIInv ==
  ASSUME SandboxIInv, StartCleanup
  PROVE  SandboxIInv'
<1> USE SandboxAssumption DEF SandboxIInv
<1>1. SandboxTypeOK'
  BY DEF SandboxTypeOK, Ends, FS, StartCleanup, startVars, fsVars, coreVars, archiveVars, StartGoes
<1>2. StartIsForward'
  BY DEF StartIsForward, SandboxTypeOK, FS, StartCleanup, startVars, fsVars, coreVars, archiveVars, StartGoes
<1>3. OnlyNowRuns'
  BY DEF OnlyNowRuns, SandboxTypeOK, StartCleanup, startVars, fsVars, coreVars, archiveVars, StartGoes
<1>4. CoreIsStarted'
  BY DEF CoreIsStarted, SandboxTypeOK, OnlyNowRuns, StartCleanup, startVars, fsVars, coreVars, archiveVars, StartGoes
<1>5. ExitFollowsEnd'
  BY DEF ExitFollowsEnd, SandboxTypeOK, CoreIsStarted, FS, Ends, StartCleanup, startVars, fsVars, coreVars, archiveVars, StartGoes
<1>6. ArchivesAreMade'
  BY DEF ArchivesAreMade, SandboxTypeOK, CoreIsStarted, Running, StartCleanup, startVars, fsVars, coreVars, archiveVars, StartGoes
<1>7. ArchiveIsConsistent'
  BY DEF ArchiveIsConsistent, SandboxTypeOK, CoreIsStarted, ArchivesAreMade, Running, StartCleanup, startVars, fsVars, coreVars, archiveVars, StartGoes
<1>8. BackendIsOwn'
  BY DEF BackendIsOwn, SandboxTypeOK, StartIsForward, BackendOf, FS, StartCleanup, startVars, fsVars, coreVars, archiveVars, StartGoes
<1> QED
  BY <1>1, <1>2, <1>3, <1>4, <1>5, <1>6, <1>7, <1>8

\* g8ufs is run on a backend of its own, or of the root.
LEMMA MountFListRunIInv ==
  ASSUME SandboxIInv, MountFListRun
  PROVE  SandboxIInv'
<1> USE SandboxAssumption DEF SandboxIInv
<1>1. SandboxTypeOK'
  <2>1. backend' \in BOOLEAN
    BY DEF MountFListRun, startVars, fsVars, coreVars, archiveVars, Runs
  <2>2. UNCHANGED <<jSet, once, core, coreRunner, coreOver, pidSet, sb, missed, stopped, meta, archive, overlap>>
    BY DEF MountFListRun, startVars, fsVars, coreVars, archiveVars, Runs
  <2>3. fs' \in [FS -> {"none", "run", "mounted"} \cup Ends] /\ start' \in {"root", "extra", "failing"} /\ now' = now /\ todo' = todo
    BY DEF MountFListRun, startVars, fsVars, coreVars, archiveVars, Runs, SandboxTypeOK
  <2> QED
    BY <2>1, <2>2, <2>3 DEF SandboxTypeOK
<1>2. StartIsForward'
  BY DEF StartIsForward, SandboxTypeOK, FS, MountFListRun, startVars, fsVars, coreVars, archiveVars, Runs
<1>3. OnlyNowRuns'
  BY DEF OnlyNowRuns, SandboxTypeOK, MountFListRun, startVars, fsVars, coreVars, archiveVars, Runs
<1>4. CoreIsStarted'
  BY DEF CoreIsStarted, SandboxTypeOK, OnlyNowRuns, MountFListRun, startVars, fsVars, coreVars, archiveVars, Runs
<1>5. ExitFollowsEnd'
  BY DEF ExitFollowsEnd, SandboxTypeOK, CoreIsStarted, FS, Ends, MountFListRun, startVars, fsVars, coreVars, archiveVars, Runs
<1>6. ArchivesAreMade'
  BY DEF ArchivesAreMade, SandboxTypeOK, CoreIsStarted, Running, MountFListRun, startVars, fsVars, coreVars, archiveVars, Runs
<1>7. ArchiveIsConsistent'
  BY DEF ArchiveIsConsistent, SandboxTypeOK, CoreIsStarted, ArchivesAreMade, Running, MountFListRun, startVars, fsVars, coreVars, archiveVars, Runs
<1>8. BackendIsOwn'
  BY DEF BackendIsOwn, SandboxTypeOK, StartIsForward, BackendOf, FS, MountFListRun, startVars, fsVars, coreVars, archiveVars, Runs
<1> QED
  BY <1>1, <1>2, <1>3, <1>4, <1>5, <1>6, <1>7, <1>8

\* MountFList knows the job it runs.
LEMMA MountFListAssignIInv ==
  ASSUME SandboxIInv, MountFListAssign
  PROVE  SandboxIInv'
<1> USE SandboxAssumption DEF SandboxIInv
<1>1. SandboxTypeOK'
  BY DEF SandboxTypeOK, Ends, FS, MountFListAssign, startVars, fsVars, coreVars, archiveVars
<1>2. StartIsForward'
  BY DEF StartIsForward, SandboxTypeOK, FS, MountFListAssign, startVars, fsVars, coreVars, archiveVars
<1>3. OnlyNowRuns'
  BY DEF OnlyNowRuns, SandboxTypeOK, MountFListAssign, startVars, fsVars, coreVars, archiveVars
<1>4. CoreIsStarted'
  BY DEF CoreIsStarted, SandboxTypeOK, OnlyNowRuns, MountFListAssign, startVars, fsVars, coreVars, archiveVars
<1>5. ExitFollowsEnd'
  BY DEF ExitFollowsEnd, SandboxTypeOK, CoreIsStarted, FS, Ends, MountFListAssign, startVars, fsVars, coreVars, archiveVars
<1>6. ArchivesAreMade'
  BY DEF ArchivesAreMade, SandboxTypeOK, CoreIsStarted, Running, MountFListAssign, startVars, fsVars, coreVars, archiveVars
<1>7. ArchiveIsConsistent'
  BY DEF ArchiveIsConsistent, SandboxTypeOK, CoreIsStarted, ArchivesAreMade, Running, MountFListAssign, startVars, fsVars, coreVars, archiveVars
<1>8. BackendIsOwn'
  BY DEF BackendIsOwn, SandboxTypeOK, StartIsForward, BackendOf, FS, MountFListAssign, startVars, fsVars, coreVars, archiveVars
<1> QED
  BY <1>1, <1>2, <1>3, <1>4, <1>5, <1>6, <1>7, <1>8

\* MountFList returns when its daemon has been decided.
LEMMA MountFListReturnIInv ==
  ASSUME SandboxIInv, MountFListReturn
  PROVE  SandboxIInv'
<1> USE SandboxAssumption DEF SandboxIInv
<1>1. SandboxTypeOK'
  BY DEF SandboxTypeOK, Ends, FS, MountFListReturn, startVars, fsVars, coreVars, archiveVars
<1>2. StartIsForward'
  BY DEF StartIsForward, SandboxTypeOK, FS, MountFListReturn, startVars, fsVars, coreVars, archiveVars
<1>3. OnlyNowRuns'
  BY DEF OnlyNowRuns, SandboxTypeOK, MountFListReturn, startVars, fsVars, coreVars, archiveVars
<1>4. CoreIsStarted'
  BY DEF CoreIsStarted, SandboxTypeOK, OnlyNowRuns, MountFListReturn, startVars, fsVars, coreVars, archiveVars
<1>5. ExitFollowsEnd'
  BY DEF ExitFollowsEnd, SandboxTypeOK, CoreIsStarted, FS, Ends, MountFListReturn, startVars, fsVars, coreVars, archiveVars
<1>6. ArchivesAreMade'
  BY DEF ArchivesAreMade, SandboxTypeOK, CoreIsStarted, Running, MountFListReturn, startVars, fsVars, coreVars, archiveVars
<1>7. ArchiveIsConsistent'
  BY DEF ArchiveIsConsistent, SandboxTypeOK, CoreIsStarted, ArchivesAreMade, Running, MountFListReturn, startVars, fsVars, coreVars, archiveVars
<1>8. BackendIsOwn'
  BY DEF BackendIsOwn, SandboxTypeOK, StartIsForward, BackendOf, FS, MountFListReturn, startVars, fsVars, coreVars, archiveVars
<1> QED
  BY <1>1, <1>2, <1>3, <1>4, <1>5, <1>6, <1>7, <1>8

\* onSBExit, with coreX known or missed.
LEMMA SBExitIInv ==
  ASSUME SandboxIInv, SBExit
  PROVE  SandboxIInv'
<1> USE SandboxAssumption DEF SandboxIInv
<1>1. SandboxTypeOK'
  BY DEF SandboxTypeOK, Ends, FS, SBExit, startVars, fsVars, coreVars, archiveVars, SBTerminates
<1>2. StartIsForward'
  BY DEF StartIsForward, SandboxTypeOK, FS, SBExit, startVars, fsVars, coreVars, archiveVars, SBTerminates
<1>3. OnlyNowRuns'
  BY DEF OnlyNowRuns, SandboxTypeOK, SBExit, startVars, fsVars, coreVars, archiveVars, SBTerminates
<1>4. CoreIsStarted'
  BY DEF CoreIsStarted, SandboxTypeOK, OnlyNowRuns, SBExit, startVars, fsVars, coreVars, archiveVars, SBTerminates
<1>5. ExitFollowsEnd'
  BY DEF ExitFollowsEnd, SandboxTypeOK, CoreIsStarted, FS, Ends, SBExit, startVars, fsVars, coreVars, archiveVars, SBTerminates
<1>6. ArchivesAreMade'
  BY DEF ArchivesAreMade, SandboxTypeOK, CoreIsStarted, Running, SBExit, startVars, fsVars, coreVars, archiveVars, SBTerminates
<1>7. ArchiveIsConsistent'
  BY DEF ArchiveIsConsistent, SandboxTypeOK, CoreIsStarted, ArchivesAreMade, Running, SBExit, startVars, fsVars, coreVars, archiveVars, SBTerminates
<1>8. BackendIsOwn'
  BY DEF BackendIsOwn, SandboxTypeOK, StartIsForward, BackendOf, FS, SBExit, startVars, fsVars, coreVars, archiveVars, SBTerminates
<1> QED
  BY <1>1, <1>2, <1>3, <1>4, <1>5, <1>6, <1>7, <1>8

\* onSBExit has seen the end of coreX.
LEMMA SBWaitsIInv ==
  ASSUME SandboxIInv, SBWaits
  PROVE  SandboxIInv'
<1> USE SandboxAssumption DEF SandboxIInv
<1>1. SandboxTypeOK'
  BY DEF SandboxTypeOK, Ends, FS, SBWaits, startVars, fsVars, coreVars, archiveVars
<1>2. StartIsForward'
  BY DEF StartIsForward, SandboxTypeOK, FS, SBWaits, startVars, fsVars, coreVars, archiveVars
<1>3. OnlyNowRuns'
  BY DEF OnlyNowRuns, SandboxTypeOK, SBWaits, startVars, fsVars, coreVars, archiveVars
<1>4. CoreIsStarted'
  BY DEF CoreIsStarted, SandboxTypeOK, OnlyNowRuns, SBWaits, startVars, fsVars, coreVars, archiveVars
<1>5. ExitFollowsEnd'
  BY DEF ExitFollowsEnd, SandboxTypeOK, CoreIsStarted, FS, Ends, SBWaits, startVars, fsVars, coreVars, archiveVars
<1>6. ArchivesAreMade'
  BY DEF ArchivesAreMade, SandboxTypeOK, CoreIsStarted, Running, SBWaits, startVars, fsVars, coreVars, archiveVars
<1>7. ArchiveIsConsistent'
  BY DEF ArchiveIsConsistent, SandboxTypeOK, CoreIsStarted, ArchivesAreMade, Running, SBWaits, startVars, fsVars, coreVars, archiveVars
<1>8. BackendIsOwn'
  BY DEF BackendIsOwn, SandboxTypeOK, StartIsForward, BackendOf, FS, SBWaits, startVars, fsVars, coreVars, archiveVars
<1> QED
  BY <1>1, <1>2, <1>3, <1>4, <1>5, <1>6, <1>7, <1>8

\* cleanSandbox, after the end of coreX unless it was missed.
LEMMA SBCleanIInv ==
  ASSUME SandboxIInv, SBClean
  PROVE  SandboxIInv'
<1> USE SandboxAssumption DEF SandboxIInv
<1>1. SandboxTypeOK'
  <2>1. backend' \in BOOLEAN
    BY DEF SBClean, startVars, fsVars, coreVars, archiveVars, BackendAfterClean
  <2>2. UNCHANGED <<start, todo, now, fs, jSet, once, core, coreRunner, coreOver, pidSet, missed, stopped, meta, archive, overlap>>
    BY DEF SBClean, startVars, fsVars, coreVars, archiveVars, BackendAfterClean
  <2>3. sb' = "done"
    BY DEF SBClean, startVars, fsVars, coreVars, archiveVars, BackendAfterClean, SandboxTypeOK
  <2> QED
    BY <2>1, <2>2, <2>3 DEF SandboxTypeOK
<1>2. StartIsForward'
  BY DEF StartIsForward, SandboxTypeOK, FS, SBClean, startVars, fsVars, coreVars, archiveVars, BackendAfterClean
<1>3. OnlyNowRuns'
  BY DEF OnlyNowRuns, SandboxTypeOK, SBClean, startVars, fsVars, coreVars, archiveVars, BackendAfterClean
<1>4. CoreIsStarted'
  BY DEF CoreIsStarted, SandboxTypeOK, OnlyNowRuns, SBClean, startVars, fsVars, coreVars, archiveVars, BackendAfterClean
<1>5. ExitFollowsEnd'
  BY DEF ExitFollowsEnd, SandboxTypeOK, CoreIsStarted, FS, Ends, SBClean, startVars, fsVars, coreVars, archiveVars, BackendAfterClean
<1>6. ArchivesAreMade'
  BY DEF ArchivesAreMade, SandboxTypeOK, CoreIsStarted, Running, SBClean, startVars, fsVars, coreVars, archiveVars, BackendAfterClean
<1>7. ArchiveIsConsistent'
  BY DEF ArchiveIsConsistent, SandboxTypeOK, CoreIsStarted, ArchivesAreMade, Running, SBClean, startVars, fsVars, coreVars, archiveVars, BackendAfterClean
<1>8. BackendIsOwn'
  BY DEF BackendIsOwn, SandboxTypeOK, StartIsForward, BackendOf, FS, SBClean, startVars, fsVars, coreVars, archiveVars, BackendAfterClean
<1> QED
  BY <1>1, <1>2, <1>3, <1>4, <1>5, <1>6, <1>7, <1>8

\* The exit hook of a daemon.
LEMMA ExitHookIInv ==
  ASSUME SandboxIInv, NEW f \in FS, ExitHook(f)
  PROVE  SandboxIInv'
<1> USE SandboxAssumption DEF SandboxIInv
<1>1. SandboxTypeOK'
  BY DEF SandboxTypeOK, Ends, FS, ExitHook, startVars, fsVars, coreVars, archiveVars, ExitDecides
<1>2. StartIsForward'
  BY DEF StartIsForward, SandboxTypeOK, FS, ExitHook, startVars, fsVars, coreVars, archiveVars, ExitDecides
<1>3. OnlyNowRuns'
  BY DEF OnlyNowRuns, SandboxTypeOK, ExitHook, startVars, fsVars, coreVars, archiveVars, ExitDecides
<1>4. CoreIsStarted'
  BY DEF CoreIsStarted, SandboxTypeOK, OnlyNowRuns, ExitHook, startVars, fsVars, coreVars, archiveVars, ExitDecides
<1>5. ExitFollowsEnd'
  BY DEF ExitFollowsEnd, SandboxTypeOK, CoreIsStarted, FS, Ends, ExitHook, startVars, fsVars, coreVars, archiveVars, ExitDecides
<1>6. ArchivesAreMade'
  BY DEF ArchivesAreMade, SandboxTypeOK, CoreIsStarted, Running, ExitHook, startVars, fsVars, coreVars, archiveVars, ExitDecides
<1>7. ArchiveIsConsistent'
  BY DEF ArchiveIsConsistent, SandboxTypeOK, CoreIsStarted, ArchivesAreMade, Running, ExitHook, startVars, fsVars, coreVars, archiveVars, ExitDecides
<1>8. BackendIsOwn'
  BY DEF BackendIsOwn, SandboxTypeOK, StartIsForward, BackendOf, FS, ExitHook, startVars, fsVars, coreVars, archiveVars, ExitDecides
<1> QED
  BY <1>1, <1>2, <1>3, <1>4, <1>5, <1>6, <1>7, <1>8

\* onExit of coreX, with cleanup.
LEMMA CoreCleanupIInv ==
  ASSUME SandboxIInv, CoreCleanup
  PROVE  SandboxIInv'
<1> USE SandboxAssumption DEF SandboxIInv
<1>1. SandboxTypeOK'
  BY DEF SandboxTypeOK, Ends, FS, CoreCleanup, startVars, fsVars, coreVars, archiveVars
<1>2. StartIsForward'
  BY DEF StartIsForward, SandboxTypeOK, FS, CoreCleanup, startVars, fsVars, coreVars, archiveVars
<1>3. OnlyNowRuns'
  BY DEF OnlyNowRuns, SandboxTypeOK, CoreCleanup, startVars, fsVars, coreVars, archiveVars
<1>4. CoreIsStarted'
  BY DEF CoreIsStarted, SandboxTypeOK, OnlyNowRuns, CoreCleanup, startVars, fsVars, coreVars, archiveVars
<1>5. ExitFollowsEnd'
  BY DEF ExitFollowsEnd, SandboxTypeOK, CoreIsStarted, FS, Ends, CoreCleanup, startVars, fsVars, coreVars, archiveVars
<1>6. ArchivesAreMade'
  BY DEF ArchivesAreMade, SandboxTypeOK, CoreIsStarted, Running, CoreCleanup, startVars, fsVars, coreVars, archiveVars
<1>7. ArchiveIsConsistent'
  BY DEF ArchiveIsConsistent, SandboxTypeOK, CoreIsStarted, ArchivesAreMade, Running, CoreCleanup, startVars, fsVars, coreVars, archiveVars
<1>8. BackendIsOwn'
  BY DEF BackendIsOwn, SandboxTypeOK, StartIsForward, BackendOf, FS, CoreCleanup, startVars, fsVars, coreVars, archiveVars
<1> QED
  BY <1>1, <1>2, <1>3, <1>4, <1>5, <1>6, <1>7, <1>8

\* One more flist on top of the root.
LEMMA MergeFListIInv ==
  ASSUME SandboxIInv, MergeFList
  PROVE  SandboxIInv'
<1> USE SandboxAssumption DEF SandboxIInv
<1>1. SandboxTypeOK'
  BY DEF SandboxTypeOK, Ends, FS, MergeFList, startVars, fsVars, coreVars, archiveVars, Runs
<1>2. StartIsForward'
  BY DEF StartIsForward, SandboxTypeOK, FS, MergeFList, startVars, fsVars, coreVars, archiveVars, Runs
<1>3. OnlyNowRuns'
  BY DEF OnlyNowRuns, SandboxTypeOK, MergeFList, startVars, fsVars, coreVars, archiveVars, Runs
<1>4. CoreIsStarted'
  BY DEF CoreIsStarted, SandboxTypeOK, OnlyNowRuns, MergeFList, startVars, fsVars, coreVars, archiveVars, Runs
<1>5. ExitFollowsEnd'
  BY DEF ExitFollowsEnd, SandboxTypeOK, CoreIsStarted, FS, Ends, MergeFList, startVars, fsVars, coreVars, archiveVars, Runs
<1>6. ArchivesAreMade'
  BY DEF ArchivesAreMade, SandboxTypeOK, CoreIsStarted, Running, MergeFList, startVars, fsVars, coreVars, archiveVars, Runs
<1>7. ArchiveIsConsistent'
  BY DEF ArchiveIsConsistent, SandboxTypeOK, CoreIsStarted, ArchivesAreMade, Running, MergeFList, startVars, fsVars, coreVars, archiveVars, Runs
<1>8. BackendIsOwn'
  BY DEF BackendIsOwn, SandboxTypeOK, StartIsForward, BackendOf, FS, MergeFList, startVars, fsVars, coreVars, archiveVars, Runs
<1> QED
  BY <1>1, <1>2, <1>3, <1>4, <1>5, <1>6, <1>7, <1>8

\* The PID of coreX is known.
LEMMA CoreOnStartIInv ==
  ASSUME SandboxIInv, CoreOnStart
  PROVE  SandboxIInv'
<1> USE SandboxAssumption DEF SandboxIInv
<1>1. SandboxTypeOK'
  BY DEF SandboxTypeOK, Ends, FS, CoreOnStart, startVars, fsVars, coreVars, archiveVars
<1>2. StartIsForward'
  BY DEF StartIsForward, SandboxTypeOK, FS, CoreOnStart, startVars, fsVars, coreVars, archiveVars
<1>3. OnlyNowRuns'
  BY DEF OnlyNowRuns, SandboxTypeOK, CoreOnStart, startVars, fsVars, coreVars, archiveVars
<1>4. CoreIsStarted'
  BY DEF CoreIsStarted, SandboxTypeOK, OnlyNowRuns, CoreOnStart, startVars, fsVars, coreVars, archiveVars
<1>5. ExitFollowsEnd'
  BY DEF ExitFollowsEnd, SandboxTypeOK, CoreIsStarted, FS, Ends, CoreOnStart, startVars, fsVars, coreVars, archiveVars
<1>6. ArchivesAreMade'
  BY DEF ArchivesAreMade, SandboxTypeOK, CoreIsStarted, Running, CoreOnStart, startVars, fsVars, coreVars, archiveVars
<1>7. ArchiveIsConsistent'
  BY DEF ArchiveIsConsistent, SandboxTypeOK, CoreIsStarted, ArchivesAreMade, Running, CoreOnStart, startVars, fsVars, coreVars, archiveVars
<1>8. BackendIsOwn'
  BY DEF BackendIsOwn, SandboxTypeOK, StartIsForward, BackendOf, FS, CoreOnStart, startVars, fsVars, coreVars, archiveVars
<1> QED
  BY <1>1, <1>2, <1>3, <1>4, <1>5, <1>6, <1>7, <1>8

\* coreX ends.
LEMMA CoreDiesIInv ==
  ASSUME SandboxIInv, CoreDies
  PROVE  SandboxIInv'
<1> USE SandboxAssumption DEF SandboxIInv
<1>1. SandboxTypeOK'
  BY DEF SandboxTypeOK, Ends, FS, CoreDies, startVars, fsVars, coreVars, archiveVars
<1>2. StartIsForward'
  BY DEF StartIsForward, SandboxTypeOK, FS, CoreDies, startVars, fsVars, coreVars, archiveVars
<1>3. OnlyNowRuns'
  BY DEF OnlyNowRuns, SandboxTypeOK, CoreDies, startVars, fsVars, coreVars, archiveVars
<1>4. CoreIsStarted'
  BY DEF CoreIsStarted, SandboxTypeOK, OnlyNowRuns, CoreDies, startVars, fsVars, coreVars, archiveVars
<1>5. ExitFollowsEnd'
  BY DEF ExitFollowsEnd, SandboxTypeOK, CoreIsStarted, FS, Ends, CoreDies, startVars, fsVars, coreVars, archiveVars
<1>6. ArchivesAreMade'
  BY DEF ArchivesAreMade, SandboxTypeOK, CoreIsStarted, Running, CoreDies, startVars, fsVars, coreVars, archiveVars
<1>7. ArchiveIsConsistent'
  BY DEF ArchiveIsConsistent, SandboxTypeOK, CoreIsStarted, ArchivesAreMade, Running, CoreDies, startVars, fsVars, coreVars, archiveVars
<1>8. BackendIsOwn'
  BY DEF BackendIsOwn, SandboxTypeOK, StartIsForward, BackendOf, FS, CoreDies, startVars, fsVars, coreVars, archiveVars
<1> QED
  BY <1>1, <1>2, <1>3, <1>4, <1>5, <1>6, <1>7, <1>8

\* A daemon has mounted.
LEMMA FSReadyIInv ==
  ASSUME SandboxIInv, NEW f \in FS, FSReady(f)
  PROVE  SandboxIInv'
<1> USE SandboxAssumption DEF SandboxIInv
<1>1. SandboxTypeOK'
  BY DEF SandboxTypeOK, Ends, FS, FSReady, startVars, fsVars, coreVars, archiveVars
<1>2. StartIsForward'
  BY DEF StartIsForward, SandboxTypeOK, FS, FSReady, startVars, fsVars, coreVars, archiveVars
<1>3. OnlyNowRuns'
  BY DEF OnlyNowRuns, SandboxTypeOK, FSReady, startVars, fsVars, coreVars, archiveVars
<1>4. CoreIsStarted'
  BY DEF CoreIsStarted, SandboxTypeOK, OnlyNowRuns, FSReady, startVars, fsVars, coreVars, archiveVars
<1>5. ExitFollowsEnd'
  BY DEF ExitFollowsEnd, SandboxTypeOK, CoreIsStarted, FS, Ends, FSReady, startVars, fsVars, coreVars, archiveVars
<1>6. ArchivesAreMade'
  BY DEF ArchivesAreMade, SandboxTypeOK, CoreIsStarted, Running, FSReady, startVars, fsVars, coreVars, archiveVars
<1>7. ArchiveIsConsistent'
  BY DEF ArchiveIsConsistent, SandboxTypeOK, CoreIsStarted, ArchivesAreMade, Running, FSReady, startVars, fsVars, coreVars, archiveVars
<1>8. BackendIsOwn'
  BY DEF BackendIsOwn, SandboxTypeOK, StartIsForward, BackendOf, FS, FSReady, startVars, fsVars, coreVars, archiveVars
<1> QED
  BY <1>1, <1>2, <1>3, <1>4, <1>5, <1>6, <1>7, <1>8

\* A daemon ends.
LEMMA FSEndsIInv ==
  ASSUME SandboxIInv, NEW f \in FS, FSEnds(f)
  PROVE  SandboxIInv'
<1> USE SandboxAssumption DEF SandboxIInv
<1>1. SandboxTypeOK'
  BY DEF SandboxTypeOK, Ends, FS, FSEnds, startVars, fsVars, coreVars, archiveVars, Runs
<1>2. StartIsForward'
  BY DEF StartIsForward, SandboxTypeOK, FS, FSEnds, startVars, fsVars, coreVars, archiveVars, Runs
<1>3. OnlyNowRuns'
  BY DEF OnlyNowRuns, SandboxTypeOK, FSEnds, startVars, fsVars, coreVars, archiveVars, Runs
<1>4. CoreIsStarted'
  BY DEF CoreIsStarted, SandboxTypeOK, OnlyNowRuns, FSEnds, startVars, fsVars, coreVars, archiveVars, Runs
<1>5. ExitFollowsEnd'
  BY DEF ExitFollowsEnd, SandboxTypeOK, CoreIsStarted, FS, Ends, FSEnds, startVars, fsVars, coreVars, archiveVars, Runs
<1>6. ArchivesAreMade'
  BY DEF ArchivesAreMade, SandboxTypeOK, CoreIsStarted, Running, FSEnds, startVars, fsVars, coreVars, archiveVars, Runs
<1>7. ArchiveIsConsistent'
  BY DEF ArchiveIsConsistent, SandboxTypeOK, CoreIsStarted, ArchivesAreMade, Running, FSEnds, startVars, fsVars, coreVars, archiveVars, Runs
<1>8. BackendIsOwn'
  BY DEF BackendIsOwn, SandboxTypeOK, StartIsForward, BackendOf, FS, FSEnds, startVars, fsVars, coreVars, archiveVars, Runs
<1> QED
  BY <1>1, <1>2, <1>3, <1>4, <1>5, <1>6, <1>7, <1>8

\* An archive starts; with another one at work they overlap.
LEMMA ArchiveStartIInv ==
  ASSUME SandboxIInv, NEW a \in Archiver, ArchiveStart(a)
  PROVE  SandboxIInv'
<1> USE SandboxAssumption DEF SandboxIInv
<1>1. SandboxTypeOK'
  BY DEF SandboxTypeOK, Ends, FS, ArchiveStart, startVars, fsVars, coreVars, archiveVars, Running
<1>2. StartIsForward'
  BY DEF StartIsForward, SandboxTypeOK, FS, ArchiveStart, startVars, fsVars, coreVars, archiveVars, Running
<1>3. OnlyNowRuns'
  BY DEF OnlyNowRuns, SandboxTypeOK, ArchiveStart, startVars, fsVars, coreVars, archiveVars, Running
<1>4. CoreIsStarted'
  BY DEF CoreIsStarted, SandboxTypeOK, OnlyNowRuns, ArchiveStart, startVars, fsVars, coreVars, archiveVars, Running
<1>5. ExitFollowsEnd'
  BY DEF ExitFollowsEnd, SandboxTypeOK, CoreIsStarted, FS, Ends, ArchiveStart, startVars, fsVars, coreVars, archiveVars, Running
<1>6. ArchivesAreMade'
  BY DEF ArchivesAreMade, SandboxTypeOK, CoreIsStarted, Running, ArchiveStart, startVars, fsVars, coreVars, archiveVars
<1>7. ArchiveIsConsistent'
  BY DEF ArchiveIsConsistent, SandboxTypeOK, CoreIsStarted, ArchivesAreMade, Running, ArchiveStart, startVars, fsVars, coreVars, archiveVars
<1>8. BackendIsOwn'
  BY DEF BackendIsOwn, SandboxTypeOK, StartIsForward, BackendOf, FS, ArchiveStart, startVars, fsVars, coreVars, archiveVars, Running
<1> QED
  BY <1>1, <1>2, <1>3, <1>4, <1>5, <1>6, <1>7, <1>8

\* The container is stopped for the archive.
LEMMA ArchivePauseIInv ==
  ASSUME SandboxIInv, NEW a \in Archiver, ArchivePause(a)
  PROVE  SandboxIInv'
<1> USE SandboxAssumption DEF SandboxIInv
<1>1. SandboxTypeOK'
  BY DEF SandboxTypeOK, Ends, FS, ArchivePause, startVars, fsVars, coreVars, archiveVars, Paused
<1>2. StartIsForward'
  BY DEF StartIsForward, SandboxTypeOK, FS, ArchivePause, startVars, fsVars, coreVars, archiveVars, Paused
<1>3. OnlyNowRuns'
  BY DEF OnlyNowRuns, SandboxTypeOK, ArchivePause, startVars, fsVars, coreVars, archiveVars, Paused
<1>4. CoreIsStarted'
  BY DEF CoreIsStarted, SandboxTypeOK, OnlyNowRuns, ArchivePause, startVars, fsVars, coreVars, archiveVars, Paused
<1>5. ExitFollowsEnd'
  BY DEF ExitFollowsEnd, SandboxTypeOK, CoreIsStarted, FS, Ends, ArchivePause, startVars, fsVars, coreVars, archiveVars, Paused
<1>6. ArchivesAreMade'
  BY DEF ArchivesAreMade, SandboxTypeOK, CoreIsStarted, Running, ArchivePause, startVars, fsVars, coreVars, archiveVars, Paused
<1>7. ArchiveIsConsistent'
  BY DEF ArchiveIsConsistent, SandboxTypeOK, CoreIsStarted, ArchivesAreMade, Running, ArchivePause, startVars, fsVars, coreVars, archiveVars, Paused
<1>8. BackendIsOwn'
  BY DEF BackendIsOwn, SandboxTypeOK, StartIsForward, BackendOf, FS, ArchivePause, startVars, fsVars, coreVars, archiveVars, Paused
<1> QED
  BY <1>1, <1>2, <1>3, <1>4, <1>5, <1>6, <1>7, <1>8

\* The container is resumed: nobody but an overlapping archive had stopped it.
LEMMA ArchiveEndIInv ==
  ASSUME SandboxIInv, NEW a \in Archiver, ArchiveEnd(a)
  PROVE  SandboxIInv'
<1> USE SandboxAssumption DEF SandboxIInv
<1>1. SandboxTypeOK'
  <2>1. stopped' \in BOOLEAN /\ meta' \in BOOLEAN
    BY DEF ArchiveEnd, startVars, fsVars, coreVars, archiveVars, Resumes
  <2>2. UNCHANGED <<start, todo, now, fs, jSet, once, backend, core, coreRunner, coreOver, pidSet, sb, missed, overlap>>
    BY DEF ArchiveEnd, startVars, fsVars, coreVars, archiveVars, Resumes
  <2>3. archive' = [archive EXCEPT ![a] = "over"]
    BY DEF ArchiveEnd, startVars, fsVars, coreVars, archiveVars, Resumes, SandboxTypeOK
  <2> QED
    BY <2>1, <2>2, <2>3 DEF SandboxTypeOK
<1>2. StartIsForward'
  BY DEF StartIsForward, SandboxTypeOK, FS, ArchiveEnd, startVars, fsVars, coreVars, archiveVars, Resumes
<1>3. OnlyNowRuns'
  BY DEF OnlyNowRuns, SandboxTypeOK, ArchiveEnd, startVars, fsVars, coreVars, archiveVars, Resumes
<1>4. CoreIsStarted'
  BY DEF CoreIsStarted, SandboxTypeOK, OnlyNowRuns, ArchiveEnd, startVars, fsVars, coreVars, archiveVars, Resumes
<1>5. ExitFollowsEnd'
  BY DEF ExitFollowsEnd, SandboxTypeOK, CoreIsStarted, FS, Ends, ArchiveEnd, startVars, fsVars, coreVars, archiveVars, Resumes
<1>6. ArchivesAreMade'
  BY DEF ArchivesAreMade, SandboxTypeOK, CoreIsStarted, Running, ArchiveEnd, startVars, fsVars, coreVars, archiveVars, Resumes
<1>7. ArchiveIsConsistent'
  BY DEF ArchiveIsConsistent, SandboxTypeOK, CoreIsStarted, ArchivesAreMade, Running, ArchiveEnd, startVars, fsVars, coreVars, archiveVars, Resumes
<1>8. BackendIsOwn'
  BY DEF BackendIsOwn, SandboxTypeOK, StartIsForward, BackendOf, FS, ArchiveEnd, startVars, fsVars, coreVars, archiveVars, Resumes
<1> QED
  BY <1>1, <1>2, <1>3, <1>4, <1>5, <1>6, <1>7, <1>8

\* A step that changes nothing.
LEMMA SandboxStutter ==
  ASSUME SandboxIInv, UNCHANGED sandboxVars
  PROVE  SandboxIInv'
<1> USE SandboxAssumption DEF SandboxIInv
<1>1. SandboxTypeOK'
  BY DEF SandboxTypeOK, Ends, FS, sandboxVars, startVars, fsVars, coreVars, archiveVars
<1>2. StartIsForward'
  BY DEF StartIsForward, SandboxTypeOK, FS, sandboxVars, startVars, fsVars, coreVars, archiveVars
<1>3. OnlyNowRuns'
  BY DEF OnlyNowRuns, SandboxTypeOK, sandboxVars, startVars, fsVars, coreVars, archiveVars
<1>4. CoreIsStarted'
  BY DEF CoreIsStarted, SandboxTypeOK, OnlyNowRuns, sandboxVars, startVars, fsVars, coreVars, archiveVars
<1>5. ExitFollowsEnd'
  BY DEF ExitFollowsEnd, SandboxTypeOK, CoreIsStarted, FS, Ends, sandboxVars, startVars, fsVars, coreVars, archiveVars
<1>6. ArchivesAreMade'
  BY DEF ArchivesAreMade, SandboxTypeOK, CoreIsStarted, Running, sandboxVars, startVars, fsVars, coreVars, archiveVars
<1>7. ArchiveIsConsistent'
  BY DEF ArchiveIsConsistent, SandboxTypeOK, CoreIsStarted, ArchivesAreMade, Running, sandboxVars, startVars, fsVars, coreVars, archiveVars
<1>8. BackendIsOwn'
  BY DEF BackendIsOwn, SandboxTypeOK, StartIsForward, BackendOf, FS, sandboxVars, startVars, fsVars, coreVars, archiveVars
<1> QED
  BY <1>1, <1>2, <1>3, <1>4, <1>5, <1>6, <1>7, <1>8

\* Nothing is mounted and nobody runs at first.
LEMMA SandboxInitIInv == SandboxInit => SandboxIInv
<1> SUFFICES ASSUME SandboxInit PROVE SandboxIInv
  OBVIOUS
<1> USE SandboxAssumption DEF SandboxInit
<1>1. SandboxTypeOK
  BY DEF SandboxTypeOK, FS
<1>2. StartIsForward /\ OnlyNowRuns /\ CoreIsStarted /\ ExitFollowsEnd
  BY DEF StartIsForward, OnlyNowRuns, CoreIsStarted, ExitFollowsEnd
<1>3. ArchivesAreMade /\ ArchiveIsConsistent /\ BackendIsOwn
  BY DEF ArchivesAreMade, ArchiveIsConsistent, BackendIsOwn, Running
<1> QED
  BY <1>1, <1>2, <1>3 DEF SandboxIInv

\* subsys/containers: wherever Start, coreX or a g8ufs daemon ends, cleanup and onSBExit
\* between them take down what was mounted, no daemon loses its state while it runs but
\* for a root flist that is mounted twice, a container outlives its root only if Start
\* had not assigned runner, and archives are of a container that stands still and goes on
\* afterwards.
THEOREM FileSystemsTakenDown == FileSystemSpec => []FileSystemsAreTakenDown
<1>1. SandboxInit => SandboxIInv
  BY SandboxInitIInv
<1>2. SandboxIInv /\ [SandboxNext]_sandboxVars => SandboxIInv'
  <2> SUFFICES ASSUME SandboxIInv, [SandboxNext]_sandboxVars PROVE SandboxIInv'
    OBVIOUS
  <2>1. CASE StartSteps
    BY <2>1, StartSandboxIInv, StartMountIInv, StartRunIInv, StartAssignIInv, StartCleanupIInv,
       MountFListRunIInv, MountFListAssignIInv, MountFListReturnIInv DEF StartSteps
  <2>2. CASE JobSteps
    BY <2>2, SBExitIInv, SBWaitsIInv, SBCleanIInv, ExitHookIInv, CoreCleanupIInv DEF JobSteps
  <2>3. CASE MergeFList \/ CoreOnStart \/ CoreDies
    BY <2>3, MergeFListIInv, CoreOnStartIInv, CoreDiesIInv
  <2>4. ASSUME NEW f \in FS, FSReady(f) \/ FSEnds(f)
        PROVE  SandboxIInv'
    BY <2>4, FSReadyIInv, FSEndsIInv
  <2>5. ASSUME NEW a \in Archiver, ArchiveStart(a) \/ ArchivePause(a) \/ ArchiveEnd(a)
        PROVE  SandboxIInv'
    BY <2>5, ArchiveStartIInv, ArchivePauseIInv, ArchiveEndIInv
  <2>6. CASE UNCHANGED sandboxVars
    BY <2>6, SandboxStutter
  <2> QED
    BY <2>1, <2>2, <2>3, <2>4, <2>5, <2>6 DEF SandboxNext
<1>3. SandboxIInv => FileSystemsAreTakenDown
  <2> SUFFICES ASSUME SandboxIInv PROVE FileSystemsAreTakenDown
    OBVIOUS
  <2> USE DEF SandboxIInv
  <2>1. SandboxIsCleaned
    BY DEF SandboxIsCleaned, CoreIsStarted, ExitFollowsEnd
  <2>2. OrphanOnlyInRace
    BY DEF OrphanOnlyInRace, ExitFollowsEnd
  <2>3. StoppedOnlyByArchive
    BY DEF StoppedOnlyByArchive, ArchivesAreMade, Running
  <2> QED
    BY <2>1, <2>2, <2>3 DEF FileSystemsAreTakenDown
<1> QED
  BY <1>1, <1>2, <1>3, PTL DEF FileSystemSpec

-----------------------------------------------------------------------------
(* File commands.                                                          *)

\* A command that has a handle, and one that walks.
HandleUser == [pc : {"opened", "got", "use"}, h : Handle]
Walker == [pc : {"walk"}, root : Path, todo : SUBSET Path, perm : Perm, clean : BOOLEAN]

\* The types of the variables.
FileTypeOK ==
  /\ cached \in [Handle -> {"none", "fresh", "expired"}]
  /\ fd \in [Handle -> {"none", "open", "closed"}]
  /\ DOMAIN opened = Handle /\ hands \subseteq Handle
  /\ user \in [User -> {NoUser} \cup HandleUser \cup Walker]
  /\ node \in [Path -> {"none", "dir", "file"}] /\ perm \in [Path -> Perm]

\* Commands that have a handle in their hands.
Holds(u, h) == user[u] \in HandleUser /\ user[u].h = h

\* A handle that is not open yet is nowhere.
NewIsUnknown ==
  \A h \in Handle : fd[h] = "none" =>
    cached[h] = "none" /\ h \notin hands /\ \A u \in User : ~Holds(u, h)

\* Until open has put its handle in the cache nobody else has it.
OpenedIsOwn ==
  \A u \in User, h \in Handle : Doing(u, "opened") /\ Holds(u, h) =>
    /\ fd[h] = "open" /\ cached[h] = "none" /\ h \notin hands
    /\ \A v \in User : Holds(v, h) => v = u

\* What the cache dropped is not in it, unless it was put back.
DroppedIsOut == \A h \in hands : cached[h] = "none" \/ h \in stale

\* Everything is in directories.
TreeIsClosed == \A p \in Path : Here(p) => \A q \in Above(p) : node[q] = "dir"

\* A path a walk will still get to.
Pending(u, p) == \E q \in user[u].todo : p = q \/ p \in Below(q)

\* What is to be changed by a walk that was not disturbed is at or below a path it
\* still has to visit.
WalkGoesOn ==
  \A u \in User : user[u] \in Walker /\ user[u].clean =>
    \A p \in Below(user[u].root) \cup {user[u].root} :
      Here(p) => perm[p] = user[u].perm \/ Pending(u, p)

\* The inductive invariant of the file commands.
FileIInv ==
  /\ FileTypeOK /\ NewIsUnknown /\ OpenedIsOwn /\ DroppedIsOut /\ ModeAsPython /\ OpenIsTracked
  /\ CachedIsOpen /\ TreeIsClosed /\ WalkGoesOn

-----------------------------------------------------------------------------
(* Modes.                                                                  *)

\* A mode has one letter, and may have plusses besides.
LEMMA ModeLetter ==
  ASSUME NEW text \in Seq(STRING), IsMode(text)
  PROVE  \E c \in {"r", "x", "w", "a"} : c \in ToSet(text) /\ ToSet(text) \subseteq {c, "+"}
<1> DEFINE letters == {i \in DOMAIN text : text[i] # "+"}
<1>1. IsFiniteSet(letters)
  <2>1. IsFiniteSet(1..Len(text)) /\ DOMAIN text = 1..Len(text)
    BY FS_Interval
  <2>2. letters \subseteq 1..Len(text)
    BY <2>1
  <2> QED
    BY <2>1, <2>2, FS_Subset
<1>2. Cardinality(letters) = 1
  BY DEF IsMode
<1>3. \E x : letters = {x}
  <2> HIDE DEF letters
  <2> QED
    BY <1>1, <1>2, FS_Singleton
<1>4. PICK k : letters = {k}
  BY <1>3
<1>5. k \in DOMAIN text /\ text[k] \in {"r", "x", "w", "a"}
  BY <1>4 DEF IsMode
<1>6. \A i \in DOMAIN text : text[i] \in {text[k], "+"}
  BY <1>4
<1> QED
  BY <1>5, <1>6 DEF ToSet

\* mode of base/builtin/fs.go gives the flags that Python's open gives.
LEMMA FlagsAsPython ==
  ASSUME NEW text \in Seq(STRING), IsMode(text)
  PROVE  LET chars == ToSet(text)  flags == Flags(text) IN
         /\ "CREATE" \in flags <=> "r" \notin chars
         /\ "TRUNC" \in flags <=> "w" \in chars
         /\ "APPEND" \in flags <=> "a" \in chars
         /\ "EXCL" \in flags <=> "x" \in chars
         /\ "RDWR" \in flags <=> "+" \in chars
         /\ "RDONLY" \in flags <=> "r" \in chars /\ "+" \notin chars
<1>1. PICK c \in {"r", "x", "w", "a"} : c \in ToSet(text) /\ ToSet(text) \subseteq {c, "+"}
  BY ModeLetter
<1>2. FlagsOf("+") = {} /\ FlagsOf("r") = {} /\ FlagsOf("x") = {"CREATE", "EXCL"}
      /\ FlagsOf("w") = {"CREATE", "TRUNC"} /\ FlagsOf("a") = {"CREATE", "APPEND"}
  BY DEF FlagsOf
<1>3. CASE "+" \in ToSet(text)
  <2>1. ToSet(text) = {c, "+"}
    BY <1>1, <1>3
  <2>2. \A x : x \in Flags(text) <=> x \in FlagsOf(c) \/ x = "RDWR"
    <3>1. \E d \in ToSet(text) : Reads(d)
      BY <1>3 DEF Reads
    <3>2. \E d \in ToSet(text) : Writes(d)
      BY <1>3 DEF Writes
    <3>4. PICK w : w = IF (\E d \in ToSet(text) : Reads(d)) /\ (\E d \in ToSet(text) : Writes(d))
                       THEN "RDWR" ELSE IF \E d \in ToSet(text) : Writes(d) THEN "WRONLY" ELSE "RDONLY"
      OBVIOUS
    <3>5. Flags(text) = (UNION {FlagsOf(d) : d \in ToSet(text)}) \cup {w}
      BY <3>4 DEF Flags
    <3>6. w = "RDWR"
      BY <3>1, <3>2, <3>4
    <3>7. \A x : x \in Flags(text) <=> (\E d \in ToSet(text) : x \in FlagsOf(d)) \/ x = w
      BY <3>5
    <3> QED
      BY <1>2, <2>1, <3>6, <3>7
  <2> QED
    BY <1>1, <1>2, <2>1, <2>2
<1>4. CASE "+" \notin ToSet(text)
  <2>1. ToSet(text) = {c}
    BY <1>1, <1>4
  <2>2. \A x : x \in Flags(text) <=> x \in FlagsOf(c) \/ x = IF c = "r" THEN "RDONLY" ELSE "WRONLY"
    <3>1. (\E d \in ToSet(text) : Reads(d)) <=> c = "r"
      BY <2>1, <1>1 DEF Reads
    <3>2. (\E d \in ToSet(text) : Writes(d)) <=> c # "r"
      BY <2>1, <1>1 DEF Writes
    <3>4. PICK w : w = IF (\E d \in ToSet(text) : Reads(d)) /\ (\E d \in ToSet(text) : Writes(d))
                       THEN "RDWR" ELSE IF \E d \in ToSet(text) : Writes(d) THEN "WRONLY" ELSE "RDONLY"
      OBVIOUS
    <3>5. Flags(text) = (UNION {FlagsOf(d) : d \in ToSet(text)}) \cup {w}
      BY <3>4 DEF Flags
    <3>6. w = (IF c = "r" THEN "RDONLY" ELSE "WRONLY")
      BY <3>1, <3>2, <3>4
    <3>7. \A x : x \in Flags(text) <=> (\E d \in ToSet(text) : x \in FlagsOf(d)) \/ x = w
      BY <3>5
    <3> QED
      BY <1>2, <2>1, <3>6, <3>7
  <2> QED
    BY <1>1, <1>2, <2>1, <2>2
<1> QED
  BY <1>3, <1>4

-----------------------------------------------------------------------------
(* Paths.                                                                  *)

\* A prefix agrees with what it is a prefix of.
LEMMA PrefixIs ==
  ASSUME NEW p \in Seq(STRING), NEW q \in Seq(STRING)
  PROVE  IsPrefix(p, q) <=> Len(p) <= Len(q) /\ \A i \in 1..Len(p) : p[i] = q[i]
<1>1. ASSUME Len(p) <= Len(q)
      PROVE  /\ SubSeq(p, 1, Len(p)) \in Seq(STRING) /\ Len(SubSeq(p, 1, Len(p))) = Len(p)
             /\ SubSeq(q, 1, Len(p)) \in Seq(STRING) /\ Len(SubSeq(q, 1, Len(p))) = Len(p)
             /\ \A i \in 1..Len(p) : SubSeq(p, 1, Len(p))[i] = p[i] /\ SubSeq(q, 1, Len(p))[i] = q[i]
  BY <1>1
<1> HIDE DEF IsPrefix
<1>2. ASSUME Len(p) <= Len(q), SubSeq(p, 1, Len(p)) = SubSeq(q, 1, Len(p))
      PROVE  \A i \in 1..Len(p) : p[i] = q[i]
  BY <1>1, <1>2
<1>3. ASSUME Len(p) <= Len(q), \A i \in 1..Len(p) : p[i] = q[i]
      PROVE  SubSeq(p, 1, Len(p)) = SubSeq(q, 1, Len(p))
  BY <1>1, <1>3
<1> QED
  BY <1>2, <1>3 DEF IsPrefix

\* Below and Above, name by name.
LEMMA BelowIs ==
  ASSUME NEW p \in Path, NEW q \in Path
  PROVE  /\ q \in Below(p) <=> Len(q) > Len(p) /\ \A i \in 1..Len(p) : p[i] = q[i]
         /\ p \in Above(q) <=> q \in Below(p)
         /\ Len(p) \in Nat /\ Len(p) > 0
<1>1. p \in Seq(STRING) /\ q \in Seq(STRING) /\ p # <<>>
  BY FileAssumption
<1>2. IsPrefix(p, q) <=> Len(p) <= Len(q) /\ \A i \in 1..Len(p) : p[i] = q[i]
  BY <1>1, PrefixIs
<1>3. Len(p) \in Nat /\ Len(q) \in Nat /\ Len(p) > 0
  BY <1>1
<1> QED
  BY <1>2, <1>3 DEF Below, Above

\* What is below a path is below one of its children, or is one.
LEMMA ChildTowards ==
  ASSUME NEW p \in Path, NEW q \in Below(p)
  PROVE  \E c \in Path : /\ c \in Below(p) /\ Len(c) = Len(p) + 1
                         /\ c = q \/ q \in Below(c)
<1>1. q \in Path /\ Len(q) > Len(p) /\ \A i \in 1..Len(p) : p[i] = q[i]
  BY BelowIs DEF Below
<1>2. Len(p) \in Nat /\ Len(q) \in Nat /\ q \in Seq(STRING)
  BY <1>1, BelowIs, FileAssumption
<1>3. PICK c : c = SubSeq(q, 1, Len(p) + 1)
  OBVIOUS
<1>4. c \in Path
  BY <1>1, <1>2, <1>3, FileAssumption
<1>5. Len(c) = Len(p) + 1 /\ \A i \in 1..(Len(p) + 1) : c[i] = q[i]
  BY <1>1, <1>2, <1>3
<1>6. c \in Below(p)
  BY <1>1, <1>2, <1>4, <1>5, BelowIs
<1>7. CASE Len(q) = Len(c)
  <2>1. c \in Seq(STRING) /\ q \in Seq(STRING) /\ \A i \in 1..Len(c) : c[i] = q[i]
    BY <1>2, <1>4, <1>5, FileAssumption
  <2>2. c = q
    BY <2>1, <1>7
  <2> QED
    BY <1>4, <1>5, <1>6, <2>2
<1>8. CASE Len(q) # Len(c)
  <2>1. q \in Below(c)
    BY <1>1, <1>2, <1>4, <1>5, <1>8, BelowIs
  <2> QED
    BY <1>4, <1>5, <1>6, <2>1
<1> QED
  BY <1>7, <1>8

-----------------------------------------------------------------------------
(* Commands.                                                               *)

\* A command is idle, has a handle, or walks over a tree.
LEMMA UserKinds ==
  ASSUME FileTypeOK, NEW u \in User
  PROVE  \/ user[u] = NoUser /\ user[u].pc = "idle" /\ user[u] \notin HandleUser /\ user[u] \notin Walker
         \/ user[u] \in HandleUser /\ user[u] \notin Walker /\ user[u].pc \in {"opened", "got", "use"}
            /\ user[u].h \in Handle
         \/ user[u] \in Walker /\ user[u] \notin HandleUser /\ user[u].pc = "walk"
<1>1. user[u] \in {NoUser} \cup HandleUser \cup Walker
  BY DEF FileTypeOK
<1>2. ASSUME NEW x \in HandleUser PROVE x.pc \in {"opened", "got", "use"} /\ x.h \in Handle
  BY DEF HandleUser
<1>3. ASSUME NEW x \in Walker PROVE x.pc = "walk"
  BY DEF Walker
<1>4. NoUser.pc = "idle"
  BY DEF NoUser
<1> QED
  BY <1>1, <1>2, <1>3, <1>4

\* Commands on handles leave the tree and its walkers alone.
LEMMA HandleFrame ==
  ASSUME FileIInv, UNCHANGED treeVars, \A u \in User : user'[u] \in Walker => user'[u] = user[u]
  PROVE  TreeIsClosed' /\ WalkGoesOn'
<1>1. TreeIsClosed'
  BY DEF FileIInv, TreeIsClosed, treeVars, Here, Above
<1>2. WalkGoesOn'
  BY DEF FileIInv, WalkGoesOn, treeVars, Here, Pending, Below
<1> QED
  BY <1>1, <1>2

\* Commands on paths leave the handles, and who has them, alone.
LEMMA TreeFrame ==
  ASSUME FileIInv, UNCHANGED handleVars, FileTypeOK',
         \A u \in User : user[u] \in HandleUser \/ user'[u] \in HandleUser => user'[u] = user[u]
  PROVE  /\ NewIsUnknown' /\ OpenedIsOwn' /\ DroppedIsOut' /\ ModeAsPython' /\ OpenIsTracked'
         /\ CachedIsOpen'
<1> USE DEF FileIInv, handleVars
<1>1. \A u \in User, h \in Handle : Holds(u, h)' <=> Holds(u, h)
  BY DEF Holds
<1>2. NewIsUnknown'
  BY <1>1 DEF NewIsUnknown
<1>3. OpenedIsOwn'
  BY <1>1 DEF OpenedIsOwn, Doing, Holds
<1>4. DroppedIsOut' /\ CachedIsOpen' /\ ModeAsPython'
  BY DEF DroppedIsOut, CachedIsOpen, ModeAsPython
<1>5. OpenIsTracked'
  <2> SUFFICES ASSUME NEW h \in Handle, fd[h] = "open", cached[h] = "none", h \notin hands
               PROVE  \E u \in User : user'[u].pc = "opened" /\ user'[u].h = h
    BY DEF OpenIsTracked
  <2>1. PICK u \in User : user[u].pc = "opened" /\ user[u].h = h
    BY DEF OpenIsTracked
  <2>2. user[u] \in HandleUser
    BY <2>1, UserKinds
  <2> QED
    BY <2>1, <2>2
<1> QED
  BY <1>2, <1>3, <1>4, <1>5

\* open: the file is new to everybody.
LEMMA OpenIInv ==
  ASSUME FileIInv, NEW u \in User, Open(u)
  PROVE  FileIInv'
<1> USE DEF FileIInv
<1>1. PICK h \in Handle, text \in ModeText :
        /\ fd[h] = "none" /\ IsMode(text)
        /\ fd' = [fd EXCEPT ![h] = "open"]
        /\ opened' = [opened EXCEPT ![h] = [text |-> text, flags |-> Flags(text)]]
        /\ user' = [user EXCEPT ![u] = [pc |-> "opened", h |-> h]]
  BY DEF Open
<1>2. user[u].pc = "idle" /\ UNCHANGED <<cached, hands, stale, treeVars>>
  BY DEF Open, Doing
<1>0. PICK f : f = [pc |-> "opened", h |-> h]
  OBVIOUS
<1>3. f \in HandleUser /\ f = [pc |-> "opened", h |-> h] /\ f.pc = "opened" /\ f.h = h
  BY <1>0 DEF HandleUser
<1>4. /\ user' \in [User -> {NoUser} \cup HandleUser \cup Walker]
      /\ \A v \in User : user'[v] = IF v = u THEN f ELSE user[v]
  BY <1>1, <1>3 DEF FileTypeOK
<1>5. user[u] = NoUser /\ user[u] \notin HandleUser /\ f \notin Walker
  BY <1>2, <1>3, UserKinds DEF Walker
<1>6. FileTypeOK'
  BY <1>1, <1>2, <1>4 DEF FileTypeOK, treeVars
<1>7. \A v \in User, g \in Handle : Holds(v, g)' <=> Holds(v, g) \/ (v = u /\ g = h)
  BY <1>3, <1>4, <1>5 DEF Holds
<1>8. \A g \in Handle : fd'[g] = IF g = h THEN "open" ELSE fd[g]
  BY <1>1 DEF FileTypeOK
<1>9. NewIsUnknown'
  BY <1>2, <1>7, <1>8 DEF NewIsUnknown
<1>10. OpenedIsOwn'
  <2> SUFFICES ASSUME NEW v \in User, NEW g \in Handle, Doing(v, "opened")', Holds(v, g)'
               PROVE  /\ fd'[g] = "open" /\ cached'[g] = "none" /\ g \notin hands'
                      /\ \A w \in User : Holds(w, g)' => w = v
    BY DEF OpenedIsOwn
  <2>1. cached[h] = "none" /\ h \notin hands /\ \A w \in User : ~Holds(w, h)
    BY <1>1 DEF NewIsUnknown
  <2>2. CASE v = u
    <3>1. ~Holds(u, g)
      BY <1>5 DEF Holds
    <3>2. g = h
      BY <1>7, <2>2, <3>1
    <3> QED
      BY <1>2, <1>7, <1>8, <2>1, <2>2, <3>2
  <2>3. CASE v # u
    <3>1. Holds(v, g) /\ g # h /\ Doing(v, "opened")
      BY <1>4, <1>7, <2>1, <2>3 DEF Doing
    <3> QED
      BY <1>2, <1>7, <1>8, <2>3, <3>1 DEF OpenedIsOwn
  <2> QED
    BY <2>2, <2>3
<1>11. DroppedIsOut'
  BY <1>2 DEF DroppedIsOut
<1>12. ModeAsPython'
  <2>1. opened'[h] = [text |-> text, flags |-> Flags(text)]
        /\ \A g \in Handle : g # h => opened'[g] = opened[g] /\ fd'[g] = fd[g]
    BY <1>1, <1>8 DEF FileTypeOK
  <2>2. opened'[h].text = text /\ opened'[h].flags = Flags(text)
    BY <2>1
  <2>3. text \in Seq(STRING)
    BY FileAssumption
  <2>4. LET chars == ToSet(opened'[h].text)  flags == opened'[h].flags IN
        /\ "CREATE" \in flags <=> "r" \notin chars
        /\ "TRUNC" \in flags <=> "w" \in chars
        /\ "APPEND" \in flags <=> "a" \in chars
        /\ "EXCL" \in flags <=> "x" \in chars
        /\ "RDWR" \in flags <=> "+" \in chars
        /\ "RDONLY" \in flags <=> "r" \in chars /\ "+" \notin chars
    BY <1>1, <2>2, <2>3, FlagsAsPython
  <2> QED
    BY <2>1, <2>4 DEF ModeAsPython
<1>13. OpenIsTracked'
  <2> SUFFICES ASSUME NEW g \in Handle, fd'[g] = "open"
               PROVE  \/ cached'[g] # "none" \/ g \in hands'
                      \/ \E v \in User : user'[v].pc = "opened" /\ user'[v].h = g
    BY DEF OpenIsTracked
  <2>1. CASE g = h
    BY <1>3, <1>4, <2>1
  <2>2. CASE g # h /\ cached[g] = "none" /\ g \notin hands
    <3>1. PICK v \in User : user[v].pc = "opened" /\ user[v].h = g
      BY <1>8, <2>2 DEF OpenIsTracked
    <3> QED
      BY <1>2, <1>4, <3>1
  <2> QED
    BY <1>2, <2>1, <2>2
<1>14. CachedIsOpen'
  BY <1>1, <1>2, <1>8 DEF CachedIsOpen, NewIsUnknown
<1>15. TreeIsClosed' /\ WalkGoesOn'
  BY <1>2, <1>4, <1>5, HandleFrame
<1> QED
  BY <1>6, <1>9, <1>10, <1>11, <1>12, <1>13, <1>14, <1>15

\* open: the handle gets into the cache.
LEMMA OpenSetIInv ==
  ASSUME FileIInv, NEW u \in User, OpenSet(u)
  PROVE  FileIInv'
<1> USE DEF FileIInv
<1>1. /\ user[u] \in HandleUser /\ user[u].pc = "opened" /\ UNCHANGED <<fd, opened, hands, stale, treeVars>>
      /\ user[u].h \in Handle
  BY UserKinds DEF OpenSet, Doing
<1>2. PICK h \in Handle : h = user[u].h /\ Holds(u, h) /\ Doing(u, "opened")
  BY <1>1 DEF Holds, Doing
<1>3. \A g \in Handle : cached'[g] = IF g = h THEN "fresh" ELSE cached[g]
  BY <1>2 DEF OpenSet, Refreshed, FileTypeOK
<1>4. \A v \in User : user'[v] = IF v = u THEN NoUser ELSE user[v]
  BY DEF OpenSet, FileTypeOK
<1>5. FileTypeOK'
  BY <1>1, <1>2 DEF OpenSet, FileTypeOK, treeVars, Refreshed
<1>6. NoUser \notin HandleUser /\ NoUser \notin Walker /\ NoUser.pc = "idle"
  BY DEF NoUser, HandleUser, Walker
<1>7. \A v \in User, g \in Handle : Holds(v, g)' <=> Holds(v, g) /\ v # u
  BY <1>4, <1>6 DEF Holds
<1>8. fd[h] = "open" /\ cached[h] = "none" /\ h \notin hands /\ \A v \in User : Holds(v, h) => v = u
  BY <1>2 DEF OpenedIsOwn
<1>9. NewIsUnknown' /\ DroppedIsOut' /\ CachedIsOpen'
  BY <1>1, <1>3, <1>7, <1>8 DEF NewIsUnknown, DroppedIsOut, CachedIsOpen, FileTypeOK
<1>10. OpenedIsOwn'
  <2> SUFFICES ASSUME NEW v \in User, NEW g \in Handle, Doing(v, "opened")', Holds(v, g)'
               PROVE  /\ fd'[g] = "open" /\ cached'[g] = "none" /\ g \notin hands'
                      /\ \A w \in User : Holds(w, g)' => w = v
    BY DEF OpenedIsOwn
  <2>1. v # u /\ Holds(v, g) /\ Doing(v, "opened") /\ g # h
    BY <1>4, <1>7, <1>8 DEF Doing
  <2> QED
    BY <1>1, <1>3, <1>7, <2>1 DEF OpenedIsOwn
<1>11. ModeAsPython'
  BY <1>1 DEF ModeAsPython
<1>12. OpenIsTracked'
  <2> SUFFICES ASSUME NEW g \in Handle, fd[g] = "open", cached'[g] = "none", g \notin hands
               PROVE  \E v \in User : user'[v].pc = "opened" /\ user'[v].h = g
    BY <1>1 DEF OpenIsTracked
  <2>1. PICK v \in User : user[v].pc = "opened" /\ user[v].h = g
    BY <1>3 DEF OpenIsTracked
  <2> QED
    BY <1>2, <1>3, <1>4, <2>1
<1>13. TreeIsClosed' /\ WalkGoesOn'
  BY <1>1, <1>4, <1>6, HandleFrame
<1> QED
  BY <1>5, <1>9, <1>10, <1>11, <1>12, <1>13

\* Commands that do not change files and the cache, or only start to count anew.
LEMMA UseIInv ==
  ASSUME FileIInv, NEW u \in User, UseGet(u) \/ UseSet(u) \/ Use(u)
  PROVE  FileIInv'
<1> USE DEF FileIInv
<1>1. /\ UNCHANGED <<fd, opened, hands, treeVars>>
      /\ user[u].pc # "opened"
      /\ user' \in [User -> {NoUser} \cup HandleUser \cup Walker]
      /\ \A v \in User : v # u => user'[v] = user[v]
      /\ user'[u] \in {NoUser} \cup HandleUser /\ user'[u].pc # "opened"
  <2>1. CASE UseGet(u)
    <3>1. PICK h \in Handle : user' = [user EXCEPT ![u] = [pc |-> "got", h |-> h]]
      BY <2>1 DEF UseGet
    <3>2. PICK f : f = [pc |-> "got", h |-> h]
      OBVIOUS
    <3>3. f \in HandleUser /\ f.pc = "got"
      BY <3>2 DEF HandleUser
    <3>4. user' = [user EXCEPT ![u] = f]
      BY <3>1, <3>2
    <3> QED
      BY <2>1, <3>3, <3>4 DEF UseGet, FileTypeOK, Doing, handleVars
  <2>2. CASE UseSet(u)
    <3>1. PICK m \in HandleUser : m = user[u] /\ m.pc = "got"
      BY <2>2, UserKinds DEF UseSet, Doing
    <3>2. PICK f : f = [m EXCEPT !.pc = "use"]
      OBVIOUS
    <3>3. f \in HandleUser /\ f.pc = "use"
      BY <3>2 DEF HandleUser
    <3>4. user' = [user EXCEPT ![u] = f]
      BY <2>2, <3>1, <3>2 DEF UseSet
    <3> QED
      BY <2>2, <3>3, <3>4 DEF UseSet, FileTypeOK, Doing
  <2>3. CASE Use(u)
    <3>1. NoUser.pc = "idle"
      BY DEF NoUser
    <3> QED
      BY <2>3, <3>1 DEF Use, FileTypeOK, Doing, handleVars
  <2> QED
    BY <2>1, <2>2, <2>3
<1>2. \A h \in Handle : Holds(u, h)' => Holds(u, h) \/ cached[h] # "none"
  <2>1. CASE UseGet(u)
    <3>1. PICK h \in Handle : cached[h] # "none" /\ user' = [user EXCEPT ![u] = [pc |-> "got", h |-> h]]
      BY <2>1 DEF UseGet
    <3>2. PICK f : f = [pc |-> "got", h |-> h]
      OBVIOUS
    <3>3. f.h = h /\ user'[u] = f
      BY <3>1, <3>2 DEF FileTypeOK
    <3> QED
      BY <3>1, <3>3 DEF Holds
  <2>2. CASE UseSet(u)
    <3>1. PICK m \in HandleUser : m = user[u] /\ m.pc = "got"
      BY <2>2, UserKinds DEF UseSet, Doing
    <3>2. PICK f : f = [m EXCEPT !.pc = "use"]
      OBVIOUS
    <3>3. f.h = m.h
      BY <3>1, <3>2 DEF HandleUser
    <3>4. user'[u] = f
      BY <2>2, <3>1, <3>2 DEF UseSet, FileTypeOK
    <3> QED
      BY <3>1, <3>3, <3>4 DEF Holds
  <2>3. CASE Use(u)
    <3>1. NoUser \notin HandleUser /\ user'[u] = NoUser
      BY <2>3 DEF NoUser, HandleUser, Use, FileTypeOK
    <3> QED
      BY <3>1 DEF Holds
  <2> QED
    BY <2>1, <2>2, <2>3
<1>3. /\ cached' \in [Handle -> {"none", "fresh", "expired"}]
      /\ \A h \in Handle : \/ cached'[h] = cached[h]
                           \/ /\ Holds(u, h) /\ cached'[h] = "fresh"
                              /\ cached[h] = "none" => h \in stale'
      /\ stale \subseteq stale'
  <2>1. CASE UseSet(u)
    <3>1. user[u] \in HandleUser /\ user[u].h \in Handle
      BY <2>1, UserKinds DEF UseSet, Doing
    <3> QED
      BY <2>1, <3>1 DEF UseSet, Refreshed, Holds, FileTypeOK
  <2>2. CASE UseGet(u) \/ Use(u)
    BY <2>2 DEF UseGet, Use, FileTypeOK, handleVars
  <2> QED
    BY <2>1, <2>2
<1>4. FileTypeOK'
  BY <1>1, <1>3 DEF FileTypeOK, treeVars
<1>5. \A v \in User, h \in Handle : v # u => (Holds(v, h)' <=> Holds(v, h))
  BY <1>1 DEF Holds
<1>6. NewIsUnknown'
  BY <1>1, <1>2, <1>3, <1>5 DEF NewIsUnknown
<1>7. OpenedIsOwn'
  <2> SUFFICES ASSUME NEW v \in User, NEW g \in Handle, Doing(v, "opened")', Holds(v, g)'
               PROVE  /\ fd'[g] = "open" /\ cached'[g] = "none" /\ g \notin hands'
                      /\ \A w \in User : Holds(w, g)' => w = v
    BY DEF OpenedIsOwn
  <2>1. v # u /\ Holds(v, g) /\ Doing(v, "opened")
    BY <1>1, <1>5 DEF Doing
  <2>2. fd[g] = "open" /\ cached[g] = "none" /\ g \notin hands /\ \A w \in User : Holds(w, g) => w = v
    BY <2>1 DEF OpenedIsOwn
  <2> QED
    BY <1>1, <1>2, <1>3, <1>5, <2>1, <2>2
<1>8. DroppedIsOut' /\ CachedIsOpen'
  BY <1>1, <1>3 DEF DroppedIsOut, CachedIsOpen, FileTypeOK
<1>9. ModeAsPython'
  BY <1>1 DEF ModeAsPython
<1>10. OpenIsTracked'
  <2> SUFFICES ASSUME NEW g \in Handle, fd[g] = "open", cached'[g] = "none", g \notin hands
               PROVE  \E v \in User : user'[v].pc = "opened" /\ user'[v].h = g
    BY <1>1 DEF OpenIsTracked
  <2>1. PICK v \in User : user[v].pc = "opened" /\ user[v].h = g
    BY <1>3 DEF OpenIsTracked
  <2> QED
    BY <1>1, <2>1
<1>11. NoUser \notin Walker /\ \A x \in HandleUser : x \notin Walker
  BY DEF NoUser, HandleUser, Walker
<1>12. TreeIsClosed' /\ WalkGoesOn'
  BY <1>1, <1>11, HandleFrame
<1> QED
  BY <1>4, <1>6, <1>7, <1>8, <1>9, <1>10, <1>12

\* close and the janitor drop handles, five minutes go by, and dropped files are closed.
LEMMA CacheIInv ==
  ASSUME FileIInv, \/ \E u \in User : Close(u)
                   \/ \E h \in Handle : Elapse(h) \/ Evict(h)
                   \/ Collect
  PROVE  FileIInv'
<1> USE DEF FileIInv
<1>1. UNCHANGED <<opened, user, stale, treeVars>>
  BY DEF Close, Elapse, Evict, Collect
<1>2. /\ cached' \in [Handle -> {"none", "fresh", "expired"}] /\ hands' \subseteq Handle
      /\ fd' \in [Handle -> {"none", "open", "closed"}]
  BY DEF Close, Elapse, Evict, Evicted, Collect, Dropped, FileTypeOK
<1>3. FileTypeOK'
  BY <1>1, <1>2 DEF FileTypeOK, treeVars
<1>4. \A v \in User, h \in Handle : Holds(v, h)' <=> Holds(v, h)
  BY <1>1 DEF Holds
<1>5. \A h \in Handle :
        \/ cached'[h] = cached[h] /\ fd'[h] = fd[h] /\ (h \in hands' <=> h \in hands)
        \/ cached[h] # "none" /\ cached'[h] = "none" /\ h \in hands' /\ fd'[h] = fd[h]
        \/ cached[h] # "none" /\ cached'[h] # "none" /\ (h \in hands' <=> h \in hands) /\ fd'[h] = fd[h]
        \/ h \in hands /\ h \notin hands' /\ cached'[h] = cached[h] /\ fd'[h] = "closed"
  BY DEF Close, Elapse, Evict, Evicted, Collect, Dropped, FileTypeOK
<1>6. NewIsUnknown' /\ DroppedIsOut' /\ CachedIsOpen'
  BY <1>1, <1>2, <1>4, <1>5 DEF NewIsUnknown, DroppedIsOut, CachedIsOpen, FileTypeOK
<1>7. OpenedIsOwn'
  BY <1>1, <1>4, <1>5 DEF OpenedIsOwn, Doing
<1>8. ModeAsPython'
  <2>1. \A h \in Handle : fd'[h] # "none" => fd[h] # "none"
    BY <1>5 DEF NewIsUnknown
  <2> QED
    BY <1>1, <2>1 DEF ModeAsPython
<1>9. OpenIsTracked'
  BY <1>1, <1>5 DEF OpenIsTracked
<1>10. TreeIsClosed' /\ WalkGoesOn'
  BY <1>1, HandleFrame
<1> QED
  BY <1>3, <1>6, <1>7, <1>8, <1>9, <1>10

-----------------------------------------------------------------------------
(* Commands on paths.                                                      *)

\* What is above something that is above a path is above the path.
LEMMA AboveTransitive ==
  ASSUME NEW p \in Path, NEW q \in Above(p), NEW r \in Above(q)
  PROVE  r \in Above(p) /\ q \in Path /\ r \in Path /\ r # q /\ q # p /\ r # p
<1>1. q \in Path /\ r \in Path
  BY DEF Above
<1>2. p \in Below(q) /\ q \in Below(r)
  BY <1>1, BelowIs
<1>3. Len(p) > Len(q) /\ Len(q) > Len(r) /\ Len(p) \in Nat /\ Len(q) \in Nat /\ Len(r) \in Nat
  BY <1>1, <1>2, BelowIs
<1>4. \A i \in 1..Len(r) : r[i] = p[i]
  BY <1>1, <1>2, <1>3, BelowIs
<1>5. p \in Below(r)
  BY <1>1, <1>3, <1>4, BelowIs
<1> QED
  BY <1>1, <1>3, <1>5, BelowIs

\* Of two paths above a third one, one is above the other or they are the same.
LEMMA AboveComparable ==
  ASSUME NEW p \in Path, NEW q \in Path, NEW r \in Path,
         q = p \/ q \in Above(p), r \in Above(p)
  PROVE  r \in Above(q) \/ r = q \/ r \in Below(q)
<1>1. /\ \A i \in 1..Len(q) : q[i] = p[i]
      /\ \A i \in 1..Len(r) : r[i] = p[i]
      /\ Len(q) \in Nat /\ Len(r) \in Nat /\ q \in Seq(STRING) /\ r \in Seq(STRING)
      /\ Len(p) \in Nat /\ Len(q) <= Len(p) /\ Len(r) < Len(p)
  BY BelowIs, FileAssumption
<1>2. CASE Len(r) < Len(q)
  <2>1. \A i \in 1..Len(r) : r[i] = q[i]
    BY <1>1, <1>2
  <2> QED
    BY <1>2, <2>1, BelowIs
<1>3. CASE Len(r) = Len(q)
  <2>1. \A i \in 1..Len(r) : r[i] = q[i]
    BY <1>1, <1>3
  <2>2. r = q
    BY <1>1, <1>3, <2>1
  <2> QED
    BY <2>2
<1>4. CASE Len(r) > Len(q)
  <2>1. \A i \in 1..Len(q) : q[i] = r[i]
    BY <1>1, <1>4
  <2> QED
    BY <1>4, <2>1, BelowIs
<1> QED
  BY <1>1, <1>2, <1>3, <1>4

\* A disturbed walk goes on as before, but is not clean any more.
LEMMA DisturbedFacts ==
  ASSUME FileTypeOK, NEW ps
  PROVE  /\ Disturbed(ps) \in [User -> {NoUser} \cup HandleUser \cup Walker]
         /\ \A v \in User : user[v] \notin Walker => Disturbed(ps)[v] = user[v]
         /\ \A v \in User : Disturbed(ps)[v] \in HandleUser => Disturbed(ps)[v] = user[v]
         /\ \A v \in User : Disturbed(ps)[v] \in Walker /\ Disturbed(ps)[v].clean =>
              /\ Disturbed(ps)[v] = user[v]
              /\ \A p \in Below(user[v].root) \cup {user[v].root} : p \notin ps
<1> SUFFICES ASSUME NEW v \in User
             PROVE  /\ Disturbed(ps)[v] \in {NoUser} \cup HandleUser \cup Walker
                    /\ user[v] \notin Walker => Disturbed(ps)[v] = user[v]
                    /\ Disturbed(ps)[v] \in HandleUser => Disturbed(ps)[v] = user[v]
                    /\ Disturbed(ps)[v] \in Walker /\ Disturbed(ps)[v].clean =>
                         /\ Disturbed(ps)[v] = user[v]
                         /\ \A p \in Below(user[v].root) \cup {user[v].root} : p \notin ps
  <2>1. Disturbed(ps) = [v \in User |-> Disturbed(ps)[v]]
    BY DEF Disturbed
  <2> QED
    BY <2>1
<1>1. CASE Doing(v, "walk") /\ (ps \cap Below(user[v].root) # {} \/ user[v].root \in ps)
  <2>1. user[v] \in Walker
    BY <1>1, UserKinds DEF Doing
  <2>2. PICK w : w = user[v]
    OBVIOUS
  <2>3. PICK f : f = [w EXCEPT !.clean = FALSE]
    OBVIOUS
  <2>4. f \in Walker /\ f.clean = FALSE
    BY <2>1, <2>2, <2>3 DEF Walker
  <2>5. Disturbed(ps)[v] = f
    BY <1>1, <2>2, <2>3 DEF Disturbed
  <2>6. f \notin HandleUser
    BY <2>4 DEF HandleUser, Walker
  <2> QED
    BY <2>1, <2>4, <2>5, <2>6
<1>2. CASE ~(Doing(v, "walk") /\ (ps \cap Below(user[v].root) # {} \/ user[v].root \in ps))
  <2>1. Disturbed(ps)[v] = user[v]
    BY <1>2 DEF Disturbed
  <2>2. user[v] \in {NoUser} \cup HandleUser \cup Walker
    BY DEF FileTypeOK
  <2>3. user[v] \in Walker => Doing(v, "walk")
    BY UserKinds DEF Doing
  <2> QED
    BY <1>2, <2>1, <2>2, <2>3
<1> QED
  BY <1>1, <1>2

\* A walk still has to visit what it has not changed, when outside of what disturbs
\* it nothing appears or changes its permissions.
LEMMA WalkKept ==
  ASSUME FileIInv, NEW ps, NEW v \in User, user'[v] = Disturbed(ps)[v],
         \A p \in Path : p \notin ps /\ node'[p] # "none" => node[p] # "none" /\ perm'[p] = perm[p],
         user'[v] \in Walker, user'[v].clean
  PROVE  \A p \in Below(user'[v].root) \cup {user'[v].root} :
           node'[p] # "none" => perm'[p] = user'[v].perm \/ Pending(v, p)'
<1>1. /\ user'[v] = user[v] /\ user[v] \in Walker /\ user[v].clean
      /\ \A p \in Below(user[v].root) \cup {user[v].root} : p \notin ps
  BY DisturbedFacts DEF FileIInv
<1>2. user[v].root \in Path /\ \A p \in Below(user[v].root) : p \in Path
  BY <1>1 DEF Below, Walker
<1>3. \A p : Pending(v, p) => Pending(v, p)'
  BY <1>1 DEF Pending, Below
<1>4. ASSUME NEW p \in Below(user[v].root) \cup {user[v].root}, node'[p] # "none"
      PROVE  perm'[p] = user[v].perm \/ Pending(v, p)'
  <2>1. p \in Path /\ p \notin ps
    BY <1>1, <1>2
  <2>2. node[p] # "none" /\ perm'[p] = perm[p]
    BY <1>4, <2>1
  <2>3. perm[p] = user[v].perm \/ Pending(v, p)
    BY <1>1, <2>2 DEF FileIInv, WalkGoesOn, Here
  <2> QED
    BY <1>3, <2>2, <2>3
<1> QED
  BY <1>1, <1>4

\* A command on paths that disturbs walkers as far as it adds or changes files.
LEMMA TreeChange ==
  ASSUME FileIInv, NEW ps, user' = Disturbed(ps), UNCHANGED handleVars,
         \A p \in Path : p \notin ps /\ node'[p] # "none" => node[p] # "none" /\ perm'[p] = perm[p],
         node' \in [Path -> {"none", "dir", "file"}], perm' \in [Path -> Perm],
         \A p \in Path : node'[p] # "none" => \A q \in Above(p) : node'[q] = "dir"
  PROVE  FileIInv'
<1> USE DEF FileIInv
<1>1. FileTypeOK'
  BY DisturbedFacts DEF FileTypeOK, handleVars
<1>2. \A v \in User : user[v] \in HandleUser \/ user'[v] \in HandleUser => user'[v] = user[v]
  <2>1. \A v \in User : user[v] \in HandleUser => user[v] \notin Walker
    BY DEF HandleUser, Walker
  <2> QED
    BY <2>1, DisturbedFacts
<1>3. TreeIsClosed'
  BY DEF TreeIsClosed, Here, Above
<1>4. WalkGoesOn'
  <2> SUFFICES ASSUME NEW v \in User, user'[v] \in Walker, user'[v].clean
               PROVE  \A p \in Below(user'[v].root) \cup {user'[v].root} :
                        node'[p] # "none" => perm'[p] = user'[v].perm \/ Pending(v, p)'
    BY DEF WalkGoesOn, Here, Below
  <2> QED
    BY WalkKept
<1> QED
  BY <1>1, <1>2, <1>3, <1>4, TreeFrame

\* A new path is one of the model: the permission of what is made exists.
LEMMA SomePermIs == SomePerm \in Perm
BY FileAssumption DEF SomePerm

\* mkdir adds directories on the way to a path, on which there is no file.
LEMMA MkdirIInv ==
  ASSUME FileIInv, NEW u \in User, NEW p \in Path, Mkdir(u, p)
  PROVE  FileIInv'
<1> DEFINE new == {q \in Above(p) \cup {p} : ~Here(q)}
<1>1. /\ \A q \in Above(p) \cup {p} : node[q] # "file"
      /\ node' = [q \in Path |-> IF q \in new THEN "dir" ELSE node[q]]
      /\ perm' = [q \in Path |-> IF q \in new THEN SomePerm ELSE perm[q]]
      /\ user' = Disturbed(new) /\ UNCHANGED handleVars
  BY DEF Mkdir
<1>2. node \in [Path -> {"none", "dir", "file"}] /\ perm \in [Path -> Perm] /\ TreeIsClosed
  BY DEF FileIInv, FileTypeOK
<1>3. \A q \in new : q \in Above(p) \cup {p} /\ node[q] = "none"
  BY DEF Here
<1>4. \A q \in Above(p) \cup {p} : q \in Path /\ node'[q] = "dir"
  BY <1>1, <1>2 DEF Here, Above
<1> HIDE DEF new
<1>5. node' \in [Path -> {"none", "dir", "file"}] /\ perm' \in [Path -> Perm]
  BY <1>1, <1>2, SomePermIs
<1>6. ASSUME NEW q \in Path, node'[q] # "none", NEW r \in Above(q)
      PROVE  node'[r] = "dir"
  <2>0. r \in Path
    BY DEF Above
  <2>1. CASE q \in new
    <3>1. r \in Above(p)
      BY <1>3, <2>1, AboveTransitive
    <3> QED
      BY <1>4, <3>1
  <2>2. CASE q \notin new
    <3>1. node[r] = "dir"
      BY <1>1, <1>6, <1>2, <2>2 DEF TreeIsClosed, Here
    <3> QED
      BY <1>1, <2>0, <3>1
  <2> QED
    BY <2>1, <2>2
<1>7. \A q \in Path : q \notin new /\ node'[q] # "none" => node[q] # "none" /\ perm'[q] = perm[q]
  BY <1>1
<1> QED
  BY <1>1, <1>5, <1>6, <1>7, TreeChange

\* A file is added in a directory.
LEMMA TouchIInv ==
  ASSUME FileIInv, NEW u \in User, NEW p \in Path, Touch(u, p)
  PROVE  FileIInv'
<1>1. /\ node[p] = "none" /\ \A q \in Above(p) : node[q] = "dir"
      /\ node' = [node EXCEPT ![p] = "file"] /\ perm' = [perm EXCEPT ![p] = SomePerm]
      /\ user' = Disturbed({p}) /\ UNCHANGED handleVars
  BY DEF Touch, Here
<1>2. node \in [Path -> {"none", "dir", "file"}] /\ perm \in [Path -> Perm] /\ TreeIsClosed
  BY DEF FileIInv, FileTypeOK
<1>3. node' \in [Path -> {"none", "dir", "file"}] /\ perm' \in [Path -> Perm]
  BY <1>1, <1>2, SomePermIs
<1>4. ASSUME NEW q \in Path, node'[q] # "none", NEW r \in Above(q)
      PROVE  node'[r] = "dir"
  <2>1. r \in Path
    BY DEF Above
  <2>2. node[r] = "dir"
    BY <1>1, <1>2, <1>4 DEF TreeIsClosed, Here
  <2> QED
    BY <1>1, <1>2, <2>1, <2>2
<1>5. \A q \in Path : q \notin {p} /\ node'[q] # "none" => node[q] # "none" /\ perm'[q] = perm[q]
  BY <1>1, <1>2
<1> QED
  BY <1>1, <1>3, <1>4, <1>5, TreeChange

\* Nobody is disturbed by nothing.
LEMMA DisturbedByNone ==
  ASSUME FileTypeOK
  PROVE  Disturbed({}) = user
BY DEF Disturbed, FileTypeOK

\* remove takes out a path with all that is below it.
LEMMA RemoveTreeIInv ==
  ASSUME FileIInv, NEW u \in User, NEW p \in Path, RemoveTree(u, p)
  PROVE  FileIInv'
<1>1. /\ node' = [q \in Path |-> IF q = p \/ q \in Below(p) THEN "none" ELSE node[q]]
      /\ UNCHANGED <<user, perm, handleVars>>
  BY DEF RemoveTree
<1>2. node \in [Path -> {"none", "dir", "file"}] /\ perm \in [Path -> Perm] /\ TreeIsClosed
  BY DEF FileIInv, FileTypeOK
<1>3. node' \in [Path -> {"none", "dir", "file"}] /\ perm' \in [Path -> Perm]
  BY <1>1, <1>2
<1>4. ASSUME NEW q \in Path, node'[q] # "none", NEW r \in Above(q)
      PROVE  node'[r] = "dir"
  <2>1. r \in Path /\ q # p /\ q \notin Below(p) /\ node[q] # "none"
    BY <1>1, <1>4 DEF Above
  <2>2. node[r] = "dir"
    BY <1>2, <2>1 DEF TreeIsClosed, Here
  <2>3. r # p
    BY <2>1, BelowIs
  <2>4. r \notin Below(p)
    <3> SUFFICES ASSUME r \in Below(p) PROVE FALSE
      OBVIOUS
    <3>1. p \in Above(r)
      BY <2>1, BelowIs
    <3>2. p \in Above(q)
      BY <3>1, AboveTransitive
    <3> QED
      BY <2>1, <3>2, BelowIs
  <2> QED
    BY <1>1, <2>1, <2>2, <2>3, <2>4
<1>5. \A q \in Path : q \notin {} /\ node'[q] # "none" => node[q] # "none" /\ perm'[q] = perm[q]
  BY <1>1
<1>6. user' = Disturbed({}) /\ UNCHANGED handleVars
  BY <1>1, DisturbedByNone DEF FileIInv
<1> QED
  BY <1>3, <1>4, <1>5, <1>6, TreeChange

\* chmod of one path.
LEMMA ChmodIInv ==
  ASSUME FileIInv, NEW u \in User, NEW p \in Path, NEW m \in Perm, Chmod(u, p, m)
  PROVE  FileIInv'
<1>1. perm' = [perm EXCEPT ![p] = m] /\ user' = Disturbed({p}) /\ UNCHANGED handleVars /\ node' = node
  BY DEF Chmod
<1>2. node \in [Path -> {"none", "dir", "file"}] /\ perm \in [Path -> Perm] /\ TreeIsClosed
  BY DEF FileIInv, FileTypeOK
<1>3. node' \in [Path -> {"none", "dir", "file"}] /\ perm' \in [Path -> Perm]
  BY <1>1, <1>2
<1>4. \A q \in Path : node'[q] # "none" => \A r \in Above(q) : node'[r] = "dir"
  BY <1>1, <1>2 DEF TreeIsClosed, Here
<1>5. \A q \in Path : q \notin {p} /\ node'[q] # "none" => node[q] # "none" /\ perm'[q] = perm[q]
  BY <1>1, <1>2
<1> QED
  BY <1>1, <1>3, <1>4, <1>5, TreeChange

\* The path that a path in the tree of to had in the tree of p.
MovedFrom(p, to, q) == p \o SubSeq(q, Len(to) + 1, Len(q))

\* A path that was moved has above it, in the moved tree, what it had above it.
LEMMA MovedAbove ==
  ASSUME NEW p \in Path, NEW to \in Path, NEW q \in Path, q = to \/ q \in Below(to),
         MovedFrom(p, to, q) \in Path, NEW r \in Above(q), r = to \/ r \in Below(to)
  PROVE  MovedFrom(p, to, r) \in Above(MovedFrom(p, to, q))
<1>1. r \in Path /\ q \in Below(r)
  BY BelowIs DEF Above
<1>2. /\ p \in Seq(STRING) /\ to \in Seq(STRING) /\ q \in Seq(STRING) /\ r \in Seq(STRING)
      /\ Len(p) \in Nat /\ Len(to) \in Nat /\ Len(q) \in Nat /\ Len(r) \in Nat /\ Len(p) > 0
  BY <1>1, FileAssumption, BelowIs
<1>3. /\ Len(r) < Len(q) /\ Len(to) <= Len(r)
      /\ \A i \in 1..Len(r) : r[i] = q[i]
  BY <1>1, <1>2, BelowIs
<1>4. ASSUME NEW s \in Seq(STRING), Len(to) <= Len(s)
      PROVE  /\ SubSeq(s, Len(to) + 1, Len(s)) \in Seq(STRING)
             /\ Len(SubSeq(s, Len(to) + 1, Len(s))) = Len(s) - Len(to)
             /\ \A i \in 1..(Len(s) - Len(to)) : SubSeq(s, Len(to) + 1, Len(s))[i] = s[i + Len(to)]
  BY <1>2, <1>4
<1>5. ASSUME NEW s \in Seq(STRING), Len(to) <= Len(s)
      PROVE  /\ MovedFrom(p, to, s) \in Seq(STRING)
             /\ Len(MovedFrom(p, to, s)) = Len(p) + Len(s) - Len(to)
             /\ \A i \in 1..Len(p) : MovedFrom(p, to, s)[i] = p[i]
             /\ \A i \in (Len(p) + 1)..(Len(p) + Len(s) - Len(to)) :
                  MovedFrom(p, to, s)[i] = s[i - Len(p) + Len(to)]
  <2>1. PICK t \in Seq(STRING) : /\ t = SubSeq(s, Len(to) + 1, Len(s)) /\ Len(t) = Len(s) - Len(to)
                                 /\ \A i \in 1..(Len(s) - Len(to)) : t[i] = s[i + Len(to)]
    BY <1>4, <1>5
  <2>2. MovedFrom(p, to, s) = p \o t
    BY <2>1 DEF MovedFrom
  <2>3. p \o t \in Seq(STRING) /\ Len(p \o t) = Len(p) + Len(t)
    BY <1>2
  <2>4. \A i \in 1..(Len(p) + Len(t)) : (p \o t)[i] = IF i <= Len(p) THEN p[i] ELSE t[i - Len(p)]
    BY <1>2
  <2>5. Len(s) \in Nat
    BY <1>5
  <2>6. ASSUME NEW i \in (Len(p) + 1)..(Len(p) + Len(s) - Len(to))
        PROVE  (p \o t)[i] = s[i - Len(p) + Len(to)]
    <3>1. i - Len(p) \in 1..(Len(s) - Len(to)) /\ i \in 1..(Len(p) + Len(t)) /\ ~(i <= Len(p))
      BY <1>2, <2>1, <2>5, <2>6
    <3> QED
      BY <2>1, <2>4, <3>1
  <2>7. \A i \in 1..Len(p) : (p \o t)[i] = p[i]
    BY <1>2, <2>1, <2>4, <2>5, <1>5
  <2> QED
    BY <1>2, <1>5, <2>1, <2>2, <2>3, <2>5, <2>6, <2>7
<1>6. PICK a : a = MovedFrom(p, to, q)
  OBVIOUS
<1>7. PICK b : b = MovedFrom(p, to, r)
  OBVIOUS
<1>8. /\ a \in Seq(STRING) /\ Len(a) = Len(p) + Len(q) - Len(to)
      /\ \A i \in 1..Len(p) : a[i] = p[i]
      /\ \A i \in (Len(p) + 1)..(Len(p) + Len(q) - Len(to)) : a[i] = q[i - Len(p) + Len(to)]
  <2>1. Len(to) <= Len(q)
    BY <1>2, <1>3
  <2> QED
    BY <1>2, <1>5, <1>6, <2>1
<1>9. /\ b \in Seq(STRING) /\ Len(b) = Len(p) + Len(r) - Len(to)
      /\ \A i \in 1..Len(p) : b[i] = p[i]
      /\ \A i \in (Len(p) + 1)..(Len(p) + Len(r) - Len(to)) : b[i] = r[i - Len(p) + Len(to)]
  BY <1>2, <1>3, <1>5, <1>7
<1>10. Len(b) < Len(a) /\ Len(b) \in 1..Len(a)
  BY <1>2, <1>3, <1>8, <1>9
<1>11. ASSUME NEW i \in 1..Len(b) PROVE b[i] = a[i]
  <2>1. CASE i <= Len(p)
    BY <1>2, <1>8, <1>9, <1>10, <2>1
  <2>2. CASE i > Len(p)
    <3>1. /\ i \in (Len(p) + 1)..(Len(p) + Len(r) - Len(to))
          /\ i \in (Len(p) + 1)..(Len(p) + Len(q) - Len(to))
          /\ i - Len(p) + Len(to) \in 1..Len(r)
      BY <1>2, <1>3, <1>9, <2>2
    <3> QED
      BY <1>3, <1>8, <1>9, <3>1
  <2> QED
    BY <1>2, <2>1, <2>2
<1>12. b = SubSeq(a, 1, Len(b))
  <2>0. PICK k : k = Len(b)
    OBVIOUS
  <2>1. PICK c : c = SubSeq(a, 1, k)
    OBVIOUS
  <2>3. a \in Seq(STRING) /\ k \in 1..Len(a)
    BY <1>8, <1>10, <2>0
  <2>4. c \in Seq(STRING) /\ Len(c) = k /\ \A i \in 1..k : c[i] = a[i]
    BY <2>1, <2>3
  <2>2. b = c
    BY <1>9, <1>11, <2>0, <2>4
  <2> QED
    BY <2>0, <2>1, <2>2
<1>13. b \in Path
  <2>1. \A n \in 1..Len(a) : SubSeq(a, 1, n) \in Path
    BY <1>6, FileAssumption
  <2> QED
    BY <1>10, <1>12, <2>1
<1>14. a \in Below(b)
  BY <1>6, <1>8, <1>9, <1>10, <1>11, <1>13, BelowIs
<1> QED
  BY <1>6, <1>7, <1>13, <1>14, BelowIs

\* What a move puts in its new place, and what it leaves.
MovedTo(p, to) ==
  {q \in Below(to) \cup {to} : MovedFrom(p, to, q) \in Path /\ Here(MovedFrom(p, to, q))}

\* move: the tree of p gets to a path that was not there or was empty.
LEMMA MoveIInv ==
  ASSUME FileIInv, NEW u \in User, NEW p \in Path, NEW to \in Path, Move(u, p, to)
  PROVE  FileIInv'
<1> DEFINE new == MovedTo(p, to)
           old == Below(p) \cup {p}
<1>1. /\ to \notin Below(p) /\ p # to
      /\ \A q \in Above(to) : node[q] = "dir"
      /\ node[to] = "none" \/ Children(to) = {}
      /\ user' = Disturbed(new) /\ UNCHANGED handleVars
      /\ node' = [q \in Path |-> IF q \in new THEN node[MovedFrom(p, to, q)]
                                 ELSE IF q \in old THEN "none" ELSE node[q]]
      /\ perm' = [q \in Path |-> IF q \in new THEN perm[MovedFrom(p, to, q)] ELSE perm[q]]
  BY DEF Move, MovedFrom, MovedTo
<1>2. node \in [Path -> {"none", "dir", "file"}] /\ perm \in [Path -> Perm] /\ TreeIsClosed
  BY DEF FileIInv, FileTypeOK
<1>3. \A q \in new : /\ q \in Path /\ (q = to \/ q \in Below(to))
                     /\ MovedFrom(p, to, q) \in Path /\ node[MovedFrom(p, to, q)] # "none"
  BY DEF MovedTo, Here, Below
<1>4. \A q \in Path : q = to \/ q \in Below(to) =>
        (q \in new <=> MovedFrom(p, to, q) \in Path /\ node[MovedFrom(p, to, q)] # "none")
  BY DEF MovedTo, Here
<1>5. \A q \in Path : q \in old <=> q = p \/ q \in Below(p)
  OBVIOUS
<1> HIDE DEF new, old
<1>6. node' \in [Path -> {"none", "dir", "file"}] /\ perm' \in [Path -> Perm]
  BY <1>1, <1>2, <1>3
<1>7. \A q \in Path : q \notin new /\ node'[q] # "none" =>
        q \notin old /\ node[q] # "none" /\ node'[q] = node[q] /\ perm'[q] = perm[q]
  BY <1>1
<1>8. ASSUME NEW q \in Path, node[q] # "none" PROVE q \notin Below(to)
  <2> SUFFICES ASSUME q \in Below(to) PROVE FALSE
    OBVIOUS
  <2>1. node[to] = "dir"
    BY <1>2, <1>8, BelowIs DEF TreeIsClosed, Here
  <2>2. PICK c \in Path : c \in Below(to) /\ Len(c) = Len(to) + 1 /\ (c = q \/ q \in Below(c))
    BY ChildTowards
  <2>3. node[c] # "none"
    <3>1. CASE q \in Below(c)
      <4>1. c \in Above(q)
        BY <3>1, BelowIs
      <4> QED
        BY <1>2, <1>8, <4>1 DEF TreeIsClosed, Here
    <3> QED
      BY <1>8, <2>2, <3>1
  <2>4. c \in Children(to)
    BY <2>2, <2>3 DEF Children, Here
  <2> QED
    BY <1>1, <2>1, <2>4
<1>9. ASSUME NEW q \in Path, node'[q] # "none", NEW r \in Above(q)
      PROVE  node'[r] = "dir"
  <2>1. r \in Path /\ q \in Below(r)
    BY BelowIs DEF Above
  <2>2. CASE q \in new
    <3>1. r \in Above(to) \/ r = to \/ r \in Below(to)
      <4>1. to = q \/ to \in Above(q)
        BY <1>3, <2>2, BelowIs
      <4> QED
        BY <2>1, <4>1, AboveComparable
    <3>2. CASE r = to \/ r \in Below(to)
      <4>1. MovedFrom(p, to, r) \in Above(MovedFrom(p, to, q))
        BY <1>3, <2>2, <3>2, MovedAbove
      <4>2. node[MovedFrom(p, to, r)] = "dir" /\ MovedFrom(p, to, r) \in Path
        BY <1>2, <1>3, <2>2, <4>1 DEF TreeIsClosed, Here, Above
      <4>3. r \in new
        BY <1>4, <2>1, <3>2, <4>2
      <4> QED
        BY <1>1, <2>1, <4>2, <4>3
    <3>3. CASE r \in Above(to)
      <4>1. r \notin new
        <5>1. to \in Below(r) /\ Len(to) > Len(r) /\ Len(r) \in Nat /\ Len(to) \in Nat
          BY <2>1, <3>3, BelowIs
        <5>2. r # to /\ r \notin Below(to)
          BY <2>1, <5>1, BelowIs
        <5> QED
          BY <1>3, <5>2
      <4>2. r \notin old
        <5>1. r # p
          BY <1>1, <2>1, <3>3, BelowIs
        <5>2. r \notin Below(p)
          <6> SUFFICES ASSUME r \in Below(p) PROVE FALSE
            OBVIOUS
          <6>1. p \in Above(r)
            BY <2>1, BelowIs
          <6>2. p \in Above(to)
            BY <3>3, <6>1, AboveTransitive
          <6> QED
            BY <1>1, <6>2, BelowIs
        <5> QED
          BY <1>5, <2>1, <5>1, <5>2
      <4> QED
        BY <1>1, <2>1, <3>3, <4>1, <4>2
    <3> QED
      BY <3>1, <3>2, <3>3
  <2>3. CASE q \notin new
    <3>1. q \notin old /\ node[q] # "none"
      BY <1>7, <1>9, <2>3
    <3>2. node[r] = "dir"
      BY <1>2, <3>1 DEF TreeIsClosed, Here
    <3>3. q \notin Below(to)
      BY <1>8, <3>1
    <3>4. r \notin new
      <4> SUFFICES ASSUME r = to \/ r \in Below(to) PROVE FALSE
        BY <1>3
      <4>1. CASE r \in Below(to)
        <5>1. to \in Above(r)
          BY <2>1, <4>1, BelowIs
        <5>2. to \in Above(q)
          BY <5>1, AboveTransitive
        <5> QED
          BY <3>3, <5>2, BelowIs
      <4> QED
        BY <2>1, <3>3, <4>1
    <3>5. r \notin old
      <4> SUFFICES ASSUME r = p \/ r \in Below(p) PROVE FALSE
        BY <1>5, <2>1
      <4>1. CASE r \in Below(p)
        <5>1. p \in Above(r)
          BY <2>1, <4>1, BelowIs
        <5>2. p \in Above(q)
          BY <5>1, AboveTransitive
        <5> QED
          BY <1>5, <3>1, <5>2, BelowIs
      <4> QED
        BY <1>5, <2>1, <3>1, <4>1
    <3> QED
      BY <1>1, <2>1, <3>2, <3>4, <3>5
  <2> QED
    BY <2>2, <2>3
<1>10. \A q \in Path : q \notin new /\ node'[q] # "none" => node[q] # "none" /\ perm'[q] = perm[q]
  BY <1>7
<1> QED
  BY <1>1, <1>6, <1>9, <1>10, TreeChange

\* A walk starts with its whole tree to visit.
LEMMA ChmodWalkIInv ==
  ASSUME FileIInv, NEW u \in User, NEW p \in Path, NEW m \in Perm, ChmodWalk(u, p, m)
  PROVE  FileIInv'
<1> USE DEF FileIInv
<1>1. PICK f : f = [pc |-> "walk", root |-> p, todo |-> {p}, perm |-> m, clean |-> TRUE]
  OBVIOUS
<1>2. f \in Walker /\ f.root = p /\ f.todo = {p} /\ f.perm = m
  BY <1>1 DEF Walker
<1>3. user' = [user EXCEPT ![u] = f] /\ user[u].pc = "idle" /\ UNCHANGED <<treeVars, handleVars>>
  BY <1>1 DEF ChmodWalk, Doing
<1>4. /\ user' \in [User -> {NoUser} \cup HandleUser \cup Walker]
      /\ \A v \in User : user'[v] = IF v = u THEN f ELSE user[v]
  BY <1>2, <1>3 DEF FileTypeOK
<1>5. FileTypeOK'
  BY <1>3, <1>4 DEF FileTypeOK, treeVars, handleVars
<1>6. f \notin HandleUser /\ user[u] \notin HandleUser
  BY <1>2, <1>3 DEF Walker, HandleUser
<1>7. TreeIsClosed'
  BY <1>3 DEF TreeIsClosed, treeVars, Here, Above
<1>8. ASSUME NEW v \in User, user'[v] \in Walker, user'[v].clean,
             NEW q \in Below(user'[v].root) \cup {user'[v].root}, node'[q] # "none"
      PROVE  perm'[q] = user'[v].perm \/ \E r \in user'[v].todo : q = r \/ q \in Below(r)
  <2>1. CASE v = u
    BY <1>2, <1>4, <1>8, <2>1
  <2>2. CASE v # u
    BY <1>3, <1>4, <1>8, <2>2 DEF WalkGoesOn, Pending, Here, treeVars
  <2> QED
    BY <2>1, <2>2
<1>9. WalkGoesOn'
  BY <1>8 DEF WalkGoesOn, Pending, Here, Below
<1> QED
  BY <1>3, <1>4, <1>5, <1>6, <1>7, <1>9, TreeFrame

\* A walk that has ended.
LEMMA WalkEndsIInv ==
  ASSUME FileIInv, NEW u \in User, WalkEnds(u)
  PROVE  FileIInv'
<1> USE DEF FileIInv
<1>1. user' = [user EXCEPT ![u] = NoUser] /\ user[u].pc = "walk" /\ UNCHANGED <<treeVars, handleVars>>
  BY DEF WalkEnds, Doing
<1>2. NoUser \notin Walker /\ NoUser \notin HandleUser /\ user[u] \notin HandleUser
  BY <1>1 DEF NoUser, Walker, HandleUser
<1>3. /\ user' \in [User -> {NoUser} \cup HandleUser \cup Walker]
      /\ \A v \in User : user'[v] = IF v = u THEN NoUser ELSE user[v]
  BY <1>1 DEF FileTypeOK
<1>4. FileTypeOK'
  BY <1>1, <1>3 DEF FileTypeOK, treeVars, handleVars
<1>5. TreeIsClosed' /\ WalkGoesOn'
  BY <1>1, <1>2, <1>3, HandleFrame
<1> QED
  BY <1>1, <1>2, <1>3, <1>4, <1>5, TreeFrame

\* The walk finds a file: it changes it, and has then what is in it to visit.
LEMMA WalkHereIInv ==
  ASSUME FileIInv, NEW u \in User, user[u].pc = "walk", NEW p \in user[u].todo, Here(p),
         perm' = [perm EXCEPT ![p] = user[u].perm],
         user' = [Disturbed({p}) EXCEPT ![u] = [user[u] EXCEPT !.todo = (user[u].todo \ {p}) \cup Children(p)]],
         UNCHANGED <<node, handleVars>>
  PROVE  FileIInv'
<1> USE DEF FileIInv
<1>0. user[u] \in Walker
  BY UserKinds
<1>1. PICK w : w = user[u]
  OBVIOUS
<1>2. w \in Walker /\ p \in Path /\ w.todo \subseteq Path /\ w.root \in Path /\ w.perm \in Perm
  BY <1>0, <1>1 DEF Walker
<1>3. \A c \in Children(p) : c \in Path
  BY DEF Children, Below
<1>4. PICK left \in SUBSET Path : left = (w.todo \ {p}) \cup Children(p)
  BY <1>2, <1>3
<1>5. PICK f : f = [w EXCEPT !.todo = left]
  OBVIOUS
<1>6. f \in Walker /\ f.todo = left /\ f.root = w.root /\ f.perm = w.perm /\ f.clean = w.clean
  BY <1>2, <1>5 DEF Walker
<1>7. user' = [Disturbed({p}) EXCEPT ![u] = f]
  BY <1>1, <1>4, <1>5
<1>8. /\ user' \in [User -> {NoUser} \cup HandleUser \cup Walker]
      /\ \A v \in User : user'[v] = IF v = u THEN f ELSE Disturbed({p})[v]
  <2>1. PICK d : d = Disturbed({p})
    OBVIOUS
  <2>2. d \in [User -> {NoUser} \cup HandleUser \cup Walker]
    BY <2>1, DisturbedFacts
  <2>3. user' = [d EXCEPT ![u] = f]
    BY <1>7, <2>1
  <2> QED
    BY <1>6, <2>1, <2>2, <2>3
<1>9. FileTypeOK'
  BY <1>2, <1>1, <1>8 DEF FileTypeOK, handleVars
<1>10. f \notin HandleUser /\ user[u] \notin HandleUser
  BY <1>0, <1>6 DEF Walker, HandleUser
<1>11. \A v \in User : user[v] \in HandleUser \/ user'[v] \in HandleUser => user'[v] = user[v]
  <2>1. \A v \in User : user[v] \in HandleUser => user[v] \notin Walker
    BY DEF HandleUser, Walker
  <2> QED
    <3> SUFFICES ASSUME NEW v \in User, v # u, user[v] \in HandleUser \/ user'[v] \in HandleUser
                 PROVE  user'[v] = user[v]
      BY <1>8, <1>10
    <3>1. user'[v] = Disturbed({p})[v]
      BY <1>8
    <3>2. CASE user[v] \in HandleUser
      BY <2>1, <3>1, <3>2, DisturbedFacts
    <3>3. CASE user'[v] \in HandleUser
      BY <3>1, <3>3, DisturbedFacts
    <3> QED
      BY <3>2, <3>3
<1>12. TreeIsClosed'
  BY DEF TreeIsClosed, Here, Above
<1>13. \A q \in Path : perm'[q] = IF q = p THEN w.perm ELSE perm[q]
  BY <1>1 DEF FileTypeOK
<1>14. ASSUME f.clean, NEW q \in Below(f.root) \cup {f.root}, node[q] # "none"
       PROVE  perm'[q] = f.perm \/ \E r \in left : q = r \/ q \in Below(r)
  <2>1. q \in Path
    BY <1>2, <1>6 DEF Below
  <2>2. perm[q] = w.perm \/ \E r \in w.todo : q = r \/ q \in Below(r)
    BY <1>0, <1>1, <1>6, <1>14 DEF WalkGoesOn, Pending, Here
  <2>3. CASE perm[q] = w.perm \/ q = p
    BY <1>6, <1>13, <2>1, <2>3
  <2>4. ASSUME NEW r \in w.todo, r # p, q = r \/ q \in Below(r)
        PROVE  \E s \in left : q = s \/ q \in Below(s)
    BY <1>4, <2>4
  <2>5. CASE q \in Below(p)
    <3>1. PICK c \in Path : c \in Below(p) /\ Len(c) = Len(p) + 1 /\ (c = q \/ q \in Below(c))
      BY <1>2, <2>5, ChildTowards
    <3>2. node[c] # "none"
      <4>1. CASE q \in Below(c)
        <5>1. c \in Above(q)
          BY <2>1, <3>1, <4>1, BelowIs
        <5>2. node[c] = "dir"
          BY <1>14, <2>1, <5>1 DEF TreeIsClosed, Here
        <5> QED
          BY <5>2
      <4> QED
        BY <1>14, <3>1, <4>1
    <3>3. c \in left
      BY <1>4, <3>1, <3>2 DEF Children, Here
    <3> QED
      BY <3>1, <3>3
  <2> QED
    BY <2>2, <2>3, <2>4, <2>5
<1>15. ASSUME NEW v \in User, user'[v] \in Walker, user'[v].clean,
              NEW q \in Below(user'[v].root) \cup {user'[v].root}, node'[q] # "none"
       PROVE  perm'[q] = user'[v].perm \/ Pending(v, q)'
  <2>1. CASE v = u
    <3>1. perm'[q] = f.perm \/ \E r \in left : q = r \/ q \in Below(r)
      BY <1>8, <1>14, <1>15, <2>1
    <3> QED
      BY <1>6, <1>8, <2>1, <3>1 DEF Pending, Below
  <2>2. CASE v # u
    <3>1. \A x \in Path : x \notin {p} /\ node'[x] # "none" => node[x] # "none" /\ perm'[x] = perm[x]
      BY <1>13
    <3>2. user'[v] = Disturbed({p})[v]
      BY <1>8, <2>2
    <3> QED
      BY <1>15, <3>1, <3>2, WalkKept
  <2> QED
    BY <2>1, <2>2
<1>16. WalkGoesOn'
  BY <1>15 DEF WalkGoesOn, Here, Below
<1> QED
  BY <1>9, <1>11, <1>12, <1>16, TreeFrame

\* The walk finds that a file is gone, and so is what was below it.
LEMMA WalkGoneIInv ==
  ASSUME FileIInv, NEW u \in User, user[u].pc = "walk", NEW p \in user[u].todo, ~Here(p),
         user' = [user EXCEPT ![u].todo = Skip(user[u].todo \ {p})],
         UNCHANGED <<perm, node, handleVars>>
  PROVE  FileIInv'
<1> USE DEF FileIInv
<1>0. user[u] \in Walker
  BY UserKinds
<1>1. PICK w : w = user[u]
  OBVIOUS
<1>2. w \in Walker /\ p \in Path /\ w.todo \subseteq Path /\ w.root \in Path /\ p \in w.todo
  BY <1>0, <1>1 DEF Walker
<1>4. PICK left \in SUBSET Path : left = w.todo \ {p}
  BY <1>2
<1>5. PICK f : f = [w EXCEPT !.todo = left]
  OBVIOUS
<1>6. f \in Walker /\ f.todo = left /\ f.root = w.root /\ f.perm = w.perm /\ f.clean = w.clean
  BY <1>2, <1>5 DEF Walker
<1>7. user' = [user EXCEPT ![u] = f]
  BY <1>1, <1>4, <1>5 DEF Skip
<1>8. /\ user' \in [User -> {NoUser} \cup HandleUser \cup Walker]
      /\ \A v \in User : user'[v] = IF v = u THEN f ELSE user[v]
  BY <1>6, <1>7 DEF FileTypeOK
<1>9. FileTypeOK'
  BY <1>8 DEF FileTypeOK, handleVars
<1>10. f \notin HandleUser /\ user[u] \notin HandleUser
  BY <1>0, <1>6 DEF Walker, HandleUser
<1>11. \A v \in User : user[v] \in HandleUser \/ user'[v] \in HandleUser => user'[v] = user[v]
  BY <1>8, <1>10
<1>12. TreeIsClosed'
  BY DEF TreeIsClosed, Here, Above
<1>14. ASSUME f.clean, NEW q \in Below(f.root) \cup {f.root}, node[q] # "none"
       PROVE  perm[q] = f.perm \/ \E r \in left : q = r \/ q \in Below(r)
  <2>1. q \in Path
    BY <1>2, <1>6 DEF Below
  <2>2. perm[q] = w.perm \/ \E r \in w.todo : q = r \/ q \in Below(r)
    BY <1>0, <1>1, <1>6, <1>14 DEF WalkGoesOn, Pending, Here
  <2>3. q # p
    BY <1>14 DEF Here
  <2>4. q \notin Below(p)
    <3> SUFFICES ASSUME q \in Below(p) PROVE FALSE
      OBVIOUS
    <3>1. p \in Above(q)
      BY <1>2, <2>1, BelowIs
    <3>2. node[p] = "dir"
      BY <1>14, <2>1, <3>1 DEF TreeIsClosed, Here
    <3> QED
      BY <3>2 DEF Here
  <2> QED
    BY <1>4, <1>6, <2>2, <2>3, <2>4
<1>15. ASSUME NEW v \in User, user'[v] \in Walker, user'[v].clean,
              NEW q \in Below(user'[v].root) \cup {user'[v].root}, node'[q] # "none"
       PROVE  perm'[q] = user'[v].perm \/ Pending(v, q)'
  <2>1. CASE v = u
    <3>1. perm[q] = f.perm \/ \E r \in left : q = r \/ q \in Below(r)
      BY <1>8, <1>14, <1>15, <2>1
    <3> QED
      BY <1>6, <1>8, <2>1, <3>1 DEF Pending, Below
  <2>2. CASE v # u
    BY <1>8, <1>15, <2>2 DEF WalkGoesOn, Pending, Here, Below
  <2> QED
    BY <2>1, <2>2
<1>16. WalkGoesOn'
  BY <1>15 DEF WalkGoesOn, Here, Below
<1> QED
  BY <1>9, <1>11, <1>12, <1>16, TreeFrame

\* One file of a walk.
LEMMA WalkIInv ==
  ASSUME FileIInv, NEW u \in User, Walk(u)
  PROVE  FileIInv'
<1>1. user[u].pc = "walk" /\ UNCHANGED <<node, handleVars>>
  BY DEF Walk, Doing
<1>2. PICK p \in user[u].todo :
        \/ /\ Here(p) /\ perm' = [perm EXCEPT ![p] = user[u].perm]
           /\ user' = [Disturbed({p}) EXCEPT ![u] =
                         [user[u] EXCEPT !.todo = (user[u].todo \ {p}) \cup Children(p)]]
        \/ /\ ~Here(p) /\ UNCHANGED perm
           /\ user' = [user EXCEPT ![u].todo = Skip(user[u].todo \ {p})]
  BY DEF Walk
<1>3. CASE Here(p)
  BY <1>1, <1>2, <1>3, WalkHereIInv
<1>4. CASE ~Here(p)
  BY <1>1, <1>2, <1>4, WalkGoneIInv
<1> QED
  BY <1>3, <1>4

\* Nothing is open and nothing is in the tree at first.
LEMMA FileInitIInv ==
  ASSUME FileInit
  PROVE  FileIInv
<1>1. NoUser \notin HandleUser /\ NoUser \notin Walker
  BY DEF NoUser, HandleUser, Walker
<1>2. FileTypeOK
  BY SomePermIs DEF FileInit, FileTypeOK
<1>3. \A u \in User : user[u] = NoUser
  BY DEF FileInit
<1>4. NewIsUnknown /\ OpenedIsOwn /\ DroppedIsOut /\ OpenIsTracked /\ CachedIsOpen
  BY <1>1, <1>3 DEF FileInit, NewIsUnknown, OpenedIsOwn, DroppedIsOut, OpenIsTracked, CachedIsOpen, Holds
<1>5. ModeAsPython
  BY DEF FileInit, ModeAsPython
<1>6. TreeIsClosed
  BY DEF FileInit, TreeIsClosed, Here
<1>7. WalkGoesOn
  BY <1>1, <1>3 DEF WalkGoesOn
<1> QED
  BY <1>2, <1>4, <1>5, <1>6, <1>7 DEF FileIInv

\* The inductive invariant says all that FilesAreTracked says: a walk that was not
\* disturbed and has nothing left to visit has changed everything.
LEMMA FileIInvTracked ==
  ASSUME FileIInv
  PROVE  FilesAreTracked
<1>1. WalkIsComplete
  <2> SUFFICES ASSUME NEW u \in User, user[u].pc = "walk", user[u].todo = {}, user[u].clean,
                      NEW p \in Below(user[u].root) \cup {user[u].root}, Here(p)
               PROVE  perm[p] = user[u].perm
    BY DEF WalkIsComplete, Doing
  <2>1. user[u] \in Walker
    BY UserKinds DEF FileIInv
  <2> QED
    BY <2>1 DEF FileIInv, WalkGoesOn, Pending
<1> QED
  BY <1>1 DEF FileIInv, FilesAreTracked

\* A command, the cache's janitor and time keep the inductive invariant.
LEMMA FileNextIInv ==
  ASSUME FileIInv, [HandleNext \/ TreeNext]_fileVars
  PROVE  FileIInv'
<1>1. CASE HandleNext
  BY <1>1, OpenIInv, OpenSetIInv, UseIInv, CacheIInv DEF HandleNext
<1>2. CASE TreeNext
  BY <1>2, MkdirIInv, TouchIInv, RemoveTreeIInv, MoveIInv, ChmodIInv, ChmodWalkIInv, WalkIInv, WalkEndsIInv
  DEF TreeNext
<1>3. CASE UNCHANGED fileVars
  <2>1. UNCHANGED <<handleVars, user, treeVars>>
    BY <1>3 DEF fileVars
  <2>2. FileTypeOK'
    BY <2>1 DEF FileTypeOK, FileIInv, handleVars, treeVars
  <2> QED
    BY <2>1, <2>2, TreeFrame, HandleFrame DEF FileIInv
<1> QED
  BY <1>1, <1>2, <1>3

\* FilesAreTracked of FileHandles.tla, for any number of commands, handles, modes and
\* paths: files are opened with the flags Python's open gives their mode, no open file
\* is lost between the commands and the janitor of the cache, a cached handle has an
\* open file unless a late command put it back, and a recursive chmod whose tree
\* nothing was put in or changed meanwhile has reached every file of it.
THEOREM FilesTracked == FileSpec => []FilesAreTracked
<1>1. FileInit => FileIInv
  BY FileInitIInv
<1>2. FileIInv /\ [HandleNext \/ TreeNext]_fileVars => FileIInv'
  BY FileNextIInv
<1>3. FileIInv => FilesAreTracked
  BY FileIInvTracked
<1> QED
  BY <1>1, <1>2, <1>3, PTL DEF FileSpec
=================================================================================
