--------------------------- MODULE Container_proofs ---------------------------
(***************************************************************************)
(* Proofs about Container, for every number of requests, commands and ids  *)
(* and every limit: each container keeps its own entry of the table,       *)
(* cleanup is done once whoever calls it, the limit is exceeded only by    *)
(* requests that were overtaken, and a flag outlives its command only if   *)
(* something failed. And about ContainerNetwork: what the network of a     *)
(* container set up goes with the container.                               *)
(***************************************************************************)
EXTENDS Container, ContainerNetwork, FiniteSetTheorems, SequenceTheorems, WellFoundedInduction, TLAPS

-----------------------------------------------------------------------------
(* The inductive invariant.                                                *)

\* Nothing of a container exists before Start runs its job.
NothingBeforeJob ==
  \A r \in Request :
    create[r] \in {"new", "sequence", "set", "start", "run", "refused"} =>
      job[r] = "none" /\ clean[r] = "none"

\* Who cleans up: Start of a container that failed, which has no job, or the
\* exit hook of the job.
OneCleaner ==
  \A r \in Request :
    /\ create[r] = "failing" => job[r] = "none" /\ clean[r] \in {"close", "unset"}
    /\ create[r] = "failed"  => job[r] = "none" /\ clean[r] = "done"
    /\ create[r] \in {"assign", "created"} =>
         /\ job[r] # "none"
         /\ clean[r] # "none" <=> job[r] \in {"exiting", "over"}
         /\ job[r] = "over" => clean[r] = "done"

\* forwardChan is closed by the first step of cleanup, and by no other.
ClosedByCleanup ==
  \A r \in Request : closes[r] = IF clean[r] \in {"unset", "done"} THEN 1 ELSE 0

\* forward runs only on an open channel, and only once the process was forked.
ForwarderIsOpen ==
  \A r \in Request :
    /\ forwarder[r] => closes[r] = 0 /\ job[r] \in {"alive", "exiting"}
    /\ hook[r] = "post" => job[r] \in {"alive", "exiting", "over"}

\* The table and the containers agree, in both directions: a container that has
\* entered has its own entry, and an entry is of a container that has entered.
TableAgrees ==
  /\ \A r \in Request :
       /\ Entered(r) => id[r] \in ID /\ containers[id[r]] = r
       /\ create[r] = "set" => id[r] \in ID /\ containers[id[r]] = Nil
  /\ \A n \in ID : containers[n] # Nil => Entered(containers[n]) /\ id[containers[n]] = n

\* Two requests are never about to enter the table under one id.
IdsDiffer ==
  \A r, s \in Request : create[r] = "set" /\ create[s] = "set" /\ r # s => id[r] # id[s]

\* A request on its way into the table that nobody overtook still finds room.
RoomUnlessOvertaken ==
  \A r \in Request \ overtaken : create[r] \in {"sequence", "set"} => Count < MaxCount

\* What is known of a command at each place of its dispatch.
DispatchFollows ==
  \A k \in Cmd :
    /\ dispatch[k] \in {"new", "flag"} => flag[k] = "none"
    /\ dispatch[k] = "answered" => flag[k] = "expiring"
    /\ dispatch[k] \notin {"new", "failed"} => target[k] \in Request
    /\ dispatch[k] = "remote" => job[target[k]] \in {"alive", "exiting"} /\ closes[target[k]] = 0
    /\ dispatch[k] = "lost" => job[target[k]] \in {"exiting", "over"}

\* Everything but the limit ...
LifeIInv ==
  /\ TypeOK /\ NothingBeforeJob /\ OneCleaner /\ ClosedByCleanup
  /\ ForwarderIsOpen /\ TableAgrees /\ IdsDiffer /\ DispatchFollows

\* ... and the limit.
IInv == LifeIInv /\ RoomUnlessOvertaken /\ LimitOnlyOvertaken

-----------------------------------------------------------------------------
(* Facts about the operators.                                              *)

\* A nonempty set of naturals has a least element, which Min chooses.
LEMMA MinIsMember == ASSUME NEW S \in SUBSET Nat, S # {} PROVE Min(S) \in S
<1> DEFINE R == {ss \in Nat \X Nat : ss[1] < ss[2]}
<1>1. IsWellFoundedOn(R, Nat)
  BY NatLessThanWellFounded, Zenon DEF OpToRel
<1>2. \A x, y \in Nat : <<y, x>> \in R <=> y < x
  OBVIOUS
<1> HIDE DEF R
<1>3. \E x \in S : \A y \in S : ~ (<<y, x>> \in R)
  BY <1>1, WFMin
<1>4. PICK x \in S : \A y \in S : ~ (<<y, x>> \in R)
  BY <1>3
<1>5. \A y \in S : x =< y
  <2> TAKE y \in S
  <2>1. x \in Nat /\ y \in Nat /\ ~ (y < x)
    BY <1>2, <1>4
  <2> QED
    BY <2>1
<1> QED
  BY <1>5 DEF Min

\* The id that getNextSequence arrives at is free.
LEMMA NextIsFree ==
  ASSUME NEW steps, steps = {k \in 1 .. (MaxSeq + 1) : Free(After(sequence, k))}, steps # {}
  PROVE  Free(After(sequence, Min(steps)))
<1>1. steps \in SUBSET Nat
  BY ContainerAssumption
<1> QED
  BY <1>1, MinIsMember

\* The requests that have entered the table although they were overtaken.
Late == {r \in overtaken : Entered(r)}

\* The ids in use.
Used == {n \in ID : containers[n] # Nil}

\* There are finitely many ids in use, and the containers that have entered have
\* different ids: there are finitely many of those too.
LEMMA TableIsFinite ==
  ASSUME LifeIInv
  PROVE  /\ IsFiniteSet(Used) /\ Cardinality(Used) \in Nat
         /\ IsFiniteSet(Late) /\ Cardinality(Late) \in Nat
<1>1. IsFiniteSet(ID)
  BY FS_Interval, ContainerAssumption DEF ID
<1>2. IsFiniteSet(Used)
  BY <1>1, FS_Subset DEF Used
<1>3. IsFiniteSet(Late)
  <2> DEFINE f == [r \in Late |-> id[r]]
  <2>1. f \in Injection(Late, ID)
    BY DEF LifeIInv, TypeOK, TableAgrees, Late, Injection, IsInjective
  <2> QED
    BY <1>1, <2>1, FS_Injection
<1> QED
  BY <1>2, <1>3, FS_CardinalityType

-----------------------------------------------------------------------------
(* The life of a container and of a command.                               *)

\* The table is empty at first and nothing has begun.
LEMMA InitLife == Init => LifeIInv
<1> SUFFICES ASSUME Init PROVE LifeIInv
  OBVIOUS
<1> USE ContainerAssumption DEF Init
<1>1. containers \in [ID -> Request \cup {Nil}] /\ target \in [Cmd -> Request \cup {Nil}]
  OBVIOUS
<1>2. create \in [Request -> CreatePC] /\ job \in [Request -> JobPC] /\ hook \in [Request -> HookPC]
  BY DEF CreatePC, JobPC, HookPC
<1>3. clean \in [Request -> CleanPC] /\ dispatch \in [Cmd -> DispatchPC]
  BY DEF CleanPC, DispatchPC
<1>4. closes \in [Request -> Nat] /\ flag \in [Cmd -> {"none", "kept", "expiring"}]
  OBVIOUS
<1>5. sequence \in 0 .. MaxSeq /\ id \in [Request -> 0 .. MaxSeq]
  OBVIOUS
<1>6. runner \in [Request -> BOOLEAN] /\ forwarder \in [Request -> BOOLEAN] /\ crashed \in BOOLEAN
  OBVIOUS
<1>7. TypeOK
  BY <1>1, <1>2, <1>3, <1>4, <1>5, <1>6 DEF TypeOK
<1> QED
  BY <1>7 DEF LifeIInv, NothingBeforeJob, OneCleaner, ClosedByCleanup, ForwarderIsOpen,
     TableAgrees, IdsDiffer, DispatchFollows, Entered

\* Every step keeps it. UnsetContainer deletes by id, and the entry it deletes is
\* its own because TableAgrees says so.
LEMMA NextLife == ASSUME LifeIInv, [Next]_vars PROVE LifeIInv'
<1> USE ContainerAssumption DEF LifeIInv, TypeOK, NothingBeforeJob, OneCleaner, ClosedByCleanup,
        ForwarderIsOpen, TableAgrees, IdsDiffer, DispatchFollows, Entered,
        CreatePC, JobPC, HookPC, CleanPC, DispatchPC
<1>1. ASSUME NEW r \in Request, CheckCount(r) PROVE LifeIInv'
  BY <1>1 DEF CheckCount, Create
<1>2. ASSUME NEW r \in Request, NextSequence(r) PROVE LifeIInv'
  <2> DEFINE steps == {k \in 1 .. (MaxSeq + 1) : Free(After(sequence, k))}
             next  == After(sequence, Min(steps))
  <2>1. Free(next) /\ NoLap(next)
    BY <1>2, NextIsFree DEF NextSequence
  <2>2. next \in ID /\ containers[next] = Nil /\ next \in 0 .. MaxSeq
    BY <2>1 DEF Free, ID
  <2>3. /\ create[r] = "sequence" /\ create' = [create EXCEPT ![r] = "set"]
        /\ sequence' = next /\ id' = [id EXCEPT ![r] = next]
        /\ UNCHANGED <<containers, runner, job, hook, clean, closes, forwarder,
                       dispatch, target, flag, overtaken, crashed>>
    BY <1>2 DEF NextSequence, Create
  <2> HIDE DEF next
  <2> QED
    BY <2>1, <2>2, <2>3 DEF NoLap
<1>3. ASSUME NEW r \in Request, SetContainer(r) PROVE LifeIInv'
  BY <1>3 DEF SetContainer, Create
<1>4. ASSUME NEW r \in Request, StartFails(r) PROVE LifeIInv'
  BY <1>4 DEF StartFails, Create
<1>5. ASSUME NEW r \in Request, StartSucceeds(r) PROVE LifeIInv'
  BY <1>5 DEF StartSucceeds, Create
<1>6. ASSUME NEW r \in Request, RunJob(r) PROVE LifeIInv'
  BY <1>6 DEF RunJob, Create
<1>7. ASSUME NEW r \in Request, RunJobDuplicate(r) PROVE LifeIInv'
  BY <1>7 DEF RunJobDuplicate, Create
<1>8. ASSUME NEW r \in Request, Assign(r) PROVE LifeIInv'
  BY <1>8 DEF Assign, Create
<1>9. ASSUME NEW r \in Request, Fork(r) PROVE LifeIInv'
  BY <1>9 DEF Fork, Job
<1>10. ASSUME NEW r \in Request, Exit(r) PROVE LifeIInv'
  BY <1>10 DEF Exit, Job
<1>11. ASSUME NEW r \in Request, JobOver(r) PROVE LifeIInv'
  BY <1>11 DEF JobOver, Job
<1>12. ASSUME NEW r \in Request, OnStart(r) PROVE LifeIInv'
  BY <1>12 DEF OnStart
<1>13. ASSUME NEW r \in Request, PostStart(r) PROVE LifeIInv'
  BY <1>13 DEF PostStart
<1>14. ASSUME NEW r \in Request, CloseForward(r) PROVE LifeIInv'
  BY <1>14 DEF CloseForward
<1>15. ASSUME NEW r \in Request, UnsetContainer(r) PROVE LifeIInv'
  <2>1. Entered(r) /\ create'[r] # "set"
    BY <1>15 DEF UnsetContainer
  <2> QED
    BY <1>15, <2>1 DEF UnsetContainer
<1>16. ASSUME NEW k \in Cmd, NEW n \in ID, Dispatch(k, n) \/ DispatchUnknown(k, n) PROVE LifeIInv'
  <2>1. CASE Dispatch(k, n)
    BY <2>1 DEF Dispatch, Send
  <2>2. CASE DispatchUnknown(k, n)
    BY <2>2 DEF DispatchUnknown, Send
  <2> QED
    BY <1>16, <2>1, <2>2
<1>17. ASSUME NEW k \in Cmd, FlagCommand(k) \/ DispatchFails(k) PROVE LifeIInv'
  <2>1. CASE FlagCommand(k)
    BY <2>1 DEF FlagCommand, Send
  <2>2. CASE DispatchFails(k)
    BY <2>2 DEF DispatchFails, Send
  <2> QED
    BY <1>17, <2>1, <2>2
<1>18. ASSUME NEW k \in Cmd, ForwardCommand(k) PROVE LifeIInv'
  BY <1>18 DEF ForwardCommand, Send
<1>19. ASSUME NEW k \in Cmd, Rewind(k) PROVE LifeIInv'
  BY <1>19 DEF Rewind, Send
<1>20. CASE UNCHANGED vars
  BY <1>20 DEF vars
<1> QED
  BY <1>1, <1>2, <1>3, <1>4, <1>5, <1>6, <1>7, <1>8, <1>9, <1>10, <1>11, <1>12, <1>13,
     <1>14, <1>15, <1>16, <1>17, <1>18, <1>19, <1>20
  DEF Next, RequestStep, JobStep, CommandStep

-----------------------------------------------------------------------------
(* The limit.                                                              *)

\* Steps that leave the table alone, start no request and let none enter or
\* leave keep the limit.
LEMMA LimitIsKept ==
  ASSUME RoomUnlessOvertaken, LimitOnlyOvertaken, UNCHANGED <<containers, overtaken>>,
         \A r \in overtaken : Entered(r)' <=> Entered(r),
         \A r \in Request : create'[r] \in {"sequence", "set"} => create[r] \in {"sequence", "set"}
  PROVE  (RoomUnlessOvertaken /\ LimitOnlyOvertaken)'
<1>1. Used' = Used /\ Late' = Late
  BY DEF Used, Late
<1>2. Count' = Count /\ Cardinality(Late') = Cardinality(Late)
  BY <1>1 DEF Count, Used
<1> QED
  BY <1>2 DEF RoomUnlessOvertaken, LimitOnlyOvertaken, Late

\* setContainer adds one entry. Either the request was overtaken, and is one more
\* of those; or it was not, and there was room for it.
LEMMA SetKeepsLimit ==
  ASSUME IInv, NEW r \in Request, SetContainer(r)
  PROVE  (RoomUnlessOvertaken /\ LimitOnlyOvertaken)'
<1> USE ContainerAssumption
<1>1. /\ create[r] = "set" /\ create' = [create EXCEPT ![r] = "start"] /\ clean' = clean
      /\ containers' = [containers EXCEPT ![id[r]] = r]
      /\ overtaken' = overtaken \cup {s \in Request \ {r} : create[s] \in {"sequence", "set"}}
  BY DEF SetContainer, Create
<1>2. id[r] \in ID /\ containers[id[r]] = Nil /\ create \in [Request -> CreatePC]
      /\ containers \in [ID -> Request \cup {Nil}] /\ overtaken \subseteq Request
      /\ clean[r] = "none"
  BY <1>1 DEF IInv, LifeIInv, TypeOK, TableAgrees, NothingBeforeJob
<1>3. RoomUnlessOvertaken'
  BY <1>1, <1>2 DEF RoomUnlessOvertaken
<1>4. Used' = Used \cup {id[r]} /\ id[r] \notin Used
  BY <1>1, <1>2 DEF Used
<1>5. Late' = IF r \in overtaken THEN Late \cup {r} ELSE Late
  BY <1>1, <1>2 DEF Late, Entered
<1>6. r \notin Late
  BY <1>1 DEF Late, Entered
<1>7. Cardinality(Used') = Cardinality(Used) + 1 /\ Cardinality(Used) \in Nat
      /\ Cardinality(Late) \in Nat
  BY <1>4, TableIsFinite, FS_AddElement DEF IInv
<1>8. Cardinality(Used) <= MaxCount + Cardinality(Late)
  BY DEF IInv, LimitOnlyOvertaken, Count, Used, Late
<1>9. Cardinality(Used') <= MaxCount + Cardinality(Late')
  <2>1. CASE r \in overtaken
    <3>1. Cardinality(Late') = Cardinality(Late) + 1
      BY <2>1, <1>5, <1>6, TableIsFinite, FS_AddElement DEF IInv
    <3> QED
      BY <3>1, <1>7, <1>8
  <2>2. CASE r \notin overtaken
    <3>1. Cardinality(Used) < MaxCount
      BY <1>1, <2>2 DEF IInv, RoomUnlessOvertaken, Count, Used
    <3> QED
      BY <3>1, <2>2, <1>5, <1>7
  <2> QED
    BY <2>1, <2>2
<1> QED
  BY <1>3, <1>9 DEF LimitOnlyOvertaken, Count, Used, Late

\* unsetContainer removes one entry, and at most one overtaken request.
LEMMA UnsetKeepsLimit ==
  ASSUME IInv, NEW r \in Request, UnsetContainer(r)
  PROVE  (RoomUnlessOvertaken /\ LimitOnlyOvertaken)'
<1> USE ContainerAssumption
<1>1. /\ clean[r] = "unset" /\ clean' = [clean EXCEPT ![r] = "done"]
      /\ containers' = [containers EXCEPT ![id[r]] = Nil]
      /\ create' = [create EXCEPT ![r] = IF @ = "failing" THEN "failed" ELSE @]
      /\ overtaken' = overtaken
  BY DEF UnsetContainer
<1>2. TypeOK /\ Entered(r) /\ id[r] \in ID /\ containers[id[r]] = r
  <2>1. create[r] \in {"failing", "assign", "created"}
    BY <1>1 DEF IInv, LifeIInv, TypeOK, CreatePC, NothingBeforeJob, OneCleaner
  <2> QED
    BY <1>1, <2>1 DEF IInv, LifeIInv, TableAgrees, Entered
<1>3. Used' = Used \ {id[r]} /\ id[r] \in Used
  BY <1>1, <1>2 DEF Used, TypeOK
<1>4. Late' = Late \ {r}
  BY <1>1, <1>2 DEF Late, TypeOK, Entered
<1>5. Cardinality(Used') = Cardinality(Used) - 1 /\ Cardinality(Used) \in Nat
  BY <1>3, TableIsFinite, FS_RemoveElement DEF IInv
<1>6. Cardinality(Late') \in {Cardinality(Late), Cardinality(Late) - 1} /\ Cardinality(Late) \in Nat
  BY <1>4, TableIsFinite, FS_RemoveElement DEF IInv
<1>7. Cardinality(Used') <= MaxCount + Cardinality(Late')
  BY <1>5, <1>6 DEF IInv, LimitOnlyOvertaken, Count, Used, Late
<1>8. RoomUnlessOvertaken'
  <2>1. Count' <= Count /\ Count \in Nat /\ Count' \in Int
    BY <1>5 DEF Count, Used
  <2>2. \A s \in Request : create'[s] \in {"sequence", "set"} => create[s] \in {"sequence", "set"}
    BY <1>1, <1>2 DEF TypeOK
  <2> QED
    BY <1>1, <2>1, <2>2 DEF IInv, RoomUnlessOvertaken
<1> QED
  BY <1>7, <1>8 DEF LimitOnlyOvertaken, Count, Used, Late

\* The invariant holds at first: there are no containers.
LEMMA InitIInv == Init => IInv
<1> SUFFICES ASSUME Init PROVE IInv
  OBVIOUS
<1>1. LifeIInv
  BY InitLife
<1>2. Used = {} /\ Late = {}
  BY DEF Init, Used, Late
<1>3. Count = 0 /\ Cardinality(Late) = 0
  BY <1>2, FS_EmptySet DEF Count, Used
<1>4. RoomUnlessOvertaken
  BY DEF Init, RoomUnlessOvertaken
<1> QED
  BY <1>1, <1>3, <1>4, ContainerAssumption DEF IInv, LimitOnlyOvertaken, Late

\* Every step keeps the invariant.
LEMMA NextIInv == ASSUME IInv, [Next]_vars PROVE IInv'
<1> DEFINE Limit == RoomUnlessOvertaken /\ LimitOnlyOvertaken
<1>1. LifeIInv'
  BY NextLife DEF IInv
<1>2. TypeOK /\ NothingBeforeJob /\ OneCleaner /\ RoomUnlessOvertaken /\ LimitOnlyOvertaken
  BY DEF IInv, LifeIInv
<1>3. ASSUME NEW r \in Request, CheckCount(r) PROVE Limit'
  <2>1. UNCHANGED <<containers, overtaken, clean>> /\ create[r] = "new"
        /\ create' = [create EXCEPT ![r] = IF Count >= MaxCount THEN "refused" ELSE "sequence"]
    BY <1>3 DEF CheckCount, Create
  <2>2. Used' = Used /\ Late' = Late
    BY <1>2, <2>1 DEF Used, Late, Entered, TypeOK
  <2>3. Count' = Count /\ Cardinality(Late') = Cardinality(Late) /\ Count \in Nat
    BY <2>2, TableIsFinite DEF Count, Used, IInv
  <2> QED
    BY <1>2, <2>1, <2>3, ContainerAssumption
    DEF TypeOK, RoomUnlessOvertaken, LimitOnlyOvertaken, Late
<1>4. ASSUME NEW r \in Request, SetContainer(r) PROVE Limit'
  BY <1>4, SetKeepsLimit
<1>5. ASSUME NEW r \in Request, UnsetContainer(r) PROVE Limit'
  BY <1>5, UnsetKeepsLimit
<1>6. ASSUME NEW r \in Request,
             \/ NextSequence(r) \/ StartFails(r) \/ StartSucceeds(r) \/ RunJob(r)
             \/ RunJobDuplicate(r) \/ Assign(r)
      PROVE  Limit'
  <2>1. UNCHANGED <<containers, overtaken>> /\ (clean' = clean \/ clean' = [clean EXCEPT ![r] = "close"])
    BY <1>6 DEF NextSequence, StartFails, StartSucceeds, RunJob, RunJobDuplicate, Assign
  <2>2. \/ create[r] = "sequence" /\ create' = [create EXCEPT ![r] = "set"]
        \/ create[r] = "start" /\ create' = [create EXCEPT ![r] = "failing"]
        \/ create[r] = "start" /\ create' = [create EXCEPT ![r] = "run"]
        \/ create[r] = "run" /\ create' = [create EXCEPT ![r] = "assign"]
        \/ create[r] = "run" /\ create' = [create EXCEPT ![r] = "failing"]
        \/ create[r] = "assign" /\ create' = [create EXCEPT ![r] = "created"] /\ clean' = clean
    BY <1>6 DEF NextSequence, StartFails, StartSucceeds, RunJob, RunJobDuplicate, Assign, Create
  <2>3. \A s \in overtaken : Entered(s)' <=> Entered(s)
    BY <1>2, <2>1, <2>2 DEF Entered, TypeOK, NothingBeforeJob
  <2>4. \A s \in Request : create'[s] \in {"sequence", "set"} => create[s] \in {"sequence", "set"}
    BY <1>2, <2>2 DEF TypeOK
  <2> QED
    BY <1>2, <2>1, <2>3, <2>4, LimitIsKept
<1>7. ASSUME NEW r \in Request,
             \/ Fork(r) \/ Exit(r) \/ JobOver(r) \/ OnStart(r) \/ PostStart(r) \/ CloseForward(r)
      PROVE  Limit'
  <2>1. /\ UNCHANGED <<containers, overtaken, create>>
        /\ \/ clean' = clean
           \/ clean[r] # "done" /\ clean' = [clean EXCEPT ![r] = "close"]
           \/ clean[r] # "done" /\ clean' = [clean EXCEPT ![r] = "unset"]
    <3>1. job[r] \in {"started", "alive"} => clean[r] # "done"
      BY <1>2 DEF TypeOK, CreatePC, NothingBeforeJob, OneCleaner
    <3> QED
      BY <1>7, <3>1 DEF Fork, Exit, JobOver, OnStart, PostStart, CloseForward, Job
  <2>2. \A s \in overtaken : Entered(s)' <=> Entered(s)
    BY <1>2, <2>1 DEF Entered, TypeOK
  <2> QED
    BY <1>2, <2>1, <2>2, LimitIsKept
<1>8. ASSUME NEW k \in Cmd, CommandStep(k) PROVE Limit'
  <2>1. UNCHANGED <<containers, overtaken, create, clean>>
    BY <1>8 DEF CommandStep, Dispatch, DispatchUnknown, FlagCommand, ForwardCommand,
                DispatchFails, Rewind
  <2> QED
    BY <1>2, <2>1, LimitIsKept DEF Entered
<1>9. ASSUME UNCHANGED vars PROVE Limit'
  BY <1>2, <1>9, LimitIsKept DEF vars, Entered
<1> QED
  BY <1>1, <1>3, <1>4, <1>5, <1>6, <1>7, <1>8, <1>9
  DEF IInv, Next, RequestStep, JobStep

-----------------------------------------------------------------------------
(* The theorems.                                                           *)

\* Every behaviour of the containers satisfies the invariant.
LEMMA AlwaysIInv == Spec => []IInv
BY InitIInv, NextIInv, PTL DEF Spec

\* createContainer, setContainer, unsetContainer: every container has its own
\* entry from setContainer to its own cleanup, although ids are used again; and
\* the limit is exceeded only by requests that read the count before another one
\* entered, and by no more than there are of them.
THEOREM TableKept == Spec => []TableIsKept
<1>1. IInv => TableIsKept
  BY DEF IInv, LifeIInv, TableIsKept, EntryIsOwn, TableAgrees
<1> QED
  BY <1>1, AlwaysIInv, PTL

\* cleanup, called by Start or by the exit hook: forwardChan is never closed twice,
\* and whatever failed nothing of the container is left in the table.
THEOREM CleanedUpOnce == Spec => []CleansUpOnce
<1>1. IInv => ClosedOnce
  BY DEF IInv, LifeIInv, ClosedByCleanup, ClosedOnce
<1>2. IInv => NothingIsLeft
  BY ContainerAssumption
  DEF IInv, LifeIInv, TypeOK, CreatePC, NothingBeforeJob, OneCleaner, ClosedByCleanup,
      ForwarderIsOpen, TableAgrees, Entered, NothingIsLeft
<1> QED
  BY <1>1, <1>2, AlwaysIInv, PTL DEF CleansUpOnce

\* dispatch, pushToContainer, forward and rewind: the flag of a command that was
\* answered expires; a flag stays only where the dispatch failed or the container
\* ended.
THEOREM FlagsOutliveOnlyFailures == Spec => []FlagOutlivesOnlyFailure
<1>1. IInv => FlagOutlivesOnlyFailure
  BY DEF IInv, LifeIInv, TypeOK, DispatchPC, DispatchFollows, FlagOutlivesOnlyFailure
<1> QED
  BY <1>1, AlwaysIInv, PTL

-----------------------------------------------------------------------------
(* ContainerNetwork: the inductive invariant. What nicAdd sets up, what a  *)
(* client forwards and a daemon that starts first while the network is     *)
(* destroyed are in lateAdd; for all else it says how far destroyNetwork   *)
(* has come, and why no other goroutine can undo it: the namespace is      *)
(* mounted and links move into it only while the process lives, and the    *)
(* watcher restarts zerotier only where it is mounted.                     *)

BoxWhere == {"new", "set", "pre", "forward", "up", "destroy", "killzt", "unmount", "restore",
             "unset", "gone"}
NicRecord == [type : NicType, state : {"unknown", "configured", "error", "destroyed"}, moved : BOOLEAN]
LinkState == {"none", "host", "ns", "back"}

\* The types of the variables.
NetworkTypeOK ==
  /\ box \in [Box -> BoxWhere \X Nat \X Nat]
  /\ pidHook \in [Box -> {"none", "pid", "namespace", "post", "over"} \X Nat \X Nat]
  /\ nicOp \in [Box -> {"none", "pre", "post", "remove"} \X Nat]
  /\ nics \in [Box -> Seq(NicRecord)] /\ links \in [Box -> Seq(LinkState)]
  /\ proc \in [Box -> {"none", "alive", "dead"}] /\ watch \in [Box -> {"none", "wait", "over"}]
  /\ pid \in [Box -> BOOLEAN] /\ mounted \in [Box -> BOOLEAN] /\ zt \in [Box -> BOOLEAN]
  /\ ztOnce \in [Box -> BOOLEAN] /\ zterr \in [Box -> BOOLEAN] /\ terminating \in [Box -> BOOLEAN]
  /\ lateAdd \in [Box -> SUBSET {"zerotier", "nic", "ovs", "forward"}]

Type(b, i) == nics[b][i].type
Moved(b, i) == nics[b][i].moved

\* What loops and commands count are nics of the container.
IndexOK(b) ==
  /\ Len(links[b]) = Len(nics[b]) /\ (At(b, "new") => Len(nics[b]) = 0)
  /\ box[b][1] \in {"pre", "forward", "destroy"} => box[b][2] >= 1 /\ box[b][3] <= Len(nics[b])
  /\ At(b, "forward") => box[b][2] <= Len(nics[b]) /\ Type(b, box[b][2]) = "default"
  /\ pidHook[b][1] = "post" => pidHook[b][2] >= 1 /\ pidHook[b][3] <= Len(nics[b])
  /\ nicOp[b][1] # "none" => nicOp[b][2] \in 1 .. Len(nics[b])
  /\ box[b][1] \in {"pre", "forward"} /\ nicOp[b][1] = "pre" => nicOp[b][2] > box[b][3]

\* How far the process, its PID hook and the mount of its namespace can be.
LifeOK(b) ==
  /\ box[b][1] \in {"new", "set", "pre", "forward"} => proc[b] = "none"
  /\ Destroying(b) => proc[b] # "alive" /\ (~terminating[b] => proc[b] = "none")
  /\ proc[b] = "none" => pidHook[b][1] = "none"
  /\ pidHook[b][1] \in {"none", "pid"} => ~mounted[b]
  /\ pidHook[b][1] \in {"namespace", "post", "over"} => pid[b]
  /\ box[b][1] \in {"restore", "unset", "gone"} => ~mounted[b]
  /\ box[b][1] \in {"unmount", "restore", "unset", "gone"} /\ zt[b] => "zerotier" \in lateAdd[b]

\* Where links can be.
LinksOK(b) ==
  \A i \in 1 .. Len(nics[b]) :
    /\ Moved(b, i) => proc[b] # "none" /\ links[b][i] \in {"ns", "back", "none"}
    /\ nicOp[b] = <<"pre", i>> => links[b][i] = "none" /\ ~Moved(b, i)
    /\ links[b][i] = "back" => Type(b, i) = "passthrough"

\* What of the links is gone, unless something came late.
TakenDown(b) ==
  lateAdd[b] = {} => \A i \in 1 .. Len(nics[b]) :
    /\ Destroying(b) /\ Type(b, i) \in {"vlan", "default"} =>
         links[b][i] = "none" \/ (At(b, "destroy") /\ box[b][2] <= i /\ i <= box[b][3])
    /\ box[b][1] \in {"restore", "unset", "gone"} => links[b][i] # "ns"
    /\ box[b][1] \in {"unset", "gone"} /\ Type(b, i) = "passthrough" => links[b][i] = "none"

\* Forwards that were not removed have a default nic that destroyNetwork comes to.
ForwardsOK(b) ==
  (\E r \in Forwarded(b) : r.port \notin broken) /\ "forward" \notin lateAdd[b] =>
    \E k \in 1 .. Len(nics[b]) :
      /\ Type(b, k) = "default"
      /\ ~Destroying(b) \/ (At(b, "destroy") /\ box[b][2] <= k /\ k <= box[b][3])

\* The nics of a container have the types they had, and are where they were.
SameNics(b) ==
  /\ Len(nics'[b]) = Len(nics[b])
  /\ \A i \in 1 .. Len(nics[b]) : Type(b, i)' = Type(b, i) /\ Moved(b, i)' = Moved(b, i)

BoxIInv(b) == IndexOK(b) /\ LifeOK(b) /\ LinksOK(b) /\ TakenDown(b) /\ ForwardsOK(b)
NetworkIInv == NetworkTypeOK /\ \A b \in Box : BoxIInv(b)

-----------------------------------------------------------------------------
(* Lemmas: containers that are left alone, and single changes.             *)


\* A step that leaves a container alone leaves its invariant, whatever happens to the
\* forwards of others.
LEMMA OtherBox ==
  ASSUME NEW c \in Box, BoxIInv(c),
         box'[c] = box[c], pidHook'[c] = pidHook[c], nicOp'[c] = nicOp[c], nics'[c] = nics[c],
         links'[c] = links[c], proc'[c] = proc[c], pid'[c] = pid[c], mounted'[c] = mounted[c],
         zt'[c] = zt[c], terminating'[c] = terminating[c], lateAdd'[c] = lateAdd[c],
         Forwarded(c)' \subseteq Forwarded(c), broken \subseteq broken'
  PROVE  BoxIInv(c)'
<1>1. IndexOK(c)'
  BY DEF BoxIInv, IndexOK, At, Type
<1>2. LifeOK(c)'
  BY DEF BoxIInv, LifeOK, Destroying
<1>3. LinksOK(c)'
  BY DEF BoxIInv, LinksOK, Type, Moved
<1>4. TakenDown(c)'
  BY DEF BoxIInv, TakenDown, Type, Destroying, At
<1>5. ForwardsOK(c)'
  BY DEF BoxIInv, ForwardsOK, Type, Destroying, At
<1> QED
  BY <1>1, <1>2, <1>3, <1>4, <1>5 DEF BoxIInv

\* The steps of a container that leave forwards alone.
LEMMA Others ==
  ASSUME NetworkIInv, NEW b \in Box, UNCHANGED forwardVars,
         \A c \in Box \ {b} :
         /\ box'[c] = box[c] /\ pidHook'[c] = pidHook[c] /\ nicOp'[c] = nicOp[c] /\ nics'[c] = nics[c]
         /\ links'[c] = links[c] /\ proc'[c] = proc[c] /\ pid'[c] = pid[c] /\ mounted'[c] = mounted[c]
         /\ zt'[c] = zt[c] /\ terminating'[c] = terminating[c] /\ lateAdd'[c] = lateAdd[c]
  PROVE  \A c \in Box \ {b} : BoxIInv(c)'
<1> TAKE c \in Box \ {b}
<1>1. Forwarded(c)' = Forwarded(c) /\ broken' = broken
  BY DEF forwardVars, Forwarded, forwardId
<1> QED
  BY <1>1, OtherBox DEF NetworkIInv

\* So its own invariant is all that is left to show.
LEMMA Assemble ==
  ASSUME NetworkIInv, NEW b \in Box, NetworkTypeOK', UNCHANGED forwardVars, BoxIInv(b)',
         \A c \in Box \ {b} :
         /\ box'[c] = box[c] /\ pidHook'[c] = pidHook[c] /\ nicOp'[c] = nicOp[c] /\ nics'[c] = nics[c]
         /\ links'[c] = links[c] /\ proc'[c] = proc[c] /\ pid'[c] = pid[c] /\ mounted'[c] = mounted[c]
         /\ zt'[c] = zt[c] /\ terminating'[c] = terminating[c] /\ lateAdd'[c] = lateAdd[c]
  PROVE  NetworkIInv'
<1>1. \A c \in Box \ {b} : BoxIInv(c)'
  BY Others
<1> QED
  BY <1>1 DEF NetworkIInv

\* A new value in a function.
LEMMA FunSet ==
  ASSUME NEW S, NEW T, NEW f \in [S -> T], NEW a \in S, NEW v \in T
  PROVE  [f EXCEPT ![a] = v] \in [S -> T]
OBVIOUS

\* A function on the first numbers is a sequence.
LEMMA FunSeq ==
  ASSUME NEW S, NEW n \in Nat, NEW f, f = [i \in 1 .. n |-> f[i]], \A i \in 1 .. n : f[i] \in S
  PROVE  f \in Seq(S) /\ Len(f) = n
<1>1. f \in [1 .. n -> S]
  OBVIOUS
<1> QED
  BY <1>1

\* A change of the state of a nic.
LEMMA StateSet ==
  ASSUME NetworkTypeOK, NEW b \in Box, NEW i \in 1 .. Len(nics[b]),
         NEW s \in {"unknown", "configured", "error", "destroyed"},
         nics' = [nics EXCEPT ![b][i].state = s]
  PROVE  /\ nics' \in [Box -> Seq(NicRecord)] /\ SameNics(b)
         /\ \A c \in Box \ {b} : nics'[c] = nics[c]
<1> DEFINE t == [nics[b] EXCEPT ![i].state = s]
<1>1. nics[b] \in Seq(NicRecord)
  BY DEF NetworkTypeOK
<1>2. nics[b][i] \in NicRecord
  BY <1>1
<1>3. [nics[b][i] EXCEPT !.state = s] \in NicRecord
  BY <1>2 DEF NicRecord
<1>4. t = [nics[b] EXCEPT ![i] = [nics[b][i] EXCEPT !.state = s]]
  OBVIOUS
<1>5. t \in Seq(NicRecord) /\ Len(t) = Len(nics[b])
  BY <1>1, <1>3, <1>4
<1>6. \A j \in 1 .. Len(nics[b]) : t[j].type = nics[b][j].type /\ t[j].moved = nics[b][j].moved
  <2> TAKE j \in 1 .. Len(nics[b])
  <2>1. CASE j = i
    BY <1>1, <1>2, <1>4, <2>1 DEF NicRecord
  <2>2. CASE j # i
    BY <1>1, <1>4, <2>2
  <2> QED
    BY <2>1, <2>2
<1>7. nics' = [nics EXCEPT ![b] = t]
  OBVIOUS
<1> HIDE DEF t
<1>8. nics'[b] = t /\ \A c \in Box \ {b} : nics'[c] = nics[c]
  BY <1>7 DEF NetworkTypeOK
<1>9. nics' \in [Box -> Seq(NicRecord)]
  <2>1. nics \in [Box -> Seq(NicRecord)] /\ t \in Seq(NicRecord)
    BY <1>5 DEF NetworkTypeOK
  <2>2. [nics EXCEPT ![b] = t] \in [Box -> Seq(NicRecord)]
    BY <2>1, FunSet
  <2> QED
    BY <1>7, <2>2
<1> QED
  BY <1>5, <1>6, <1>8, <1>9 DEF SameNics, Type, Moved

\* A change of one link.
LEMMA LinkSet ==
  ASSUME NetworkTypeOK, NEW b \in Box, NEW i \in 1 .. Len(links[b]), NEW k \in LinkState,
         links' = [links EXCEPT ![b][i] = k]
  PROVE  /\ links' \in [Box -> Seq(LinkState)] /\ Len(links'[b]) = Len(links[b])
         /\ links'[b][i] = k /\ \A j \in 1 .. Len(links[b]) : j # i => links'[b][j] = links[b][j]
         /\ \A c \in Box \ {b} : links'[c] = links[c]
<1> DEFINE t == [links[b] EXCEPT ![i] = k]
<1>1. links[b] \in Seq(LinkState)
  BY DEF NetworkTypeOK
<1>2. /\ t \in Seq(LinkState) /\ Len(t) = Len(links[b]) /\ t[i] = k
      /\ \A j \in 1 .. Len(links[b]) : j # i => t[j] = links[b][j]
  BY <1>1
<1>3. links' = [links EXCEPT ![b] = t]
  OBVIOUS
<1> HIDE DEF t
<1> QED
  BY <1>2, <1>3 DEF NetworkTypeOK

\* The links of a namespace that may have come to its end.
LEMMA Settled ==
  ASSUME NetworkTypeOK, NEW b \in Box, IndexOK(b), NEW alive \in BOOLEAN,
         links' = [links EXCEPT ![b] = Settle(b, alive)]
  PROVE  /\ links' \in [Box -> Seq(LinkState)] /\ Len(links'[b]) = Len(links[b])
         /\ \A i \in 1 .. Len(links[b]) :
              /\ links[b][i] # "ns" \/ alive => links'[b][i] = links[b][i]
              /\ links[b][i] = "ns" /\ ~alive =>
                   links'[b][i] = IF Type(b, i) = "passthrough" THEN "back" ELSE "none"
         /\ \A c \in Box \ {b} : links'[c] = links[c]
<1> DEFINE t == Settle(b, alive)
<1>1. links[b] \in Seq(LinkState) /\ DOMAIN links[b] = 1 .. Len(links[b])
  BY DEF NetworkTypeOK
<1>2. \A i \in 1 .. Len(links[b]) : links[b][i] \in LinkState
  BY <1>1
<1>3. t = [i \in 1 .. Len(links[b]) |->
     IF links[b][i] # "ns" \/ alive THEN links[b][i]
     ELSE IF nics[b][i].type = "passthrough" THEN "back" ELSE "none"]
  BY <1>1 DEF Settle
<1>4. \A i \in 1 .. Len(links[b]) : t[i] \in LinkState
  BY <1>2, <1>3 DEF LinkState
<1>5. t \in Seq(LinkState) /\ Len(t) = Len(links[b])
  <2>1. t = [i \in 1 .. Len(links[b]) |-> t[i]] /\ Len(links[b]) \in Nat
    BY <1>1, <1>3
  <2> HIDE DEF t
  <2> QED
    BY <1>4, <2>1, FunSeq
<1>6. \A i \in 1 .. Len(links[b]) :
              /\ links[b][i] # "ns" \/ alive => t[i] = links[b][i]
              /\ links[b][i] = "ns" /\ ~alive =>
                   t[i] = IF Type(b, i) = "passthrough" THEN "back" ELSE "none"
  BY <1>3 DEF Type
<1> HIDE DEF t
<1>7. links' = [links EXCEPT ![b] = t]
  BY DEF t
<1>8. links'[b] = t /\ \A c \in Box \ {b} : links'[c] = links[c]
  BY <1>7 DEF NetworkTypeOK
<1>9. links' \in [Box -> Seq(LinkState)]
  <2>1. links \in [Box -> Seq(LinkState)] /\ t \in Seq(LinkState)
    BY <1>5 DEF NetworkTypeOK
  <2>2. [links EXCEPT ![b] = t] \in [Box -> Seq(LinkState)]
    BY <2>1, FunSet
  <2> QED
    BY <1>7, <2>2
<1> QED
  BY <1>5, <1>6, <1>8, <1>9

\* Every other container is as it was.
Elsewhere(b) ==
  \A c \in Box \ {b} :
    /\ box'[c] = box[c] /\ pidHook'[c] = pidHook[c] /\ nicOp'[c] = nicOp[c] /\ nics'[c] = nics[c]
    /\ links'[c] = links[c] /\ proc'[c] = proc[c] /\ pid'[c] = pid[c] /\ mounted'[c] = mounted[c]
    /\ zt'[c] = zt[c] /\ terminating'[c] = terminating[c] /\ lateAdd'[c] = lateAdd[c]

\* The types of what a container has.
BoxTyped(b) ==
  /\ box[b][1] \in BoxWhere /\ box[b][2] \in Nat /\ box[b][3] \in Nat
  /\ pidHook[b][1] \in {"none", "pid", "namespace", "post", "over"}
  /\ pidHook[b][2] \in Nat /\ pidHook[b][3] \in Nat
  /\ nicOp[b][1] \in {"none", "pre", "post", "remove"} /\ nicOp[b][2] \in Nat
  /\ nicOp[b] = <<nicOp[b][1], nicOp[b][2]>>
  /\ nics[b] \in Seq(NicRecord) /\ Len(nics[b]) \in Nat /\ DOMAIN nics[b] = 1 .. Len(nics[b])
  /\ links[b] \in Seq(LinkState) /\ Len(links[b]) \in Nat /\ DOMAIN links[b] = 1 .. Len(links[b])
  /\ proc[b] \in {"none", "alive", "dead"}
  /\ pid[b] \in BOOLEAN /\ mounted[b] \in BOOLEAN /\ zt[b] \in BOOLEAN /\ ztOnce[b] \in BOOLEAN
  /\ zterr[b] \in BOOLEAN /\ terminating[b] \in BOOLEAN
  /\ lateAdd[b] \subseteq {"zerotier", "nic", "ovs", "forward"}

\* They follow from the types of the variables.
LEMMA PointTypes ==
  ASSUME NetworkTypeOK, NEW b \in Box
  PROVE  BoxTyped(b)
BY DEF NetworkTypeOK, BoxTyped

\* Forwards while the network is not being destroyed, or when that begins.
LEMMA ForwardsStay ==
  ASSUME NEW b \in Box, BoxTyped(b), ForwardsOK(b), UNCHANGED forwardVars, SameNics(b),
         lateAdd[b] \subseteq lateAdd'[b], ~Destroying(b),
         Destroying(b)' => box'[b] = <<"destroy", 1, Len(nics[b])>>
  PROVE  ForwardsOK(b)'
<1> SUFFICES ASSUME (\E r \in Forwarded(b)' : r.port \notin broken'), "forward" \notin lateAdd'[b]
             PROVE  \E k \in 1 .. Len(nics'[b]) :
                      /\ Type(b, k)' = "default"
                      /\ ~Destroying(b)' \/ (At(b, "destroy")' /\ box'[b][2] <= k /\ k <= box'[b][3])
  BY DEF ForwardsOK
<1>1. Forwarded(b)' = Forwarded(b) /\ broken' = broken
  BY DEF Forwarded, forwardVars, forwardId
<1>2. PICK k \in 1 .. Len(nics[b]) : Type(b, k) = "default"
  BY <1>1 DEF ForwardsOK
<1>3. k \in 1 .. Len(nics'[b]) /\ Type(b, k)' = "default"
  BY <1>2 DEF SameNics
<1>4. ~Destroying(b)' \/ (At(b, "destroy")' /\ box'[b][2] <= k /\ k <= box'[b][3])
  BY <1>2 DEF At, BoxTyped
<1> QED
  BY <1>3, <1>4

\* Types of single changes.
LEMMA GoTyped ==
  ASSUME NetworkTypeOK, NEW b \in Box, NEW where \in BoxWhere, NEW i \in Nat, NEW n \in Nat,
         Go(b, where, i, n)
  PROVE  box' \in [Box -> BoxWhere \X Nat \X Nat] /\ box'[b] = <<where, i, n>>
BY DEF Go, NetworkTypeOK

\* The same for the PID hook.
LEMMA HookTyped ==
  ASSUME NetworkTypeOK, NEW b \in Box, NEW i \in Nat, NEW n \in Nat,
         NEW where \in {"none", "pid", "namespace", "post", "over"},
         pidHook' = [pidHook EXCEPT ![b] = <<where, i, n>>]
  PROVE  pidHook' \in [Box -> {"none", "pid", "namespace", "post", "over"} \X Nat \X Nat]
BY DEF NetworkTypeOK

\* The same for the watcher.
LEMMA WatchTyped ==
  ASSUME NetworkTypeOK, NEW b \in Box, NEW w \in {"none", "wait", "over"},
         watch' = [watch EXCEPT ![b] = w]
  PROVE  watch' \in [Box -> {"none", "wait", "over"}]
BY DEF NetworkTypeOK

\* The same for a command.
LEMMA OpTyped ==
  ASSUME NetworkTypeOK, NEW b \in Box, NEW i \in Nat, NEW where \in {"none", "pre", "post", "remove"},
         Op(b, where, i)
  PROVE  /\ nicOp' \in [Box -> {"none", "pre", "post", "remove"} \X Nat] /\ nicOp'[b] = <<where, i>>
         /\ \A c \in Box \ {b} : nicOp'[c] = nicOp[c]
BY DEF Op, NetworkTypeOK

\* A link stays, goes, or comes back from the namespace as a passthrough device does.
Moves(b, i) ==
  \/ links'[b][i] = links[b][i] \/ links'[b][i] = "none"
  \/ links[b][i] = "ns" /\ links'[b][i] = "back" /\ Type(b, i) = "passthrough"

\* Where links can be, after such moves.
LEMMA LinksMove ==
  ASSUME NEW b \in Box, LinksOK(b), SameNics(b), nicOp'[b] = nicOp[b] \/ nicOp'[b][1] # "pre",
         proc[b] # "none" => proc'[b] # "none", \A i \in 1 .. Len(nics[b]) : Moves(b, i)
  PROVE  LinksOK(b)'
<1> SUFFICES ASSUME NEW i \in 1 .. Len(nics[b])
             PROVE  /\ Moved(b, i)' => proc'[b] # "none" /\ links'[b][i] \in {"ns", "back", "none"}
                    /\ nicOp'[b] = <<"pre", i>> => links'[b][i] = "none" /\ ~Moved(b, i)'
                    /\ links'[b][i] = "back" => Type(b, i)' = "passthrough"
  BY DEF LinksOK, SameNics
<1>1. Moves(b, i) /\ Type(b, i)' = Type(b, i) /\ Moved(b, i)' = Moved(b, i)
  BY DEF SameNics
<1>2. /\ Moved(b, i) => proc[b] # "none" /\ links[b][i] \in {"ns", "back", "none"}
      /\ nicOp[b] = <<"pre", i>> => links[b][i] = "none" /\ ~Moved(b, i)
      /\ links[b][i] = "back" => Type(b, i) = "passthrough"
  BY DEF LinksOK
<1> QED
  BY <1>1, <1>2 DEF Moves

\* What of the links is gone stays so.
LEMMA TakenMove ==
  ASSUME NEW b \in Box, TakenDown(b), SameNics(b), lateAdd'[b] = {} => lateAdd[b] = {},
         \/ box'[b] = box[b]
         \/ box[b][1] = "killzt" /\ box'[b][1] = "unmount",
         \A i \in 1 .. Len(nics[b]) : Moves(b, i)
  PROVE  TakenDown(b)'
<1> SUFFICES ASSUME lateAdd'[b] = {}, NEW i \in 1 .. Len(nics[b])
             PROVE  /\ Destroying(b)' /\ Type(b, i)' \in {"vlan", "default"} =>
                         links'[b][i] = "none" \/ (At(b, "destroy")' /\ box'[b][2] <= i /\ i <= box'[b][3])
                    /\ box'[b][1] \in {"restore", "unset", "gone"} => links'[b][i] # "ns"
                    /\ box'[b][1] \in {"unset", "gone"} /\ Type(b, i)' = "passthrough" => links'[b][i] = "none"
  BY DEF TakenDown, SameNics
<1>1. Moves(b, i) /\ Type(b, i)' = Type(b, i)
  BY DEF SameNics
<1>2. /\ Destroying(b) /\ Type(b, i) \in {"vlan", "default"} =>
           links[b][i] = "none" \/ (At(b, "destroy") /\ box[b][2] <= i /\ i <= box[b][3])
      /\ box[b][1] \in {"restore", "unset", "gone"} => links[b][i] # "ns"
      /\ box[b][1] \in {"unset", "gone"} /\ Type(b, i) = "passthrough" => links[b][i] = "none"
  BY DEF TakenDown
<1>3. CASE box'[b] = box[b]
  BY <1>1, <1>2, <1>3 DEF Moves, Destroying, At
<1>4. CASE box[b][1] = "killzt" /\ box'[b][1] = "unmount"
  BY <1>1, <1>2, <1>4 DEF Moves, Destroying, At
<1> QED
  BY <1>3, <1>4

\* Nothing of the links is to be gone before the network is destroyed.
LEMMA TakenIdle ==
  ASSUME NEW b \in Box, BoxTyped(b), SameNics(b),
         \/ ~Destroying(b)'
         \/ box'[b] = <<"destroy", 1, Len(nics[b])>>
  PROVE  TakenDown(b)'
<1>1. Len(nics'[b]) = Len(nics[b]) /\ Len(nics[b]) \in Nat
  BY DEF SameNics, BoxTyped
<1>2. CASE ~Destroying(b)'
  BY <1>2 DEF TakenDown, Destroying
<1>3. CASE box'[b] = <<"destroy", 1, Len(nics[b])>>
  BY <1>1, <1>3 DEF TakenDown, At
<1> QED
  BY <1>2, <1>3

\* setContainer.
LEMMA SetBoxKeeps ==
  ASSUME NetworkIInv, NEW b \in Box, SetBox(b)
  PROVE  NetworkIInv'
<1>1. NetworkTypeOK /\ IndexOK(b) /\ LifeOK(b) /\ LinksOK(b) /\ TakenDown(b) /\ ForwardsOK(b)
  BY DEF NetworkIInv, BoxIInv
<1>2. BoxTyped(b)
  BY <1>1, PointTypes
<1>3. /\ At(b, "set") /\ nicOp[b][1] = "none" /\ box'[b] = <<"pre", 1, Len(nics[b])>>
      /\ UNCHANGED <<pidHook, nicOp, nics, links, proc, pid, mounted, zt, terminating, lateAdd>>
      /\ Elsewhere(b) /\ UNCHANGED forwardVars
  BY <1>1 DEF SetBox, Go, At, Elsewhere, ReaderHolds, NetworkTypeOK
<1>4. NetworkTypeOK'
  <2>1. box' \in [Box -> BoxWhere \X Nat \X Nat]
    BY <1>1, <1>2, GoTyped DEF SetBox, BoxTyped, BoxWhere
  <2> QED
    BY <1>1, <2>1 DEF SetBox, NetworkTypeOK
<1>5. IndexOK(b)'
  BY <1>1, <1>2, <1>3 DEF IndexOK, BoxTyped, At, Type
<1>6. LifeOK(b)'
  BY <1>1, <1>2, <1>3 DEF LifeOK, BoxTyped, Destroying, At
<1>7. LinksOK(b)'
  BY <1>1, <1>2, <1>3 DEF LinksOK, LifeOK, IndexOK, BoxTyped, Type, Moved, At
<1>8. TakenDown(b)'
  <2>1. SameNics(b) /\ (~Destroying(b)' \/ box'[b] = <<"destroy", 1, Len(nics[b])>>)
    BY <1>3 DEF SameNics, Type, Moved, Destroying
  <2> QED
    BY <1>2, <2>1, TakenIdle
<1>9. ForwardsOK(b)'
  BY <1>1, <1>2, <1>3 DEF ForwardsOK, Forwarded, forwardVars, forwardId, IndexOK, BoxTyped, Type, Destroying, At
<1> QED
  BY <1>3, <1>4, <1>5, <1>6, <1>7, <1>8, <1>9, Assemble DEF BoxIInv, Elsewhere

\* RunFactory.
LEMMA RunKeeps ==
  ASSUME NetworkIInv, NEW b \in Box, Run(b)
  PROVE  NetworkIInv'
<1>1. NetworkTypeOK /\ IndexOK(b) /\ LifeOK(b) /\ LinksOK(b) /\ TakenDown(b) /\ ForwardsOK(b)
  BY DEF NetworkIInv, BoxIInv
<1>2. BoxTyped(b)
  BY <1>1, PointTypes
<1>3. /\ At(b, "pre")
      /\ \/ /\ box'[b] = <<"up", 0, 0>> /\ proc'[b] = "alive" /\ pidHook'[b] = <<"pid", 0, 0>>
         \/ box'[b] = <<"destroy", 1, Len(nics[b])>> /\ UNCHANGED <<proc, pidHook>>
      /\ UNCHANGED <<nicOp, nics, links, pid, mounted, zt, terminating, lateAdd>>
      /\ Elsewhere(b) /\ UNCHANGED forwardVars
  BY <1>1 DEF Run, Go, At, Elsewhere, NetworkTypeOK
<1>4. NetworkTypeOK'
  <2>1. box' \in [Box -> BoxWhere \X Nat \X Nat]
    BY <1>1, <1>2, GoTyped DEF Run, BoxWhere, BoxTyped, At, NetworkTypeOK
  <2>2. proc' \in [Box -> {"none", "alive", "dead"}]
    BY <1>1 DEF Run, NetworkTypeOK
  <2>3. pidHook' = [pidHook EXCEPT ![b] = <<"pid", 0, 0>>] \/ pidHook' = pidHook
    BY DEF Run
  <2>4. pidHook' \in [Box -> {"none", "pid", "namespace", "post", "over"} \X Nat \X Nat]
    <3>1. CASE pidHook' = [pidHook EXCEPT ![b] = <<"pid", 0, 0>>]
      BY <1>1, <3>1, HookTyped
    <3>2. CASE pidHook' = pidHook
      BY <1>1, <3>2 DEF NetworkTypeOK
    <3> QED
      BY <2>3, <3>1, <3>2
  <2> QED
    BY <1>1, <2>1, <2>2, <2>3, <2>4 DEF Run, NetworkTypeOK
<1>5. IndexOK(b)'
  BY <1>1, <1>2, <1>3 DEF IndexOK, BoxTyped, At, Type
<1>6. LifeOK(b)'
  BY <1>1, <1>2, <1>3 DEF LifeOK, BoxTyped, Destroying, At
<1>7. LinksOK(b)'
  BY <1>1, <1>2, <1>3 DEF LinksOK, LifeOK, IndexOK, BoxTyped, Type, Moved, At
<1>8. TakenDown(b)'
  <2>1. SameNics(b) /\ (~Destroying(b)' \/ box'[b] = <<"destroy", 1, Len(nics[b])>>)
    BY <1>3 DEF SameNics, Type, Moved, Destroying
  <2> QED
    BY <1>2, <2>1, TakenIdle
<1>9. ForwardsOK(b)'
  BY <1>1, <1>2, <1>3, ForwardsStay DEF SameNics, Type, Moved, Destroying, At
<1> QED
  BY <1>3, <1>4, <1>5, <1>6, <1>7, <1>8, <1>9, Assemble DEF BoxIInv, Elsewhere

\* The exit hook.
LEMMA OnExitKeeps ==
  ASSUME NetworkIInv, NEW b \in Box, OnExit(b)
  PROVE  NetworkIInv'
<1>1. NetworkTypeOK /\ IndexOK(b) /\ LifeOK(b) /\ LinksOK(b) /\ TakenDown(b) /\ ForwardsOK(b)
  BY DEF NetworkIInv, BoxIInv
<1>2. BoxTyped(b)
  BY <1>1, PointTypes
<1>3. /\ At(b, "up") /\ proc[b] = "dead" /\ terminating'[b] = TRUE
      /\ box'[b] = <<"destroy", 1, Len(nics[b])>>
      /\ UNCHANGED <<pidHook, nicOp, nics, links, proc, pid, mounted, zt, lateAdd>>
      /\ Elsewhere(b) /\ UNCHANGED forwardVars
  BY <1>1 DEF OnExit, Go, At, Elsewhere, NetworkTypeOK
<1>4. NetworkTypeOK'
  <2>1. box' \in [Box -> BoxWhere \X Nat \X Nat]
    BY <1>1, <1>2, GoTyped DEF OnExit, BoxTyped, BoxWhere
  <2>2. terminating' \in [Box -> BOOLEAN]
    BY <1>1 DEF OnExit, NetworkTypeOK
  <2> QED
    BY <1>1, <2>1, <2>2 DEF OnExit, NetworkTypeOK
<1>5. IndexOK(b)'
  BY <1>1, <1>2, <1>3 DEF IndexOK, BoxTyped, At, Type
<1>6. LifeOK(b)'
  BY <1>1, <1>2, <1>3 DEF LifeOK, BoxTyped, Destroying, At
<1>7. LinksOK(b)'
  BY <1>1, <1>2, <1>3 DEF LinksOK, LifeOK, IndexOK, BoxTyped, Type, Moved, At
<1>8. TakenDown(b)'
  <2>1. SameNics(b) /\ (~Destroying(b)' \/ box'[b] = <<"destroy", 1, Len(nics[b])>>)
    BY <1>3 DEF SameNics, Type, Moved, Destroying
  <2> QED
    BY <1>2, <2>1, TakenIdle
<1>9. ForwardsOK(b)'
  BY <1>1, <1>2, <1>3 DEF ForwardsOK, Forwarded, forwardVars, forwardId, IndexOK, BoxTyped, Type, Destroying, At
<1> QED
  BY <1>3, <1>4, <1>5, <1>6, <1>7, <1>8, <1>9, Assemble DEF BoxIInv, Elsewhere

\* The PID hook learns the PID.
LEMMA OnStartPIDKeeps ==
  ASSUME NetworkIInv, NEW b \in Box, OnStartPID(b) /\ UNCHANGED forwardVars
  PROVE  NetworkIInv'
<1>1. NetworkTypeOK /\ IndexOK(b) /\ LifeOK(b) /\ LinksOK(b) /\ TakenDown(b) /\ ForwardsOK(b)
  BY DEF NetworkIInv, BoxIInv
<1>2. BoxTyped(b)
  BY <1>1, PointTypes
<1>3. /\ pidHook[b][1] = "pid" /\ pid'[b] = TRUE /\ pidHook'[b] = <<"namespace", 0, 0>>
      /\ UNCHANGED <<box, nicOp, nics, links, proc, mounted, zt, terminating, lateAdd>>
      /\ Elsewhere(b) /\ UNCHANGED forwardVars
  BY <1>1 DEF OnStartPID, Elsewhere, NetworkTypeOK
<1>4. NetworkTypeOK'
  <2>1. pidHook' \in [Box -> {"none", "pid", "namespace", "post", "over"} \X Nat \X Nat]
    BY <1>1, HookTyped DEF OnStartPID
  <2>2. pid' \in [Box -> BOOLEAN]
    BY <1>1 DEF OnStartPID, NetworkTypeOK
  <2> QED
    BY <1>1, <2>1, <2>2 DEF OnStartPID, NetworkTypeOK
<1>5. IndexOK(b)'
  BY <1>1, <1>2, <1>3 DEF IndexOK, BoxTyped, At, Type
<1>6. LifeOK(b)'
  BY <1>1, <1>2, <1>3 DEF LifeOK, BoxTyped, Destroying, At
<1>7. LinksOK(b)'
  BY <1>1, <1>2, <1>3 DEF LinksOK, LifeOK, IndexOK, BoxTyped, Type, Moved, At
<1>8. TakenDown(b)'
  BY <1>1, <1>3 DEF TakenDown, Type, Destroying, At
<1>9. ForwardsOK(b)'
  BY <1>1, <1>2, <1>3 DEF ForwardsOK, Forwarded, forwardVars, forwardId, IndexOK, BoxTyped, Type, Destroying, At
<1> QED
  BY <1>3, <1>4, <1>5, <1>6, <1>7, <1>8, <1>9, Assemble DEF BoxIInv, Elsewhere

\* The PID hook mounts the namespace, while the process lives.
LEMMA OnStartNamespaceKeeps ==
  ASSUME NetworkIInv, NEW b \in Box, OnStartNamespace(b)
  PROVE  NetworkIInv'
<1>1. NetworkTypeOK /\ IndexOK(b) /\ LifeOK(b) /\ LinksOK(b) /\ TakenDown(b) /\ ForwardsOK(b)
  BY DEF NetworkIInv, BoxIInv
<1>2. BoxTyped(b)
  BY <1>1, PointTypes
<1>3. /\ pidHook[b][1] = "namespace" /\ (mounted'[b] => proc[b] = "alive") /\ mounted'[b] \in BOOLEAN
      /\ pidHook'[b] = <<"post", 1, Len(nics[b])>> \/ pidHook'[b] = <<"over", 0, 0>>
      /\ mounted' \in [Box -> BOOLEAN]
      /\ pidHook' \in [Box -> {"none", "pid", "namespace", "post", "over"} \X Nat \X Nat]
      /\ UNCHANGED <<box, nicOp, nics, links, proc, pid, zt, terminating, lateAdd>>
      /\ Elsewhere(b) /\ UNCHANGED forwardVars
  <2>1. PICK m \in {proc[b] = "alive", FALSE} :
          /\ mounted' = [mounted EXCEPT ![b] = m]
          /\ \/ pidHook' = [pidHook EXCEPT ![b] = <<"post", 1, Len(nics[b])>>]
             \/ pidHook' = [pidHook EXCEPT ![b] = <<"over", 0, 0>>]
    BY DEF OnStartNamespace
  <2>2. m \in BOOLEAN /\ (m => proc[b] = "alive")
    BY <2>1
  <2>3. /\ mounted' \in [Box -> BOOLEAN] /\ mounted'[b] = m
        /\ \A c \in Box \ {b} : mounted'[c] = mounted[c]
    BY <1>1, <2>1, <2>2 DEF NetworkTypeOK
  <2>4. /\ pidHook' \in [Box -> {"none", "pid", "namespace", "post", "over"} \X Nat \X Nat]
        /\ pidHook'[b] = <<"post", 1, Len(nics[b])>> \/ pidHook'[b] = <<"over", 0, 0>>
        /\ \A c \in Box \ {b} : pidHook'[c] = pidHook[c]
    <3>1. Len(nics[b]) \in Nat
      BY <1>2 DEF BoxTyped
    <3>2. CASE pidHook' = [pidHook EXCEPT ![b] = <<"post", 1, Len(nics[b])>>]
      BY <1>1, <3>1, <3>2 DEF NetworkTypeOK
    <3>3. CASE pidHook' = [pidHook EXCEPT ![b] = <<"over", 0, 0>>]
      BY <1>1, <3>3 DEF NetworkTypeOK
    <3> QED
      BY <2>1, <3>2, <3>3
  <2> QED
    BY <2>2, <2>3, <2>4 DEF OnStartNamespace, Elsewhere
<1>4. NetworkTypeOK'
  <2>1. /\ mounted' \in [Box -> BOOLEAN]
        /\ pidHook' \in [Box -> {"none", "pid", "namespace", "post", "over"} \X Nat \X Nat]
    BY <1>3
  <2> QED
    BY <1>1, <2>1 DEF OnStartNamespace, NetworkTypeOK
<1>5. IndexOK(b)'
  BY <1>1, <1>2, <1>3 DEF IndexOK, BoxTyped, At, Type
<1>6. LifeOK(b)'
  BY <1>1, <1>2, <1>3 DEF LifeOK, BoxTyped, Destroying, At
<1>7. LinksOK(b)'
  BY <1>1, <1>2, <1>3 DEF LinksOK, LifeOK, IndexOK, BoxTyped, Type, Moved, At
<1>8. TakenDown(b)'
  BY <1>1, <1>3 DEF TakenDown, Type, Destroying, At
<1>9. ForwardsOK(b)'
  BY <1>1, <1>2, <1>3 DEF ForwardsOK, Forwarded, forwardVars, forwardId, IndexOK, BoxTyped, Type, Destroying, At
<1> QED
  BY <1>3, <1>4, <1>5, <1>6, <1>7, <1>8, <1>9, Assemble DEF BoxIInv, Elsewhere

\* The watcher restarts the daemon only where the namespace is mounted.
LEMMA WatchKeeps ==
  ASSUME NetworkIInv, NEW b \in Box, Watch(b)
  PROVE  NetworkIInv'
<1>1. NetworkTypeOK /\ IndexOK(b) /\ LifeOK(b) /\ LinksOK(b) /\ TakenDown(b) /\ ForwardsOK(b)
  BY DEF NetworkIInv, BoxIInv
<1>2. BoxTyped(b)
  BY <1>1, PointTypes
<1>3. /\ zt'[b] => mounted[b] /\ ~terminating[b]
      /\ UNCHANGED <<box, pidHook, nicOp, nics, links, proc, pid, mounted, terminating, lateAdd>>
      /\ Elsewhere(b) /\ UNCHANGED forwardVars
  BY <1>1 DEF Watch, Elsewhere, WatchEnds, NetworkTypeOK
<1>4. NetworkTypeOK'
  <2>1. zt' \in [Box -> BOOLEAN]
    BY <1>1, <1>2 DEF Watch, NetworkTypeOK, BoxTyped
  <2>2. zterr' \in [Box -> BOOLEAN]
    BY <1>1, <1>2 DEF Watch, NetworkTypeOK, BoxTyped
  <2>3. watch' \in [Box -> {"none", "wait", "over"}]
    BY <1>1, WatchTyped DEF Watch, NetworkTypeOK
  <2> QED
    BY <1>1, <2>1, <2>2, <2>3 DEF Watch, NetworkTypeOK
<1>5. IndexOK(b)'
  BY <1>1, <1>2, <1>3 DEF IndexOK, BoxTyped, At, Type
<1>6. LifeOK(b)'
  BY <1>1, <1>2, <1>3 DEF LifeOK, BoxTyped, Destroying, At
<1>7. LinksOK(b)'
  BY <1>1, <1>2, <1>3 DEF LinksOK, LifeOK, IndexOK, BoxTyped, Type, Moved, At
<1>8. TakenDown(b)'
  BY <1>1, <1>3 DEF TakenDown, Type, Destroying, At
<1>9. ForwardsOK(b)'
  BY <1>1, <1>2, <1>3 DEF ForwardsOK, Forwarded, forwardVars, forwardId, IndexOK, BoxTyped, Type, Destroying, At
<1> QED
  BY <1>3, <1>4, <1>5, <1>6, <1>7, <1>8, <1>9, Assemble DEF BoxIInv, Elsewhere

\* destroyNetwork is through with the nics.
LEMMA DestroyLinksDoneKeeps ==
  ASSUME NetworkIInv, NEW b \in Box, DestroyLinksDone(b)
  PROVE  NetworkIInv'
<1>1. NetworkTypeOK /\ IndexOK(b) /\ LifeOK(b) /\ LinksOK(b) /\ TakenDown(b) /\ ForwardsOK(b)
  BY DEF NetworkIInv, BoxIInv
<1>2. BoxTyped(b)
  BY <1>1, PointTypes
<1>3. /\ At(b, "destroy") /\ box[b][2] > box[b][3] /\ box'[b] = <<"killzt", 0, 0>>
      /\ UNCHANGED <<pidHook, nicOp, nics, links, proc, pid, mounted, zt, terminating, lateAdd>>
      /\ Elsewhere(b) /\ UNCHANGED forwardVars
  BY <1>1 DEF DestroyLinksDone, Go, At, Elsewhere, NetworkTypeOK
<1>4. NetworkTypeOK'
  <2>1. box' \in [Box -> BoxWhere \X Nat \X Nat]
    BY <1>1, <1>2, GoTyped DEF DestroyLinksDone, BoxTyped, BoxWhere
  <2> QED
    BY <1>1, <2>1 DEF DestroyLinksDone, NetworkTypeOK
<1>5. IndexOK(b)'
  BY <1>1, <1>2, <1>3 DEF IndexOK, BoxTyped, At, Type
<1>6. LifeOK(b)'
  BY <1>1, <1>2, <1>3 DEF LifeOK, BoxTyped, Destroying, At
<1>7. LinksOK(b)'
  BY <1>1, <1>2, <1>3 DEF LinksOK, LifeOK, IndexOK, BoxTyped, Type, Moved, At
<1>8. TakenDown(b)'
  <2>1. \A i \in 1 .. Len(nics[b]) : ~(box[b][2] <= i /\ i <= box[b][3])
    BY <1>2, <1>3 DEF BoxTyped
  <2> QED
    BY <1>1, <1>3, <2>1 DEF TakenDown, Type, Destroying, At
<1>9. ForwardsOK(b)'
  BY <1>1, <1>2, <1>3 DEF ForwardsOK, Forwarded, forwardVars, forwardId, IndexOK, BoxTyped, Type, Destroying, At
<1> QED
  BY <1>3, <1>4, <1>5, <1>6, <1>7, <1>8, <1>9, Assemble DEF BoxIInv, Elsewhere

\* unsetContainer.
LEMMA UnsetBoxKeeps ==
  ASSUME NetworkIInv, NEW b \in Box, UnsetBox(b)
  PROVE  NetworkIInv'
<1>1. NetworkTypeOK /\ IndexOK(b) /\ LifeOK(b) /\ LinksOK(b) /\ TakenDown(b) /\ ForwardsOK(b)
  BY DEF NetworkIInv, BoxIInv
<1>2. BoxTyped(b)
  BY <1>1, PointTypes
<1>3. /\ At(b, "unset") /\ box'[b] = <<"gone", 0, 0>>
      /\ UNCHANGED <<pidHook, nicOp, nics, links, proc, pid, mounted, zt, terminating, lateAdd>>
      /\ Elsewhere(b) /\ UNCHANGED forwardVars
  BY <1>1 DEF UnsetBox, Go, At, Elsewhere, ReaderHolds, NetworkTypeOK
<1>4. NetworkTypeOK'
  <2>1. box' \in [Box -> BoxWhere \X Nat \X Nat]
    BY <1>1, <1>2, GoTyped DEF UnsetBox, BoxTyped, BoxWhere
  <2> QED
    BY <1>1, <2>1 DEF UnsetBox, NetworkTypeOK
<1>5. IndexOK(b)'
  BY <1>1, <1>2, <1>3 DEF IndexOK, BoxTyped, At, Type
<1>6. LifeOK(b)'
  BY <1>1, <1>2, <1>3 DEF LifeOK, BoxTyped, Destroying, At
<1>7. LinksOK(b)'
  BY <1>1, <1>2, <1>3 DEF LinksOK, LifeOK, IndexOK, BoxTyped, Type, Moved, At
<1>8. TakenDown(b)'
  BY <1>1, <1>3 DEF TakenDown, Type, Destroying, At
<1>9. ForwardsOK(b)'
  BY <1>1, <1>2, <1>3 DEF ForwardsOK, Forwarded, forwardVars, forwardId, IndexOK, BoxTyped, Type, Destroying, At
<1> QED
  BY <1>3, <1>4, <1>5, <1>6, <1>7, <1>8, <1>9, Assemble DEF BoxIInv, Elsewhere

\* nicRemove takes the lock.
LEMMA NicRemoveKeeps ==
  ASSUME NetworkIInv, NEW b \in Box, NicRemove(b)
  PROVE  NetworkIInv'
<1>1. NetworkTypeOK /\ IndexOK(b) /\ LifeOK(b) /\ LinksOK(b) /\ TakenDown(b) /\ ForwardsOK(b)
  BY DEF NetworkIInv, BoxIInv
<1>2. BoxTyped(b)
  BY <1>1, PointTypes
<1>3. /\ nicOp[b][1] = "none" /\ nicOp'[b][1] = "remove" /\ nicOp'[b][2] \in 1 .. Len(nics[b])
      /\ UNCHANGED <<box, pidHook, nics, links, proc, pid, mounted, zt, terminating, lateAdd>>
      /\ Elsewhere(b) /\ UNCHANGED forwardVars
  <2>1. PICK i \in DOMAIN nics[b] : Op(b, "remove", i)
    BY DEF NicRemove
  <2>2. nicOp'[b] = <<"remove", i>> /\ \A c \in Box \ {b} : nicOp'[c] = nicOp[c]
    BY <1>1, <2>1 DEF Op, NetworkTypeOK
  <2> QED
    BY <1>2, <2>2 DEF NicRemove, Elsewhere, BoxTyped
<1>4. NetworkTypeOK'
  <2>1. \E i \in DOMAIN nics[b] : Op(b, "remove", i)
    BY DEF NicRemove
  <2>2. nicOp' \in [Box -> {"none", "pre", "post", "remove"} \X Nat]
    BY <1>1, <1>2, <2>1, OpTyped DEF BoxTyped
  <2> QED
    BY <1>1, <2>1, <2>2 DEF NicRemove, NetworkTypeOK
<1>5. IndexOK(b)'
  BY <1>1, <1>2, <1>3 DEF IndexOK, BoxTyped, At, Type
<1>6. LifeOK(b)'
  BY <1>1, <1>2, <1>3 DEF LifeOK, BoxTyped, Destroying, At
<1>7. LinksOK(b)'
  BY <1>1, <1>2, <1>3 DEF LinksOK, LifeOK, IndexOK, BoxTyped, Type, Moved, At
<1>8. TakenDown(b)'
  BY <1>1, <1>3 DEF TakenDown, Type, Destroying, At
<1>9. ForwardsOK(b)'
  BY <1>1, <1>2, <1>3 DEF ForwardsOK, Forwarded, forwardVars, forwardId, IndexOK, BoxTyped, Type, Destroying, At
<1> QED
  BY <1>3, <1>4, <1>5, <1>6, <1>7, <1>8, <1>9, Assemble DEF BoxIInv, Elsewhere

\* The process dies, and with it perhaps the namespace.
LEMMA DieKeeps ==
  ASSUME NetworkIInv, NEW b \in Box, Die(b)
  PROVE  NetworkIInv'
<1>1. NetworkTypeOK /\ IndexOK(b) /\ LifeOK(b) /\ LinksOK(b) /\ TakenDown(b) /\ ForwardsOK(b)
  BY DEF NetworkIInv, BoxIInv
<1>2. BoxTyped(b)
  BY <1>1, PointTypes
<1>3. /\ proc[b] = "alive" /\ proc'[b] = "dead"
      /\ links' \in [Box -> Seq(LinkState)] /\ Len(links'[b]) = Len(links[b])
      /\ \A i \in 1 .. Len(links[b]) :
           /\ links[b][i] # "ns" \/ NsAlive("dead", mounted[b], zt[b]) => links'[b][i] = links[b][i]
           /\ links[b][i] = "ns" /\ ~NsAlive("dead", mounted[b], zt[b]) =>
                links'[b][i] = IF Type(b, i) = "passthrough" THEN "back" ELSE "none"
      /\ UNCHANGED <<box, pidHook, nicOp, nics, pid, mounted, zt, terminating, lateAdd>>
      /\ Elsewhere(b) /\ UNCHANGED forwardVars
  <2>1. NsAlive("dead", mounted[b], zt[b]) \in BOOLEAN
    BY <1>2 DEF NsAlive, BoxTyped
  <2>2. links' = [links EXCEPT ![b] = Settle(b, NsAlive("dead", mounted[b], zt[b]))]
    BY DEF Die
  <2> HIDE DEF NsAlive
  <2>3. links' \in [Box -> Seq(LinkState)] /\ Len(links'[b]) = Len(links[b])
        /\ \A i \in 1 .. Len(links[b]) :
              /\ links[b][i] # "ns" \/ NsAlive("dead", mounted[b], zt[b]) => links'[b][i] = links[b][i]
              /\ links[b][i] = "ns" /\ ~NsAlive("dead", mounted[b], zt[b]) =>
                   links'[b][i] = IF Type(b, i) = "passthrough" THEN "back" ELSE "none"
        /\ \A c \in Box \ {b} : links'[c] = links[c]
    BY <1>1, <2>1, <2>2, Settled
  <2>4. proc[b] = "alive" /\ proc'[b] = "dead"
    BY <1>1 DEF Die, Go, NetworkTypeOK, At
  <2>5. UNCHANGED forwardVars /\ Elsewhere(b)
    BY <1>1, <2>3 DEF Die, Go, Elsewhere, NetworkTypeOK
  <2> QED
    BY <2>3, <2>4, <2>5 DEF Die
<1>4. NetworkTypeOK'
  <2>1. proc' \in [Box -> {"none", "alive", "dead"}]
    BY <1>1 DEF Die, NetworkTypeOK
  <2>2. links' \in [Box -> Seq(LinkState)]
    BY <1>3
  <2> QED
    BY <1>1, <2>1, <2>2 DEF Die, NetworkTypeOK
<1>5. IndexOK(b)'
  BY <1>1, <1>2, <1>3 DEF IndexOK, BoxTyped, At, Type
<1>6. LifeOK(b)'
  BY <1>1, <1>2, <1>3 DEF LifeOK, BoxTyped, Destroying, At
<1>7. LinksOK(b)'
  <2>1. SameNics(b)
    BY <1>3 DEF SameNics, Type, Moved
  <2>2. \A i \in 1 .. Len(nics[b]) : Moves(b, i)
    BY <1>1, <1>3 DEF IndexOK, Moves
  <2> QED
    BY <1>1, <1>3, <2>1, <2>2, LinksMove
<1>8. TakenDown(b)'
  BY <1>1, <1>2, <1>3 DEF TakenDown, LifeOK, LinksOK, IndexOK, BoxTyped, Type, Destroying, At
<1>9. ForwardsOK(b)'
  BY <1>1, <1>2, <1>3 DEF ForwardsOK, Forwarded, forwardVars, forwardId, IndexOK, BoxTyped, Type, Destroying, At
<1> QED
  BY <1>3, <1>4, <1>5, <1>6, <1>7, <1>8, <1>9, Assemble DEF BoxIInv, Elsewhere

\* The daemon ends, and with it perhaps the namespace.
LEMMA ZerotierDiesKeeps ==
  ASSUME NetworkIInv, NEW b \in Box, ZerotierDies(b)
  PROVE  NetworkIInv'
<1>1. NetworkTypeOK /\ IndexOK(b) /\ LifeOK(b) /\ LinksOK(b) /\ TakenDown(b) /\ ForwardsOK(b)
  BY DEF NetworkIInv, BoxIInv
<1>2. BoxTyped(b)
  BY <1>1, PointTypes
<1>3. /\ zt'[b] = FALSE
      /\ links' \in [Box -> Seq(LinkState)] /\ Len(links'[b]) = Len(links[b])
      /\ \A i \in 1 .. Len(links[b]) :
           /\ links[b][i] # "ns" \/ NsAlive(proc[b], mounted[b], FALSE) => links'[b][i] = links[b][i]
           /\ links[b][i] = "ns" /\ ~NsAlive(proc[b], mounted[b], FALSE) =>
                links'[b][i] = IF Type(b, i) = "passthrough" THEN "back" ELSE "none"
      /\ UNCHANGED <<box, pidHook, nicOp, nics, proc, pid, mounted, terminating, lateAdd>>
      /\ Elsewhere(b) /\ UNCHANGED forwardVars
  <2>1. NsAlive(proc[b], mounted[b], FALSE) \in BOOLEAN
    BY <1>2 DEF NsAlive, BoxTyped
  <2>2. links' = [links EXCEPT ![b] = Settle(b, NsAlive(proc[b], mounted[b], FALSE))]
    BY DEF ZerotierDies
  <2> HIDE DEF NsAlive
  <2>3. links' \in [Box -> Seq(LinkState)] /\ Len(links'[b]) = Len(links[b])
        /\ \A i \in 1 .. Len(links[b]) :
              /\ links[b][i] # "ns" \/ NsAlive(proc[b], mounted[b], FALSE) => links'[b][i] = links[b][i]
              /\ links[b][i] = "ns" /\ ~NsAlive(proc[b], mounted[b], FALSE) =>
                   links'[b][i] = IF Type(b, i) = "passthrough" THEN "back" ELSE "none"
        /\ \A c \in Box \ {b} : links'[c] = links[c]
    BY <1>1, <2>1, <2>2, Settled
  <2>4. zt'[b] = FALSE
    BY <1>1 DEF ZerotierDies, Go, NetworkTypeOK, At
  <2>5. UNCHANGED forwardVars /\ Elsewhere(b)
    BY <1>1, <2>3 DEF ZerotierDies, Go, Elsewhere, NetworkTypeOK
  <2> QED
    BY <2>3, <2>4, <2>5 DEF ZerotierDies
<1>4. NetworkTypeOK'
  <2>1. zt' \in [Box -> BOOLEAN]
    BY <1>1 DEF ZerotierDies, NetworkTypeOK
  <2>2. links' \in [Box -> Seq(LinkState)]
    BY <1>3
  <2> QED
    BY <1>1, <2>1, <2>2 DEF ZerotierDies, NetworkTypeOK
<1>5. IndexOK(b)'
  BY <1>1, <1>2, <1>3 DEF IndexOK, BoxTyped, At, Type
<1>6. LifeOK(b)'
  BY <1>1, <1>2, <1>3 DEF LifeOK, BoxTyped, Destroying, At
<1>7. LinksOK(b)'
  <2>1. SameNics(b)
    BY <1>3 DEF SameNics, Type, Moved
  <2>2. \A i \in 1 .. Len(nics[b]) : Moves(b, i)
    BY <1>1, <1>3 DEF IndexOK, Moves
  <2> QED
    BY <1>1, <1>3, <2>1, <2>2, LinksMove
<1>8. TakenDown(b)'
  <2>1. SameNics(b)
    BY <1>3 DEF SameNics, Type, Moved
  <2>2. \A i \in 1 .. Len(nics[b]) : Moves(b, i)
    BY <1>1, <1>3 DEF IndexOK, Moves
  <2>3. /\ lateAdd'[b] = {} => lateAdd[b] = {}
        /\ box'[b] = box[b] \/ (box[b][1] = "killzt" /\ box'[b][1] = "unmount")
    BY <1>3 DEF At
  <2> QED
    BY <1>1, <2>1, <2>2, <2>3, TakenMove
<1>9. ForwardsOK(b)'
  BY <1>1, <1>2, <1>3 DEF ForwardsOK, Forwarded, forwardVars, forwardId, IndexOK, BoxTyped, Type, Destroying, At
<1> QED
  BY <1>3, <1>4, <1>5, <1>6, <1>7, <1>8, <1>9, Assemble DEF BoxIInv, Elsewhere

\* destroyNetwork kills the daemon.
LEMMA KillZerotierKeeps ==
  ASSUME NetworkIInv, NEW b \in Box, KillZerotier(b)
  PROVE  NetworkIInv'
<1>1. NetworkTypeOK /\ IndexOK(b) /\ LifeOK(b) /\ LinksOK(b) /\ TakenDown(b) /\ ForwardsOK(b)
  BY DEF NetworkIInv, BoxIInv
<1>2. BoxTyped(b)
  BY <1>1, PointTypes
<1>3. /\ At(b, "killzt") /\ box'[b] = <<"unmount", 0, 0>> /\ zt'[b] = FALSE
      /\ links' \in [Box -> Seq(LinkState)] /\ Len(links'[b]) = Len(links[b])
      /\ \A i \in 1 .. Len(links[b]) :
           /\ links[b][i] # "ns" \/ NsAlive(proc[b], mounted[b], FALSE) => links'[b][i] = links[b][i]
           /\ links[b][i] = "ns" /\ ~NsAlive(proc[b], mounted[b], FALSE) =>
                links'[b][i] = IF Type(b, i) = "passthrough" THEN "back" ELSE "none"
      /\ UNCHANGED <<pidHook, nicOp, nics, proc, pid, mounted, terminating, lateAdd>>
      /\ Elsewhere(b) /\ UNCHANGED forwardVars
  <2>1. NsAlive(proc[b], mounted[b], FALSE) \in BOOLEAN
    BY <1>2 DEF NsAlive, BoxTyped
  <2>2. links' = [links EXCEPT ![b] = Settle(b, NsAlive(proc[b], mounted[b], FALSE))]
    BY DEF KillZerotier
  <2> HIDE DEF NsAlive
  <2>3. links' \in [Box -> Seq(LinkState)] /\ Len(links'[b]) = Len(links[b])
        /\ \A i \in 1 .. Len(links[b]) :
              /\ links[b][i] # "ns" \/ NsAlive(proc[b], mounted[b], FALSE) => links'[b][i] = links[b][i]
              /\ links[b][i] = "ns" /\ ~NsAlive(proc[b], mounted[b], FALSE) =>
                   links'[b][i] = IF Type(b, i) = "passthrough" THEN "back" ELSE "none"
        /\ \A c \in Box \ {b} : links'[c] = links[c]
    BY <1>1, <2>1, <2>2, Settled
  <2>4. At(b, "killzt") /\ box'[b] = <<"unmount", 0, 0>> /\ zt'[b] = FALSE
    BY <1>1 DEF KillZerotier, Go, NetworkTypeOK, At
  <2>5. UNCHANGED forwardVars /\ Elsewhere(b)
    BY <1>1, <2>3 DEF KillZerotier, Go, Elsewhere, NetworkTypeOK
  <2> QED
    BY <2>3, <2>4, <2>5 DEF KillZerotier
<1>4. NetworkTypeOK'
  <2>1. box' \in [Box -> BoxWhere \X Nat \X Nat]
    BY <1>1, <1>2, GoTyped DEF KillZerotier, BoxTyped, BoxWhere
  <2>2. zt' \in [Box -> BOOLEAN]
    BY <1>1 DEF KillZerotier, NetworkTypeOK
  <2>3. links' \in [Box -> Seq(LinkState)]
    BY <1>3
  <2> QED
    BY <1>1, <2>1, <2>2, <2>3 DEF KillZerotier, NetworkTypeOK
<1>5. IndexOK(b)'
  BY <1>1, <1>2, <1>3 DEF IndexOK, BoxTyped, At, Type
<1>6. LifeOK(b)'
  BY <1>1, <1>2, <1>3 DEF LifeOK, BoxTyped, Destroying, At
<1>7. LinksOK(b)'
  <2>1. SameNics(b)
    BY <1>3 DEF SameNics, Type, Moved
  <2>2. \A i \in 1 .. Len(nics[b]) : Moves(b, i)
    BY <1>1, <1>3 DEF IndexOK, Moves
  <2> QED
    BY <1>1, <1>3, <2>1, <2>2, LinksMove
<1>8. TakenDown(b)'
  <2>1. SameNics(b)
    BY <1>3 DEF SameNics, Type, Moved
  <2>2. \A i \in 1 .. Len(nics[b]) : Moves(b, i)
    BY <1>1, <1>3 DEF IndexOK, Moves
  <2>3. /\ lateAdd'[b] = {} => lateAdd[b] = {}
        /\ box'[b] = box[b] \/ (box[b][1] = "killzt" /\ box'[b][1] = "unmount")
    BY <1>3 DEF At
  <2> QED
    BY <1>1, <2>1, <2>2, <2>3, TakenMove
<1>9. ForwardsOK(b)'
  BY <1>1, <1>2, <1>3 DEF ForwardsOK, Forwarded, forwardVars, forwardId, IndexOK, BoxTyped, Type, Destroying, At
<1> QED
  BY <1>3, <1>4, <1>5, <1>6, <1>7, <1>8, <1>9, Assemble DEF BoxIInv, Elsewhere

\* createContainer.
LEMMA CreateBoxKeeps ==
  ASSUME NetworkIInv, NEW b \in Box, CreateBox(b)
  PROVE  NetworkIInv'
<1>1. NetworkTypeOK /\ IndexOK(b) /\ LifeOK(b) /\ LinksOK(b) /\ TakenDown(b) /\ ForwardsOK(b)
  BY DEF NetworkIInv, BoxIInv
<1>2. BoxTyped(b)
  BY <1>1, PointTypes
<1>3. /\ At(b, "new") /\ box'[b] = <<"set", 0, 0>> /\ nics' \in [Box -> Seq(NicRecord)]
      /\ links' \in [Box -> Seq(LinkState)] /\ Len(nics'[b]) = Len(links'[b])
      /\ \A i \in 1 .. Len(nics'[b]) : links'[b][i] = "none" /\ ~Moved(b, i)'
      /\ UNCHANGED <<pidHook, nicOp, proc, pid, mounted, zt, terminating, lateAdd>>
      /\ Elsewhere(b) /\ UNCHANGED forwardVars
  <2>1. PICK l \in NicLists :
          /\ nics' = [nics EXCEPT ![b] =
                        [i \in DOMAIN l |-> [type |-> l[i], state |-> "unknown", moved |-> FALSE]]]
          /\ links' = [links EXCEPT ![b] = [i \in DOMAIN l |-> "none"]]
    BY DEF CreateBox
  <2> DEFINE s == [i \in DOMAIN l |-> [type |-> l[i], state |-> "unknown", moved |-> FALSE]]
             t == [i \in DOMAIN l |-> "none"]
  <2>2. l \in Seq(NicType) /\ DOMAIN l = 1 .. Len(l) /\ Len(l) \in Nat
    BY NetworkAssumption
  <2>3. \A i \in 1 .. Len(l) : s[i] \in NicRecord /\ s[i].moved = FALSE
    BY <2>2 DEF NicRecord
  <2>4. s \in Seq(NicRecord) /\ Len(s) = Len(l)
    <3>1. s = [i \in 1 .. Len(l) |-> s[i]]
      BY <2>2
    <3> HIDE DEF s
    <3> QED
      BY <2>2, <2>3, <3>1, FunSeq
  <2>5. t \in Seq(LinkState) /\ Len(t) = Len(l) /\ \A i \in 1 .. Len(l) : t[i] = "none"
    BY <2>2 DEF LinkState
  <2> HIDE DEF s, t
  <2>6. nics' = [nics EXCEPT ![b] = s] /\ links' = [links EXCEPT ![b] = t]
    BY <2>1 DEF s, t
  <2>7. nics' \in [Box -> Seq(NicRecord)] /\ links' \in [Box -> Seq(LinkState)]
    <3>1. nics \in [Box -> Seq(NicRecord)] /\ links \in [Box -> Seq(LinkState)]
      BY <1>1 DEF NetworkTypeOK
    <3> HIDE <1>1
    <3> QED
      BY <2>4, <2>5, <2>6, <3>1, FunSet
  <2>8. /\ nics'[b] = s /\ links'[b] = t
        /\ \A c \in Box \ {b} : nics'[c] = nics[c] /\ links'[c] = links[c]
    BY <1>1, <2>6 DEF NetworkTypeOK
  <2> QED
    BY <1>1, <2>3, <2>4, <2>5, <2>7, <2>8 DEF CreateBox, Go, At, Elsewhere, NetworkTypeOK, Moved
<1>4. NetworkTypeOK'
  <2>1. box' \in [Box -> BoxWhere \X Nat \X Nat]
    BY <1>1, <1>2, GoTyped DEF CreateBox, BoxTyped, BoxWhere
  <2>2. nics' \in [Box -> Seq(NicRecord)] /\ links' \in [Box -> Seq(LinkState)]
    BY <1>3
  <2> QED
    BY <1>1, <2>1, <2>2 DEF CreateBox, NetworkTypeOK
<1>5. IndexOK(b)'
  BY <1>1, <1>2, <1>3 DEF IndexOK, BoxTyped, At, Type
<1>6. LifeOK(b)'
  BY <1>1, <1>2, <1>3 DEF LifeOK, BoxTyped, Destroying, At
<1>7. LinksOK(b)'
  BY <1>1, <1>2, <1>3 DEF LinksOK, LifeOK, IndexOK, BoxTyped, Type, Moved, At
<1>8. TakenDown(b)'
  BY <1>1, <1>2, <1>3 DEF TakenDown, LifeOK, LinksOK, IndexOK, BoxTyped, Type, Destroying, At
<1>9. ForwardsOK(b)'
  BY <1>1, <1>2, <1>3 DEF ForwardsOK, Forwarded, forwardVars, forwardId, IndexOK, BoxTyped, Type, Destroying, At
<1> QED
  BY <1>3, <1>4, <1>5, <1>6, <1>7, <1>8, <1>9, Assemble DEF BoxIInv, Elsewhere

\* destroyNetwork unmounts the namespace: whoever mounted it had set the PID.
LEMMA UnmountNamespaceKeeps ==
  ASSUME NetworkIInv, NEW b \in Box, UnmountNamespace(b)
  PROVE  NetworkIInv'
<1>1. NetworkTypeOK /\ IndexOK(b) /\ LifeOK(b) /\ LinksOK(b) /\ TakenDown(b) /\ ForwardsOK(b)
  BY DEF NetworkIInv, BoxIInv
<1>2. BoxTyped(b)
  BY <1>1, PointTypes
<1>3. /\ At(b, "unmount") /\ box'[b] = <<"restore", 0, 0>> /\ mounted'[b] = FALSE
      /\ links' \in [Box -> Seq(LinkState)] /\ Len(links'[b]) = Len(links[b])
      /\ \A i \in 1 .. Len(links[b]) :
           /\ links[b][i] # "ns" => links'[b][i] = links[b][i]
           /\ links'[b][i] # links[b][i] => links'[b][i] = IF Type(b, i) = "passthrough" THEN "back" ELSE "none"
           /\ ~zt[b] => links'[b][i] # "ns"
      /\ UNCHANGED <<pidHook, nicOp, nics, proc, pid, zt, terminating, lateAdd>>
      /\ Elsewhere(b) /\ UNCHANGED forwardVars
  <2>1. At(b, "unmount") /\ mounted'[b] = (mounted[b] /\ ~pid[b]) /\ mounted'[b] \in BOOLEAN
    BY <1>1, <1>2 DEF UnmountNamespace, NetworkTypeOK, BoxTyped
  <2>2. mounted'[b] = FALSE
    BY <1>1, <1>2, <2>1 DEF LifeOK, BoxTyped
  <2>3. proc[b] # "alive"
    BY <1>1, <2>1 DEF LifeOK, Destroying, At
  <2> DEFINE alive == NsAlive(proc[b], mounted'[b], zt[b])
  <2>4. alive = zt[b] /\ alive \in BOOLEAN
    BY <1>2, <2>2, <2>3 DEF NsAlive, BoxTyped
  <2>5. links' = [links EXCEPT ![b] = Settle(b, alive)]
    BY DEF UnmountNamespace
  <2> HIDE DEF alive
  <2>6. /\ links' \in [Box -> Seq(LinkState)] /\ Len(links'[b]) = Len(links[b])
        /\ \A i \in 1 .. Len(links[b]) :
              /\ links[b][i] # "ns" \/ alive => links'[b][i] = links[b][i]
              /\ links[b][i] = "ns" /\ ~alive =>
                   links'[b][i] = IF Type(b, i) = "passthrough" THEN "back" ELSE "none"
        /\ \A c \in Box \ {b} : links'[c] = links[c]
    <3>1. PICK al \in BOOLEAN : al = alive
      BY <2>4
    <3>2. links' = [links EXCEPT ![b] = Settle(b, al)]
      BY <2>5, <3>1
    <3>3. alive = al
      BY <3>1
    <3> QED
      BY <1>1, <3>2, <3>3, Settled
  <2> QED
    BY <1>1, <2>1, <2>2, <2>4, <2>6 DEF UnmountNamespace, Go, Elsewhere, NetworkTypeOK
<1>4. NetworkTypeOK'
  <2>1. box' \in [Box -> BoxWhere \X Nat \X Nat]
    BY <1>1, <1>2, GoTyped DEF UnmountNamespace, BoxTyped, BoxWhere
  <2>2. mounted' \in [Box -> BOOLEAN]
    BY <1>1, <1>2 DEF UnmountNamespace, NetworkTypeOK, BoxTyped
  <2>3. links' \in [Box -> Seq(LinkState)]
    BY <1>3
  <2> QED
    BY <1>1, <2>1, <2>2, <2>3 DEF UnmountNamespace, NetworkTypeOK
<1>5. IndexOK(b)'
  BY <1>1, <1>2, <1>3 DEF IndexOK, BoxTyped, At, Type
<1>6. LifeOK(b)'
  BY <1>1, <1>2, <1>3 DEF LifeOK, BoxTyped, Destroying, At
<1>7. LinksOK(b)'
  <2>1. SameNics(b)
    BY <1>3 DEF SameNics, Type, Moved
  <2>2. \A i \in 1 .. Len(nics[b]) : Moves(b, i)
    BY <1>1, <1>3 DEF IndexOK, Moves
  <2> QED
    BY <1>1, <1>3, <2>1, <2>2, LinksMove
<1>8. TakenDown(b)'
  <2> SUFFICES ASSUME lateAdd'[b] = {}, NEW i \in 1 .. Len(nics[b])
               PROVE  /\ Type(b, i)' \in {"vlan", "default"} => links'[b][i] = "none"
                      /\ links'[b][i] # "ns"
    BY <1>3 DEF TakenDown
  <2>1. /\ Type(b, i) \in {"vlan", "default"} => links[b][i] = "none"
        /\ ~zt[b] /\ i \in 1 .. Len(links[b])
    BY <1>1, <1>3 DEF TakenDown, LifeOK, IndexOK, Destroying, At
  <2> QED
    BY <1>3, <2>1 DEF Type
<1>9. ForwardsOK(b)'
  BY <1>1, <1>2, <1>3 DEF ForwardsOK, Forwarded, forwardVars, forwardId, IndexOK, BoxTyped, Type, Destroying, At
<1> QED
  BY <1>3, <1>4, <1>5, <1>6, <1>7, <1>8, <1>9, Assemble DEF BoxIInv, Elsewhere

\* destroyPassthroughNetwork.
LEMMA RestorePassthroughKeeps ==
  ASSUME NetworkIInv, NEW b \in Box, RestorePassthrough(b)
  PROVE  NetworkIInv'
<1>1. NetworkTypeOK /\ IndexOK(b) /\ LifeOK(b) /\ LinksOK(b) /\ TakenDown(b) /\ ForwardsOK(b)
  BY DEF NetworkIInv, BoxIInv
<1>2. BoxTyped(b)
  BY <1>1, PointTypes
<1>3. /\ At(b, "restore") /\ box'[b] = <<"unset", 0, 0>>
      /\ links' \in [Box -> Seq(LinkState)] /\ Len(links'[b]) = Len(links[b])
      /\ \A i \in 1 .. Len(links[b]) :
           links'[b][i] = IF Type(b, i) = "passthrough" /\ links[b][i] \in {"host", "back"} THEN "none" ELSE links[b][i]
      /\ UNCHANGED <<pidHook, nicOp, nics, proc, pid, mounted, zt, terminating, lateAdd>>
      /\ Elsewhere(b) /\ UNCHANGED forwardVars
  <2> DEFINE t == [i \in DOMAIN links[b] |->
                    IF nics[b][i].type = "passthrough" /\ links[b][i] \in Restored
                    THEN "none" ELSE links[b][i]]
  <2>1. links' = [links EXCEPT ![b] = t] /\ links \in [Box -> Seq(LinkState)]
    BY <1>1 DEF RestorePassthrough, NetworkTypeOK
  <2>2. \A i \in 1 .. Len(links[b]) : t[i] \in LinkState
    <3>1. \A i \in 1 .. Len(links[b]) : links[b][i] \in LinkState
      BY <1>2 DEF BoxTyped
    <3> QED
      BY <1>2, <3>1 DEF BoxTyped, LinkState
  <2>3. \A i \in 1 .. Len(links[b]) :
          t[i] = IF Type(b, i) = "passthrough" /\ links[b][i] \in {"host", "back"} THEN "none" ELSE links[b][i]
    BY <1>2 DEF BoxTyped, Type, Restored
  <2>4. t = [i \in 1 .. Len(links[b]) |-> t[i]] /\ Len(links[b]) \in Nat
    BY <1>2 DEF BoxTyped
  <2> HIDE DEF t
  <2>5. t \in Seq(LinkState) /\ Len(t) = Len(links[b])
    BY <2>2, <2>4, FunSeq
  <2>6. links' \in [Box -> Seq(LinkState)]
    <3> HIDE <1>1
    <3> QED
      BY <2>1, <2>5, FunSet
  <2>7. links'[b] = t /\ \A c \in Box \ {b} : links'[c] = links[c]
    BY <2>1
  <2> QED
    BY <1>1, <2>3, <2>5, <2>6, <2>7 DEF RestorePassthrough, Go, At, Elsewhere, NetworkTypeOK
<1>4. NetworkTypeOK'
  <2>1. box' \in [Box -> BoxWhere \X Nat \X Nat]
    BY <1>1, <1>2, GoTyped DEF RestorePassthrough, BoxTyped, BoxWhere
  <2>2. links' \in [Box -> Seq(LinkState)]
    BY <1>3
  <2> QED
    BY <1>1, <2>1, <2>2 DEF RestorePassthrough, NetworkTypeOK
<1>5. IndexOK(b)'
  BY <1>1, <1>2, <1>3 DEF IndexOK, BoxTyped, At, Type
<1>6. LifeOK(b)'
  BY <1>1, <1>2, <1>3 DEF LifeOK, BoxTyped, Destroying, At
<1>7. LinksOK(b)'
  <2>1. SameNics(b)
    BY <1>3 DEF SameNics, Type, Moved
  <2>2. \A i \in 1 .. Len(nics[b]) : Moves(b, i)
    BY <1>1, <1>3 DEF IndexOK, Moves
  <2> QED
    BY <1>1, <1>3, <2>1, <2>2, LinksMove
<1>8. TakenDown(b)'
  <2> SUFFICES ASSUME lateAdd'[b] = {}, NEW i \in 1 .. Len(nics[b])
               PROVE  /\ Destroying(b)' /\ Type(b, i)' \in {"vlan", "default"} => links'[b][i] = "none"
                      /\ links'[b][i] # "ns"
                      /\ Type(b, i)' = "passthrough" => links'[b][i] = "none"
    BY <1>3 DEF TakenDown
  <2>1. /\ Type(b, i) \in {"vlan", "default"} => links[b][i] = "none"
        /\ links[b][i] # "ns"
    BY <1>1, <1>3 DEF TakenDown, Destroying, At
  <2>2. links[b][i] \in LinkState /\ i \in 1 .. Len(links[b])
    BY <1>1, <1>2 DEF BoxTyped, IndexOK
  <2> QED
    BY <1>3, <2>1, <2>2 DEF Type, LinkState
<1>9. ForwardsOK(b)'
  BY <1>1, <1>2, <1>3 DEF ForwardsOK, Forwarded, forwardVars, forwardId, IndexOK, BoxTyped, Type, Destroying, At
<1> QED
  BY <1>3, <1>4, <1>5, <1>6, <1>7, <1>8, <1>9, Assemble DEF BoxIInv, Elsewhere

\* A change of state and link of a nic, as the steps that set up or remove one make it.
LEMMA NicChanged ==
  ASSUME NetworkTypeOK, NEW b \in Box, IndexOK(b), NEW i \in 1 .. Len(nics[b]),
         NEW s \in {"unknown", "configured", "error", "destroyed"}, NEW k \in LinkState,
         nics' = [nics EXCEPT ![b][i].state = s],
         links' = [links EXCEPT ![b][i] = k] \/ links' = links
  PROVE  /\ nics' \in [Box -> Seq(NicRecord)] /\ SameNics(b)
         /\ links' \in [Box -> Seq(LinkState)] /\ Len(links'[b]) = Len(links[b])
         /\ links'[b][i] = k \/ links'[b][i] = links[b][i]
         /\ \A j \in 1 .. Len(nics[b]) : j # i => links'[b][j] = links[b][j]
         /\ \A c \in Box \ {b} : nics'[c] = nics[c] /\ links'[c] = links[c]
<1>1. /\ nics' \in [Box -> Seq(NicRecord)] /\ SameNics(b)
      /\ \A c \in Box \ {b} : nics'[c] = nics[c]
  BY StateSet
<1>2. Len(links[b]) = Len(nics[b])
  BY DEF IndexOK
<1>3. CASE links' = [links EXCEPT ![b][i] = k]
  <2>1. /\ links' \in [Box -> Seq(LinkState)] /\ Len(links'[b]) = Len(links[b])
        /\ links'[b][i] = k /\ \A j \in 1 .. Len(links[b]) : j # i => links'[b][j] = links[b][j]
        /\ \A c \in Box \ {b} : links'[c] = links[c]
    BY <1>2, <1>3, LinkSet
  <2> QED
    BY <1>1, <1>2, <2>1
<1>4. CASE links' = links
  BY <1>1, <1>4 DEF NetworkTypeOK
<1> QED
  BY <1>3, <1>4

\* What preStartNetwork leaves of a nic.
LEMMA Outcome ==
  ASSUME NEW b, NEW i, NEW o \in PreOutcomes(b, i)
  PROVE  o[2] \in {"none", "host"}
<1>1. o = <<TRUE, "none">> \/ o = <<TRUE, "host">> \/ o = <<FALSE, "none">> \/ o = <<FALSE, "host">>
  BY DEF PreOutcomes
<1>2. CASE o = <<TRUE, "none">>
  BY <1>2
<1>3. CASE o = <<TRUE, "host">>
  BY <1>3
<1>4. CASE o = <<FALSE, "none">>
  BY <1>4
<1>5. CASE o = <<FALSE, "host">>
  BY <1>5
<1> QED
  BY <1>1, <1>2, <1>3, <1>4, <1>5

\* preStartIsolatedNetworking of one nic.
LEMMA PreStartNicKeeps ==
  ASSUME NetworkIInv, NEW b \in Box, PreStartNic(b)
  PROVE  NetworkIInv'
<1>1. NetworkTypeOK /\ IndexOK(b) /\ LifeOK(b) /\ LinksOK(b) /\ TakenDown(b) /\ ForwardsOK(b)
  BY DEF NetworkIInv, BoxIInv
<1>2. BoxTyped(b)
  BY <1>1, PointTypes
<1> DEFINE i == box[b][2]  n == box[b][3]
<1>3. /\ At(b, "pre") /\ i \in 1 .. n /\ n <= Len(nics[b]) /\ n \in Nat /\ i \in 1 .. Len(nics[b])
      /\ UNCHANGED <<pidHook, nicOp, proc, pid, mounted, zt, terminating, lateAdd, forwardVars>>
      /\ UNCHANGED <<ztOnce, zterr, watch>>
  BY <1>1, <1>2 DEF PreStartNic, At, IndexOK, BoxTyped
<1>4. PICK o \in PreOutcomes(b, i) :
        /\ PreState(b, i, o[1], o[2])
        /\ IF ~o[1] THEN Go(b, "destroy", 1, Len(nics[b]))
           ELSE IF nics[b][i].type = "default" THEN Go(b, "forward", i, n)
           ELSE Go(b, "pre", i + 1, n)
  BY DEF PreStartNic
<1>5. o[2] \in {"none", "host"}
  BY <1>4, Outcome
<1>6. /\ nics' \in [Box -> Seq(NicRecord)] /\ SameNics(b)
      /\ links' \in [Box -> Seq(LinkState)] /\ Len(links'[b]) = Len(links[b])
      /\ links'[b][i] = o[2] \/ links'[b][i] = links[b][i]
      /\ \A j \in 1 .. Len(nics[b]) : j # i => links'[b][j] = links[b][j]
      /\ \A c \in Box \ {b} : nics'[c] = nics[c] /\ links'[c] = links[c]
  <2> DEFINE s == IF o[1] THEN "unknown" ELSE "error"
  <2>1. /\ nics' = [nics EXCEPT ![b][i].state = s] /\ links' = [links EXCEPT ![b][i] = o[2]]
        /\ s \in {"unknown", "configured", "error", "destroyed"} /\ o[2] \in LinkState
    BY <1>4, <1>5 DEF PreState, LinkState
  <2> HIDE DEF s, i
  <2> QED
    BY <1>1, <1>3, <2>1, NicChanged
<1>7. /\ \/ box'[b] = <<"destroy", 1, Len(nics[b])>>
         \/ box'[b] = <<"forward", i, n>> /\ Type(b, i) = "default"
         \/ box'[b] = <<"pre", i + 1, n>>
      /\ \A c \in Box \ {b} : box'[c] = box[c]
      /\ box' \in [Box -> BoxWhere \X Nat \X Nat]
  <2>1. /\ box \in [Box -> BoxWhere \X Nat \X Nat] /\ {"destroy", "forward", "pre"} \subseteq BoxWhere
        /\ i \in Nat /\ n \in Nat /\ Len(nics[b]) \in Nat
    BY <1>1, <1>2 DEF NetworkTypeOK, BoxWhere, BoxTyped
  <2>2. \/ box' = [box EXCEPT ![b] = <<"destroy", 1, Len(nics[b])>>]
        \/ box' = [box EXCEPT ![b] = <<"forward", i, n>>] /\ Type(b, i) = "default"
        \/ box' = [box EXCEPT ![b] = <<"pre", i + 1, n>>]
    BY <1>4 DEF Go, Type
  <2> HIDE DEF i, n
  <2> QED
    BY <2>1, <2>2
<1>8. NetworkTypeOK'
  BY <1>1, <1>3, <1>6, <1>7 DEF NetworkTypeOK
<1>9. IndexOK(b)'
  <2>1. /\ Len(links'[b]) = Len(nics'[b]) /\ Len(nics'[b]) = Len(nics[b]) /\ nics'[b][i].type = nics[b][i].type
        /\ pidHook'[b][1] = "post" => pidHook'[b][2] >= 1 /\ pidHook'[b][3] <= Len(nics[b])
        /\ nicOp'[b][1] # "none" => nicOp'[b][2] \in 1 .. Len(nics[b])
        /\ nicOp'[b][1] = "pre" => nicOp'[b][2] > n
    <3>1. nics'[b][i].type = nics[b][i].type
      BY <1>3, <1>6 DEF SameNics, Type
    <3> QED
      BY <1>1, <1>3, <1>6, <3>1 DEF IndexOK, SameNics, At
  <2> QED
    BY <1>3, <1>7, <2>1 DEF IndexOK, At, Type
<1>10. LifeOK(b)'
  BY <1>1, <1>2, <1>3, <1>7 DEF LifeOK, BoxTyped, Destroying, At
<1>11. LinksOK(b)'
  <2>1. proc[b] = "none" /\ nicOp[b] # <<"pre", i>>
    BY <1>1, <1>3 DEF LifeOK, IndexOK, At
  <2> HIDE DEF i
  <2> SUFFICES ASSUME NEW j \in 1 .. Len(nics[b])
               PROVE  /\ ~Moved(b, j)'
                      /\ nicOp'[b] = <<"pre", j>> => links'[b][j] = "none"
                      /\ links'[b][j] = "back" => Type(b, j)' = "passthrough"
    BY <1>6 DEF LinksOK, SameNics
  <2>2. /\ ~Moved(b, j) /\ (nicOp[b] = <<"pre", j>> => links[b][j] = "none")
        /\ links[b][j] = "back" => Type(b, j) = "passthrough"
    BY <1>1, <2>1 DEF LinksOK
  <2>3. Moved(b, j)' = Moved(b, j) /\ Type(b, j)' = Type(b, j)
    BY <1>6 DEF SameNics
  <2> QED
    BY <1>3, <1>5, <1>6, <2>1, <2>2, <2>3
<1>12. ~Destroying(b) /\ (Destroying(b)' => box'[b] = <<"destroy", 1, Len(nics[b])>>)
  BY <1>3, <1>7 DEF Destroying, At
<1>13. TakenDown(b)'
  BY <1>2, <1>6, <1>12, TakenIdle
<1>14. ForwardsOK(b)'
  BY <1>1, <1>2, <1>3, <1>6, <1>12, ForwardsStay
<1> QED
  BY <1>3, <1>6, <1>7, <1>8, <1>9, <1>10, <1>11, <1>13, <1>14, Assemble DEF BoxIInv

\* The steps of a container that change its forwards.
LEMMA AssembleForwards ==
  ASSUME NetworkIInv, NEW b \in Box, NetworkTypeOK', BoxIInv(b)', Elsewhere(b), broken \subseteq broken',
         \A c \in Box \ {b} : Forwarded(c)' \subseteq Forwarded(c)
  PROVE  NetworkIInv'
<1>1. ASSUME NEW c \in Box \ {b}
      PROVE  BoxIInv(c)'
  <2>1. BoxIInv(c) /\ c \in Box
    BY <1>1 DEF NetworkIInv
  <2> QED
    BY <1>1, <2>1, OtherBox DEF Elsewhere
<1> QED
  BY <1>1 DEF NetworkIInv

\* A forward set for a container is none of another.
LEMMA ForwardSet ==
  ASSUME NEW b \in Box, NEW s \in Source, NEW d, SetPortForward(forwardId(b), s, d)
  PROVE  /\ broken' = broken
         /\ \A c \in Box \ {b} : Forwarded(c)' \subseteq Forwarded(c)
<1>1. broken' = broken /\ rules' = rules \cup Rules(forwardId(b), s, d)
  BY DEF SetPortForward
<1>2. \A r \in Rules(forwardId(b), s, d) : r.ns = forwardId(b)
  BY DEF Rules
<1>3. ASSUME NEW c \in Box \ {b}, NEW r \in Forwarded(c)'
      PROVE  r \in Forwarded(c)
  <2>1. r \in rules' /\ r.ns = forwardId(c)
    BY <1>3 DEF Forwarded, forwardId
  <2>2. forwardId(c) # forwardId(b)
    BY <1>3 DEF forwardId
  <2> QED
    BY <1>1, <1>2, <2>1, <2>2 DEF Forwarded
<1> QED
  BY <1>1, <1>3

\* Dropping rules adds none, and forgets no failure.
LEMMA ForwardsDropped ==
  ASSUME NEW rs, DropRules(rs)
  PROVE  /\ rules' \subseteq rules /\ broken \subseteq broken'
         /\ \A c \in Box : Forwarded(c)' \subseteq Forwarded(c)
         /\ \A r \in rs : r \in rules' => r.port \in broken'
<1>1. PICK dropped \in SUBSET rs :
        rules' = rules \ dropped /\ broken' = broken \cup {r.port : r \in rs \ dropped}
  BY DEF DropRules
<1>2. rules' \subseteq rules /\ broken \subseteq broken'
  BY <1>1
<1>3. \A c \in Box : Forwarded(c)' \subseteq Forwarded(c)
  BY <1>2 DEF Forwarded, forwardId
<1>4. \A r \in rs : r \in rules' => r.port \in broken'
  BY <1>1
<1> QED
  BY <1>2, <1>3, <1>4

\* setPortForwards.
LEMMA PreStartForwardKeeps ==
  ASSUME NetworkIInv, NEW b \in Box, PreStartForward(b)
  PROVE  NetworkIInv'
<1>1. NetworkTypeOK /\ IndexOK(b) /\ LifeOK(b) /\ LinksOK(b) /\ TakenDown(b) /\ ForwardsOK(b)
  BY DEF NetworkIInv, BoxIInv
<1>2. BoxTyped(b)
  BY <1>1, PointTypes
<1> DEFINE i == box[b][2]  n == box[b][3]
<1>3. /\ At(b, "forward") /\ i \in 1 .. Len(nics[b]) /\ n <= Len(nics[b]) /\ n \in Nat /\ Type(b, i) = "default"
      /\ UNCHANGED <<pidHook, nicOp, links, proc, pid, mounted, zt, terminating, lateAdd, ztOnce, zterr, watch>>
  BY <1>1, <1>2 DEF PreStartForward, At, IndexOK, BoxTyped
<1>4. ~Destroying(b) /\ proc[b] = "none"
  BY <1>1, <1>3 DEF LifeOK, Destroying, At
<1>5. ASSUME NEW s \in Source, SetPortForward(forwardId(b), s, getDefaultIP(b)), UNCHANGED <<box, nics>>
      PROVE  NetworkIInv'
  <2>1. NetworkTypeOK'
    BY <1>1, <1>3, <1>5 DEF NetworkTypeOK
  <2>2. IndexOK(b)' /\ LifeOK(b)' /\ LinksOK(b)'
    BY <1>1, <1>3, <1>5 DEF IndexOK, LifeOK, LinksOK, At, Destroying, Type, Moved
  <2>3. TakenDown(b)'
    BY <1>1, <1>3, <1>5 DEF TakenDown, At, Destroying, Type
  <2>4. ForwardsOK(b)'
    BY <1>3, <1>4, <1>5 DEF ForwardsOK, Destroying, Type
  <2>5. Elsewhere(b)
    BY <1>3, <1>5 DEF Elsewhere
  <2> QED
    BY <1>5, <2>1, <2>2, <2>3, <2>4, <2>5, ForwardSet, AssembleForwards DEF BoxIInv
<1>6. ASSUME UNCHANGED forwardVars, SameNics(b), nics' \in [Box -> Seq(NicRecord)],
             \A c \in Box \ {b} : nics'[c] = nics[c],
             Go(b, "pre", i + 1, n) \/ Go(b, "destroy", 1, Len(nics[b]))
      PROVE  NetworkIInv'
  <2>1. /\ box' \in [Box -> BoxWhere \X Nat \X Nat] /\ \A c \in Box \ {b} : box'[c] = box[c]
        /\ box'[b] = <<"destroy", 1, Len(nics[b])>> \/ box'[b] = <<"pre", i + 1, n>>
    <3>1. /\ box \in [Box -> BoxWhere \X Nat \X Nat] /\ {"destroy", "pre"} \subseteq BoxWhere
          /\ i \in Nat /\ n \in Nat /\ Len(nics[b]) \in Nat
      BY <1>1, <1>2 DEF NetworkTypeOK, BoxWhere, BoxTyped
    <3> HIDE DEF i, n
    <3>2. CASE Go(b, "destroy", 1, Len(nics[b]))
      BY <3>1, <3>2 DEF Go
    <3>3. CASE Go(b, "pre", i + 1, n)
      BY <3>1, <3>3 DEF Go
    <3> QED
      BY <1>6, <3>2, <3>3
  <2>2. NetworkTypeOK'
    BY <1>1, <1>3, <1>6, <2>1 DEF NetworkTypeOK
  <2>3. IndexOK(b)'
    BY <1>1, <1>2, <1>3, <1>6, <2>1 DEF IndexOK, BoxTyped, SameNics, At
  <2>4. LifeOK(b)'
    BY <1>1, <1>2, <1>3, <2>1 DEF LifeOK, BoxTyped, Destroying, At
  <2>5. LinksOK(b)'
    BY <1>1, <1>3, <1>6 DEF LinksOK, SameNics
  <2>6. Destroying(b)' => box'[b] = <<"destroy", 1, Len(nics[b])>>
    BY <2>1 DEF Destroying
  <2>7. TakenDown(b)'
    BY <1>2, <1>6, <2>6, TakenIdle
  <2>8. ForwardsOK(b)'
    BY <1>1, <1>2, <1>3, <1>4, <1>6, <2>6, ForwardsStay
  <2> QED
    BY <1>3, <1>6, <2>1, <2>2, <2>3, <2>4, <2>5, <2>7, <2>8, Assemble DEF BoxIInv
<1>7. CASE Go(b, "pre", i + 1, n) /\ UNCHANGED <<nics, forwardVars>>
  BY <1>1, <1>6, <1>7 DEF NetworkTypeOK, SameNics, Type, Moved
<1>8. CASE /\ Go(b, "destroy", 1, Len(nics[b]))
           /\ nics' = [nics EXCEPT ![b][i].state = "error"]
           /\ UNCHANGED forwardVars
  BY <1>1, <1>3, <1>6, <1>8, StateSet
<1> QED
  BY <1>5, <1>7, <1>8 DEF PreStartForward

\* postStartNetwork of one nic: a link gets into the namespace only while the process
\* lives, and a daemon started while the network is destroyed is a late one.
LEMMA PostNicDoes ==
  ASSUME NetworkTypeOK, NEW b \in Box, IndexOK(b), NEW i \in 1 .. Len(nics[b]), PostNic(b, i),
         UNCHANGED <<proc, mounted>>
  PROVE  /\ nics' \in [Box -> Seq(NicRecord)] /\ links' \in [Box -> Seq(LinkState)]
         /\ Len(links'[b]) = Len(links[b]) /\ Len(nics'[b]) = Len(nics[b])
         /\ \A j \in 1 .. Len(nics[b]) : Type(b, j)' = Type(b, j)
         /\ \A j \in 1 .. Len(nics[b]) :
              \/ Moved(b, j)' = Moved(b, j) /\ links'[b][j] = links[b][j]
              \/ proc[b] = "alive" /\ links[b][j] = "host" /\ links'[b][j] = "ns"
         /\ zt'[b] => zt[b] \/ (mounted[b] /\ (Destroying(b) => "zerotier" \in lateAdd'[b]))
         /\ lateAdd[b] \subseteq lateAdd'[b] /\ ("forward" \in lateAdd'[b] => "forward" \in lateAdd[b])
         /\ lateAdd' \in [Box -> SUBSET {"zerotier", "nic", "ovs", "forward"}]
         /\ zt' \in [Box -> BOOLEAN] /\ ztOnce' \in [Box -> BOOLEAN] /\ zterr' \in [Box -> BOOLEAN]
         /\ watch' \in [Box -> {"none", "wait", "over"}]
         /\ \A c \in Box \ {b} : /\ nics'[c] = nics[c] /\ links'[c] = links[c]
                                 /\ zt'[c] = zt[c] /\ lateAdd'[c] = lateAdd[c]
<1>1. BoxTyped(b) /\ Len(links[b]) = Len(nics[b])
  BY PointTypes DEF IndexOK
<1>2. CASE JoinZerotier(b, i)
  <2>1. PICK s \in {"configured", "error"} : nics' = [nics EXCEPT ![b][i].state = s]
    BY <1>2 DEF JoinZerotier
  <2>2. /\ nics' \in [Box -> Seq(NicRecord)] /\ SameNics(b)
        /\ \A c \in Box \ {b} : nics'[c] = nics[c]
    BY <2>1, StateSet
  <2>3. links' = links
    BY <1>2 DEF JoinZerotier
  <2>4. /\ zt'[b] => zt[b] \/ (mounted[b] /\ (Destroying(b) => "zerotier" \in lateAdd'[b]))
        /\ lateAdd[b] \subseteq lateAdd'[b] /\ ("forward" \in lateAdd'[b] => "forward" \in lateAdd[b])
        /\ lateAdd' \in [Box -> SUBSET {"zerotier", "nic", "ovs", "forward"}]
        /\ zt' \in [Box -> BOOLEAN] /\ ztOnce' \in [Box -> BOOLEAN] /\ zterr' \in [Box -> BOOLEAN]
        /\ watch' \in [Box -> {"none", "wait", "over"}]
        /\ \A c \in Box \ {b} : zt'[c] = zt[c] /\ lateAdd'[c] = lateAdd[c]
    <3>1. CASE ztOnce[b]
      BY <1>2, <3>1 DEF JoinZerotier, NetworkTypeOK
    <3>2. CASE ~ztOnce[b]
      <4>1. PICK up \in {mounted[b], FALSE} :
              /\ ztOnce' = [ztOnce EXCEPT ![b] = TRUE]
              /\ watch' = [watch EXCEPT ![b] = "wait"]
              /\ zt' = [zt EXCEPT ![b] = up]
              /\ zterr' = [zterr EXCEPT ![b] = ~up]
              /\ lateAdd' = [lateAdd EXCEPT ![b] =
                               IF Destroying(b) THEN lateAdd[b] \cup {"zerotier"} ELSE lateAdd[b]]
        BY <1>2, <3>2 DEF JoinZerotier
      <4>2. up \in BOOLEAN /\ (up => mounted[b])
        BY <1>1, <4>1 DEF BoxTyped
      <4>3. /\ zt' \in [Box -> BOOLEAN] /\ ztOnce' \in [Box -> BOOLEAN] /\ zterr' \in [Box -> BOOLEAN]
            /\ watch' \in [Box -> {"none", "wait", "over"}] /\ (zt'[b] => mounted[b])
            /\ \A c \in Box \ {b} : zt'[c] = zt[c]
        BY <4>1, <4>2 DEF NetworkTypeOK
      <4> DEFINE a == IF Destroying(b) THEN lateAdd[b] \cup {"zerotier"} ELSE lateAdd[b]
      <4>4. /\ lateAdd[b] \subseteq a /\ (Destroying(b) => "zerotier" \in a) /\ ("forward" \in a => "forward" \in lateAdd[b])
            /\ a \in SUBSET {"zerotier", "nic", "ovs", "forward"}
        BY <1>1 DEF BoxTyped
      <4> HIDE DEF a
      <4>5. /\ lateAdd' \in [Box -> SUBSET {"zerotier", "nic", "ovs", "forward"}] /\ lateAdd'[b] = a
            /\ \A c \in Box \ {b} : lateAdd'[c] = lateAdd[c]
        BY <4>1, <4>4 DEF NetworkTypeOK, a
      <4> QED
        BY <4>3, <4>4, <4>5
    <3> QED
      BY <3>1, <3>2
  <2> QED
    BY <1>1, <2>2, <2>3, <2>4 DEF SameNics, NetworkTypeOK
<1>3. CASE SetupLink(b, i) /\ UNCHANGED <<zt, ztOnce, watch, lateAdd, zterr>>
  <2>1. CASE nics' = [nics EXCEPT ![b][i].state = "error"] /\ UNCHANGED links
    <3>1. /\ nics' \in [Box -> Seq(NicRecord)] /\ SameNics(b)
          /\ \A c \in Box \ {b} : nics'[c] = nics[c]
      BY <2>1, StateSet
    <3> QED
      BY <1>1, <1>3, <2>1, <3>1 DEF SameNics, NetworkTypeOK
  <2>2. CASE /\ links[b][i] = "host" /\ proc[b] = "alive" /\ links' = [links EXCEPT ![b][i] = "ns"]
             /\ \E s \in {"configured", "error"} :
                  nics' = [nics EXCEPT ![b][i] = [nics[b][i] EXCEPT !.state = s, !.moved = TRUE]]
    <3>1. /\ links' \in [Box -> Seq(LinkState)] /\ Len(links'[b]) = Len(links[b])
          /\ links'[b][i] = "ns" /\ \A j \in 1 .. Len(links[b]) : j # i => links'[b][j] = links[b][j]
          /\ \A c \in Box \ {b} : links'[c] = links[c]
      BY <1>1, <2>2, LinkSet DEF LinkState
    <3>2. PICK s \in {"configured", "error"} :
            nics' = [nics EXCEPT ![b][i] = [nics[b][i] EXCEPT !.state = s, !.moved = TRUE]]
      BY <2>2
    <3> DEFINE r == [nics[b][i] EXCEPT !.state = s, !.moved = TRUE]
               t == [nics[b] EXCEPT ![i] = r]
    <3>3. nics[b][i] \in NicRecord
      BY <1>1 DEF BoxTyped
    <3>4. r \in NicRecord /\ r.type = Type(b, i)
      BY <3>3 DEF NicRecord, Type
    <3> HIDE DEF r
    <3>5. t \in Seq(NicRecord) /\ Len(t) = Len(nics[b]) /\ \A j \in 1 .. Len(nics[b]) : j # i => t[j] = nics[b][j]
      BY <1>1, <3>4 DEF BoxTyped
    <3>6. t[i] = r
      BY <1>1 DEF BoxTyped
    <3>7. nics' = [nics EXCEPT ![b] = t] /\ nics \in [Box -> Seq(NicRecord)]
      BY <3>2 DEF NetworkTypeOK, r
    <3> HIDE DEF t
    <3>8. nics' \in [Box -> Seq(NicRecord)] /\ nics'[b] = t /\ \A c \in Box \ {b} : nics'[c] = nics[c]
      BY <3>5, <3>7, FunSet
    <3>9. \A j \in 1 .. Len(nics[b]) : Type(b, j)' = Type(b, j)
      BY <3>4, <3>5, <3>6, <3>8 DEF Type
    <3>10. \A j \in 1 .. Len(nics[b]) : j # i => Moved(b, j)' = Moved(b, j)
      BY <3>5, <3>8 DEF Moved
    <3>11. /\ lateAdd[b] \subseteq lateAdd'[b] /\ ("forward" \in lateAdd'[b] => "forward" \in lateAdd[b])
           /\ lateAdd' \in [Box -> SUBSET {"zerotier", "nic", "ovs", "forward"}]
           /\ zt' \in [Box -> BOOLEAN] /\ ztOnce' \in [Box -> BOOLEAN] /\ zterr' \in [Box -> BOOLEAN]
           /\ watch' \in [Box -> {"none", "wait", "over"}] /\ zt' = zt /\ lateAdd' = lateAdd
      BY <1>3 DEF NetworkTypeOK
    <3> QED
      BY <1>1, <2>2, <3>1, <3>5, <3>8, <3>9, <3>10, <3>11
  <2> QED
    BY <1>3, <2>1, <2>2 DEF SetupLink
<1> QED
  BY <1>2, <1>3 DEF PostNic

\* A step that moves a nic into the namespace, be it of the PID hook or of nicAdd.
LEMMA PostKeeps ==
  ASSUME NetworkIInv, NEW b \in Box, NEW i \in 1 .. Len(nics[b]), PostNic(b, i),
         UNCHANGED <<box, proc, pid, mounted, terminating, forwardVars>>,
         NetworkTypeOK => pidHook' \in [Box -> {"none", "pid", "namespace", "post", "over"} \X Nat \X Nat],
         NetworkTypeOK => nicOp' \in [Box -> {"none", "pre", "post", "remove"} \X Nat],
         \A c \in Box \ {b} : pidHook'[c] = pidHook[c] /\ nicOp'[c] = nicOp[c],
         \/ pidHook'[b] = pidHook[b]
         \/ pidHook[b][1] = "post" /\ pidHook'[b] = <<"post", pidHook[b][2] + 1, pidHook[b][3]>>,
         nicOp'[b] = nicOp[b] \/ nicOp'[b] = <<"none", 0>>
  PROVE  NetworkIInv'
<1>1. NetworkTypeOK /\ IndexOK(b) /\ LifeOK(b) /\ LinksOK(b) /\ TakenDown(b) /\ ForwardsOK(b)
  BY DEF NetworkIInv, BoxIInv
<1>2. BoxTyped(b) /\ Len(links[b]) = Len(nics[b])
  BY <1>1, PointTypes DEF IndexOK
<1>3. /\ nics' \in [Box -> Seq(NicRecord)] /\ links' \in [Box -> Seq(LinkState)]
      /\ Len(links'[b]) = Len(links[b]) /\ Len(nics'[b]) = Len(nics[b])
      /\ \A j \in 1 .. Len(nics[b]) : Type(b, j)' = Type(b, j)
      /\ \A j \in 1 .. Len(nics[b]) :
           \/ Moved(b, j)' = Moved(b, j) /\ links'[b][j] = links[b][j]
           \/ proc[b] = "alive" /\ links[b][j] = "host" /\ links'[b][j] = "ns"
      /\ zt'[b] => zt[b] \/ (mounted[b] /\ (Destroying(b) => "zerotier" \in lateAdd'[b]))
      /\ lateAdd[b] \subseteq lateAdd'[b] /\ ("forward" \in lateAdd'[b] => "forward" \in lateAdd[b])
      /\ lateAdd' \in [Box -> SUBSET {"zerotier", "nic", "ovs", "forward"}]
      /\ zt' \in [Box -> BOOLEAN] /\ ztOnce' \in [Box -> BOOLEAN] /\ zterr' \in [Box -> BOOLEAN]
      /\ watch' \in [Box -> {"none", "wait", "over"}]
      /\ \A c \in Box \ {b} : /\ nics'[c] = nics[c] /\ links'[c] = links[c]
                              /\ zt'[c] = zt[c] /\ lateAdd'[c] = lateAdd[c]
  <2> HIDE DEF NetworkIInv
  <2> QED
    BY <1>1, PostNicDoes
<1>4. NetworkTypeOK'
  BY <1>1, <1>3 DEF NetworkTypeOK
<1>5. IndexOK(b)'
  <2>1. At(b, "forward")' => box'[b][2] <= Len(nics'[b]) /\ Type(b, box[b][2])' = "default"
    <3>1. Type(b, box[b][2])' = nics'[b][box[b][2]].type
      BY DEF Type
    <3>2. At(b, "forward") => box[b][2] \in 1 .. Len(nics[b]) /\ Type(b, box[b][2]) = "default"
      BY <1>1, <1>2 DEF IndexOK, BoxTyped, At
    <3>3. \A j \in 1 .. Len(nics[b]) : nics'[b][j].type = Type(b, j)
      BY <1>3 DEF Type
    <3> QED
      BY <1>2, <1>3, <3>1, <3>2, <3>3 DEF At, BoxTyped
  <2>2. pidHook'[b][1] = "post" => pidHook'[b][2] >= 1 /\ pidHook'[b][3] <= Len(nics'[b])
    <3>1. /\ pidHook[b][1] = "post" => pidHook[b][2] >= 1 /\ pidHook[b][3] <= Len(nics[b])
          /\ pidHook[b][2] \in Nat /\ Len(nics'[b]) = Len(nics[b])
      BY <1>1, <1>2, <1>3 DEF IndexOK, BoxTyped
    <3>2. CASE pidHook'[b] = pidHook[b]
      BY <3>1, <3>2
    <3>3. CASE pidHook[b][1] = "post" /\ pidHook'[b] = <<"post", pidHook[b][2] + 1, pidHook[b][3]>>
      BY <3>1, <3>3
    <3> QED
      BY <3>2, <3>3
  <2>3. nicOp'[b][1] # "none" => nicOp'[b][2] \in 1 .. Len(nics'[b])
    BY <1>1, <1>3 DEF IndexOK
  <2>4. box'[b][1] \in {"pre", "forward"} /\ nicOp'[b][1] = "pre" => nicOp'[b][2] > box'[b][3]
    BY <1>1 DEF IndexOK
  <2> QED
    BY <1>1, <1>2, <1>3, <2>1, <2>2, <2>3, <2>4 DEF IndexOK, At
<1>6. LifeOK(b)'
  BY <1>1, <1>2, <1>3 DEF LifeOK, BoxTyped, Destroying, At
<1>7. LinksOK(b)'
  <2> SUFFICES ASSUME NEW j \in 1 .. Len(nics[b])
               PROVE  /\ Moved(b, j)' => proc'[b] # "none" /\ links'[b][j] \in {"ns", "back", "none"}
                      /\ nicOp'[b] = <<"pre", j>> => links'[b][j] = "none" /\ ~Moved(b, j)'
                      /\ links'[b][j] = "back" => Type(b, j)' = "passthrough"
    BY <1>3 DEF LinksOK
  <2>1. /\ Moved(b, j) => proc[b] # "none" /\ links[b][j] \in {"ns", "back", "none"}
        /\ nicOp[b] = <<"pre", j>> => links[b][j] = "none" /\ ~Moved(b, j)
        /\ links[b][j] = "back" => Type(b, j) = "passthrough"
    BY <1>1 DEF LinksOK
  <2>2. nicOp'[b] = <<"pre", j>> => nicOp[b] = <<"pre", j>>
    OBVIOUS
  <2>3. \/ Moved(b, j)' = Moved(b, j) /\ links'[b][j] = links[b][j]
        \/ proc[b] = "alive" /\ links[b][j] = "host" /\ links'[b][j] = "ns"
    BY <1>3
  <2> QED
    BY <1>3, <2>1, <2>2, <2>3
<1>8. TakenDown(b)'
  <2>1. CASE proc[b] = "alive"
    BY <1>1, <2>1 DEF LifeOK, TakenDown, Destroying
  <2>2. CASE proc[b] # "alive"
    <3>1. SameNics(b) /\ \A j \in 1 .. Len(nics[b]) : Moves(b, j)
      BY <1>3, <2>2 DEF SameNics, Moves
    <3>2. (lateAdd'[b] = {} => lateAdd[b] = {}) /\ box'[b] = box[b]
      BY <1>3
    <3> QED
      BY <1>1, <3>1, <3>2, TakenMove
  <2> QED
    BY <2>1, <2>2
<1>9. ForwardsOK(b)'
  BY <1>1, <1>3 DEF ForwardsOK, Forwarded, forwardVars, forwardId, Destroying, At
<1> QED
  BY <1>3, <1>4, <1>5, <1>6, <1>7, <1>8, <1>9, Assemble DEF BoxIInv

\* The PID hook moves the nics it knows of.
LEMMA OnStartNicKeeps ==
  ASSUME NetworkIInv, NEW b \in Box, OnStartNic(b)
  PROVE  NetworkIInv'
<1>1. NetworkTypeOK /\ IndexOK(b) /\ LifeOK(b) /\ LinksOK(b) /\ TakenDown(b) /\ ForwardsOK(b)
  BY DEF NetworkIInv, BoxIInv
<1>2. BoxTyped(b)
  BY <1>1, PointTypes
<1> DEFINE i == pidHook[b][2]  n == pidHook[b][3]
<1>3. /\ pidHook[b][1] = "post" /\ i \in Nat /\ n \in Nat /\ i >= 1 /\ n <= Len(nics[b])
      /\ UNCHANGED <<box, nicOp, proc, pid, mounted, terminating, forwardVars>>
  BY <1>1, <1>2 DEF OnStartNic, IndexOK, BoxTyped
<1>4. CASE i > n
  <2>1. pidHook' = [pidHook EXCEPT ![b] = <<"over", 0, 0>>] /\ UNCHANGED <<nics, links, zt, ztOnce, watch, lateAdd, zterr>>
    BY <1>4 DEF OnStartNic
  <2>2. pidHook'[b] = <<"over", 0, 0>> /\ \A c \in Box \ {b} : pidHook'[c] = pidHook[c]
    BY <1>1, <2>1 DEF NetworkTypeOK
  <2>3. NetworkTypeOK'
    BY <1>1, <1>3, <2>1 DEF NetworkTypeOK
  <2>4. IndexOK(b)' /\ LifeOK(b)'
    BY <1>1, <1>3, <2>1, <2>2 DEF IndexOK, LifeOK, At, Destroying, Type
  <2>5. LinksOK(b)' /\ TakenDown(b)'
    BY <1>1, <1>3, <2>1 DEF LinksOK, TakenDown, At, Destroying, Type, Moved
  <2>6. ForwardsOK(b)'
    BY <1>1, <1>3, <2>1 DEF ForwardsOK, Forwarded, forwardVars, forwardId, At, Destroying, Type
  <2> QED
    BY <1>3, <2>1, <2>2, <2>3, <2>4, <2>5, <2>6, Assemble DEF BoxIInv
<1>5. CASE ~(i > n)
  <2>1. pidHook' = [pidHook EXCEPT ![b] = <<"post", i + 1, n>>] /\ PostNic(b, i) /\ i \in 1 .. Len(nics[b])
    BY <1>2, <1>3, <1>5 DEF OnStartNic, BoxTyped
  <2>2. pidHook'[b] = <<"post", i + 1, n>> /\ \A c \in Box \ {b} : pidHook'[c] = pidHook[c]
    BY <1>1, <2>1 DEF NetworkTypeOK
  <2>3. pidHook' \in [Box -> {"none", "pid", "namespace", "post", "over"} \X Nat \X Nat]
    <3>1. i + 1 \in Nat /\ n \in Nat
      BY <1>3
    <3> HIDE DEF i, n
    <3> QED
      BY <1>1, <2>1, <3>1, HookTyped
  <2>4. nicOp' \in [Box -> {"none", "pre", "post", "remove"} \X Nat]
    BY <1>1, <1>3 DEF NetworkTypeOK
  <2> QED
    BY <1>3, <2>1, <2>2, <2>3, <2>4, PostKeeps
<1> QED
  BY <1>4, <1>5

\* nicAdd moves its nic.
LEMMA NicAddPostKeeps ==
  ASSUME NetworkIInv, NEW b \in Box, NicAddPost(b)
  PROVE  NetworkIInv'
<1>1. NetworkTypeOK /\ IndexOK(b)
  BY DEF NetworkIInv, BoxIInv
<1>2. nicOp[b][2] \in 1 .. Len(nics[b])
  BY <1>1 DEF IndexOK, NicAddPost
<1>3. /\ nicOp' \in [Box -> {"none", "pre", "post", "remove"} \X Nat] /\ nicOp'[b] = <<"none", 0>>
      /\ \A c \in Box \ {b} : nicOp'[c] = nicOp[c]
  BY <1>1, OpTyped DEF NicAddPost
<1>4. pidHook' \in [Box -> {"none", "pid", "namespace", "post", "over"} \X Nat \X Nat]
  BY <1>1 DEF NetworkTypeOK, NicAddPost
<1>5. PostNic(b, nicOp[b][2]) /\ UNCHANGED <<box, pidHook, proc, pid, mounted, terminating, forwardVars>>
  BY DEF NicAddPost
<1> QED
  BY <1>2, <1>3, <1>4, <1>5, PostKeeps

\* destroyNetwork of one nic: of the default one it removes the forwards.
LEMMA DestroyNicKeeps ==
  ASSUME NetworkIInv, NEW b \in Box, DestroyNic(b)
  PROVE  NetworkIInv'
<1>1. NetworkTypeOK /\ IndexOK(b) /\ LifeOK(b) /\ LinksOK(b) /\ TakenDown(b) /\ ForwardsOK(b)
  BY DEF NetworkIInv, BoxIInv
<1>2. BoxTyped(b) /\ Len(links[b]) = Len(nics[b])
  BY <1>1, PointTypes DEF IndexOK
<1> DEFINE i == box[b][2]  n == box[b][3]  unbridge == nics[b][i].type \in {"vlan", "default"}
<1>3. /\ At(b, "destroy") /\ i \in 1 .. n /\ n <= Len(nics[b]) /\ n \in Nat /\ i \in 1 .. Len(nics[b])
      /\ UNCHANGED <<pidHook, nicOp, proc, pid, mounted, zt, ztOnce, zterr, watch, terminating>>
  BY <1>1, <1>2 DEF DestroyNic, At, IndexOK, BoxTyped
<1>4. /\ nics' = IF unbridge THEN [nics EXCEPT ![b][i].state = "destroyed"] ELSE nics
      /\ \E fails \in {FALSE, AsksTable(b, i)} :
           /\ links' = IF unbridge /\ ~fails THEN [links EXCEPT ![b][i] = "none"] ELSE links
           /\ lateAdd' = [lateAdd EXCEPT ![b] = IF fails THEN @ \cup {"ovs"} ELSE @]
      /\ IF unbridge /\ nics[b][i].type = "default" THEN RemoveAll(forwardId(b))
         ELSE UNCHANGED forwardVars
      /\ Go(b, "destroy", i + 1, n)
  BY DEF DestroyNic, DestroyedTypes
<1>5. /\ nics' \in [Box -> Seq(NicRecord)] /\ SameNics(b)
      /\ \A c \in Box \ {b} : nics'[c] = nics[c]
  <2>1. CASE unbridge
    <3>1. nics' = [nics EXCEPT ![b][i].state = "destroyed"]
      BY <1>4, <2>1
    <3> HIDE DEF i
    <3> QED
      BY <1>1, <1>3, <3>1, StateSet
  <2>2. CASE ~unbridge
    BY <1>1, <1>4, <2>2 DEF NetworkTypeOK, SameNics, Type, Moved
  <2> QED
    BY <2>1, <2>2
<1>6. PICK fails \in {FALSE, AsksTable(b, i)} :
        /\ links' = IF unbridge /\ ~fails THEN [links EXCEPT ![b][i] = "none"] ELSE links
        /\ lateAdd' = [lateAdd EXCEPT ![b] = IF fails THEN @ \cup {"ovs"} ELSE @]
  BY <1>4
<1>7. /\ links' \in [Box -> Seq(LinkState)] /\ Len(links'[b]) = Len(links[b])
      /\ unbridge /\ ~fails => links'[b][i] = "none"
      /\ \A j \in 1 .. Len(nics[b]) : links'[b][j] = "none" \/ links'[b][j] = links[b][j]
      /\ \A c \in Box \ {b} : links'[c] = links[c]
  <2>1. CASE unbridge /\ ~fails
    <3>1. links' = [links EXCEPT ![b][i] = "none"]
      BY <1>6, <2>1
    <3> HIDE DEF i
    <3>2. /\ links' \in [Box -> Seq(LinkState)] /\ Len(links'[b]) = Len(links[b])
          /\ links'[b][i] = "none" /\ \A j \in 1 .. Len(links[b]) : j # i => links'[b][j] = links[b][j]
          /\ \A c \in Box \ {b} : links'[c] = links[c]
      BY <1>1, <1>2, <1>3, <3>1, LinkSet DEF LinkState
    <3> QED
      BY <1>2, <3>2
  <2>2. CASE ~(unbridge /\ ~fails)
    BY <1>1, <1>6, <2>2 DEF NetworkTypeOK
  <2> QED
    BY <2>1, <2>2
<1>8. /\ lateAdd' \in [Box -> SUBSET {"zerotier", "nic", "ovs", "forward"}]
      /\ lateAdd[b] \subseteq lateAdd'[b] /\ (fails => "ovs" \in lateAdd'[b])
      /\ "forward" \in lateAdd'[b] => "forward" \in lateAdd[b]
      /\ \A c \in Box \ {b} : lateAdd'[c] = lateAdd[c]
  <2> DEFINE a == IF fails THEN lateAdd[b] \cup {"ovs"} ELSE lateAdd[b]
  <2>1. /\ lateAdd[b] \subseteq a /\ (fails => "ovs" \in a) /\ ("forward" \in a => "forward" \in lateAdd[b])
        /\ a \in SUBSET {"zerotier", "nic", "ovs", "forward"}
    BY <1>2 DEF BoxTyped
  <2>2. lateAdd' = [lateAdd EXCEPT ![b] = a]
    BY <1>6
  <2> HIDE DEF a
  <2> QED
    BY <1>1, <2>1, <2>2 DEF NetworkTypeOK
<1>9. /\ box' \in [Box -> BoxWhere \X Nat \X Nat] /\ box'[b] = <<"destroy", i + 1, n>>
      /\ \A c \in Box \ {b} : box'[c] = box[c]
  <2>1. box' = [box EXCEPT ![b] = <<"destroy", i + 1, n>>] /\ i \in Nat /\ n \in Nat /\ "destroy" \in BoxWhere
    BY <1>2, <1>4 DEF Go, BoxTyped, BoxWhere
  <2>2. box \in [Box -> BoxWhere \X Nat \X Nat]
    BY <1>1 DEF NetworkTypeOK
  <2> HIDE DEF i, n
  <2> QED
    BY <2>1, <2>2
<1>10. NetworkTypeOK'
  BY <1>1, <1>3, <1>5, <1>7, <1>8, <1>9 DEF NetworkTypeOK
<1>11. IndexOK(b)'
  BY <1>1, <1>2, <1>3, <1>5, <1>7, <1>9 DEF IndexOK, BoxTyped, SameNics, At
<1>12. LifeOK(b)'
  BY <1>1, <1>2, <1>3, <1>8, <1>9 DEF LifeOK, BoxTyped, Destroying, At
<1>13. LinksOK(b)'
  <2>1. \A j \in 1 .. Len(nics[b]) : Moves(b, j)
    BY <1>7 DEF Moves
  <2> QED
    BY <1>1, <1>3, <1>5, <2>1, LinksMove
<1>14. TakenDown(b)'
  <2> SUFFICES ASSUME lateAdd'[b] = {}, NEW j \in 1 .. Len(nics[b]), Type(b, j)' \in {"vlan", "default"}
               PROVE  links'[b][j] = "none" \/ (i + 1 <= j /\ j <= n)
    BY <1>5, <1>9 DEF TakenDown, SameNics, At
  <2>1. ~fails /\ lateAdd[b] = {} /\ Type(b, j) \in {"vlan", "default"}
    BY <1>5, <1>8 DEF SameNics
  <2>2. links[b][j] = "none" \/ (i <= j /\ j <= n)
    BY <1>1, <1>3, <2>1 DEF TakenDown, Destroying, At
  <2>3. CASE j = i
    BY <1>7, <2>1, <2>3 DEF Type
  <2>4. CASE j # i
    BY <1>3, <1>7, <2>2, <2>4
  <2> QED
    BY <2>3, <2>4
<1>15. /\ broken \subseteq broken' /\ \A c \in Box : Forwarded(c)' \subseteq Forwarded(c)
       /\ Type(b, i) = "default" => \A r \in Forwarded(b)' : r.port \in broken'
  <2>1. CASE Type(b, i) = "default"
    <3>1. DropRules(OfNamespace(forwardId(b)))
      BY <1>4, <2>1 DEF Type, RemoveAll
    <3>2. /\ broken \subseteq broken' /\ \A c \in Box : Forwarded(c)' \subseteq Forwarded(c)
          /\ \A r \in OfNamespace(forwardId(b)) : r \in rules' => r.port \in broken'
      BY <3>1, ForwardsDropped
    <3>3. \A r \in Forwarded(b)' : r \in rules' /\ r \in OfNamespace(forwardId(b))
      BY <3>2 DEF Forwarded, OfNamespace, forwardId
    <3> QED
      BY <3>2, <3>3
  <2>2. CASE Type(b, i) # "default"
    BY <1>4, <2>2 DEF Type, Forwarded, forwardVars, forwardId
  <2> QED
    BY <2>1, <2>2
<1>16. ForwardsOK(b)'
  <2> SUFFICES ASSUME NEW r \in Forwarded(b)', r.port \notin broken', "forward" \notin lateAdd'[b]
               PROVE  \E k \in 1 .. Len(nics'[b]) :
                        Type(b, k)' = "default" /\ At(b, "destroy")' /\ box'[b][2] <= k /\ k <= box'[b][3]
    BY DEF ForwardsOK
  <2>1. r \in Forwarded(b) /\ r.port \notin broken /\ "forward" \notin lateAdd[b] /\ Type(b, i) # "default"
    BY <1>8, <1>15
  <2>2. PICK k \in 1 .. Len(nics[b]) : Type(b, k) = "default" /\ i <= k /\ k <= n
    BY <1>1, <1>3, <2>1 DEF ForwardsOK, Destroying, At
  <2>3. k # i /\ i + 1 <= k
    BY <1>3, <2>1, <2>2
  <2> QED
    BY <1>5, <1>9, <2>2, <2>3 DEF SameNics, At
<1> QED
  BY <1>3, <1>5, <1>7, <1>8, <1>9, <1>10, <1>11, <1>12, <1>13, <1>14, <1>15, <1>16, AssembleForwards
     DEF BoxIInv, Elsewhere

\* A client adds a forward: late, if the network is being destroyed.
LEMMA PortForwardAddKeeps ==
  ASSUME NetworkIInv, NEW b \in Box, PortForwardAdd(b)
  PROVE  NetworkIInv'
<1>1. NetworkTypeOK /\ IndexOK(b) /\ LifeOK(b) /\ LinksOK(b) /\ TakenDown(b) /\ ForwardsOK(b)
  BY DEF NetworkIInv, BoxIInv
<1>2. BoxTyped(b)
  BY <1>1, PointTypes
<1>3. UNCHANGED <<box, pidHook, nicOp, nics, links, proc, pid, mounted, zt, ztOnce, zterr, watch, terminating>>
  BY DEF PortForwardAdd
<1>4. PICK s \in Source : SetPortForward(forwardId(b), s, getDefaultIP(b))
  BY DEF PortForwardAdd
<1>5. /\ lateAdd' \in [Box -> SUBSET {"zerotier", "nic", "ovs", "forward"}]
      /\ lateAdd[b] \subseteq lateAdd'[b] /\ (Destroying(b) => "forward" \in lateAdd'[b])
      /\ \A c \in Box \ {b} : lateAdd'[c] = lateAdd[c]
  <2> DEFINE a == IF Destroying(b) THEN lateAdd[b] \cup {"forward"} ELSE lateAdd[b]
  <2>1. /\ lateAdd[b] \subseteq a /\ (Destroying(b) => "forward" \in a)
        /\ a \in SUBSET {"zerotier", "nic", "ovs", "forward"}
    BY <1>2 DEF BoxTyped
  <2>2. lateAdd' = [lateAdd EXCEPT ![b] = a]
    BY DEF PortForwardAdd
  <2> HIDE DEF a
  <2> QED
    BY <1>1, <2>1, <2>2 DEF NetworkTypeOK
<1>6. NetworkTypeOK'
  BY <1>1, <1>3, <1>5 DEF NetworkTypeOK
<1>7. IndexOK(b)' /\ LinksOK(b)'
  BY <1>1, <1>3 DEF IndexOK, LinksOK, At, Type, Moved
<1>8. LifeOK(b)'
  BY <1>1, <1>3, <1>5 DEF LifeOK, Destroying
<1>9. TakenDown(b)'
  BY <1>1, <1>3, <1>5 DEF TakenDown, Destroying, At, Type
<1>10. ForwardsOK(b)'
  <2>1. PICK k \in DOMAIN nics[b] : nics[b][k].type = "default"
    BY DEF PortForwardAdd, HasDefault
  <2> QED
    BY <1>2, <1>3, <1>5, <2>1 DEF ForwardsOK, Destroying, Type, BoxTyped
<1>11. Elsewhere(b)
  BY <1>3, <1>5 DEF Elsewhere
<1> QED
  BY <1>4, <1>6, <1>7, <1>8, <1>9, <1>10, <1>11, ForwardSet, AssembleForwards DEF BoxIInv

\* A client removes a forward.
LEMMA PortForwardRemoveKeeps ==
  ASSUME NetworkIInv, NEW b \in Box, PortForwardRemove(b)
  PROVE  NetworkIInv'
<1>1. UNCHANGED netVars /\ \E rs : DropRules(rs)
  BY DEF PortForwardRemove, RemovePortForward
<1>2. broken \subseteq broken' /\ \A c \in Box : Forwarded(c)' \subseteq Forwarded(c)
  BY <1>1, ForwardsDropped
<1>3. NetworkTypeOK'
  BY <1>1 DEF NetworkIInv, NetworkTypeOK, netVars
<1>4. BoxIInv(b)'
  BY <1>1, <1>2, OtherBox DEF NetworkIInv, netVars
<1> QED
  BY <1>1, <1>2, <1>3, <1>4, AssembleForwards DEF Elsewhere, netVars

\* nicAdd appends its nic, which no loop that has begun comes to.
LEMMA NicAddKeeps ==
  ASSUME NetworkIInv, NEW b \in Box, NicAdd(b)
  PROVE  NetworkIInv'
<1>1. NetworkTypeOK /\ IndexOK(b) /\ LifeOK(b) /\ LinksOK(b) /\ TakenDown(b) /\ ForwardsOK(b)
  BY DEF NetworkIInv, BoxIInv
<1>2. BoxTyped(b) /\ Len(links[b]) = Len(nics[b])
  BY <1>1, PointTypes DEF IndexOK
<1>0. PICK n \in Nat : n = Len(nics[b])
  BY <1>2 DEF BoxTyped
<1>3. /\ UNCHANGED <<box, pidHook, proc, pid, mounted, zt, ztOnce, zterr, watch, terminating, lateAdd, forwardVars>>
      /\ ~At(b, "new") /\ nicOp[b][1] = "none"
  BY DEF NicAdd, InTable
<1>4. PICK t \in AddTypes :
       LET l == Append(nics[b], [type |-> t, state |-> "unknown", moved |-> FALSE])
           where == Append(links[b], "none") IN
       IF Validate(l, where)
       THEN /\ nics' = [nics EXCEPT ![b] = l]
            /\ links' = [links EXCEPT ![b] = where]
            /\ Op(b, "pre", Len(l))
       ELSE Refused(b) /\ UNCHANGED <<nics, links>>
  BY DEF NicAdd
<1> DEFINE r == [type |-> t, state |-> "unknown", moved |-> FALSE]
           l == Append(nics[b], r)
           where == Append(links[b], "none")
<1>5. r \in NicRecord /\ r.moved = FALSE
  BY NetworkAssumption DEF NicRecord, NicType
<1>6. CASE Op(b, "none", 0) /\ UNCHANGED <<nics, links>>
  <2>1. /\ nicOp' \in [Box -> {"none", "pre", "post", "remove"} \X Nat] /\ nicOp'[b] = <<"none", 0>>
        /\ \A c \in Box \ {b} : nicOp'[c] = nicOp[c]
    BY <1>1, <1>6, OpTyped
  <2>2. NetworkTypeOK'
    BY <1>1, <1>3, <1>6, <2>1 DEF NetworkTypeOK
  <2>3. IndexOK(b)' /\ LifeOK(b)' /\ LinksOK(b)'
    BY <1>1, <1>3, <1>6, <2>1 DEF IndexOK, LifeOK, LinksOK, At, Type, Moved, Destroying
  <2>4. TakenDown(b)'
    BY <1>1, <1>3, <1>6 DEF TakenDown, Destroying, At, Type
  <2>5. ForwardsOK(b)'
    BY <1>1, <1>3, <1>6 DEF ForwardsOK, Forwarded, forwardVars, forwardId, Destroying, At, Type
  <2> QED
    BY <1>3, <1>6, <2>1, <2>2, <2>3, <2>4, <2>5, Assemble DEF BoxIInv
<1>7. CASE nics' = [nics EXCEPT ![b] = l] /\ links' = [links EXCEPT ![b] = where] /\ Op(b, "pre", Len(l))
  <2>1. /\ l \in Seq(NicRecord) /\ Len(l) = n + 1 /\ n \in Nat /\ l[n + 1] = r
        /\ \A i \in 1 .. n : l[i] = nics[b][i]
    <3> HIDE DEF r
    <3> QED
      BY <1>0, <1>2, <1>5 DEF BoxTyped
  <2>2. /\ where \in Seq(LinkState) /\ Len(where) = n + 1 /\ where[n + 1] = "none"
        /\ \A i \in 1 .. n : where[i] = links[b][i]
    BY <1>0, <1>2 DEF BoxTyped, LinkState
  <2> HIDE DEF l, where
  <2>3. /\ nics' \in [Box -> Seq(NicRecord)] /\ nics'[b] = l
        /\ \A c \in Box \ {b} : nics'[c] = nics[c]
    BY <1>1, <1>7, <2>1, FunSet DEF NetworkTypeOK
  <2>4. /\ links' \in [Box -> Seq(LinkState)] /\ links'[b] = where
        /\ \A c \in Box \ {b} : links'[c] = links[c]
    BY <1>1, <1>7, <2>2, FunSet DEF NetworkTypeOK
  <2>5. /\ nicOp' \in [Box -> {"none", "pre", "post", "remove"} \X Nat] /\ nicOp'[b] = <<"pre", n + 1>>
        /\ \A c \in Box \ {b} : nicOp'[c] = nicOp[c]
    <3>1. Op(b, "pre", n + 1) /\ n + 1 \in Nat
      BY <1>7, <2>1
    <3> QED
      BY <1>1, <3>1, OpTyped
  <2>6. /\ Len(nics'[b]) = n + 1 /\ Len(links'[b]) = n + 1
        /\ \A i \in 1 .. n : /\ Type(b, i)' = Type(b, i) /\ Moved(b, i)' = Moved(b, i)
                             /\ links'[b][i] = links[b][i]
        /\ links'[b][n + 1] = "none" /\ ~Moved(b, n + 1)'
    BY <1>5, <2>1, <2>2, <2>3, <2>4 DEF Type, Moved
  <2>7. n \in Nat /\ 1 .. (n + 1) = (1 .. n) \cup {n + 1}
    BY <2>1
  <2>8. NetworkTypeOK'
    BY <1>1, <1>3, <2>3, <2>4, <2>5 DEF NetworkTypeOK
  <2>9. IndexOK(b)'
    <3>1. At(b, "forward") => box[b][2] \in 1 .. n /\ Type(b, box[b][2]) = "default"
      BY <1>0, <1>1, <1>2 DEF IndexOK, BoxTyped, At
    <3>2. At(b, "forward")' => box'[b][2] <= n + 1 /\ Type(b, box[b][2])' = "default"
      <4>1. \A j \in 1 .. n : nics'[b][j].type = Type(b, j)
        BY <2>6 DEF Type
      <4> QED
        BY <1>3, <2>7, <3>1, <4>1 DEF At, Type
    <3>3. /\ box[b][1] \in {"pre", "forward", "destroy"} => box[b][2] >= 1 /\ box[b][3] <= n + 1
          /\ pidHook[b][1] = "post" => pidHook[b][2] >= 1 /\ pidHook[b][3] <= n + 1
      BY <1>0, <1>1, <1>2 DEF IndexOK, BoxTyped
    <3>4. box[b][1] \in {"pre", "forward"} => n + 1 > box[b][3]
      BY <1>0, <1>1, <1>2 DEF IndexOK, BoxTyped
    <3> QED
      BY <1>3, <2>5, <2>6, <2>7, <3>2, <3>3, <3>4 DEF IndexOK, At
  <2>10. LifeOK(b)'
    BY <1>1, <1>3 DEF LifeOK, Destroying
  <2>11. LinksOK(b)'
    <3> SUFFICES ASSUME NEW i \in 1 .. (n + 1)
                 PROVE  /\ Moved(b, i)' => proc'[b] # "none" /\ links'[b][i] \in {"ns", "back", "none"}
                        /\ nicOp'[b] = <<"pre", i>> => links'[b][i] = "none" /\ ~Moved(b, i)'
                        /\ links'[b][i] = "back" => Type(b, i)' = "passthrough"
      BY <2>6 DEF LinksOK
    <3>1. CASE i = n + 1
      BY <2>6, <3>1
    <3>2. CASE i \in 1 .. n
      <4>1. /\ Moved(b, i) => proc[b] # "none" /\ links[b][i] \in {"ns", "back", "none"}
            /\ links[b][i] = "back" => Type(b, i) = "passthrough"
        BY <1>0, <1>1, <3>2 DEF LinksOK
      <4>2. nicOp'[b] # <<"pre", i>>
        BY <2>5, <2>7, <3>2
      <4> QED
        BY <1>3, <2>6, <3>2, <4>1, <4>2
    <3> QED
      BY <2>7, <3>1, <3>2
  <2>12. TakenDown(b)'
    <3> SUFFICES ASSUME lateAdd'[b] = {}, NEW i \in 1 .. (n + 1)
                 PROVE  /\ Destroying(b)' /\ Type(b, i)' \in {"vlan", "default"} =>
                             links'[b][i] = "none" \/ (At(b, "destroy")' /\ box'[b][2] <= i /\ i <= box'[b][3])
                        /\ box'[b][1] \in {"restore", "unset", "gone"} => links'[b][i] # "ns"
                        /\ box'[b][1] \in {"unset", "gone"} /\ Type(b, i)' = "passthrough" => links'[b][i] = "none"
      BY <2>6 DEF TakenDown
    <3>1. CASE i = n + 1
      BY <2>6, <3>1
    <3>2. CASE i \in 1 .. n
      BY <1>0, <1>1, <1>3, <2>6, <3>2 DEF TakenDown, Destroying, At
    <3> QED
      BY <2>7, <3>1, <3>2
  <2>13. ForwardsOK(b)'
    <3> SUFFICES ASSUME (\E q \in Forwarded(b)' : q.port \notin broken'), "forward" \notin lateAdd'[b]
                 PROVE  \E k \in 1 .. Len(nics'[b]) :
                          /\ Type(b, k)' = "default"
                          /\ ~Destroying(b)' \/ (At(b, "destroy")' /\ box'[b][2] <= k /\ k <= box'[b][3])
      BY DEF ForwardsOK
    <3>1. Forwarded(b)' = Forwarded(b) /\ broken' = broken
      BY <1>3 DEF Forwarded, forwardVars, forwardId
    <3>2. PICK k \in 1 .. n : /\ Type(b, k) = "default"
                              /\ ~Destroying(b) \/ (At(b, "destroy") /\ box[b][2] <= k /\ k <= box[b][3])
      BY <1>0, <1>1, <1>3, <3>1 DEF ForwardsOK
    <3>3. k \in 1 .. Len(nics'[b]) /\ Type(b, k)' = "default"
      BY <2>6, <2>7, <3>2
    <3> QED
      BY <1>3, <3>2, <3>3 DEF Destroying, At
  <2> QED
    BY <1>3, <2>3, <2>4, <2>5, <2>8, <2>9, <2>10, <2>11, <2>12, <2>13, Assemble DEF BoxIInv
<1> QED
  BY <1>4, <1>6, <1>7 DEF Refused

\* A step of a command on one nic that leaves the container where it is.
LEMMA NicOpKeeps ==
  ASSUME NetworkIInv, NEW b \in Box, NEW i \in 1 .. Len(nics[b]), nicOp[b][2] = i, nicOp[b][1] # "none",
         nics' \in [Box -> Seq(NicRecord)], SameNics(b), links' \in [Box -> Seq(LinkState)],
         Len(links'[b]) = Len(links[b]),
         \/ links'[b][i] = "none" \/ links'[b][i] = links[b][i]
         \/ links'[b][i] = "host" /\ nicOp[b][1] = "pre" /\ (Destroying(b) => "nic" \in lateAdd'[b]),
         \A j \in 1 .. Len(nics[b]) : j # i => links'[b][j] = links[b][j],
         \A c \in Box \ {b} : nics'[c] = nics[c] /\ links'[c] = links[c],
         Op(b, "post", i) \/ Op(b, "none", 0),
         lateAdd' \in [Box -> SUBSET {"zerotier", "nic", "ovs", "forward"}],
         \A c \in Box \ {b} : lateAdd'[c] = lateAdd[c],
         lateAdd[b] \subseteq lateAdd'[b], lateAdd'[b] \subseteq lateAdd[b] \cup {"nic"},
         UNCHANGED <<box, pidHook, proc, pid, mounted, zt, ztOnce, zterr, watch, terminating, forwardVars>>
  PROVE  NetworkIInv'
<1>1. NetworkTypeOK /\ IndexOK(b) /\ LifeOK(b) /\ LinksOK(b) /\ TakenDown(b) /\ ForwardsOK(b)
  BY DEF NetworkIInv, BoxIInv
<1>2. BoxTyped(b) /\ Len(links[b]) = Len(nics[b]) /\ i \in Nat
  BY <1>1, PointTypes DEF IndexOK
<1>3. /\ nicOp' \in [Box -> {"none", "pre", "post", "remove"} \X Nat]
      /\ nicOp'[b] = <<"post", i>> \/ nicOp'[b] = <<"none", 0>>
      /\ \A c \in Box \ {b} : nicOp'[c] = nicOp[c]
  BY <1>1, <1>2, OpTyped
<1>4. "forward" \in lateAdd'[b] => "forward" \in lateAdd[b]
  OBVIOUS
<1>5. NetworkTypeOK'
  BY <1>1, <1>3, <1>4 DEF NetworkTypeOK
<1>6. IndexOK(b)'
  <2>1. At(b, "forward") => box[b][2] \in 1 .. Len(nics[b])
    BY <1>1, <1>2 DEF IndexOK, BoxTyped, At
  <2> QED
    BY <1>1, <1>2, <1>3, <2>1 DEF IndexOK, BoxTyped, At, SameNics, Type
<1>7. LifeOK(b)'
  BY <1>1, <1>4 DEF LifeOK, Destroying
<1>8. LinksOK(b)'
  <2> SUFFICES ASSUME NEW j \in 1 .. Len(nics[b])
               PROVE  /\ Moved(b, j)' => proc'[b] # "none" /\ links'[b][j] \in {"ns", "back", "none"}
                      /\ nicOp'[b] = <<"pre", j>> => links'[b][j] = "none" /\ ~Moved(b, j)'
                      /\ links'[b][j] = "back" => Type(b, j)' = "passthrough"
    BY DEF LinksOK, SameNics
  <2>1. /\ Moved(b, j) => proc[b] # "none" /\ links[b][j] \in {"ns", "back", "none"}
        /\ nicOp[b] = <<"pre", j>> => links[b][j] = "none" /\ ~Moved(b, j)
        /\ links[b][j] = "back" => Type(b, j) = "passthrough"
    BY <1>1 DEF LinksOK
  <2>2. nicOp'[b] # <<"pre", j>>
    BY <1>3
  <2>3. Moved(b, j)' = Moved(b, j) /\ Type(b, j)' = Type(b, j)
    BY DEF SameNics
  <2>4. links'[b][i] = "host" /\ links'[b][i] # links[b][i] /\ j = i => ~Moved(b, j)
    BY <1>2, <2>1 DEF BoxTyped
  <2> QED
    BY <2>1, <2>2, <2>3, <2>4
<1>9. TakenDown(b)'
  <2>1. CASE ~Destroying(b)
    BY <2>1 DEF TakenDown, Destroying
  <2>2. CASE Destroying(b) /\ "nic" \in lateAdd'[b]
    BY <2>2 DEF TakenDown
  <2>3. CASE links'[b][i] = "none" \/ links'[b][i] = links[b][i]
    <3>1. \A j \in 1 .. Len(nics[b]) : Moves(b, j)
      BY <2>3 DEF Moves
    <3> QED
      BY <1>1, <3>1, TakenMove
  <2> QED
    BY <2>1, <2>2, <2>3
<1>10. ForwardsOK(b)'
  <2>1. Forwarded(b)' = Forwarded(b) /\ broken' = broken
    BY DEF Forwarded, forwardVars, forwardId
  <2>2. (Destroying(b)' <=> Destroying(b)) /\ (At(b, "destroy")' <=> At(b, "destroy"))
    BY DEF Destroying, At
  <2>3. "forward" \notin lateAdd'[b] <=> "forward" \notin lateAdd[b]
    BY <1>4
  <2> QED
    BY <1>1, <2>1, <2>2, <2>3 DEF ForwardsOK, SameNics
<1> QED
  BY <1>3, <1>4, <1>5, <1>6, <1>7, <1>8, <1>9, <1>10, Assemble DEF BoxIInv

\* nicAdd sets its nic up: late, if the network is being destroyed.
LEMMA NicAddPreKeeps ==
  ASSUME NetworkIInv, NEW b \in Box, NicAddPre(b)
  PROVE  NetworkIInv'
<1>1. NetworkTypeOK /\ IndexOK(b)
  BY DEF NetworkIInv, BoxIInv
<1>2. BoxTyped(b)
  BY <1>1, PointTypes
<1>3. PICK i \in 1 .. Len(nics[b]) : nicOp[b][2] = i /\ nicOp[b][1] = "pre"
  BY <1>1 DEF NicAddPre, IndexOK
<1>4. PICK o \in PreOutcomes(b, i) :
        PreState(b, i, o[1], o[2]) /\ (Op(b, "post", i) \/ Op(b, "none", 0))
  BY <1>3 DEF NicAddPre
<1>5. o[2] \in {"none", "host"}
  BY <1>4, Outcome
<1> DEFINE s == IF o[1] THEN "unknown" ELSE "error"
<1>6. /\ nics' = [nics EXCEPT ![b][i].state = s] /\ links' = [links EXCEPT ![b][i] = o[2]]
      /\ s \in {"unknown", "configured", "error", "destroyed"}
  BY <1>4 DEF PreState
<1>7. /\ lateAdd' \in [Box -> SUBSET {"zerotier", "nic", "ovs", "forward"}]
      /\ \A c \in Box \ {b} : lateAdd'[c] = lateAdd[c]
      /\ lateAdd[b] \subseteq lateAdd'[b] /\ lateAdd'[b] \subseteq lateAdd[b] \cup {"nic"}
      /\ Destroying(b) => "nic" \in lateAdd'[b]
  <2> DEFINE a == IF Destroying(b) THEN lateAdd[b] \cup {"nic"} ELSE lateAdd[b]
  <2>1. /\ lateAdd[b] \subseteq a /\ a \subseteq lateAdd[b] \cup {"nic"} /\ (Destroying(b) => "nic" \in a)
        /\ a \in SUBSET {"zerotier", "nic", "ovs", "forward"}
    BY <1>2 DEF BoxTyped
  <2>2. lateAdd' = [lateAdd EXCEPT ![b] = a]
    BY DEF NicAddPre
  <2> HIDE DEF a
  <2> QED
    BY <1>1, <2>1, <2>2 DEF NetworkTypeOK
<1>8. UNCHANGED <<box, pidHook, proc, pid, mounted, zt, ztOnce, zterr, watch, terminating, forwardVars>>
  BY DEF NicAddPre
<1>9. /\ nics' \in [Box -> Seq(NicRecord)] /\ SameNics(b)
      /\ links' \in [Box -> Seq(LinkState)] /\ Len(links'[b]) = Len(links[b])
      /\ links'[b][i] = o[2] \/ links'[b][i] = links[b][i]
      /\ \A j \in 1 .. Len(nics[b]) : j # i => links'[b][j] = links[b][j]
      /\ \A c \in Box \ {b} : nics'[c] = nics[c] /\ links'[c] = links[c]
  <2>1. PICK k \in LinkState : k = o[2]
    BY <1>5 DEF LinkState
  <2>2. PICK t \in {"unknown", "configured", "error", "destroyed"} : t = s
    BY <1>6
  <2> HIDE DEF s
  <2>3. nics' = [nics EXCEPT ![b][i].state = t] /\ links' = [links EXCEPT ![b][i] = k]
    BY <1>6, <2>1, <2>2
  <2> QED
    BY <1>1, <2>1, <2>3, NicChanged
<1>10. nicOp[b][2] = i /\ (Op(b, "post", i) \/ Op(b, "none", 0))
  BY <1>3, <1>4
<1>11. \/ links'[b][i] = "none" \/ links'[b][i] = links[b][i]
       \/ links'[b][i] = "host" /\ nicOp[b][1] = "pre" /\ (Destroying(b) => "nic" \in lateAdd'[b])
  BY <1>3, <1>5, <1>7, <1>9
<1> HIDE DEF s
<1> QED
  BY <1>3, <1>7, <1>8, <1>9, <1>10, <1>11, NicOpKeeps

\* nicRemove takes its nic away.
LEMMA NicRemoveDoKeeps ==
  ASSUME NetworkIInv, NEW b \in Box, NicRemoveDo(b)
  PROVE  NetworkIInv'
<1>1. NetworkTypeOK /\ IndexOK(b)
  BY DEF NetworkIInv, BoxIInv
<1> DEFINE i == nicOp[b][2]
<1>2. nicOp[b][1] = "remove" /\ i \in 1 .. Len(nics[b])
  BY <1>1 DEF NicRemoveDo, IndexOK
<1>3. PICK s \in {"destroyed", "error", "configured"} :
        /\ nics' = [nics EXCEPT ![b][i].state = s]
        /\ links' = [links EXCEPT ![b][i] = "none"] \/ links' = links
  BY DEF NicRemoveDo
<1>4. /\ Op(b, "none", 0) /\ lateAdd' = lateAdd
      /\ UNCHANGED <<box, pidHook, proc, pid, mounted, zt, ztOnce, zterr, watch, terminating, forwardVars>>
  BY DEF NicRemoveDo
<1>5. lateAdd' \in [Box -> SUBSET {"zerotier", "nic", "ovs", "forward"}]
  BY <1>1, <1>4 DEF NetworkTypeOK
<1> HIDE DEF i
<1>6. /\ nics' \in [Box -> Seq(NicRecord)] /\ SameNics(b)
      /\ links' \in [Box -> Seq(LinkState)] /\ Len(links'[b]) = Len(links[b])
      /\ links'[b][i] = "none" \/ links'[b][i] = links[b][i]
      /\ \A j \in 1 .. Len(nics[b]) : j # i => links'[b][j] = links[b][j]
      /\ \A c \in Box \ {b} : nics'[c] = nics[c] /\ links'[c] = links[c]
  <2>1. "none" \in LinkState /\ s \in {"unknown", "configured", "error", "destroyed"}
    BY <1>3 DEF LinkState
  <2>2. CASE links' = [links EXCEPT ![b][i] = "none"]
    BY <1>1, <1>2, <1>3, <2>1, <2>2, NicChanged
  <2>3. CASE links' = links
    BY <1>1, <1>2, <1>3, <2>1, <2>3, NicChanged
  <2> QED
    BY <1>3, <2>2, <2>3
<1> QED
  BY <1>2, <1>4, <1>5, <1>6, NicOpKeeps DEF i

\* The invariant holds at the start.
LEMMA NetworkInitIInv == NetworkInit /\ ForwardInit => NetworkIInv
<1> SUFFICES ASSUME NetworkInit, ForwardInit
             PROVE  NetworkIInv
  OBVIOUS
<1>1. NetworkTypeOK
  BY DEF NetworkInit, NetworkTypeOK, BoxWhere
<1>2. ASSUME NEW b \in Box
      PROVE  BoxIInv(b)
  <2>1. Len(nics[b]) = 0 /\ Len(links[b]) = 0 /\ Forwarded(b) = {}
    BY DEF NetworkInit, ForwardInit, Forwarded
  <2> QED
    BY <2>1 DEF NetworkInit, BoxIInv, IndexOK, LifeOK, LinksOK, TakenDown, ForwardsOK, At, Destroying
<1> QED
  BY <1>1, <1>2 DEF NetworkIInv

\* Every step keeps it.
LEMMA NetworkNextIInv ==
  ASSUME NetworkIInv, [NetworkNext]_<<netVars, forwardVars>>
  PROVE  NetworkIInv'
<1>1. CASE UNCHANGED <<netVars, forwardVars>>
  <2>1. NetworkTypeOK'
    BY <1>1 DEF NetworkIInv, NetworkTypeOK, netVars
  <2>2. ASSUME NEW c \in Box
        PROVE  BoxIInv(c)'
    <3>1. Forwarded(c)' = Forwarded(c) /\ broken' = broken
      BY <1>1 DEF Forwarded, forwardVars, forwardId
    <3> QED
      BY <1>1, <3>1, OtherBox DEF NetworkIInv, netVars
  <2> QED
    BY <2>1, <2>2 DEF NetworkIInv
<1>2. ASSUME NEW b \in Box, BoxSteps(b)
      PROVE  NetworkIInv'
  BY <1>2, SetBoxKeeps, PreStartNicKeeps, RunKeeps, OnExitKeeps, OnStartPIDKeeps, OnStartNamespaceKeeps,
     OnStartNicKeeps, DestroyNicKeeps, DestroyLinksDoneKeeps, KillZerotierKeeps, UnmountNamespaceKeeps,
     RestorePassthroughKeeps, UnsetBoxKeeps DEF BoxSteps
<1>3. ASSUME NEW b \in Box, OpSteps(b)
      PROVE  NetworkIInv'
  BY <1>3, NicAddPreKeeps, NicAddPostKeeps, NicRemoveDoKeeps DEF OpSteps
<1> QED
  BY <1>1, <1>2, <1>3, CreateBoxKeeps, PreStartForwardKeeps, DieKeeps, ZerotierDiesKeeps, WatchKeeps,
     NicAddKeeps, NicRemoveKeeps, PortForwardAddKeeps, PortForwardRemoveKeeps DEF NetworkNext

\* What the network of a container set up goes with the container (destroyNetwork), for any
\* containers, nics and interleaving of Start, the PID hook, the watcher of zerotier, nicAdd,
\* nicRemove and the port forwards, wherever in its start the process died.
THEOREM NetworkTakenDown == NetworkSpec => []NetworkIsTakenDown
<1>1. NetworkInit /\ ForwardInit => NetworkIInv
  BY NetworkInitIInv
<1>2. NetworkIInv /\ [NetworkNext]_<<netVars, forwardVars>> => NetworkIInv'
  BY NetworkNextIInv
<1>3. NetworkIInv => NetworkIsTakenDown
  <2> SUFFICES ASSUME NetworkIInv
               PROVE  NetworkIsTakenDown
    OBVIOUS
  <2>1. ASSUME NEW b \in Box, Ended(b)
        PROVE  /\ lateAdd[b] = {} => \A i \in DOMAIN nics[b] :
                    nics[b][i].type \in {"vlan", "default", "passthrough"} \/ nics[b][i].moved => links[b][i] = "none"
               /\ ~mounted[b]
               /\ "forward" \in lateAdd[b] \/ \A r \in Forwarded(b) : r.port \in broken
               /\ zt[b] => "zerotier" \in lateAdd[b]
    <3>1. NetworkTypeOK /\ IndexOK(b) /\ LifeOK(b) /\ LinksOK(b) /\ TakenDown(b) /\ ForwardsOK(b)
      BY DEF NetworkIInv, BoxIInv
    <3>2. At(b, "gone") /\ Destroying(b) /\ BoxTyped(b)
      BY <2>1, <3>1, PointTypes DEF Ended, At, Destroying
    <3>3. ~mounted[b] /\ (zt[b] => "zerotier" \in lateAdd[b])
      BY <3>1, <3>2 DEF LifeOK, At
    <3>4. "forward" \in lateAdd[b] \/ \A r \in Forwarded(b) : r.port \in broken
      BY <3>1, <3>2 DEF ForwardsOK, At
    <3>5. ASSUME lateAdd[b] = {}, NEW i \in 1 .. Len(nics[b]),
                 Type(b, i) \in {"vlan", "default", "passthrough"} \/ Moved(b, i)
          PROVE  links[b][i] = "none"
      <4>1. /\ Type(b, i) \in {"vlan", "default"} => links[b][i] = "none"
            /\ links[b][i] # "ns"
            /\ Type(b, i) = "passthrough" => links[b][i] = "none"
        BY <3>1, <3>2, <3>5 DEF TakenDown, At
      <4>2. /\ Moved(b, i) => links[b][i] \in {"ns", "back", "none"}
            /\ links[b][i] = "back" => Type(b, i) = "passthrough"
        BY <3>1, <3>5 DEF LinksOK
      <4> QED
        BY <3>5, <4>1, <4>2
    <3> QED
      BY <3>2, <3>3, <3>4, <3>5 DEF BoxTyped, Type, Moved
  <2> QED
    BY <2>1 DEF NetworkIsTakenDown, LinksAreRemoved, NamespaceUnmounted, ForwardsAreRemoved, ZerotierEnds
<1> QED
  BY <1>1, <1>2, <1>3, PTL DEF NetworkSpec
===============================================================================
