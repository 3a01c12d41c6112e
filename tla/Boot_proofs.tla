------------------------------ MODULE Boot_proofs ------------------------------
(***************************************************************************)
(* Proofs about Boot, for every set of services, dependencies and          *)
(* conditions: a service starts after its dependencies of its slice, and   *)
(* is refused only with a cause.                                           *)
(*                                                                         *)
(* Both speak of what a waiter has read, at a time when several hooks      *)
(* write the same key: the invariant ties what Wait returned (verdict) to  *)
(* what had happened to the dependencies by then, and to facts about them  *)
(* that never become false again.                                          *)
(***************************************************************************)
EXTENDS Boot, TLAPS

\* What may have made a dependency fail; once true of a service it stays true.
Culprit(d) == svc[d] \in {"skipped", "refused", "over"} \/ exited[d]

\* A released key carries the truth: true if its service was up at some time,
\* false only if there is a reason.
KeysAreTrue ==
  \A d \in Service : open[d] => IF value[d] THEN d \in wasUp ELSE Culprit(d)

\* What Wait has put together so far.
VerdictIsTrue ==
  \A s \in Service :
    /\ seen[s] \subseteq Known(s)
    /\ IF verdict[s] THEN seen[s] \subseteq wasUp ELSE \E d \in Known(s) : Culprit(d)

\* A refused service was refused for its verdict.
RefusedByVerdict == \A s \in Service : svc[s] = "refused" => ~verdict[s]

IInv ==
  /\ TypeOK /\ KeysAreTrue /\ VerdictIsTrue /\ RefusedByVerdict /\ StartsAfterDependencies

-----------------------------------------------------------------------------
\* The invariant holds before the first slice.
LEMMA InitIInv == Init => IInv
  BY BootAssumption
  DEF Init, IInv, TypeOK, Phase, SvcPC, KeysAreTrue, VerdictIsTrue, RefusedByVerdict,
      StartsAfterDependencies, Started

\* A dependency is a service.
LEMMA KnownServices ==
  ASSUME NEW s \in Service PROVE Known(s) \subseteq Service
  BY BootAssumption DEF Known

\* Release(key, state), in any step that gives a reason for a false state and
\* takes none back: keys and verdicts stay true.
LEMMA ReleaseStep ==
  ASSUME IInv, NEW s \in Service, NEW state \in BOOLEAN, Release(s, state),
         ~state => Culprit(s)',
         \A d \in Service : Culprit(d) => Culprit(d)',
         UNCHANGED <<seen, verdict>>
  PROVE  /\ wasUp \subseteq wasUp' /\ wasUp' \subseteq Service
         /\ value' \in [Service -> BOOLEAN] /\ open' \in [Service -> BOOLEAN]
         /\ KeysAreTrue' /\ VerdictIsTrue'
<1> USE DEF IInv, Release
<1>1. /\ wasUp \subseteq wasUp' /\ wasUp' \subseteq Service
      /\ value' \in [Service -> BOOLEAN] /\ open' \in [Service -> BOOLEAN]
  BY DEF TypeOK
<1>2. KeysAreTrue'
  <2> SUFFICES ASSUME NEW d \in Service, open'[d]
               PROVE  IF value'[d] THEN d \in wasUp' ELSE Culprit(d)'
    BY DEF KeysAreTrue
  <2>1. CASE d = s
    BY <2>1 DEF TypeOK
  <2>2. CASE d # s
    BY <2>2, <1>1 DEF TypeOK, KeysAreTrue
  <2> QED
    BY <2>1, <2>2
<1>3. VerdictIsTrue'
  <2> SUFFICES ASSUME NEW t \in Service
               PROVE  /\ seen[t] \subseteq Known(t)
                      /\ IF verdict[t] THEN seen[t] \subseteq wasUp'
                                       ELSE \E c \in Known(t) : Culprit(c)'
    BY DEF VerdictIsTrue, Known
  <2> QED
    BY <1>1, KnownServices DEF VerdictIsTrue
<1> QED
  BY <1>1, <1>2, <1>3

\* A step that releases nothing and takes no reason back.
LEMMA KeepStep ==
  ASSUME IInv, Keep, \A d \in Service : Culprit(d) => Culprit(d)',
         UNCHANGED <<seen, verdict>>
  PROVE  KeysAreTrue' /\ VerdictIsTrue'
<1> USE DEF IInv, Keep
<1>1. KeysAreTrue'
  BY DEF KeysAreTrue
<1>2. VerdictIsTrue'
  <2> SUFFICES ASSUME NEW t \in Service
               PROVE  /\ seen[t] \subseteq Known(t)
                      /\ IF verdict[t] THEN seen[t] \subseteq wasUp
                                       ELSE \E c \in Known(t) : Culprit(c)'
    BY DEF VerdictIsTrue, Known
  <2> QED
    BY KnownServices DEF VerdictIsTrue
<1> QED
  BY <1>1, <1>2

\* A service that goes on to a place from which it has not started.
LEMMA StartedStep ==
  ASSUME IInv, wasUp \subseteq wasUp',
         \A s \in Service : Started(s)' => Started(s) \/ (Waited(s) /\ verdict[s])
  PROVE  StartsAfterDependencies'
<1> SUFFICES ASSUME NEW s \in Service, Started(s)', NEW d \in Known(s)
             PROVE  d \in wasUp'
  BY DEF StartsAfterDependencies, Known
<1>1. CASE Started(s)
  BY <1>1 DEF IInv, StartsAfterDependencies
<1>2. CASE Waited(s) /\ verdict[s]
  BY <1>2 DEF IInv, VerdictIsTrue, Waited
<1> QED
  BY <1>1, <1>2

\* Skip, Refuse and RunError release their key as failed, and are the reason.
LEMMA FailStep ==
  ASSUME IInv, NEW s \in Service, Skip(s) \/ Refuse(s) \/ RunError(s) PROVE IInv'
<1> USE DEF IInv, Skip, Refuse, RunError
<1>1. svc' \in [Service -> SvcPC]
  BY DEF TypeOK, SvcPC
<1>2. Release(s, FALSE) /\ svc[s] \in {"init", "waiting"} /\ UNCHANGED exited
  BY DEF Waited
<1>3. Culprit(s)' /\ \A d \in Service : Culprit(d) => Culprit(d)'
  BY <1>2 DEF Culprit, TypeOK
<1>4. /\ wasUp \subseteq wasUp' /\ wasUp' \subseteq Service
      /\ value' \in [Service -> BOOLEAN] /\ open' \in [Service -> BOOLEAN]
      /\ KeysAreTrue' /\ VerdictIsTrue'
  BY <1>2, <1>3, ReleaseStep
<1>5. TypeOK'
  BY <1>1, <1>4 DEF TypeOK
<1>6. RefusedByVerdict'
  BY DEF RefusedByVerdict, TypeOK
<1>7. \A t \in Service : Started(t)' => Started(t)
  BY <1>2 DEF Started, TypeOK
<1> QED
  BY <1>4, <1>5, <1>6, <1>7, StartedStep

\* Launch and Run only move a service; Run has its verdict.
LEMMA MoveStep ==
  ASSUME IInv, NEW s \in Service, Launch(s) \/ Run(s) \/ Respawn(s) PROVE IInv'
<1> USE DEF IInv, Launch, Run, Respawn
<1>1. TypeOK'
  BY DEF TypeOK, SvcPC, Keep
<1>2. \A d \in Service : Culprit(d) => Culprit(d)'
  BY DEF Culprit, TypeOK, Waited
<1>3. Keep /\ UNCHANGED <<seen, verdict, exited>>
  OBVIOUS
<1>4. RefusedByVerdict'
  BY DEF RefusedByVerdict, TypeOK
<1>5. \A t \in Service : Started(t)' => Started(t) \/ (Waited(t) /\ verdict[t])
  BY DEF Started, TypeOK
<1>6. wasUp' = wasUp
  BY DEF Keep
<1> QED
  BY <1>1, <1>2, <1>3, <1>4, <1>5, <1>6, KeepStep, StartedStep

\* Wait reads one key.
LEMMA WaitOneStep ==
  ASSUME IInv, NEW s \in Service, NEW d \in Service, WaitOne(s, d) PROVE IInv'
<1> USE DEF IInv, WaitOne
<1>1. TypeOK'
  BY DEF TypeOK, Keep
<1>2. KeysAreTrue'
  BY DEF KeysAreTrue, Culprit, Keep
<1>3. VerdictIsTrue'
  <2> SUFFICES ASSUME NEW t \in Service
               PROVE  /\ seen'[t] \subseteq Known(t)
                      /\ IF verdict'[t] THEN seen'[t] \subseteq wasUp
                                        ELSE \E c \in Known(t) : Culprit(c)
    BY DEF VerdictIsTrue, Known, Culprit, Keep
  <2>1. CASE t # s
    BY <2>1 DEF VerdictIsTrue, TypeOK
  <2>2. CASE t = s
    <3>1. seen'[s] = seen[s] \cup {d} /\ verdict'[s] = (verdict[s] /\ value[d])
      BY DEF TypeOK
    <3>2. IF value[d] THEN d \in wasUp ELSE Culprit(d)
      BY DEF KeysAreTrue
    <3> QED
      BY <2>2, <3>1, <3>2 DEF VerdictIsTrue
  <2> QED
    BY <2>1, <2>2
<1>4. RefusedByVerdict'
  BY DEF RefusedByVerdict, TypeOK
<1>5. StartsAfterDependencies'
  BY DEF StartsAfterDependencies, Started, Keep
<1> QED
  BY <1>1, <1>2, <1>3, <1>4, <1>5

\* The delay and match hooks release the key as running.
LEMMA UpStep ==
  ASSUME IInv, NEW s \in Service, TickFire(s) \/ Match(s) PROVE IInv'
<1> USE DEF IInv, TickFire, Match
<1>1. Release(s, TRUE) /\ UNCHANGED <<svc, exited, seen, verdict>>
  OBVIOUS
<1>2. \A d \in Service : Culprit(d) => Culprit(d)'
  BY <1>1 DEF Culprit
<1>3. /\ wasUp \subseteq wasUp' /\ wasUp' \subseteq Service
      /\ value' \in [Service -> BOOLEAN] /\ open' \in [Service -> BOOLEAN]
      /\ KeysAreTrue' /\ VerdictIsTrue'
  BY <1>1, <1>2, ReleaseStep
<1>4. TypeOK'
  BY <1>3 DEF TypeOK
<1>5. RefusedByVerdict'
  BY <1>1 DEF RefusedByVerdict
<1>6. \A t \in Service : Started(t)' => Started(t)
  BY <1>1 DEF Started
<1> QED
  BY <1>3, <1>4, <1>5, <1>6, StartedStep

\* The exit hook releases the key as the exit says, the first time.
LEMMA ExitStep ==
  ASSUME IInv, NEW s \in Service, NEW success \in BOOLEAN, Exit(s, success) PROVE IInv'
<1> USE DEF IInv, Exit
<1>1. svc' \in [Service -> SvcPC] /\ exited' \in [Service -> BOOLEAN]
  BY DEF TypeOK, SvcPC
<1>2. UNCHANGED <<cond, phase, seen, verdict, tick, matched>>
  OBVIOUS
<1>3. Culprit(s)' /\ \A d \in Service : Culprit(d) => Culprit(d)'
  BY DEF Culprit, TypeOK
<1>4. /\ wasUp \subseteq wasUp' /\ wasUp' \subseteq Service
      /\ value' \in [Service -> BOOLEAN] /\ open' \in [Service -> BOOLEAN]
      /\ KeysAreTrue' /\ VerdictIsTrue'
  <2>1. CASE exited[s]
    BY <2>1, <1>2, <1>3, KeepStep DEF Keep, TypeOK
  <2>2. CASE ~exited[s]
    BY <2>2, <1>2, <1>3, ReleaseStep
  <2> QED
    BY <2>1, <2>2
<1>5. TypeOK'
  BY <1>1, <1>2, <1>4 DEF TypeOK
<1>6. RefusedByVerdict'
  BY DEF RefusedByVerdict, TypeOK
<1>7. \A t \in Service : Started(t)' => Started(t)
  BY DEF Started, TypeOK
<1> QED
  BY <1>4, <1>5, <1>6, <1>7, StartedStep

\* The ticker, the end of a slice, and a step that changes nothing.
LEMMA OtherStep ==
  ASSUME IInv, Advance \/ UNCHANGED vars \/ \E s \in Service : TickSpawn(s) PROVE IInv'
<1> USE DEF IInv, Advance, TickSpawn, vars
<1>1. TypeOK'
  BY DEF TypeOK, Phase, AfterPhase, Keep
<1>2. UNCHANGED <<svc, seen, verdict, exited, open, value, wasUp>>
  BY DEF Keep
<1>3. KeysAreTrue' /\ VerdictIsTrue' /\ RefusedByVerdict' /\ StartsAfterDependencies'
  BY <1>2 DEF KeysAreTrue, VerdictIsTrue, RefusedByVerdict, StartsAfterDependencies,
              Started, Known, Culprit
<1> QED
  BY <1>1, <1>3

\* Every step keeps the invariant.
LEMMA NextIInv == IInv /\ [Next]_vars => IInv'
  BY FailStep, MoveStep, WaitOneStep, UpStep, ExitStep, OtherStep
  DEF Next, Starter, Execution

\* The invariant holds in every reachable state.
LEMMA SpecIInv == Spec => []IInv
  BY InitIInv, NextIInv, PTL DEF Spec

-----------------------------------------------------------------------------
\* The types of the variables of RunSlice and its wait machine are kept, for any
\* startup tree.
THEOREM TypeCorrect == Spec => []TypeOK
<1>1. IInv => TypeOK
  BY DEF IInv
<1> QED
  BY <1>1, SpecIInv, PTL

\* RunSlice starts a service only after each of its dependencies of the slice was
\* considered running.
THEOREM DependenciesFirst == Spec => []StartsAfterDependencies
<1>1. IInv => StartsAfterDependencies
  BY DEF IInv
<1> QED
  BY <1>1, SpecIInv, PTL

\* RunSlice refuses a service only if one of its dependencies of the slice was
\* skipped, refused, not accepted or has exited.
THEOREM CauseOfRefusal == Spec => []RefusalHasACause
<1>1. IInv => RefusalHasACause
  BY DEF IInv, RefusedByVerdict, VerdictIsTrue, RefusalHasACause, Culprit
<1> QED
  BY <1>1, SpecIInv, PTL
=============================================================================
