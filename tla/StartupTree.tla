------------------------------ MODULE StartupTree ------------------------------
(***************************************************************************)
(* Ordering the startup services by weight (base/settings: Startup.Weight, *)
(* GetStartupTree, treeImpl.Slice) and cutting the result into the three   *)
(* slices the bootstrap runs: [init, net[, [net, boot[ and [boot, end].    *)
(*                                                                         *)
(* The set of services and their `after' lists are chosen in the initial   *)
(* state; GetStartupTree then visits the services in the random order of a *)
(* Go map, drops those without a weight, and sorts the rest.               *)
(***************************************************************************)
EXTENDS Integers, Sequences, FiniteSets, SequencesExt

CONSTANTS
  Startup,    \* keys of the startup services
  Unknown,    \* a key no service has
  MaxAfter    \* bound: the longest `after' list

ASSUME StartupTreeAssumption == Unknown \notin Startup /\ MaxAfter \in Nat

VARIABLES
  after,      \* Startup.After of every service
  pending,    \* services the loop of GetStartupTree has not visited yet
  tree,       \* treeImpl.startups
  weights,    \* treeImpl.weights, by position
  sorted      \* sort.Sort is done

treeVars == <<after, pending, tree, weights, sorted>>

-----------------------------------------------------------------------------
\* settings.Priority. "----" is the name of ToTheEnd, whose weight Slice takes
\* for "no upper bound"; no `after' list is meant to hold it.
Milestone == {"init", "net", "boot"}
Priority == [init |-> 1, net |-> 1000, boot |-> 1000000] @@ ("----" :> -1)
ToTheEnd == Priority["----"]

RECURSIVE Weight(_, _)

\* Mutant: a service weighs one more than nothing for a service it depends on.
WeightFlat(s, chain) ==
  LET dws == [i \in DOMAIN after[s] |->
                CASE after[s][i] \in DOMAIN Priority -> Priority[after[s][i]]
                  [] after[s][i] \in Startup -> IF Weight(after[s][i], chain \cup {s}) = 0 THEN 0 ELSE 1
                  [] OTHER -> 0]
  IN  CASE s \in chain -> 0
        [] after[s] = <<>> -> Priority["boot"]
        [] \E i \in DOMAIN dws : dws[i] = 0 -> 0
        [] OTHER -> FoldSeq(LAMBDA x, y : x + y, 0, dws)

\* Startup.Weight: the sum of the weights of the dependencies; 0 is an error
\* (a cyclic or an unknown dependency anywhere below), which no sum of the
\* weights of services and milestones can be.
Weight(s, chain) ==
  LET Dep(a) == CASE a \in DOMAIN Priority -> Priority[a]
                  [] a \in Startup   -> Weight(a, chain \cup {s})
                  [] OTHER           -> 0
      dws == [i \in DOMAIN after[s] |-> Dep(after[s][i])]
  IN  CASE s \in chain             -> 0
        [] after[s] = <<>>         -> Priority["boot"]
        [] \E i \in DOMAIN dws : dws[i] = 0 -> 0
        [] OTHER                   -> FoldSeq(LAMBDA x, y : x + y, 0, dws)

\* `after' lists of at most MaxAfter entries; the order of a list is irrelevant
\* to its weight, so one order of each is enough.
AfterLists ==
  {SetToSeq(S) : S \in {T \in SUBSET (Startup \cup Milestone \cup {Unknown}) :
                          Cardinality(T) <= MaxAfter}}

TreeInit ==
  /\ after \in [Startup -> AfterLists]
  /\ pending = Startup
  /\ tree = <<>> /\ weights = <<>>
  /\ sorted = FALSE

-----------------------------------------------------------------------------
\* One iteration of GetStartupTree: a broken service is left out, and "MUST NOT
\* bring the whole system down".
AddStartup(s) ==
  /\ s \in pending
  /\ pending' = pending \ {s}
  /\ LET w == Weight(s, {})
     IN  IF w = 0
         THEN UNCHANGED <<tree, weights>>
         ELSE tree' = Append(tree, s) /\ weights' = Append(weights, w)
  /\ UNCHANGED <<after, sorted>>

\* sort.Sort with Less and Swap of treeImpl: it moves a service and its weight
\* together, and leaves services of equal weight in any order.
Sort ==
  /\ pending = {} /\ ~sorted
  /\ sorted' = TRUE
  /\ \E p \in SetToSeqs(DOMAIN tree) :
       /\ \A i \in 1..(Len(tree) - 1) : weights[p[i]] <= weights[p[i + 1]]
       /\ tree'    = [i \in DOMAIN tree |-> tree[p[i]]]
       /\ weights' = [i \in DOMAIN tree |-> weights[p[i]]]
  /\ UNCHANGED <<after, pending>>

\* Slice(s, e): [s, e[.
Slice(s, e) ==
  LET keep == {i \in DOMAIN tree : weights[i] >= s /\ (weights[i] < e \/ e = ToTheEnd)}
  IN  [n \in 1..Cardinality(keep) |-> tree[CHOOSE i \in keep :
                                        Cardinality({k \in keep : k < i}) = n - 1]]

\* The slices of Bootstrap.Second.
Slices == << Slice(Priority["init"], Priority["net"]),
             Slice(Priority["net"], Priority["boot"]),
             Slice(Priority["boot"], ToTheEnd) >>

TreeNext == Sort \/ \E s \in Startup : AddStartup(s)

TreeSpec == TreeInit /\ [][TreeNext]_treeVars

-----------------------------------------------------------------------------
(* Properties.                                                             *)

\* The types of the variables.
TreeTypeOK ==
  /\ after \in [Startup -> AfterLists]
  /\ pending \subseteq Startup
  /\ tree \in Seq(Startup)
  /\ weights \in Seq(Nat) /\ Len(weights) = Len(tree)
  /\ sorted \in BOOLEAN

\* Reference: a service can be ordered if nothing it depends on, directly or
\* not, is unknown or depends on itself.
DependsOn(S) == {d \in Startup \cup {Unknown} : \E s \in S \cap Startup : d \in Range(after[s])}
Below(s) ==
  LET reach[n \in Nat] == IF n = 0 THEN DependsOn({s})
                          ELSE LET R == reach[n - 1] IN R \cup DependsOn(R)
  IN  reach[Cardinality(Startup)]
Orderable(s) == Unknown \notin Below(s) /\ \A t \in Below(s) \cup {s} : t \notin Below(t)

\* GetStartupTree keeps exactly the services that can be ordered, whatever the
\* order in which it visits them: one broken service takes down the services
\* that need it and no other.
DropsOnlyBroken ==
  pending = {} => Range(tree) = {s \in Startup : Orderable(s)}

\* The slices cover the tree in its order: every service the tree kept is
\* booted, once.
SlicesPartition == sorted => FlattenSeq(Slices) = tree

\* A dependency is never booted in a later slice than the service that needs it.
DependenciesNotLater ==
  sorted =>
    \A m, n \in DOMAIN Slices : \A s \in Range(Slices[m]), d \in Range(Slices[n]) :
      d \in Range(after[s]) => n <= m

\* GetStartupTree and Slice order the services that can be ordered, all of them
\* and no other, with dependencies in the same or an earlier slice.
SlicesAreOrdered == TreeTypeOK /\ DropsOnlyBroken /\ SlicesPartition /\ DependenciesNotLater
=============================================================================
