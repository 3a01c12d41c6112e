------------------------------- MODULE MCReports -------------------------------
(***************************************************************************)
(* Instances for TLC of what core0 takes in and gives out over redis. A    *)
(* behaviour is about one of:                                              *)
(*   sink    two commands with the same id, one of them unknown, and one   *)
(*           command with the id of a service of core0;                    *)
(*   log     one queue of a subscriber, records of three levels;           *)
(*   stream  messages of every kind, read in chunks of every length;       *)
(*   stats   two goroutines that feed one metric with two periods.         *)
(***************************************************************************)
EXTENDS Sink, Logging, OutputStream, Stats, TLC

CONSTANTS k1, k2, k3, s1, a, b

VARIABLE focus

MCCmdID == (k1 :> a) @@ (k2 :> a) @@ (k3 :> b) @@ (s1 :> b)

MCSendable ==
  {[kind |-> "plain", text |-> <<"x", "n">>], [kind |-> "line", text |-> <<"x", "n">>],
   [kind |-> "multi", text |-> <<"x", "n", "x">>]}

mcVars == <<vars, logVars, streamVars, statsVars, focus>>

MCInit ==
  /\ focus \in {"sink", "log", "stream", "stats"}
  /\ Init /\ LogInit /\ StreamInit
  /\ StatsInit /\ (focus = "stats" \/ operation = "A")

MCNext ==
  \/ focus = "sink" /\ Next /\ UNCHANGED <<logVars, streamVars, statsVars, focus>>
  \/ focus = "log" /\ LogNext /\ UNCHANGED <<vars, streamVars, statsVars, focus>>
  \/ focus = "stream" /\ StreamNext /\ UNCHANGED <<vars, logVars, statsVars, focus>>
  \/ focus = "stats" /\ StatsNext /\ UNCHANGED <<vars, logVars, streamVars, focus>>

\* core0 works off its queue, jobs end (its own services need not) and are
\* answered, clients read.
MCFairness ==
  /\ WF_vars(focus = "sink" /\ SinkProcess)
  /\ \A c \in Cmd : WF_vars(focus = "sink" /\ Forward(c))
  /\ \A c \in Local : WF_vars(focus = "sink" /\ ClientGet(c)) /\ WF_vars(focus = "sink" /\ JobEnds(c))

MCSpec == MCInit /\ [][MCNext]_mcVars /\ MCFairness
=============================================================================
