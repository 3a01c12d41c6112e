----------------------------- MODULE SerialQueues -----------------------------
(***************************************************************************)
(* What the process manager promises to its clients, without goroutines,   *)
(* locks, channels or a job table:                                         *)
(*   - of the commands in the system no two have the same id;              *)
(*   - the commands of one queue run one at a time, in the order they were *)
(*     accepted;                                                           *)
(*   - at most MaxJobs commands run at a time.                             *)
(* ProcessManager implements this specification (Promise there).           *)
(***************************************************************************)
EXTENDS Naturals, Sequences, FiniteSets

CONSTANTS Job, QueueName, NoQueue, CmdID, CmdQueue, MaxJobs

VARIABLES
  line,     \* the accepted jobs of each queue that are not over, in order
  pool,     \* the accepted jobs without a queue that are not over
  running   \* the jobs that run

contract == <<line, pool, running>>

InLine(j) == \E q \in QueueName : \E i \in 1 .. Len(line[q]) : line[q][i] = j

Present(j) == j \in pool \/ InLine(j)

Init ==
  /\ line = [q \in QueueName |-> <<>>]
  /\ pool = {}
  /\ running = {}

\* A job is accepted when no job with its id is in the system.
Accept(j) ==
  /\ \A k \in Job : Present(k) => CmdID[k] # CmdID[j]
  /\ \/ /\ CmdQueue[j] = NoQueue
        /\ pool' = pool \cup {j}
        /\ line' = line
     \/ /\ CmdQueue[j] # NoQueue
        /\ line' = [line EXCEPT ![CmdQueue[j]] = Append(@, j)]
        /\ pool' = pool
  /\ running' = running

\* A job is started in its turn, when there is room.
Start(j) ==
  /\ j \notin running
  /\ \/ /\ CmdQueue[j] = NoQueue
        /\ j \in pool
     \/ /\ CmdQueue[j] # NoQueue
        /\ line[CmdQueue[j]] # <<>>
        /\ Head(line[CmdQueue[j]]) = j
  /\ Cardinality(running) < MaxJobs
  /\ running' = running \cup {j}
  /\ UNCHANGED <<line, pool>>

\* A job ends, and leaves the head of its queue to the next.
End(j) ==
  /\ j \in running
  /\ running' = running \ {j}
  /\ \/ /\ CmdQueue[j] = NoQueue
        /\ pool' = pool \ {j}
        /\ line' = line
     \/ /\ CmdQueue[j] # NoQueue
        /\ line' = [line EXCEPT ![CmdQueue[j]] = Tail(@)]
        /\ pool' = pool

Next == \E j \in Job : Accept(j) \/ Start(j) \/ End(j)

Spec == Init /\ [][Next]_contract
=============================================================================
