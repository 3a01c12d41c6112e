-------------------------------- MODULE PIDTable --------------------------------
(***************************************************************************)
(* Waiting for child processes (base/pm/pm.go: registerPID, waitPID and    *)
(* processWait). A job forks its process and registers its pid under       *)
(* pidsMux; one goroutine reaps every child of core0 on SIGCHLD and hands  *)
(* the status to the job through the channel registered for the pid.       *)
(* core0 is process 1, so it reaps orphans it never registered as well.    *)
(*                                                                         *)
(* A channel is named after the process it was made for, and a status      *)
(* after the process that left it.                                         *)
(***************************************************************************)
EXTENDS Naturals

CONSTANTS
  Proc,     \* processes jobs start
  Orphan,   \* processes reparented to core0
  Pid,      \* process ids
  Nil,      \* no process, no channel, no pid
  Zero      \* the zero WaitStatus

ASSUME PIDAssumption ==
  /\ Proc \cap Orphan = {}
  /\ Nil \notin Proc \cup Orphan \cup Pid
  /\ Zero \notin Proc \cup Orphan \cup {Nil}

VARIABLES
  pidsMux,  \* the job that holds pidsMux over its fork, or Nil
  pids,     \* the table: the channel registered for each pid, or Nil
  pid,      \* the pid of each process
  kern,     \* the kernel's view of each process
  sigchld,  \* SIGCHLD notifications buffered in the channel of processWait
  reaper,   \* where processWait is
  reaped,   \* the process Wait4 returned last
  carrier,  \* the goroutine that carries the status of each process
  toChan,   \* the channel it sends on
  waiter,   \* where the job of each process is
  onChan,   \* the channel its waitPID receives from
  status    \* the status its waitPID returned

reapVars == <<pidsMux, pids, pid, kern, sigchld, reaper, reaped, carrier, toChan,
          waiter, onChan, status>>

Child == Proc \cup Orphan

\* signal.Notify does not block: beyond the capacity of c a SIGCHLD is dropped.
SigchldCap == 2

ReapInit ==
  /\ pidsMux = Nil
  /\ pids = [n \in Pid |-> Nil]
  /\ pid = [p \in Child |-> Nil]
  /\ kern = [p \in Child |-> "unborn"]
  /\ sigchld = 0
  /\ reaper = "idle" /\ reaped = Nil
  /\ carrier = [p \in Child |-> "none"]
  /\ toChan = [p \in Child |-> Nil]
  /\ waiter = [p \in Proc |-> "none"]
  /\ onChan = [p \in Proc |-> Nil]
  /\ status = [p \in Proc |-> Nil]

-----------------------------------------------------------------------------
(* The kernel.                                                             *)

\* The kernel hands out pids in a cycle, so a pid comes back long after its
\* process was reaped. Assumption on that length: by then the job of the process
\* was told, and the goroutine that told it has cleaned the table.
Settled(p) ==
  /\ kern[p] = "gone" /\ ~(reaper = "lookup" /\ reaped = p)
  /\ carrier[p] \in {"none", "done"}
  /\ p \in Proc => waiter[p] = "done"

FreePid(n) == \A p \in Child : pid[p] = n => Settled(p)

Fork(p, n) ==
  /\ kern[p] = "unborn"
  /\ FreePid(n)
  /\ pid' = [pid EXCEPT ![p] = n]
  /\ kern' = [kern EXCEPT ![p] = "alive"]

\* A process is reparented to core0.
Adopt(o, n) ==
  /\ Fork(o, n)
  /\ UNCHANGED <<pidsMux, pids, sigchld, reaper, reaped, carrier, toChan,
                 waiter, onChan, status>>

Die(p) ==
  /\ kern[p] = "alive"
  /\ kern' = [kern EXCEPT ![p] = "zombie"]
  /\ sigchld' = IF sigchld < SigchldCap THEN sigchld + 1 ELSE sigchld
  /\ UNCHANGED <<pidsMux, pids, pid, reaper, reaped, carrier, toChan,
                 waiter, onChan, status>>

-----------------------------------------------------------------------------
(* Mutants: bugs this code could have, each caught by a property below.    *)

\* processWait removes the pid from the table when it looks it up.
LookupDeletes ==
  /\ reaper = "lookup" /\ pidsMux = Nil
  /\ reaper' = "wait"
  /\ LET ch == pids[pid[reaped]]
     IN  IF ch = Nil
         THEN UNCHANGED <<carrier, toChan>>
         ELSE /\ carrier' = [carrier EXCEPT ![reaped] = "send"]
              /\ toChan' = [toChan EXCEPT ![reaped] = ch]
  /\ pids' = [pids EXCEPT ![pid[reaped]] = Nil]
  /\ UNCHANGED <<pidsMux, pid, kern, sigchld, reaped, waiter, onChan, status>>

\* processWait reaps one child for each notification.
LookupOnce ==
  /\ reaper = "lookup" /\ pidsMux = Nil
  /\ reaper' = "idle"
  /\ LET ch == pids[pid[reaped]]
     IN  IF ch = Nil
         THEN UNCHANGED <<carrier, toChan>>
         ELSE /\ carrier' = [carrier EXCEPT ![reaped] = "send"]
              /\ toChan' = [toChan EXCEPT ![reaped] = ch]
  /\ UNCHANGED <<pidsMux, pids, pid, kern, sigchld, reaped, waiter, onChan, status>>

-----------------------------------------------------------------------------
(* Jobs: registerPID and waitPID.                                          *)

\* registerPID takes pidsMux and calls g(), which forks.
RegisterFork(p, n) ==
  /\ waiter[p] = "none"
  /\ pidsMux = Nil
  /\ Fork(p, n)
  /\ pidsMux' = p
  /\ waiter' = [waiter EXCEPT ![p] = "register"]
  /\ UNCHANGED <<pids, sigchld, reaper, reaped, carrier, toChan,
                 onChan, status>>

\* It stores a new channel and unlocks.
RegisterStore(p) ==
  /\ waiter[p] = "register"
  /\ pids' = [pids EXCEPT ![pid[p]] = p]
  /\ pidsMux' = Nil
  /\ waiter' = [waiter EXCEPT ![p] = "call"]
  /\ UNCHANGED <<pid, kern, sigchld, reaper, reaped, carrier, toChan,
                 onChan, status>>

\* waitPID looks the channel up; without one it returns the zero status.
WaitPID(p) ==
  /\ waiter[p] = "call"
  /\ pidsMux = Nil
  /\ IF pids[pid[p]] = Nil
     THEN /\ status' = [status EXCEPT ![p] = Zero]
          /\ waiter' = [waiter EXCEPT ![p] = "done"]
          /\ UNCHANGED onChan
     ELSE /\ onChan' = [onChan EXCEPT ![p] = pids[pid[p]]]
          /\ waiter' = [waiter EXCEPT ![p] = "blocked"]
          /\ UNCHANGED status
  /\ UNCHANGED <<pidsMux, pids, pid, kern, sigchld, reaper, reaped, carrier,
                 toChan>>

-----------------------------------------------------------------------------
(* processWait.                                                            *)

\* `for range c' takes a notification.
Notified ==
  /\ reaper = "idle" /\ sigchld > 0
  /\ reaper' = "wait"
  /\ sigchld' = sigchld - 1
  /\ UNCHANGED <<pidsMux, pids, pid, kern, reaped, carrier, toChan,
                 waiter, onChan, status>>

\* Wait4(-1, ..., 0) returns a dead child, which frees its pid. It blocks while
\* there are only live children.
Wait4(p) ==
  /\ reaper = "wait" /\ kern[p] = "zombie"
  /\ kern' = [kern EXCEPT ![p] = "gone"]
  /\ reaper' = "lookup" /\ reaped' = p
  /\ UNCHANGED <<pidsMux, pids, pid, sigchld, carrier, toChan, waiter,
                 onChan, status>>

\* Wait4 fails without children, and the loop waits for the next notification.
Wait4Error ==
  /\ reaper = "wait"
  /\ \A p \in Child : kern[p] \in {"unborn", "gone"}
  /\ reaper' = "idle"
  /\ UNCHANGED <<pidsMux, pids, pid, kern, sigchld, reaped, carrier, toChan,
                 waiter, onChan, status>>

\* The lookup under pidsMux, and the goroutine that carries the status.
Lookup ==
  /\ reaper = "lookup" /\ pidsMux = Nil
  /\ reaper' = "wait"
  /\ LET ch == pids[pid[reaped]]
     IN  IF ch = Nil
         THEN UNCHANGED <<carrier, toChan>>
         ELSE /\ carrier' = [carrier EXCEPT ![reaped] = "send"]
              /\ toChan' = [toChan EXCEPT ![reaped] = ch]
  /\ UNCHANGED <<pidsMux, pids, pid, kern, sigchld, reaped, waiter,
                 onChan, status>>

\* `ch <- status' meets the receive of waitPID.
Deliver(p, w) ==
  /\ carrier[p] = "send"
  /\ waiter[w] = "blocked" /\ onChan[w] = toChan[p]
  /\ carrier' = [carrier EXCEPT ![p] = "delete"]
  /\ status' = [status EXCEPT ![w] = p]
  /\ waiter' = [waiter EXCEPT ![w] = "done"]
  /\ UNCHANGED <<pidsMux, pids, pid, kern, sigchld, reaper, reaped, toChan, onChan>>

\* close(ch), which nobody receives from any more, and the pid is deleted from
\* the table under pidsMux.
CarrierDelete(p) ==
  /\ carrier[p] = "delete" /\ pidsMux = Nil
  /\ carrier' = [carrier EXCEPT ![p] = "done"]
  /\ pids' = [pids EXCEPT ![pid[p]] = Nil]
  /\ UNCHANGED <<pidsMux, pid, kern, sigchld, reaper, reaped, toChan,
                 waiter, onChan, status>>

-----------------------------------------------------------------------------
Registration(p) ==
  \/ RegisterStore(p) \/ WaitPID(p)
  \/ \E n \in Pid : RegisterFork(p, n)

Reaper == Notified \/ Wait4Error \/ Lookup \/ \E p \in Child : Wait4(p)

Carrier(p) ==
  CarrierDelete(p) \/ \E w \in Proc : Deliver(p, w)

ReapNext ==
  \/ Reaper
  \/ \E p \in Proc : Registration(p)
  \/ \E p \in Child : Die(p) \/ Carrier(p)
  \/ \E o \in Orphan, n \in Pid : Adopt(o, n)

ReapSpec == ReapInit /\ [][ReapNext]_reapVars

-----------------------------------------------------------------------------
(* Properties.                                                             *)

\* The types of the variables.
ReapTypeOK ==
  /\ pidsMux \in Proc \cup {Nil}
  /\ pids \in [Pid -> Proc \cup {Nil}]
  /\ pid \in [Child -> Pid \cup {Nil}]
  /\ kern \in [Child -> {"unborn", "alive", "zombie", "gone"}]
  /\ sigchld \in 0..SigchldCap
  /\ reaper \in {"idle", "wait", "lookup"} /\ reaped \in Child \cup {Nil}
  /\ carrier \in [Child -> {"none", "send", "delete", "done"}]
  /\ toChan \in [Child -> Proc \cup {Nil}]
  /\ waiter \in [Proc -> {"none", "register", "call", "blocked", "done"}]
  /\ onChan \in [Proc -> Proc \cup {Nil}]
  /\ status \in [Proc -> Child \cup {Nil, Zero}]

\* waitPID returns the status of the process the job started, and never the zero
\* status that reads as success: not even when the process dies before
\* registerPID has stored its channel.
StatusIsOwn == ReapTypeOK /\ \A p \in Proc : waiter[p] = "done" => status[p] = p

\* The job of a process that died is told, and the process does not remain a
\* zombie: no SIGCHLD that is merged with another one is missed.
DeathIsNoticed == \A p \in Proc : kern[p] = "zombie" ~> waiter[p] = "done"

\* Orphans are reaped too.
OrphansAreReaped == \A o \in Orphan : kern[o] = "zombie" ~> kern[o] = "gone"

\* No death is missed, however the SIGCHLDs merge: the job of a child is told,
\* and orphans do not stay zombies.
DeadAreReaped == DeathIsNoticed /\ OrphansAreReaped
=============================================================================
