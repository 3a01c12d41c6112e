---------------------------------- MODULE Sink ----------------------------------
(***************************************************************************)
(* Commands in, results out: the sink of core0                             *)
(* (apps/core0/transport/sink.go and channel.go) and the redis keys it     *)
(* shares with the clients. Commands for containers are in Container.      *)
(*                                                                         *)
(* A command is flagged (`result:<id>:flag') while it is known and         *)
(* answered on a list (`result:<id>'). Both keys get the same expiry when  *)
(* the result is forwarded, the flag first; the flag of a command that was *)
(* not answered does not expire.                                           *)
(***************************************************************************)
EXTENDS Naturals, Sequences

CONSTANTS
  Local,      \* commands clients push on the queue of core0
  Own,        \* commands core0 itself is running (services, with chosen ids)
  ID, CmdID,  \* command ids
  Known,      \* commands for which there is a process factory
  Nil

Cmd == Local \cup Own

ASSUME SinkAssumption ==
  /\ Own \cap Local = {} /\ Nil \notin Cmd
  /\ CmdID \in [Cmd -> ID]
  /\ \A c, d \in Own : CmdID[c] = CmdID[d] => c = d
  /\ Known \subseteq Cmd

VARIABLES
  queue,      \* the redis list core0 pops commands from
  flag,       \* the flag of each id: absent, kept, or expiring
  results,    \* the result list of each id, left to right
  cur,        \* the command sink.process works on
  pc,         \* where sink.process is
  jobs,       \* the job table of the process manager: command by id
  exec,       \* how far each command is
  answer      \* the command whose result the client of each command was given

vars == <<queue, flag, results, cur, pc, jobs, exec, answer>>

\* How far a command is. "unflag" and "respond" are the two halves of Forward;
\* "cleanup" is between the result handlers and the removal from the job table.
Progress == {"new", "queued", "taken", "dropped", "duplicate", "running",
             "unflag", "respond", "cleanup", "over"}

Init ==
  /\ queue = <<>>
  /\ flag = [i \in ID |-> "none"]
  /\ results = [i \in ID |-> <<>>]
  /\ cur = Nil /\ pc = "next"
  /\ jobs = [i \in ID |-> IF \E c \in Own : CmdID[c] = i
                          THEN CHOOSE c \in Own : CmdID[c] = i ELSE Nil]
  /\ exec = [c \in Cmd |-> IF c \in Own THEN "running" ELSE "new"]
  /\ answer = [c \in Local |-> Nil]

Flagged(i) == flag[i] # "none"

\* RPUSH on the flag: a key that is about to expire keeps its expiry.
Flag(i) == flag' = [flag EXCEPT ![i] = IF @ = "none" THEN "kept" ELSE @]

Step(c, from, to) == exec[c] = from /\ exec' = [exec EXCEPT ![c] = to]

-----------------------------------------------------------------------------
(* Mutants: bugs this code could have, each caught by a property below.    *)

\* process does not flag the command it runs.
FlagForgotten ==
  /\ pc = "flagged" /\ ~Flagged(CmdID[cur])
  /\ pc' = "run"
  /\ UNCHANGED <<queue, flag, results, cur, jobs, exec, answer>>

\* process forwards no result for an unknown command.
RunUnknownSilent ==
  /\ pc = "run" /\ cur \notin Known
  /\ Step(cur, "taken", "over")
  /\ pc' = "next" /\ cur' = Nil
  /\ UNCHANGED <<queue, flag, results, jobs, answer>>

-----------------------------------------------------------------------------
(* Clients.                                                                *)

ClientPush(c) ==
  /\ Step(c, "new", "queued")
  /\ queue' = Append(queue, c)
  /\ UNCHANGED <<flag, results, cur, pc, jobs, answer>>

Pushed(c) == exec[c] # "new"

\* BRPOPLPUSH of the result list onto itself: the right end is read and moved
\* to the left.
ClientGet(c) ==
  LET r == results[CmdID[c]] IN
  /\ Pushed(c) /\ answer[c] = Nil /\ r # <<>>
  /\ answer' = [answer EXCEPT ![c] = r[Len(r)]]
  /\ results' = [results EXCEPT ![CmdID[c]] = <<r[Len(r)]>> \o SubSeq(r, 1, Len(r) - 1)]
  /\ UNCHANGED <<queue, flag, cur, pc, jobs, exec>>

-----------------------------------------------------------------------------
(* sink.process.                                                           *)

\* GetNext: BLPOP.
GetNext ==
  /\ pc = "next" /\ queue # <<>>
  /\ cur' = Head(queue) /\ queue' = Tail(queue)
  /\ Step(Head(queue), "queued", "taken")
  /\ pc' = "flagged"
  /\ UNCHANGED <<flag, results, jobs, answer>>

\* A command with the id of one that is still known is dropped.
DropFlagged ==
  /\ pc = "flagged" /\ Flagged(CmdID[cur])
  /\ Step(cur, "taken", "dropped")
  /\ pc' = "next" /\ cur' = Nil
  /\ UNCHANGED <<queue, flag, results, jobs, answer>>

FlagCommand ==
  /\ pc = "flagged" /\ ~Flagged(CmdID[cur])
  /\ Flag(CmdID[cur])
  /\ pc' = "run"
  /\ UNCHANGED <<queue, results, cur, jobs, exec, answer>>

\* pm.Run accepts the command ...
RunCommand ==
  /\ pc = "run" /\ cur \in Known /\ jobs[CmdID[cur]] = Nil
  /\ jobs' = [jobs EXCEPT ![CmdID[cur]] = cur]
  /\ Step(cur, "taken", "running")
  /\ pc' = "next" /\ cur' = Nil
  /\ UNCHANGED <<queue, flag, results, answer>>

\* ... or finds a job with that id (only logged: nobody is answered) ...
RunDuplicate ==
  /\ pc = "run" /\ cur \in Known /\ jobs[CmdID[cur]] # Nil
  /\ Step(cur, "taken", "duplicate")
  /\ pc' = "next" /\ cur' = Nil
  /\ UNCHANGED <<queue, flag, results, jobs, answer>>

\* ... or does not know the command: process itself forwards a result.
RunUnknown ==
  /\ pc = "run" /\ cur \notin Known
  /\ Step(cur, "taken", "unflag")
  /\ pc' = "forward"
  /\ UNCHANGED <<queue, flag, results, cur, jobs, answer>>

-----------------------------------------------------------------------------
(* Results: Sink.Result and Sink.Forward.                                  *)

\* A job ends; its result handlers run before it leaves the job table.
JobEnds(c) ==
  /\ Step(c, "running", "unflag")
  /\ UNCHANGED <<queue, flag, results, cur, pc, jobs, answer>>

\* UnFlag: EXPIRE on the flag.
UnFlag(c) ==
  /\ Step(c, "unflag", "respond")
  /\ flag' = [flag EXCEPT ![CmdID[c]] = IF @ = "none" THEN "none" ELSE "expiring"]
  /\ UNCHANGED <<queue, results, cur, pc, jobs, answer>>

\* Respond: RPUSH and EXPIRE. sink.process then goes on, if it was its result.
Respond(c) ==
  /\ Step(c, "respond", IF jobs[CmdID[c]] = c THEN "cleanup" ELSE "over")
  /\ results' = [results EXCEPT ![CmdID[c]] = Append(@, c)]
  /\ IF cur = c THEN pc' = "next" /\ cur' = Nil ELSE UNCHANGED <<pc, cur>>
  /\ UNCHANGED <<queue, flag, jobs, answer>>

CleanUp(c) ==
  /\ Step(c, "cleanup", "over")
  /\ jobs' = [jobs EXCEPT ![CmdID[c]] = Nil]
  /\ UNCHANGED <<queue, flag, results, cur, pc, answer>>

\* The expiry of the flag passes. It is minutes long: whatever the command that
\* set it had left to do is done by then.
ExpireFlag(i) ==
  /\ flag[i] = "expiring"
  /\ \A c \in Cmd : CmdID[c] = i => exec[c] \notin {"respond", "cleanup"}
  /\ flag' = [flag EXCEPT ![i] = "none"]
  /\ UNCHANGED <<queue, results, cur, pc, jobs, exec, answer>>

\* The expiry of the results was set after that of the flag, and a client that
\* waits has long read them.
ExpireResults(i) ==
  /\ flag[i] # "expiring" /\ results[i] # <<>>
  /\ \A c \in Local : (CmdID[c] = i /\ Pushed(c)) => answer[c] # Nil
  /\ results' = [results EXCEPT ![i] = <<>>]
  /\ UNCHANGED <<queue, flag, cur, pc, jobs, exec, answer>>

-----------------------------------------------------------------------------
SinkProcess == \/ GetNext \/ DropFlagged \/ FlagCommand
           \/ RunCommand \/ RunDuplicate \/ RunUnknown

Forward(c) == UnFlag(c) \/ Respond(c) \/ CleanUp(c)

Next ==
  \/ SinkProcess
  \/ \E c \in Cmd : Forward(c)
  \/ \E c \in Local : ClientPush(c) \/ ClientGet(c)
  \/ \E c \in Local \cup Own : JobEnds(c)
  \/ \E i \in ID : ExpireFlag(i) \/ ExpireResults(i)

Spec == Init /\ [][Next]_vars

-----------------------------------------------------------------------------
(* Properties.                                                             *)

\* The types of the variables.
TypeOK ==
  /\ queue \in Seq(Local)
  /\ flag \in [ID -> {"none", "kept", "expiring"}]
  /\ results \in [ID -> Seq(Cmd)]
  /\ cur \in Local \cup {Nil}
  /\ pc \in {"next", "flagged", "run", "forward"}
  /\ jobs \in [ID -> Local \cup Own \cup {Nil}]
  /\ exec \in [Cmd -> Progress]
  /\ answer \in [Local -> Cmd \cup {Nil}]

\* `running' of the client: the flag exists and has no expiry.
ReportedRunning(i) == flag[i] = "kept"

\* Ids are chosen by clients and services independently; what the flag of an id
\* means is only settled for an id that no service uses.
LocalOnly(i) == \A c \in Cmd : CmdID[c] = i => c \in Local

\* A job of core0 is reported as running for as long as it runs, whatever
\* expires and whatever else is pushed under its id.
RunningIsReported ==
  \A c \in Local :
    (LocalOnly(CmdID[c]) /\ exec[c] \in {"running", "unflag"}) => ReportedRunning(CmdID[c])

Executing(c) == exec[c] \in {"running", "unflag", "respond", "cleanup"}

\* "If 2 commands are pushed to zero-os with the same ID. the second one will
\* get DROPPED": the flag catches every duplicate of a command that is still
\* executing, so that the process manager never sees one and no command ends
\* up without an answer.
DuplicatesAreDropped ==
  \A c \in Local : LocalOnly(CmdID[c]) =>
    /\ exec[c] # "duplicate"
    /\ \A d \in Local : (c # d /\ CmdID[c] = CmdID[d]) => ~(Executing(c) /\ Executing(d))

\* A client that pushed a command gets an answer, its own command's or that of
\* the command with the same id that made it a duplicate.
ClientsAreAnswered ==
  \A c \in Local : (LocalOnly(CmdID[c]) /\ exec[c] = "queued") ~> answer[c] # Nil

\* The flag of an id tells clients and duplicates the truth about its job.
FlagsFollowJobs == TypeOK /\ RunningIsReported /\ DuplicatesAreDropped
=============================================================================
