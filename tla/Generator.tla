------------------------------- MODULE Generator -------------------------------
(***************************************************************************)
(* generator.Handler.Serve: one goroutine per metadata document computes   *)
(* and saves it, and reports a failure over a channel of its own.  Serve   *)
(* waits for all of them on a wait group and only then collects the        *)
(* channels, one after the other.                                          *)
(***************************************************************************)
EXTENDS Naturals

CONSTANTS
  Jobs,         \* number of documents, 4 in the code
  Backend       \* where the documents are kept

ASSUME GeneratorAssumption == Jobs \in Nat /\ Backend \in {"filesystem", "s3"}

VARIABLES
  serve,     \* where Serve is
  next,      \* the job it spawns, or whose channel it receives from, next
  waiting,   \* the counter of the wait group
  writer,    \* where the goroutine of each job is
  errors,    \* number of errors in the channel of each job, with room for one
  closed,    \* jobs whose channel is closed
  reported,  \* jobs whose error is on the stack that Serve returns
  document,  \* what the backend holds for each job
  failed     \* history: jobs that failed

vars == <<serve, next, waiting, writer, errors, closed, reported, document, failed>>

Job == 1 .. Jobs

Active == {"save", "send", "close", "done"}

Init ==
  /\ serve = "spawn" /\ next = 1
  /\ waiting = 0
  /\ writer = [j \in Job |-> "none"]
  /\ errors = [j \in Job |-> 0]
  /\ closed = {} /\ reported = {} /\ failed = {}
  /\ document = [j \in Job |-> "old"]

-------------------------------------------------------------------------------
(* Serve.                                                                  *)

Spawn ==
  /\ serve = "spawn" /\ next <= Jobs
  /\ waiting' = waiting + 1
  /\ writer' = [writer EXCEPT ![next] = "save"]
  /\ next' = next + 1
  /\ UNCHANGED <<serve, errors, closed, reported, document, failed>>

\* Mutant: the wait group is not waited for.
WaitForgotten ==
  /\ serve = "spawn" /\ next > Jobs
  /\ serve' = "combine" /\ next' = 1
  /\ UNCHANGED <<waiting, writer, errors, closed, reported, document, failed>>

Wait ==
  /\ serve = "spawn" /\ next > Jobs
  /\ waiting = 0
  /\ serve' = "combine" /\ next' = 1
  /\ UNCHANGED <<waiting, writer, errors, closed, reported, document, failed>>

\* A receive takes the error, or finds the channel closed and empty.
Combine ==
  /\ serve = "combine" /\ next <= Jobs
  /\ errors[next] > 0 \/ next \in closed
  /\ IF errors[next] > 0
       THEN /\ errors' = [errors EXCEPT ![next] = @ - 1]
            /\ reported' = reported \union {next}
       ELSE UNCHANGED <<errors, reported>>
  /\ next' = next + 1
  /\ UNCHANGED <<serve, waiting, writer, closed, document, failed>>

\* Mutant: the last channel is not received from.
ReturnEarly ==
  /\ serve = "combine" /\ next >= Jobs
  /\ serve' = "returned"
  /\ UNCHANGED <<next, waiting, writer, errors, closed, reported, document, failed>>

Return ==
  /\ serve = "combine" /\ next > Jobs
  /\ serve' = "returned"
  /\ UNCHANGED <<next, waiting, writer, errors, closed, reported, document, failed>>

-------------------------------------------------------------------------------
(* A goroutine.                                                            *)

\* filesystem.Save: the file is truncated and then written.
FilesystemSaves == [failed : {TRUE}, left : {"old", "torn"}]
                     \union [failed : {FALSE}, left : {"new"}]

\* s3.Save: a put that fails may have been applied.
S3Saves == [failed : {TRUE}, left : {"old", "new"}]
             \union [failed : {FALSE}, left : {"new"}]

Saves == IF Backend = "filesystem" THEN FilesystemSaves ELSE S3Saves

\* Computing the document may fail before it is saved.
Write(j) ==
  /\ writer[j] = "save"
  /\ \E save \in Saves \union [failed : {TRUE}, left : {"old"}] :
       /\ document' = [document EXCEPT ![j] = save.left]
       /\ IF save.failed
            THEN /\ writer' = [writer EXCEPT ![j] = "send"]
                 /\ failed' = failed \union {j}
            ELSE /\ writer' = [writer EXCEPT ![j] = "close"]
                 /\ failed' = failed
  /\ UNCHANGED <<serve, next, waiting, errors, closed, reported>>

\* Mutant: the channel has no buffer, so a send waits for its receiver.
SendUnbuffered(j) ==
  /\ writer[j] = "send"
  /\ serve = "combine" /\ next = j
  /\ writer' = [writer EXCEPT ![j] = "close"]
  /\ errors' = [errors EXCEPT ![j] = 1]
  /\ UNCHANGED <<serve, next, waiting, closed, reported, document, failed>>

Send(j) ==
  /\ writer[j] = "send"
  /\ errors[j] < 1
  /\ writer' = [writer EXCEPT ![j] = "close"]
  /\ errors' = [errors EXCEPT ![j] = @ + 1]
  /\ UNCHANGED <<serve, next, waiting, closed, reported, document, failed>>

Close(j) ==
  /\ writer[j] = "close"
  /\ writer' = [writer EXCEPT ![j] = "done"]
  /\ closed' = closed \union {j}
  /\ UNCHANGED <<serve, next, waiting, errors, reported, document, failed>>

Done(j) ==
  /\ writer[j] = "done"
  /\ writer' = [writer EXCEPT ![j] = "end"]
  /\ waiting' = waiting - 1
  /\ UNCHANGED <<serve, next, errors, closed, reported, document, failed>>

-------------------------------------------------------------------------------
ServeStep == Spawn \/ Wait \/ Combine \/ Return

WriterStep(j) == Write(j) \/ Send(j) \/ Close(j) \/ Done(j)

Next == ServeStep \/ \E j \in Job : WriterStep(j)

\* Goroutines run; the backend and the signer answer or fail.
Fairness == WF_vars(ServeStep) /\ \A j \in Job : WF_vars(WriterStep(j))

Spec == Init /\ [][Next]_vars
FairSpec == Spec /\ Fairness
-------------------------------------------------------------------------------
(* Properties.                                                             *)

\* The wait group's counter never goes below zero, where it panics; the rest
\* are types.
TypeOK ==
  /\ serve \in {"spawn", "combine", "returned"}
  /\ next \in 1 .. Jobs + 1
  /\ waiting \in 0 .. Jobs
  /\ writer \in [Job -> Active \union {"none", "end"}]
  /\ errors \in [Job -> 0 .. 1]
  /\ closed \subseteq Job /\ reported \subseteq Job /\ failed \subseteq Job
  /\ document \in [Job -> {"old", "new", "torn"}]

\* Serve reports exactly the jobs that failed: none is lost between a channel,
\* its close and the wait group, and without an error every document is new.
FailuresReported ==
  serve = "returned" =>
    /\ reported = failed
    /\ \A j \in Job : j \notin reported => document[j] = "new"

\* Serve collects and returns only when every goroutine has ended: none is
\* frozen with the Lambda in the middle of a write.
NoStraggler ==
  serve # "spawn" => \A j \in Job : writer[j] = "end"

\* Serve returns, however many jobs fail: nobody waits for an error to be
\* received while Serve waits for the wait group.
ServeReturns == serve = "spawn" ~> serve = "returned"
=============================================================================
