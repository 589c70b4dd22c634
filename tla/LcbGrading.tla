------------------------------ MODULE LcbGrading ------------------------------
(***************************************************************************)
(* Grading generated code with the LiveCodeBench service: the scorer sends *)
(* all code samples over a WebSocket (_lcb_ws_evaluate); the service       *)
(* validates the request, runs every sample in a process of its own that   *)
(* the submission may stop, kill or hang, tells the judge's failures from  *)
(* the submission's, and streams progress and the result back.             *)
(***************************************************************************)
EXTENDS Integers, Sequences, SequencesExt, FiniteSets, FiniteSetsExt

CONSTANTS
  MaxCodes,   \* MaxCodes[q]: bound on the code samples sent for question q
  Workers     \* grading processes at a time

ASSUME Workers \in Nat \ {0}

VARIABLES
  lcb,        \* the request, the session and the client
  child       \* child[c]: the grading process of code sample c

lcbVars == <<lcb, child>>

Question == DOMAIN MaxCodes
CodeSample == UNION {{q} \X (1..MaxCodes[q]) : q \in Question}

\* started is started_flag; reached and passed record what really happened: the
\* submission ran, it passed all tests.
NoChild == [pc |-> "none", started |-> FALSE, reached |-> FALSE,
            report |-> "none", passed |-> FALSE]

LcbIdle ==
  /\ lcb = [stage |-> "idle"]
  /\ child = [c \in CodeSample |-> NoChild]

\* codes_dict: how many samples of each question completed the run.
LcbInit ==
  \E codes \in {f \in [Question -> 0..Max(Range(MaxCodes))] :
                  \A q \in Question : f[q] <= MaxCodes[q]} :
    /\ lcb = [stage |-> "request", codes |-> codes, done |-> {}, infra |-> 0,
              puts |-> 0, queue |-> 0, frames |-> <<>>, results |-> {},
              client |-> "waiting", passed |-> 0, total |-> 0]
    /\ child = [c \in CodeSample |-> NoChild]

Sent == {c \in CodeSample : c[2] <= lcb.codes[c[1]]}

-----------------------------------------------------------------------------
(***************************************************************************)
(* The session (_server.py)                                                *)
(***************************************************************************)

\* EvaluationRequest: some question, and as many samples of each one.
ValidRequest(codes) ==
  LET lengths == {codes[q] : q \in {r \in Question : codes[r] > 0}}
  IN  Cardinality(lengths) = 1

total_samples ==
  Cardinality({q \in Question : lcb.codes[q] > 0}) * Max({lcb.codes[q] : q \in Question})

SendLast(frame) == lcb' = [lcb EXCEPT !.frames = Append(@, frame), !.stage = "closed"]

Receive ==
  /\ lcb.stage = "request"
  /\ IF ValidRequest(lcb.codes)
     THEN lcb' = [lcb EXCEPT !.stage = "evaluating", !.frames = <<"started">>]
     ELSE SendLast("error")
  /\ UNCHANGED child

-----------------------------------------------------------------------------
(***************************************************************************)
(* A grading process (run_code_subprocess, run_test)                       *)
(***************************************************************************)

Alive(c) == child[c].pc \in {"setup", "grading", "hung"}
Step(c, new) == child' = [child EXCEPT ![c] = new] /\ UNCHANGED lcb
Reports(c, report) == Step(c, [child[c] EXCEPT !.pc = "over", !.report = report])

Begin(c) ==
  /\ lcb.stage = "evaluating" /\ c \in Sent /\ child[c].pc = "none"
  /\ Cardinality({d \in Sent : Alive(d)}) < Workers
  /\ Step(c, [NoChild EXCEPT !.pc = "setup"])

\* The judge's own part: it may raise (-5), die, hang, or reach the submission.
Setup(c) ==
  /\ child[c].pc = "setup"
  /\ \/ Reports(c, "runner_error")
     \/ Step(c, [child[c] EXCEPT !.pc = "over"])
     \/ Step(c, [child[c] EXCEPT !.pc = "hung"])
     \/ Step(c, [child[c] EXCEPT !.pc = "grading", !.started = TRUE, !.reached = TRUE])

\* The submission passes all tests, fails one or does not compile (-2, -3,
\* -4), exits (-7), returns what the runner cannot convert (-5), kills the
\* process or hangs, perhaps with its report made.
Grade(c) ==
  /\ child[c].pc = "grading"
  /\ \/ \E pc \in {"over", "hung"} :
          \/ Step(c, [child[c] EXCEPT !.pc = pc, !.report = "pass", !.passed = TRUE])
          \/ Step(c, [child[c] EXCEPT !.pc = pc, !.report = "fail"])
          \/ Step(c, [child[c] EXCEPT !.pc = pc])
     \/ Reports(c, "exit") \/ Reports(c, "runner_error")

\* The parent's join runs out: the child is killed, a report it made counts.
GlobalTimeout(c) ==
  /\ Alive(c)
  /\ Step(c, [child[c] EXCEPT !.pc = "over",
                              !.report = IF @ = "none" THEN "timeout" ELSE @])

\* run_code_subprocess: without a report, who is to blame.
Verdict(c) ==
  CASE child[c].report # "none" -> child[c].report
    [] child[c].started -> "killed"
    [] OTHER -> "died"

IsInfra(verdict) == verdict \in {"runner_error", "died"}

-----------------------------------------------------------------------------
\* _LCBWorker: a future's result, and its progress message, which the event
\* loop puts into the queue later.
Collect(c) ==
  /\ lcb.stage = "evaluating" /\ child[c].pc = "over" /\ c \notin lcb.done
  /\ lcb' = [lcb EXCEPT
       !.done = @ \cup {c}, !.puts = @ + 1,
       !.infra = IF IsInfra(Verdict(c)) THEN @ + 1 ELSE @,
       !.results = IF Verdict(c) = "pass" THEN @ \cup {c} ELSE @]
  /\ UNCHANGED child

\* evaluate() returns, or raises when the judge failed everywhere; or the pool
\* of the grading processes breaks.
Evaluated ==
  /\ lcb.stage = "evaluating"
  /\ \/ lcb' = [lcb EXCEPT !.stage = "failed"]
     \/ /\ lcb.done = Sent
        /\ lcb' = [lcb EXCEPT !.stage =
                     IF lcb.infra = Cardinality(Sent) THEN "failed" ELSE "evaluated"]
  /\ UNCHANGED child

PutRuns ==
  /\ lcb.stage \in {"evaluating", "evaluated", "failed"} /\ lcb.puts > 0
  /\ lcb' = [lcb EXCEPT !.puts = @ - 1, !.queue = @ + 1]
  /\ UNCHANGED child

SendProgress ==
  /\ lcb.stage \in {"evaluating", "evaluated", "failed"} /\ lcb.queue > 0
  /\ lcb' = [lcb EXCEPT !.queue = @ - 1, !.frames = Append(@, "progress")]
  /\ UNCHANGED child

\* send_final_result, when the queue has been drained.
SendFinal ==
  /\ lcb.stage \in {"evaluated", "failed"} /\ lcb.queue = 0
  /\ SendLast(IF lcb.stage = "failed" THEN "error" ELSE "completed")
  /\ UNCHANGED child

-----------------------------------------------------------------------------
\* _lcb_ws_evaluate: frames are read until a terminal one.
ClientReads ==
  /\ lcb.client = "waiting" /\ lcb.stage # "request" /\ lcb.frames # <<>>
  /\ lcb' = [lcb EXCEPT
       !.frames = Tail(@),
       !.client = CASE Head(lcb.frames) = "completed" -> "result"
                    [] Head(lcb.frames) = "error" -> "none"
                    [] OTHER -> @,
       !.passed = IF Head(lcb.frames) = "completed"
                  THEN Cardinality(lcb.results) ELSE @,
       !.total = IF Head(lcb.frames) = "completed" THEN total_samples ELSE @]
  /\ UNCHANGED child

\* No connection, a connection that is lost, a receive that times out.
ClientGivesUp ==
  /\ lcb.stage # "idle" /\ lcb.client = "waiting"
  /\ lcb' = [lcb EXCEPT !.client = "none"]
  /\ UNCHANGED child

\* LiveCodeBenchScorer.score: without a result, the samples are graded in a
\* subprocess, if the user allows that, or not at all.
FallBack ==
  /\ lcb.stage # "idle" /\ lcb.client = "none"
  /\ \E end \in {"subprocess", "refused"} : lcb' = [lcb EXCEPT !.client = end]
  /\ UNCHANGED child

LcbNext ==
  \/ Receive \/ Evaluated \/ PutRuns \/ SendProgress \/ SendFinal
  \/ ClientReads \/ ClientGivesUp \/ FallBack
  \/ \E c \in CodeSample :
       Begin(c) \/ Setup(c) \/ Grade(c) \/ GlobalTimeout(c) \/ Collect(c)

-----------------------------------------------------------------------------
\* A grade is deserved.  Only a submission that ran is blamed for its own
\* failure, unless its process was still there at the deadline, and the judge is
\* not blamed for a process that the submission killed.  The scorer gets a
\* result only when every sample it sent was graded and some submission was
\* reached or ran out of time ("refusing to report a 0 score"); what it counts
\* as passed did pass all tests.  No frame follows the terminal one.
GradesAreDeserved ==
  lcb.stage # "idle" =>
    /\ \A c \in lcb.done :
         /\ Verdict(c) \in {"pass", "fail", "exit", "killed"} => child[c].reached
         /\ Verdict(c) = "died" => ~child[c].reached
    /\ \A i \in DOMAIN lcb.frames :
         lcb.frames[i] \in {"completed", "error"} => i = Len(lcb.frames)
    /\ lcb.client = "result" =>
         /\ lcb.total = Cardinality(Sent) /\ lcb.done = Sent
         /\ lcb.passed = Cardinality({c \in Sent : child[c].passed})
         /\ \E c \in Sent : child[c].reached \/ child[c].report = "timeout"
=============================================================================
