--------------------------- MODULE AgenticStrategy ---------------------------
(***************************************************************************)
(* Multi-turn load: AgenticInferenceStrategy                               *)
(* (load_generator/agentic_inference_strategy.py) with the conversation    *)
(* manager, the part of PhaseIssuer and BenchmarkSession it works against, *)
(* and the phase that follows.                                             *)
(*                                                                         *)
(* All of it is callbacks on one loop thread: answers, turn timeouts,      *)
(* delayed turns.  What one callback does to the strategy is a chain of    *)
(* synchronous calls, so the strategy's state is one record `st` and every *)
(* method is an operator from a state to a state.  `src` is the index the  *)
(* sample order yields if the call starts a conversation, `ok` is FALSE if *)
(* handing the query to the client raises.                                 *)
(***************************************************************************)
EXTENDS Integers, Sequences, FiniteSets, FiniteSetsExt

CONSTANTS
  Conv,         \* conversations of the dataset (_base_convs)
  Turns,        \* per conversation: number of client turns
  Delayed,      \* <<conversation, turn>> pairs with an injected tool delay
  Budget,       \* _trajectory_budget()
  Target,       \* target_concurrency; 0 for None
  StopIssuing,  \* the settings of stop_issuing_on_first_user_complete tried
  Faults        \* "issue_raises", "elapse", "cap", "stop", "error_answer"

Absent == -1

ASSUME AgenticAssumption ==
  /\ IsFiniteSet(Conv) /\ Conv # {}
  /\ Turns \in [Conv -> Nat \ {0}]
  /\ Delayed \subseteq Conv \X Nat
  /\ Budget \in Nat \ {0}
  /\ Target \in Nat
  /\ StopIssuing \subseteq BOOLEAN
  /\ Faults \subseteq {"issue_raises", "elapse", "cap", "stop", "error_answer"}

N       == Cardinality(Conv)
Logical == Conv \X (1..(((Budget - 1) \div N) + 1))   \* (source_id, repeat_id)

VARIABLES
  st,       \* the strategy, its PhaseIssuer and what it published
  pc,       \* "seeding", "waiting" (execute), "draining", "next", "over"
  seeds,    \* conversations execute() has still to seed
  halted,   \* the phase's stop check returns True
  cancel,   \* the strategy task was cancelled and has not noticed yet
  aborted,  \* _stop_requested
  clean     \* execute() returned normally

vars == <<st, pc, seeds, halted, cancel, aborted, clean>>

\* Initial state of execute(); the order starts with an exhausted block.
InitialState(stopIssuing) ==
  [stopIssuing |-> stopIssuing,
   active    |-> [l \in Logical |-> Absent],  \* _active_iters: the cursor
   delayed   |-> [l \in Logical |-> Absent],  \* _delay_handles: the turn
   inflight  |-> {},                          \* _inflight
   timers    |-> {},                          \* _timeout_handles
   stopping  |-> FALSE,
   done      |-> FALSE,                       \* _all_done
   error     |-> FALSE,
   started   |-> 0,                           \* _started_trajectory_count
   left      |-> {},                          \* rest of the order's block
   untracked |-> FALSE,                       \* _performance_tracking_stopped
   turns     |-> [l \in Logical |-> 0],       \* ConversationState.completed_turns
   failed    |-> [l \in Logical |-> 0],       \* ConversationState.failed_turns
   conv      |-> << >>,                       \* uuid_to_conv_info, by query
   ends      |-> << >>,                       \* COMPLETE events, by query
   skipped   |-> {},                          \* completed_uuids
   issued    |-> 0,                           \* issued_count
   pending   |-> 0,                           \* PhaseIssuer.inflight
   wire      |-> {}]                          \* queries the endpoint owes

Active(s) == {l \in Logical : s.active[l] # Absent}
Waiting(s) == {l \in Logical : s.delayed[l] # Absent}

-----------------------------------------------------------------------------
(* The conversation manager: the state of a conversation, `turns` and      *)
(* `failed`, is created at 0 when the conversation starts.                 *)

IsComplete(s, l) == s.turns[l] >= Turns[l[1]]

MarkTurnComplete(s, l) == [s EXCEPT !.turns[l] = @ + 1]

\* n turns that failed count as completed too.
MarkTurnFailed(s, l, n) == [s EXCEPT !.turns[l] = @ + n, !.failed[l] = @ + n]

-----------------------------------------------------------------------------
(* The methods of the strategy.                                            *)

HasMore(s) == s.started < Budget

HasWork(s) ==
  \/ s.inflight # {}
  \/ Waiting(s) # {}
  \/ ~s.stopping /\ (Active(s) # {} \/ HasMore(s))

SignalIfIdle(s) == [s EXCEPT !.done = @ \/ s.inflight = {}]

\* Does not look whether anything is in flight.
RequestStop_NoSignal(s) ==
  IF s.stopping THEN SignalIfIdle(s)
  ELSE [s EXCEPT !.stopping = TRUE,
                 !.delayed  = [l \in Logical |-> Absent],
                 !.active   = [l \in Logical |-> Absent]]

RequestStop(s) ==
  SignalIfIdle(
    IF s.stopping THEN s
    ELSE [s EXCEPT !.stopping = TRUE,
                   !.delayed  = [l \in Logical |-> Absent],
                   !.active   = [l \in Logical |-> Absent]])

\* An exception out of issue() ends execute() through _error.
Fails(s) == [s EXCEPT !.error = TRUE, !.done = TRUE]

Drawn(s, l, n) == [s EXCEPT !.conv = @ \o [i \in 1..n |-> l],
                            !.ends = @ \o [i \in 1..n |-> 0]]

\* PhaseIssuer.issue and the bookkeeping that follows it.  uuid and ISSUED come
\* before the query is handed over, the in-flight count after.
Issue(s, l, ok) ==
  LET q == Len(s.conv) + 1
      d == Drawn(s, l, 1)
  IN  IF ok THEN [d EXCEPT !.active[l] = @ + 1,
                           !.inflight  = @ \cup {q},
                           !.timers    = @ \cup {q},
                           !.wire      = @ \cup {q},
                           !.pending   = @ + 1,
                           !.issued    = @ + 1]
      ELSE Fails(d)

IssueTurnNow(s, l, turn, ok) ==
  LET t == [s EXCEPT !.delayed[l] = Absent]
  IN  IF t.stopping \/ t.active[l] # turn THEN t
      ELSE IF halted THEN RequestStop(t)
      ELSE Issue(t, l, ok)

\* The part of _issue_next_turn after the cursor check.
BeginTurn(s, l, ok) ==
  IF <<l[1], s.active[l]>> \in Delayed
  THEN [s EXCEPT !.delayed[l] = s.active[l]]
  ELSE IssueTurnNow(s, l, s.active[l], ok)

\* The order yields each source once per block of N draws.
Draws(s) == IF s.left = {} THEN Conv ELSE s.left

StartConversation(s, src, ok) ==
  LET l == <<src, s.started \div N + 1>>
      t == [s EXCEPT !.started = @ + 1, !.left = Draws(s) \ {src},
                     !.active[l] = 0]
  IN  IF s.stopping THEN s ELSE BeginTurn(t, l, ok)

FillSlot(s, src, ok) ==
  IF s.stopping THEN SignalIfIdle(s)
  ELSE IF HasMore(s) THEN StartConversation(s, src, ok)
  ELSE [s EXCEPT !.done = @ \/ ~HasWork(s)]

FinishConversation(s, l, src, ok) ==
  LET t == [s EXCEPT !.active[l] = Absent]
      u == [t EXCEPT !.untracked = TRUE]
  IN  IF HasMore(t) THEN FillSlot(t, src, ok)
      ELSE IF s.stopIssuing THEN RequestStop(u)
      ELSE FillSlot(u, src, ok)

IssueNextTurn(s, l, src, ok) ==
  IF s.stopping \/ s.active[l] = Absent THEN s
  ELSE IF s.active[l] >= Turns[l[1]] THEN FinishConversation(s, l, src, ok)
  ELSE BeginTurn(s, l, ok)

\* Leaves the failed turn's successors out of the accounting.
AbortRemaining_Silent(s, l) ==
  [s EXCEPT !.delayed[l] = Absent, !.active[l] = Absent]

\* PhaseIssuer.register_skipped, n times, and the COMPLETE that follows each:
\* a query with an id and an ISSUED that is never sent.
RegisterSkipped(s, l, n) ==
  LET k == Len(s.conv)
  IN  [Drawn(s, l, n) EXCEPT
         !.ends    = [q \in DOMAIN @ |-> IF q > k THEN 1 ELSE @[q]],
         !.skipped = @ \cup (k + 1)..(k + n),
         !.issued  = @ + n]

\* Every turn after the failed one is marked failed, registered and ended
\* synthetically; once the stop check holds only the first is marked.
AbortRemaining(s, l) ==
  LET n == IF s.active[l] = Absent THEN 0 ELSE Turns[l[1]] - s.active[l]
      t == [s EXCEPT !.delayed[l] = Absent, !.active[l] = Absent]
  IN  IF n = 0 THEN t
      ELSE IF halted THEN MarkTurnFailed(t, l, 1)
      ELSE RegisterSkipped(MarkTurnFailed(t, l, n), l, n)

MarkInflightComplete(s) == [s EXCEPT !.pending = IF @ <= 0 THEN @ ELSE @ - 1]

\* Ends the turn without entering it in completed_uuids.
HandleTimeout_NotMarked(s, q, src, ok) ==
  LET l == s.conv[q]
      t == [MarkInflightComplete(MarkTurnFailed(s, l, 1)) EXCEPT
              !.inflight = @ \ {q}, !.timers = @ \ {q}, !.ends[q] = @ + 1]
  IN  IF q \notin s.inflight THEN s
      ELSE FinishConversation(AbortRemaining(t, l), l, src, ok)

HandleTimeout(s, q, src, ok) ==
  LET l == s.conv[q]
      t == [MarkInflightComplete(MarkTurnFailed(s, l, 1)) EXCEPT
              !.inflight = @ \ {q}, !.timers = @ \ {q},
              !.skipped  = @ \cup {q}, !.ends[q] = @ + 1]
  IN  IF q \notin s.inflight THEN s
      ELSE FinishConversation(AbortRemaining(t, l), l, src, ok)

OnSampleComplete(s, q, err, src, ok) ==
  LET l == s.conv[q]
      m == IF err THEN MarkTurnFailed(s, l, 1) ELSE MarkTurnComplete(s, l)
      t == [m EXCEPT !.inflight = @ \ {q}, !.timers = @ \ {q}]
  IN  IF q \notin s.inflight THEN s
      ELSE IF err THEN FinishConversation(AbortRemaining(t, l), l, src, ok)
      ELSE IF t.stopping THEN SignalIfIdle(t)
      ELSE IssueNextTurn(t, l, src, ok)

\* BenchmarkSession._handle_response: with this phase's issuer, or with the
\* next one's, which knows none of these queries.
HandleResponse(s, q, err, src, ok) ==
  LET r == [s EXCEPT !.wire = @ \ {q}]
      e == [r EXCEPT !.ends[q] = @ + 1]
  IN  IF pc = "next" THEN e
      ELSE IF q \in s.skipped THEN r
      ELSE OnSampleComplete(MarkInflightComplete(e), q, err, src, ok)

-----------------------------------------------------------------------------
(* The event loop.                                                         *)

InitialConversations ==
  Min({IF Target > 0 THEN Target ELSE N, Budget})

Init ==
  /\ \E b \in StopIssuing : st = InitialState(b)
  /\ pc = "seeding" /\ seeds = InitialConversations
  /\ halted = FALSE /\ cancel = FALSE /\ aborted = FALSE /\ clean = FALSE

May(f) == f \in Faults

\* ok, and FALSE where an issue() that raises is part of the instance.
Outcomes == {TRUE} \cup (IF May("issue_raises") THEN {FALSE} ELSE {})

\* One turn of execute()'s seeding loop, which keeps the thread throughout.
Seed ==
  /\ pc = "seeding" /\ seeds > 0 /\ ~st.error
  /\ \E src \in Draws(st), ok \in Outcomes :
       st' = StartConversation(st, src, ok)
  /\ seeds' = seeds - 1
  /\ UNCHANGED <<pc, halted, cancel, aborted, clean>>

\* The finally block of execute().
Finally(s) == [s EXCEPT !.timers = {}, !.inflight = {},
                        !.delayed = [l \in Logical |-> Absent]]

\* An exception leaves the phase and the session, anything else drains.
Leave(ok) ==
  /\ st' = Finally(st)
  /\ pc' = IF ok THEN "draining" ELSE "over"
  /\ clean' = ok
  /\ UNCHANGED <<seeds, halted, aborted>>

Seeded ==
  /\ pc = "seeding" /\ (seeds = 0 \/ st.error)
  /\ IF st.error \/ ~HasWork(st) THEN Leave(~st.error) /\ UNCHANGED cancel
     ELSE pc' = "waiting" /\ UNCHANGED <<st, seeds, halted, cancel, aborted, clean>>

\* _all_done is set and execute() runs on; a cancellation takes precedence.
Wake ==
  /\ pc = "waiting" /\ st.done /\ ~cancel
  /\ Leave(~st.error) /\ UNCHANGED cancel

Cancelled ==
  /\ pc = "waiting" /\ cancel
  /\ st' = Finally(st) /\ pc' = "draining" /\ cancel' = FALSE
  /\ UNCHANGED <<seeds, halted, aborted, clean>>

Loop == pc \notin {"seeding", "over"}

Answer ==
  /\ Loop
  /\ \E q \in st.wire, src \in Draws(st), ok \in Outcomes,
        err \in {FALSE} \cup (IF May("error_answer") THEN {TRUE} ELSE {}) :
       st' = HandleResponse(st, q, err, src, ok)
  /\ UNCHANGED <<pc, seeds, halted, cancel, aborted, clean>>

Timeout ==
  /\ pc = "waiting"
  /\ \E q \in st.timers, src \in Draws(st), ok \in Outcomes :
       st' = HandleTimeout(st, q, src, ok)
  /\ UNCHANGED <<pc, seeds, halted, cancel, aborted, clean>>

DelayFires ==
  /\ pc = "waiting"
  /\ \E l \in Waiting(st), ok \in Outcomes :
       st' = IssueTurnNow(st, l, st.delayed[l], ok)
  /\ UNCHANGED <<pc, seeds, halted, cancel, aborted, clean>>

\* max_issue_duration_ms has passed.
Elapse ==
  /\ Loop /\ May("elapse") /\ ~halted
  /\ halted' = TRUE
  /\ UNCHANGED <<st, pc, seeds, cancel, aborted, clean>>

\* stop_current_phase()
Cap ==
  /\ pc = "waiting" /\ May("cap") /\ ~cancel
  /\ halted' = TRUE /\ cancel' = TRUE
  /\ UNCHANGED <<st, pc, seeds, aborted, clean>>

\* stop()
Stop ==
  /\ pc \in {"waiting", "draining"} /\ May("stop") /\ ~aborted
  /\ halted' = TRUE /\ aborted' = TRUE /\ cancel' = (pc = "waiting")
  /\ UNCHANGED <<st, pc, seeds, clean>>

\* _drain_inflight returns, or gives up; _run_phase then stops tracking.
Drain ==
  /\ pc = "draining"
  /\ \/ st.pending <= 0 /\ UNCHANGED aborted
     \/ aborted /\ UNCHANGED aborted
     \/ st.pending > 0 /\ aborted' = TRUE
  /\ st' = [st EXCEPT !.untracked = TRUE]
  /\ pc' = IF aborted' THEN "over" ELSE "next"
  /\ UNCHANGED <<seeds, halted, cancel, clean>>

Terminated == pc \in {"next", "over"} /\ UNCHANGED vars

Next ==
  \/ Seed \/ Seeded \/ Wake \/ Cancelled \/ Answer \/ Timeout \/ DelayFires
  \/ Elapse \/ Cap \/ Stop \/ Drain \/ Terminated

\* The loop runs ready callbacks and fires timers; the endpoint owes nothing.
Fairness ==
  /\ WF_vars(Seed) /\ WF_vars(Seeded) /\ WF_vars(Wake) /\ WF_vars(Cancelled)
  /\ WF_vars(Timeout) /\ WF_vars(DelayFires)

Spec     == Init /\ [][Next]_vars
FairSpec == Spec /\ Fairness

-----------------------------------------------------------------------------
Query == DOMAIN st.conv

\* Every variable has its type.
TypeOK ==
  /\ st.active \in [Logical -> Int] /\ st.delayed \in [Logical -> Int]
  /\ st.inflight \subseteq Query /\ st.timers \subseteq Query
  /\ st.skipped \subseteq Query /\ st.wire \subseteq Query
  /\ \A f \in {"stopping", "done", "error", "untracked"} : st[f] \in BOOLEAN
  /\ st.started \in 0..Budget /\ st.left \subseteq Conv
  /\ st.turns \in [Logical -> Nat] /\ st.failed \in [Logical -> Nat]
  /\ st.conv \in Seq(Logical) /\ st.ends \in [Query -> Nat]
  /\ st.issued \in Nat /\ st.pending \in Nat
  /\ pc \in {"seeding", "waiting", "draining", "next", "over"}
  /\ seeds \in Nat
  /\ {halted, cancel, aborted, clean} \subseteq BOOLEAN

\* PhaseIssuer.inflight is the number of queries the endpoint owes whose turn
\* has not ended, although timeouts and late answers both end turns.
PendingIsExact == pc # "next" =>
  st.pending = Cardinality({q \in st.wire : st.ends[q] = 0})

\* While the phase is current, a turn is ended once: by its answer, by its
\* timeout or by the failure of an earlier turn (session.py:753).
TurnEndsOnce == pc # "next" => \A q \in Query : st.ends[q] <= 1

\* The same over the whole session.
TurnEndsOnceEver == \A q \in Query : st.ends[q] <= 1

\* A conversation in progress has one turn under way, in flight or delayed, so
\* turn N+1 is not issued before turn N ended; no conversation is counted twice.
OneTurnAtATime == pc = "waiting" /\ ~st.error =>
  \A l \in Active(st) :
    Cardinality({q \in st.inflight : st.conv[q] = l})
      + (IF l \in Waiting(st) THEN 1 ELSE 0) = 1

\* The turns of the conversations are served in order, one at a time, ended
\* once, and the issuer's count of them is exact.
TurnsAreOrderly == TypeOK /\ PendingIsExact /\ TurnEndsOnce /\ OneTurnAtATime

\* No more turns of a trajectory end than it has: (source_id, repeat_id) is
\* never given to two trajectories.
TurnsNeverOvercounted ==
  \A l \in Logical : st.failed[l] <= st.turns[l] /\ st.turns[l] <= Turns[l[1]]

\* Until tracking stops the number of conversations in progress stays at the
\* target: each finished or failed one is replaced ("to hold concurrency
\* steady", docs/load_generator/DESIGN.md:502).
SlotsStayFull ==
  pc = "waiting" /\ ~st.error /\ ~st.stopping /\ ~st.untracked =>
    Cardinality(Active(st)) = InitialConversations

\* Tracking is stopped by the first trajectory that ends after the last one
\* has started.
TrackingStopsAtBudget == pc = "waiting" /\ st.untracked =>
  /\ st.started = Budget
  /\ Cardinality(Active(st)) < InitialConversations

\* The budget of trajectories governs the slots: full until it is used up, then
\* draining, and no trajectory is run twice.
SlotsFollowBudget == SlotsStayFull /\ TrackingStopsAtBudget /\ TurnsNeverOvercounted

\* AgenticInferenceStrategy keeps its promises to each conversation (one turn
\* at a time, each ended once) and to the load (full slots, the budget).
TrajectoriesAreOrderly == TurnsAreOrderly /\ SlotsFollowBudget

\* What expected_agentic_sample_count returns: the turns of the first Budget
\* conversations of the order, of which `left` is what the last block lacks.
ExpectedSampleCount ==
  LET Sum(cs) == MapThenSumSet(LAMBDA c : Turns[c], cs)
  IN  (Budget \div N) * Sum(Conv) + (IF st.left = {} THEN 0 ELSE Sum(Conv \ st.left))

\* A run nobody stopped has started its budget of trajectories, ended every
\* turn of each, and issued as many samples as expected_agentic_sample_count
\* promises.
CleanRunIsComplete ==
  clean /\ ~halted /\ ~st.stopIssuing /\ pc \in {"draining", "next"} =>
    /\ st.started = Budget
    /\ Cardinality({l \in Logical : IsComplete(st, l)}) = Budget
    /\ st.issued = ExpectedSampleCount /\ Len(st.conv) = st.issued
    /\ \A q \in Query : st.ends[q] >= 1

\* With a silent endpoint the turn timeouts end execute() all the same.
ExecuteEnds == <>(pc \notin {"seeding", "waiting"})
=============================================================================
