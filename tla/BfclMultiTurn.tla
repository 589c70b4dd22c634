---------------------------- MODULE BfclMultiTurn -----------------------------
(***************************************************************************)
(* The BFCL v4 multi-turn evaluation: BFCLMultiTurnRunner sends a          *)
(* conversation turn by turn, BFCLExecutionBridge executes the calls of an *)
(* answer on simulated classes and appends the results to the history, and *)
(* BFCLv4MultiTurnScorer grades what was executed. Entries are run one     *)
(* after the other, an entry may be run again in the same process. A call  *)
(* is [name, at]: the function and the place of the call in its answer.    *)
(***************************************************************************)
EXTENDS Integers, Sequences, SequencesExt, FiniteSets, FiniteSetsExt

CONSTANTS
  ConvEntries,   \* entries [turns, holdout, truth]: number of turns, the turn at
                 \* which the held-out function is added (0 none), turns of the truth
  ConvAnswers,   \* answers of the model: sequences of "f", "g", "evil", "junk", or
                 \* one of the failures below
  MaxSteps,      \* max_steps_per_turn
  MaxConvRuns    \* bound on the entries run

\* What is not an answer: no or an error response, a body without a message.
Failures == {"transport", "malformed"}

VARIABLE conv

ConvIdle == conv = [stage |-> "idle"]

\* "f" is declared from the start, "g" is the function held out; tools is
\* the entry's own list, instance what bfcl-eval caches between executions.
ConvInit ==
  \E e \in ConvEntries :
    conv = [stage |-> "next", entry |-> e, instance |-> <<>>, tools |-> <<"f">>, state |-> <<>>,
            executed |-> <<>>, started |-> 0, runs |-> 0, scores |-> <<>>]

\* start_conversation
NewState ==
  [turn |-> 1, step |-> 0, messages |-> <<>>, tools |-> conv.tools, results |-> <<>>,
   current |-> <<>>, forced |-> FALSE, completed |-> FALSE]

\* get_initial_request: a held-out function is added to the tools of the
\* conversation, its turn asks to look again; otherwise the user's messages.
get_initial_request(s) ==
  LET added == s.turn = conv.entry.holdout
  IN  [s EXCEPT !.tools = IF added THEN Append(@, "g") ELSE @,
                !.messages = Append(@, [role |-> "user", calls |-> <<>>, about |-> 0]),
                !.step = 0, !.current = <<>>]

StartEntry ==
  /\ conv.stage = "next" /\ conv.runs < MaxConvRuns
  /\ conv' = [conv EXCEPT !.stage = "request", !.runs = @ + 1, !.started = Len(conv.instance),
                !.executed = <<>>, !.state = <<get_initial_request(NewState)>>]

-----------------------------------------------------------------------------
\* _force_terminate
_force_terminate(s) ==
  [s EXCEPT !.forced = TRUE, !.completed = TRUE, !.results = Append(@, s.current)]

_advance_turn(s) ==
  LET t == [s EXCEPT !.results = Append(@, s.current), !.turn = @ + 1]
  IN  IF t.turn > conv.entry.turns THEN [t EXCEPT !.completed = TRUE] ELSE get_initial_request(t)

_allowed_tool_names(s) == ToSet(s.tools)

\* Calls to functions that were not declared are dropped.
Declared(s, answer) ==
  SelectSeq([i \in DOMAIN answer |-> [name |-> answer[i], at |-> i]],
            LAMBDA c : c.name \in _allowed_tool_names(s) \cup {"junk"})

\* Arguments that are not JSON end the decoding of the whole answer; they
\* are those of the call named "junk", to a declared function.
Decodes(s, answer) == \A c \in ToSet(Declared(s, answer)) : c.name # "junk"

\* The results of the calls that were executed, with the ids of the answer's
\* calls in order.
ToolMessages(calls) ==
  [i \in DOMAIN calls |-> [role |-> "tool", calls |-> <<i>>, about |-> calls[i].at]]

\* process_response for an answer with calls that decode.
Execute(s, calls) ==
  LET t == [s EXCEPT !.current = Append(@, calls), !.step = @ + 1,
                     !.messages = @ \o ToolMessages(calls)]
  IN  IF t.step >= MaxSteps THEN _force_terminate(t) ELSE t

process_response(s0, answer) ==
  LET s == [s0 EXCEPT !.messages =
              Append(@, [role |-> "assistant", calls |-> [i \in DOMAIN answer |-> i], about |-> 0])]
      calls == Declared(s, answer)
  IN  IF calls = <<>> \/ ~Decodes(s, answer) THEN _advance_turn(s) ELSE Execute(s, calls)

\* One request of run_entry and what comes of it.
Request ==
  LET s == conv.state[1]
  IN  /\ conv.stage = "request" /\ ~s.completed
      /\ \/ \E f \in Failures : conv' = [conv EXCEPT !.state = <<_force_terminate(s)>>]
         \/ \E answer \in ConvAnswers :
              LET calls == Declared(s, answer)
                  runs == IF calls = <<>> \/ ~Decodes(s, answer) THEN <<>> ELSE calls
              IN  conv' = [conv EXCEPT !.state = <<process_response(s, answer)>>,
                             !.instance = @ \o runs, !.executed = @ \o runs]

\* cleanup: the cached instances of the simulated classes are dropped.
cleanup == <<>>

\* multi_turn_checker is external: any verdict on results with a turn for
\* every turn of the truth; it may also raise.
Verdicts(s) ==
  IF s.forced \/ Len(s.results) # conv.entry.truth THEN {FALSE} ELSE BOOLEAN

EndEntry ==
  /\ conv.stage = "request" /\ conv.state[1].completed
  /\ \E valid \in Verdicts(conv.state[1]) :
       conv' = [conv EXCEPT !.stage = "ended", !.scores = Append(@, valid), !.instance = cleanup]

NextEntry ==
  /\ conv.stage = "ended"
  /\ \E e \in ConvEntries : conv' = [conv EXCEPT !.stage = "next", !.entry = e, !.state = <<>>]

ConvNext == StartEntry \/ Request \/ EndEntry \/ NextEntry

-----------------------------------------------------------------------------
(***************************************************************************)
(* Properties                                                              *)
(***************************************************************************)
\* Each run of an entry starts from its initial configuration, whatever was
\* run before it, and with each function declared once.
FreshStart ==
  /\ conv.started = 0
  /\ conv.state # <<>> =>
       /\ IsInjective(conv.state[1].tools)
       /\ "g" \in ToSet(conv.state[1].tools) => conv.entry.holdout <= conv.state[1].turn

\* What is graded is what was executed, turn by turn, and a conversation
\* that went to its end has a result for each of its turns.
ResultsAreExecuted ==
  conv.stage = "ended" =>
    LET s == conv.state[1]
    IN  /\ FlattenSeq(FlattenSeq(s.results)) = conv.executed
        /\ Len(s.results) = IF s.forced THEN s.turn ELSE conv.entry.turns
        /\ conv.executed # <<>> => \A c \in ToSet(conv.executed) : c.name \in ToSet(s.tools)
        /\ Last(conv.scores) => ~s.forced /\ conv.entry.truth = conv.entry.turns

\* BFCLExecutionBridge and BFCLMultiTurnRunner.run_entry.
ConversationsAreApart == conv.stage # "idle" => FreshStart /\ ResultsAreExecuted

=============================================================================
