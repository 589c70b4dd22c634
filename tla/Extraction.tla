----------------------------- MODULE Extraction -----------------------------
(***************************************************************************)
(* How an answer is read before it is scored: the extractors of            *)
(* evaluation/extractor.py, and the tool calls of the SWE-bench agent      *)
(* (swebench_service/qwen_tools.py), as functions of what they distinguish *)
(* in an answer, over all small answers.                                   *)
(*                                                                         *)
(* A multiple-choice answer is what each of the thirteen patterns finds in *)
(* it; an answer with boxes or code blocks is the sequence of them.  A     *)
(* text with function calls is a sequence of tokens: words, brackets,      *)
(* quotes and backslashes, for the scanner has to tell them apart.         *)
(***************************************************************************)
EXTENDS Naturals, Sequences, FiniteSets

LOCAL INSTANCE SequencesExt

CONSTANTS
  Patterns,     \* how many of the choice patterns are told apart
  MaxItems,     \* boxes, blocks or JSON items in an answer, at most
  Words,        \* words of a text: "name", "print" (skipped) and "k=v"
  MaxTokens     \* bound on the tokens of a text

VARIABLE ext

Nothing == "none"

-----------------------------------------------------------------------------
(* ABCDExtractor.                                                          *)

Letter == {"A", "B"}
ChoiceOf(l) == IF l = "A" THEN "choice1" ELSE "choice2"

\* The matches are sorted by priority, and there is at most one per pattern,
\* so the length never decides; then the first character, then the default.
FirstMatch(found) ==
  found[CHOOSE i \in DOMAIN found :
          found[i] # Nothing /\ \A j \in 1..(i - 1) : found[j] = Nothing]

AbcdExtract(found, first, default) ==
  IF \E i \in DOMAIN found : found[i] # Nothing THEN ChoiceOf(FirstMatch(found))
  ELSE IF first # Nothing THEN ChoiceOf(first)
  ELSE IF default # Nothing THEN default ELSE ""

-----------------------------------------------------------------------------
(* BoxedMathExtractor and PythonCodeExtractor.                             *)

\* A box is the list of its comma-separated parts; <<>> is an empty box.
Box == {<<>>, <<"7">>, <<"3", "7">>, <<"3", "">>}

\* The last box that is not empty, of which the last part; else the last
\* integer of the text.  An integer of a box counts as one of the text.
BoxedExtract(boxes, lastInt, default) ==
  LET full == {i \in DOMAIN boxes : boxes[i] # <<>>}
  IN  IF full # {} THEN Last(boxes[CHOOSE i \in full : \A j \in full : j <= i])
      ELSE IF lastInt # Nothing THEN lastInt ELSE default

\* A block is tagged "python", "py" or not; its code is its name.
CodeBlock == [tag : {"python", "py", "plain"}, code : {"f", "g"}]

LastOf(blocks) == blocks[Len(blocks)].code

\* The last ```python block, else the last block of any tag.
CodeExtract(blocks, default) ==
  LET python == SelectSeq(blocks, LAMBDA b : b.tag = "python")
  IN  IF python # <<>> THEN LastOf(python)
      ELSE IF blocks # <<>> THEN LastOf(blocks) ELSE default

-----------------------------------------------------------------------------
(* FunctionCallExtractor: JSON.                                            *)

\* An item of a JSON list: a tool call, whose arguments are an object, a
\* string that is JSON or one that is not; a plain call; or something else.
Item == [form : {"tool"}, args : {"object", "json", "raw"}]
          \cup [form : {"call"}, args : {"object", "absent"}]
          \cup {[form |-> "other", args |-> "absent"]}

\* json.loads of an arguments string, kept as it is when it does not parse.
ArgumentsOf(i) == IF i.args = "json" THEN "object"
                  ELSE IF i.args = "absent" THEN "empty" ELSE i.args

\* _try_parse_tool_calls_json and _try_parse_function_array: all items or
\* nothing.
ParseList(items, form) ==
  IF items # <<>> /\ \A i \in DOMAIN items : items[i].form = form
  THEN [i \in DOMAIN items |-> ArgumentsOf(items[i])] ELSE <<>>

JsonCalls(items) ==
  IF ParseList(items, "tool") # <<>> THEN ParseList(items, "tool")
  ELSE ParseList(items, "call")

-----------------------------------------------------------------------------
(* FunctionCallExtractor: text.                                            *)

Token == Words \cup {"(", ")", "'", "\"", "\\"}

\* One step of _find_balanced_parens at token i: depth, quote and the next
\* token; a backslash inside quotes skips a token.
ScanStep(text, s) ==
  LET c == text[s.i]
      go == [s EXCEPT !.i = @ + 1]
  IN  IF c = "\\" /\ s.quote # Nothing THEN [s EXCEPT !.i = @ + 2]
      ELSE IF c \in {"'", "\""} /\ s.quote \in {Nothing, c}
      THEN [go EXCEPT !.quote = IF @ = c THEN Nothing ELSE c]
      ELSE IF s.quote # Nothing THEN go
      ELSE IF c = "(" THEN [go EXCEPT !.depth = @ + 1]
      ELSE IF c = ")" THEN [go EXCEPT !.depth = @ - 1,
                                      !.close = IF s.depth = 1 THEN s.i ELSE 0]
      ELSE go

\* _find_balanced_parens: the bracket that closes the one at `start`, or 0.
FindBalancedParens(text, start) ==
  LET n == Len(text)
      scan[k \in 0..n] ==
        IF k = 0 THEN [i |-> start, depth |-> 0, quote |-> Nothing, close |-> 0]
        ELSE LET s == scan[k - 1]
             IN  IF s.i > n \/ s.close > 0 THEN s ELSE ScanStep(text, s)
  IN  scan[n].close

Name == Words \ {"k=v"}
Skipped == {"print"}

\* _looks_like_signature: only bare names between the brackets.
LooksLikeSignature(args) ==
  args # <<>> /\ \A i \in DOMAIN args : args[i] \in Name

\* The matches of _FUNC_START_PATTERN, as the index of the word.
Starts(text) == {i \in 1..(Len(text) - 1) : text[i] \in Name /\ text[i + 1] = "("}

\* One match: skipped in a consumed range, as a keyword, or without a closing
\* bracket; otherwise its range is consumed, signature or not.
TakeCall(text, found, i) ==
  LET close == FindBalancedParens(text, i + 1)
      args == SubSeq(text, i + 2, close - 1)
  IN  IF \/ i \in found.consumed \/ text[i] \in Skipped \/ close = 0 THEN found
      ELSE [consumed |-> found.consumed \cup (i + 1)..close,
            calls |-> IF LooksLikeSignature(args) THEN found.calls
                      ELSE Append(found.calls, [at |-> i, close |-> close])]

\* _try_parse_text_function_calls.
TextCalls(text) ==
  LET upto[k \in 0..Len(text)] ==
        IF k = 0 THEN [consumed |-> {}, calls |-> <<>>]
        ELSE IF k \in Starts(text) THEN TakeCall(text, upto[k - 1], k)
        ELSE upto[k - 1]
  IN  upto[Len(text)].calls

-----------------------------------------------------------------------------
(* The tools of the SWE-bench agent.                                       *)

\* A call is known by its tool, by what its arguments are, and by its id, which
\* is its place in the answer.  "short" lacks a command, the files, a known
\* editor command or a proper view range.
ToolCall == [tool : {"bash", "finish", "str_replace_editor", "other"},
             args : {"unparsable", "short", "whole"}]

CallError(c) == c.args # "whole" \/ c.tool = "other"

\* parse_toolcall_actions: an answer without calls, or with an error in any of
\* them, is a FormatError and nothing of it is executed.
ParseActions(calls) ==
  IF calls = <<>> \/ \E i \in DOMAIN calls : CallError(calls[i])
  THEN <<>> ELSE [i \in DOMAIN calls |-> [id |-> i, command |-> calls[i].tool]]

\* format_toolcall_observation_messages: actions without an output are said not
\* to have been executed, outputs without an action are dropped.
Observations(actions, outputs) ==
  [i \in DOMAIN actions |->
     [id |-> actions[i].id,
      output |-> IF i \in DOMAIN outputs THEN outputs[i] ELSE "not executed"]]

-----------------------------------------------------------------------------
(* An answer is chosen, then read.                                         *)

Answers ==
  [kind : {"choice"}, found : [1..Patterns -> Letter \cup {Nothing}],
   first : Letter \cup {Nothing}, default : {Nothing, "choice3"}]
    \cup [kind : {"boxed"}, boxes : SeqOf(Box, MaxItems),
          last : {Nothing, "9"}, default : {Nothing}]
    \cup [kind : {"code"}, blocks : SeqOf(CodeBlock, MaxItems), default : {Nothing}]
    \cup [kind : {"json"}, items : SeqOf(Item, MaxItems)]
    \cup [kind : {"tools"}, calls : SeqOf(ToolCall, MaxItems),
          outputs : SeqOf({"done"}, MaxItems + 1)]

Unread == [kind |-> "unread"]
ExtIdle == ext = [answer |-> Unread, text |-> <<>>]
ExtInit ==
  \/ \E a \in Answers : ext = [answer |-> a, text |-> <<>>]
  \/ ext = [answer |-> [kind |-> "text"], text |-> <<>>]

\* Texts grow token by token.
ExtNext ==
  /\ ext.answer.kind = "text" /\ Len(ext.text) < MaxTokens
  /\ \E t \in Token : ext' = [ext EXCEPT !.text = Append(@, t)]

-----------------------------------------------------------------------------
\* A choice is a letter that some pattern found, and no pattern before that
\* one found another; without any, what the text begins with.
ChoiceIsFound ==
  ext.answer.kind = "choice" =>
    LET a == ext.answer
        r == AbcdExtract(a.found, a.first, a.default)
        letters == {l \in Letter : ChoiceOf(l) = r}
    IN  \/ \E i \in DOMAIN a.found :
             /\ a.found[i] \in letters
             /\ \A j \in 1..(i - 1) : a.found[j] \in letters \cup {Nothing}
        \/ /\ \A i \in DOMAIN a.found : a.found[i] = Nothing
           /\ a.first \in letters \/ (a.first = Nothing /\ r \in {"", a.default})

\* A boxed number or a code block is the last one that the answer has of the
\* best sort it has.
LastOneCounts ==
  /\ ext.answer.kind = "boxed" =>
       LET a == ext.answer
           r == BoxedExtract(a.boxes, a.last, a.default)
       IN  \A i \in DOMAIN a.boxes :
             a.boxes[i] # <<>> /\ r # Last(a.boxes[i]) =>
               \E j \in (i + 1)..Len(a.boxes) :
                 a.boxes[j] # <<>> /\ Last(a.boxes[j]) = r
  /\ ext.answer.kind = "code" =>
       LET a == ext.answer
           r == CodeExtract(a.blocks, a.default)
       IN  a.blocks # <<>> =>
             \E i \in DOMAIN a.blocks :
               /\ a.blocks[i].code = r
               /\ \A j \in (i + 1)..Len(a.blocks) :
                    a.blocks[j].tag # "python" /\ a.blocks[i].tag = "python"

\* A list is read as calls as a whole or not at all, one call per item.
ListIsWhole ==
  ext.answer.kind = "json" =>
    LET items == ext.answer.items
        calls == JsonCalls(items)
        forms == {items[i].form : i \in DOMAIN items}
    IN  IF forms \in {{"tool"}, {"call"}} THEN Len(calls) = Len(items)
        ELSE calls = <<>>

\* The agent's calls are executed all or none, and the model gets one
\* observation for each, under the id of that call, also when the environment
\* stopped before the last of them.
EveryCallIsObserved ==
  ext.answer.kind = "tools" =>
    LET calls == ext.answer.calls
        seen == Observations(ParseActions(calls), ext.answer.outputs)
        done == {i \in DOMAIN seen : seen[i].output # "not executed"}
    IN  /\ seen = <<>> \/ Len(seen) = Len(calls)
        /\ seen # <<>> => \A c \in Range(calls) : ~CallError(c)
        /\ \A i \in DOMAIN seen : seen[i].id = i
        /\ \A i \in done : 1..i \subseteq done
        /\ Cardinality(done) <= Len(ext.answer.outputs)

\* Where the text is outside of quotes, by counting quotes rather than by
\* scanning; for texts without a backslash and with one kind of quote.
Unquoted(text, from, i) ==
  Cardinality({j \in from..i : text[j] \in {"'", "\""}}) % 2 = 0

Depth(text, from, i) ==
  Cardinality({j \in from..i : text[j] = "(" /\ Unquoted(text, from, j)})
    - Cardinality({j \in from..i : text[j] = ")" /\ Unquoted(text, from, j)})

SimpleText(text) ==
  \A i \in DOMAIN text : text[i] \notin {"\\", "\""}

\* The scanner finds the first bracket at which as many are closed as were
\* opened, if there is one.
ParensBalance ==
  \A s \in DOMAIN ext.text :
    ext.text[s] = "(" /\ SimpleText(ext.text) =>
      LET c == FindBalancedParens(ext.text, s)
          even == {i \in s..Len(ext.text) :
                     ext.text[i] = ")" /\ Unquoted(ext.text, s, i)
                       /\ Depth(ext.text, s, i) = 0}
      IN  IF even = {} THEN c = 0
          ELSE c \in even /\ \A i \in even : c <= i

\* Calls are read from left to right and no call is read from the arguments
\* of another; what is read is closed, is not a keyword, and has arguments
\* that are not a mere list of names.
CallsAreApart ==
  LET calls == TextCalls(ext.text)
      text == ext.text
  IN  /\ \A i, j \in DOMAIN calls : i < j => calls[i].close < calls[j].at
      /\ \A i \in DOMAIN calls :
           /\ text[calls[i].at] \in Name \ Skipped
           /\ text[calls[i].at + 1] = "(" /\ text[calls[i].close] = ")"
           /\ calls[i].at + 1 < calls[i].close
           /\ \/ calls[i].close = calls[i].at + 2
              \/ \E k \in (calls[i].at + 2)..(calls[i].close - 1) : text[k] \notin Name

(* What is scored is in the answer, and is what the extractor's order of    *)
(* preference says.                                                         *)
ExtractsAreOfTheAnswer ==
  /\ ChoiceIsFound /\ LastOneCounts /\ ListIsWhole /\ EveryCallIsObserved
  /\ ParensBalance /\ CallsAreApart

=============================================================================
