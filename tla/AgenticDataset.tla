--------------------------- MODULE AgenticDataset ---------------------------
(***************************************************************************)
(* AgenticInferenceDataset: a file of conversation rows is validated,      *)
(* turned into one prepared sample per client turn, and described by the   *)
(* metadata the agentic strategy schedules from.                           *)
(***************************************************************************)
EXTENDS Integers, Sequences, SequencesExt, FiniteSets, FiniteSetsExt

CONSTANTS
  FileRows,       \* rows: [conv, turn, role, calls, filled, null, stream, limit];
                  \* a stream of FALSE and a limit of 0 are absent fields
  MaxRows         \* bound on the rows of a file

VARIABLE ds

DsIdle == ds = [stage |-> "idle"]

DsInit ==
  ds = [stage |-> "file", file |-> <<>>, samples |-> <<>>, data |-> <<>>,
        turns |-> [c \in {} |-> 0]]

\* A file is any sequence of rows.
AddRow ==
  /\ ds.stage = "file" /\ Len(ds.file) < MaxRows
  /\ \E r \in FileRows : ds' = [ds EXCEPT !.file = Append(@, r)]

Convs(file) == {file[i].conv : i \in DOMAIN file}

\* The rows of a conversation, as positions in the file, sorted by turn.
SortedGroup(file, c) ==
  SetToSortSeq({i \in DOMAIN file : file[i].conv = c},
               LAMBDA i, j : file[i].turn < file[j].turn
                             \/ (file[i].turn = file[j].turn /\ i < j))

-----------------------------------------------------------------------------
(***************************************************************************)
(* Validation                                                              *)
(***************************************************************************)

_validate_conversation_grouping(file) ==
  \A i, j \in DOMAIN file :
    i < j /\ file[i].conv = file[j].conv =>
      \A k \in i..j : file[k].conv = file[i].conv

ValidNext ==
  [start |-> {"user"}, user |-> {"assistant"},
   assistant |-> {"tool", "user"}, tool |-> {"assistant", "user"}]

\* A row after its predecessor: filled is a non-empty content, or tool_results
\* that have ids and a content, which may be null.
RowFits(state, prev, row) ==
  /\ row.role \in ValidNext[state]
  /\ CASE row.role = "tool" -> (state = "assistant" => prev.calls) /\ row.filled
       [] row.role = "assistant" -> row.filled \/ row.calls
       [] row.role = "user" -> row.filled /\ ~(state = "assistant" /\ prev.calls)

_validate_conversation_structure(file, c) ==
  LET g == SortedGroup(file, c)
  IN  /\ RowFits("start", file[g[1]], file[g[1]])
      /\ \A i \in 2..Len(g) : RowFits(file[g[i - 1]].role, file[g[i - 1]], file[g[i]])

_validate_turn_numbering(file, c) ==
  LET g == SortedGroup(file, c) IN \A i \in DOMAIN g : file[g[i]].turn = i

\* __init__
Construct ==
  /\ ds.stage = "file" /\ ds.file # <<>>
  /\ ds' = [ds EXCEPT !.stage =
       IF /\ _validate_conversation_grouping(ds.file)
          /\ \A c \in Convs(ds.file) : /\ _validate_conversation_structure(ds.file, c)
                                       /\ _validate_turn_numbering(ds.file, c)
       THEN "validated" ELSE "refused"]

-----------------------------------------------------------------------------
(***************************************************************************)
(* Preparation                                                             *)
(***************************************************************************)

IsClient(row) == row.role \in {"user", "tool"}

\* _build_conversation_metadata: the client turns of a conversation in turn
\* order, each with the positions of the rows its messages come from: all rows
\* before it and itself.
_build_conversation_metadata(file, c) ==
  LET g == SortedGroup(file, c)
      client == SetToSortSeq({i \in DOMAIN g : IsClient(file[g[i]])}, <)
  IN  [k \in DOMAIN client |->
         [conv |-> c, turn |-> file[g[client[k]]].turn,
          messages |-> SubSeq(g, 1, client[k])]]

\* The conversations in the order of their first rows.
ConvOrder(file) ==
  SetToSortSeq(Convs(file), LAMBDA c, d :
    Min({i \in DOMAIN file : file[i].conv = c}) < Min({i \in DOMAIN file : file[i].conv = d}))

_build_metadata(file) ==
  LET order == ConvOrder(file)
  IN  FlattenSeq([k \in DOMAIN order |-> _build_conversation_metadata(file, order[k])])

\* conv_defaults: stream and the token limit of the first user row in the file.
FirstUser(file, c) ==
  file[Min({i \in DOMAIN file : file[i].conv = c /\ file[i].role = "user"})]

Propagated(file, row) ==
  [stream |-> row.stream \/ FirstUser(file, row.conv).stream,
   limit |-> IF row.limit # 0 THEN row.limit
             ELSE IF FirstUser(file, row.conv).limit # 0 THEN FirstUser(file, row.conv).limit
             ELSE 128]

\* load(): the client rows in file order, each with the messages of its key.
ClientRows(file) == SetToSortSeq({i \in DOMAIN file : IsClient(file[i])}, <)

Prepared(file) ==
  LET rows == ClientRows(file)
      meta == _build_metadata(file)
  IN  [k \in DOMAIN rows |->
         LET row == file[rows[k]]
             own == CHOOSE m \in Range(meta) : m.conv = row.conv /\ m.turn = row.turn
         IN  [row |-> rows[k], messages |-> own.messages, params |-> Propagated(file, row)]]

\* The index of a turn in the prepared samples, from its (conversation, turn) key.
IndexOf(file, m) ==
  LET rows == ClientRows(file)
  IN  (CHOOSE k \in DOMAIN rows : file[rows[k]].conv = m.conv /\ file[rows[k]].turn = m.turn) - 1

\* A null tool result passes the validators and is refused here.
load ==
  /\ ds.stage = "validated"
  /\ IF \E i \in DOMAIN ds.file : ds.file[i].role = "tool" /\ ds.file[i].null
     THEN ds' = [ds EXCEPT !.stage = "refused"]
     ELSE LET meta == _build_metadata(ds.file)
          IN  ds' = [ds EXCEPT
                !.stage = "loaded", !.data = Prepared(ds.file),
                !.samples = [k \in DOMAIN meta |->
                  [conv |-> meta[k].conv, turn |-> meta[k].turn,
                   index |-> IndexOf(ds.file, meta[k])]],
                !.turns = [c \in Convs(ds.file) |->
                             Len(_build_conversation_metadata(ds.file, c))]]

DsNext == AddRow \/ Construct \/ load

-----------------------------------------------------------------------------
\* What the strategy relies on holds for every file that loads, rows out of turn
\* order included: the samples of a conversation come in turn order and as many
\* as it is told; the indexes are a permutation of the prepared samples, and
\* each leads to the sample of that very turn; its messages start with a user
\* message, end with the turn itself, extend those of the conversation's
\* previous client turn by an assistant message, and never hold a tool message
\* without the assistant's call before it.
DatasetIsSchedulable ==
  ds.stage = "loaded" =>
    /\ {ds.samples[k].index : k \in DOMAIN ds.samples} = 0..Len(ds.data) - 1
    /\ Len(ds.samples) = Len(ds.data)
    /\ \A c \in DOMAIN ds.turns :
         ds.turns[c] = Cardinality({k \in DOMAIN ds.samples : ds.samples[k].conv = c})
    /\ \A k \in DOMAIN ds.samples :
         LET s == ds.samples[k]
             d == ds.data[s.index + 1]
             m == d.messages
             own == ds.file[d.row]
         IN  /\ own.conv = s.conv /\ own.turn = s.turn
             /\ Last(m) = d.row /\ ds.file[Head(m)].role = "user"
             /\ \A i \in DOMAIN m : ds.file[m[i]].conv = s.conv /\ ds.file[m[i]].turn = i
             /\ \A i \in DOMAIN m : ds.file[m[i]].role = "tool" =>
                  \E j \in 1..i - 1 : ds.file[m[j]].calls
                    /\ \A h \in j + 1..i : ds.file[m[h]].role = "tool"
             /\ \A i \in DOMAIN m : i < Len(m) /\ ds.file[m[i]].calls =>
                  ds.file[m[i + 1]].role = "tool"
    /\ \A k \in 2..Len(ds.samples) :
         LET s == ds.samples[k - 1]
             t == ds.samples[k]
             before == ds.data[s.index + 1].messages
             after == ds.data[t.index + 1].messages
         IN  s.conv = t.conv =>
               s.turn < t.turn /\ IsStrictPrefix(before, after)
=============================================================================
