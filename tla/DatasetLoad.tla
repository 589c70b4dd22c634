----------------------------- MODULE DatasetLoad -----------------------------
(***************************************************************************)
(* From a dataset entry of the configuration to the requests of a run: the *)
(* factory picks a loader and its transforms, Dataset.load adds those of   *)
(* the API's adapter, the warm-up salts a clone, and the adapter encodes   *)
(* what load_sample hands out.                                             *)
(*                                                                         *)
(* A table is a sequence of column names, in which a rename may repeat one,*)
(* and rows of cells.  A cell is its kind, the column of the source it     *)
(* comes from, and its salt, 0 for none.                                   *)
(***************************************************************************)
EXTENDS Integers, Sequences, SequencesExt, FiniteSets

CONSTANTS
  Entries,    \* dataset entries, see create_loader for their fields
  MaxLoaded  \* bound on the samples a run draws

VARIABLE dl

Refused == [cols |-> <<>>, rows |-> <<>>]
Cell(kind, of) == [kind |-> kind, of |-> of, salt |-> 0]

Has(table, c) == c \in Range(table.cols)

\* to_dict(orient="records"): of two columns of one name the last one stays.
Record(cols, row) ==
  [c \in Range(cols) |-> row[Max({i \in DOMAIN cols : cols[i] = c})]]

-----------------------------------------------------------------------------
(***************************************************************************)
(* Transforms                                                              *)
(***************************************************************************)

\* A column is set in every row, in place or as a new last column.
SetColumn(table, c, cells) ==
  IF Has(table, c)
  THEN [table EXCEPT !.rows = [r \in DOMAIN @ |->
         [i \in DOMAIN table.cols |-> IF table.cols[i] = c THEN cells[r] ELSE @[r][i]]]]
  ELSE [cols |-> Append(table.cols, c),
        rows |-> [r \in DOMAIN table.rows |-> Append(table.rows[r], cells[r])]]

Everywhere(table, cell) == [r \in DOMAIN table.rows |-> cell]

AddStaticColumns(table, names) ==
  FoldLeft(LAMBDA t, c : SetColumn(t, c, Everywhere(t, Cell("static", c))), table, names)

ColumnFilter(table, required, optional) ==
  LET keep == SetToSortSeq({i \in DOMAIN table.cols :
                              table.cols[i] \in required \cup optional}, <)
      Pick(s) == [k \in DOMAIN keep |-> s[keep[k]]]
  IN  IF required \subseteq Range(table.cols)
      THEN [cols |-> Pick(table.cols),
            rows |-> [r \in DOMAIN table.rows |-> Pick(table.rows[r])]]
      ELSE Refused

Renamed(table, pairs) ==
  [table EXCEPT !.cols = [i \in DOMAIN @ |->
     IF \E p \in pairs : p[1] = @[i] THEN (CHOOSE p \in pairs : p[1] = @[i])[2] ELSE @[i]]]

\* Explicit names, strict: each must be there.
ColumnRemap(table, pairs) ==
  IF \A p \in pairs : Has(table, p[1]) THEN Renamed(table, pairs) ELSE Refused

\* Candidate names, strict: at most one may be there, none is no error.
MakeAdapterCompatible(table) ==
  LET found == {"user_prompt", "question", "input"} \cap Range(table.cols)
  IN  IF Cardinality(found) > 1 THEN Refused
      ELSE Renamed(table, {<<c, "prompt">> : c \in found} \cup {<<"system_prompt", "system">>})

\* Row processors; one that finds two columns of a name it reads, or lacks
\* one, or harmonizes what is not text, raises.
ReadsOne(table, c) == Cardinality({i \in DOMAIN table.cols : table.cols[i] = c}) = 1

UserPromptFormatter(table, fields) ==
  IF \A c \in fields : ReadsOne(table, c)
  THEN SetColumn(table, "prompt", Everywhere(table, Cell("text", "format")))
  ELSE Refused

ShopifyMultimodalFormatter(table) ==
  SetColumn(SetColumn(table, "system", Everywhere(table, Cell("text", "format"))),
            "prompt", Everywhere(table, Cell("list", "format")))

HarmonizeRow(table) ==
  LET prompt(r) == Record(table.cols, table.rows[r])["prompt"]
  IN  IF ReadsOne(table, "prompt") /\ \A r \in DOMAIN table.rows : prompt(r).kind = "text"
      THEN SetColumn(table, "input_tokens",
                     [r \in DOMAIN table.rows |-> Cell("tokens", prompt(r).of)])
      ELSE Refused

\* Fused with a neighbour, Harmonize no longer looks for existing tokens.
Harmonize(table, fused) ==
  IF Has(table, "input_tokens") /\ ~fused THEN table ELSE HarmonizeRow(table)

IsRowProcessor(t) == t.op \in {"format", "multimodal", "harmonize"}

Transformed(table, t, fused) ==
  IF table = Refused THEN Refused
  ELSE CASE t.op = "static"     -> AddStaticColumns(table, t.names)
         [] t.op = "filter"     -> ColumnFilter(table, t.required, t.optional)
         [] t.op = "remap"      -> ColumnRemap(table, t.pairs)
         [] t.op = "compatible" -> MakeAdapterCompatible(table)
         [] t.op = "format"     -> UserPromptFormatter(table, t.fields)
         [] t.op = "multimodal" -> ShopifyMultimodalFormatter(table)
         [] t.op = "harmonize"  -> Harmonize(table, fused)

\* Neighbouring row processors are fused into one.
apply_transforms(table, ts) ==
  LET Fused(i) == /\ IsRowProcessor(ts[i])
                  /\ \E j \in {i - 1, i + 1} \cap DOMAIN ts : IsRowProcessor(ts[j])
  IN  FoldLeft(LAMBDA t, i : Transformed(t, ts[i], Fused(i)), table,
               [i \in DOMAIN ts |-> i])

-----------------------------------------------------------------------------
(***************************************************************************)
(* Presets and adapters                                                    *)
(***************************************************************************)
Static(names) == [op |-> "static", names |-> names]
Filter(required, optional) == [op |-> "filter", required |-> required, optional |-> optional]

gptoss == <<[op |-> "format", fields |-> {"question"}]>>
llama3_8b == <<[op |-> "format", fields |-> {"article"}], Static(<<"chat_template">>)>>
llama2_70b == <<[op |-> "remap", pairs |-> {<<"question", "prompt">>, <<"system_prompt", "system">>}]>>
function_calling == <<Filter({"messages", "tools", "tool_choice"}, {})>>
q3vl == <<[op |-> "multimodal"]>>

PRESETS ==
  [gptoss |-> gptoss, llama3_8b |-> llama3_8b, llama2_70b |-> llama2_70b,
   function_calling |-> function_calling, q3vl |-> q3vl]

openai_transforms ==
  <<Filter({"prompt"}, {"system", "messages", "tools", "tool_choice", "chat_template"}),
    Static(<<"model">>)>>
completions_transforms ==
  <<[op |-> "harmonize"], Filter({"input_tokens"}, {"model"}), Static(<<"model">>)>>
sglang_transforms ==
  <<[op |-> "harmonize"], Filter({"input_tokens"}, {}), Static(<<"max_new_tokens">>)>>
videogen_transforms == <<Filter({"prompt"}, {"negative_prompt"})>>

get_transforms_for_api_type ==
  [openai |-> openai_transforms, openai_completions |-> completions_transforms,
   sglang |-> sglang_transforms, videogen |-> videogen_transforms]

Apis == DOMAIN get_transforms_for_api_type

-----------------------------------------------------------------------------
(***************************************************************************)
(* Loading.  An entry is [parts, predefined, generates, path, reads,       *)
(* parser, agentic, accuracy_only, table]: parts is its name split at "::",*)
(* reads tells that its format or extension has a loader, parser holds     *)
(* target-source pairs, table is what is read or generated.                *)
(***************************************************************************)
DlIdle == dl = [stage |-> "idle"]

DlInit ==
  \E e \in Entries, api \in Apis, accuracy, warmup, salt \in BOOLEAN :
    dl = [stage |-> "entry", entry |-> e, api |-> api, accuracy |-> accuracy,
          warmup |-> ~accuracy /\ warmup, salt |-> salt,
          own |-> <<>>, data |-> <<>>, salts |-> 0, sent |-> {}]

HasFilter(ts) == \E i \in DOMAIN ts : ts[i].op = "filter"

\* A predefined dataset is generated, any other one read from its path.
create_loader ==
  LET e == dl.entry
      preset == IF Len(e.parts) = 2 THEN e.parts[2] ELSE "none"
      remap == IF e.parser = {} THEN <<>>
               ELSE <<[op |-> "remap", pairs |-> {<<p[2], p[1]>> : p \in e.parser}]>>
      accepted == /\ Len(e.parts) <= 2
                  /\ ~(~dl.accuracy /\ e.accuracy_only)
                  /\ IF e.predefined
                     THEN e.generates /\ preset \in DOMAIN PRESETS \cup {"none"}
                     ELSE e.path /\ e.reads
      own == CASE e.predefined /\ preset = "none" -> <<>>
               [] e.predefined /\ preset # "none" -> PRESETS[preset]
               [] OTHER -> remap \o <<[op |-> "compatible"]>>
  IN  /\ dl.stage = "entry"
      /\ dl' = IF ~accepted THEN [dl EXCEPT !.stage = "refused"]
               ELSE IF e.agentic /\ ~e.predefined THEN [dl EXCEPT !.stage = "agentic"]
               ELSE [dl EXCEPT !.stage = "created", !.own = own]

\* A dataset's own projection replaces the adapter's.  An empty table has no
\* first row to look at.
Dataset_load ==
  LET adapter == SelectSeq(get_transforms_for_api_type[dl.api],
                           LAMBDA t : ~(HasFilter(dl.own) /\ t.op = "filter"))
      table == apply_transforms(dl.entry.table, dl.own \o adapter)
  IN  /\ dl.stage = "created"
      /\ dl' = IF table = Refused \/ table.rows = <<>> THEN [dl EXCEPT !.stage = "refused"]
               ELSE [dl EXCEPT !.stage = "loaded",
                       !.data = [r \in DOMAIN table.rows |-> Record(table.cols, table.rows[r])]]

_check_unsaltable(sample) ==
  \/ {"input_tokens", "messages"} \cap DOMAIN sample # {}
  \/ "prompt" \notin DOMAIN sample
  \/ sample.prompt.kind # "text"

\* At set-up, and again in with_salt: every sample or none.
validate_saltable ==
  /\ dl.stage = "loaded"
  /\ dl' = [dl EXCEPT !.stage =
       IF dl.warmup /\ dl.salt /\ \E i \in DOMAIN dl.data : _check_unsaltable(dl.data[i])
       THEN "refused" ELSE "running"]

_apply_salt(sample, n) == [sample EXCEPT !.prompt.salt = n]

-----------------------------------------------------------------------------
(***************************************************************************)
(* Requests: the cell an adapter puts into the request as its input, none  *)
(* when encode_query raises.                                               *)
(***************************************************************************)
encode_query(api, d) ==
  CASE api = "openai" -> IF "messages" \in DOMAIN d THEN {d.messages}
                         ELSE IF "prompt" \in DOMAIN d THEN {d.prompt} ELSE {}
    [] api \in {"openai_completions", "sglang"} ->
         IF "input_tokens" \in DOMAIN d THEN {d.input_tokens} ELSE {}
    [] api = "videogen" ->
         IF "prompt" \in DOMAIN d /\ d.prompt.kind = "text" THEN {d.prompt} ELSE {}

\* The warm-up phase draws from the salted clone, the others from the dataset
\* itself, whose samples the clone shares.
load_sample(salted) ==
  /\ dl.stage = "running" /\ Cardinality(dl.sent) < MaxLoaded
  /\ salted => dl.warmup /\ dl.salt
  /\ \E i \in DOMAIN dl.data :
       LET d == IF salted THEN _apply_salt(dl.data[i], dl.salts + 1) ELSE dl.data[i]
       IN  dl' = [dl EXCEPT !.salts = IF salted THEN @ + 1 ELSE @,
                    !.sent = @ \cup {[sample |-> i, salted |-> salted, nth |-> Cardinality(@),
                                      input |-> encode_query(dl.api, d)]}]

DlNext ==
  \/ create_loader \/ Dataset_load \/ validate_saltable
  \/ \E salted \in BOOLEAN : load_sample(salted)

-----------------------------------------------------------------------------
\* The columns an entry may mean as the model's input.  More than one when the
\* code leaves it open: a file with a prompt column and another one that is
\* renamed to it, or text beside tokens or messages, where the API decides.
Inputs(e) ==
  {p[2] : p \in {p \in e.parser : p[1] = "prompt"}} \cup
  (Range(e.table.cols) \cap
     {"messages", "input_tokens", "prompt", "question", "user_prompt", "input"})

Formats(ts) == \E i \in DOMAIN ts : ts[i].op \in {"format", "multimodal"}

\* What loads can be sent: every sample of an accepted entry encodes for the
\* API of the run, from a column its entry means or what its preset formats,
\* except a preset that brings its own projection to an API that wants another
\* one and a list where a video prompt must be text.  A salted sample reaches
\* the server with a salt no other request has, and no other request has one,
\* although both read the same records.
RequestsCarryTheDataset ==
  \A s \in (IF dl.stage = "running" THEN dl.sent ELSE {}) :
    /\ \/ s.input # {}
       \/ HasFilter(dl.own) /\ dl.api # "openai"
       \/ dl.api = "videogen" /\ dl.data[s.sample].prompt.kind = "list"
    /\ s.salted => s.input # {}
    /\ \A c \in s.input :
         /\ c.of \in IF Formats(dl.own) THEN {"format"} ELSE Inputs(dl.entry)
         /\ (c.salt # 0) = s.salted
         /\ s.salted => \A t \in dl.sent \ {s} : \A o \in t.input : o.salt # c.salt
=============================================================================
