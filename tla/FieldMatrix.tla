------------------------------ MODULE FieldMatrix ------------------------------
(***************************************************************************)
(* Which fields of a request or of an answer are transformed, and how:     *)
(* protocols/responses/json_body.py and protocols/messages/json_body.py.   *)
(*                                                                         *)
(* An item is anything with a "type": an input or output item, a content   *)
(* block, the body around them ("request", "response", "error").  A text   *)
(* is one word (Substitution has the texts of several); the content of a   *)
(* field is a set of labelled words, where the label is the key in an      *)
(* object or the type of a part in a list of parts.  Lists within parts    *)
(* are left out, and so are instructions that are a list.                  *)
(***************************************************************************)
EXTENDS Naturals, FiniteSets

CONSTANTS
    Value,      \* sensitive values, each with the alias that stands for it
    None,       \* "no value", "no record", "no label"
    Refused     \* the body is rejected

Plain == <<"plain", None>>

\* A value may be spelled in two ways that normalize to the same record.
Word == {Plain} \cup ({"value", "variant", "alias"} \X Value)


IsRaw(w) == w[1] \in {"value", "variant"}

ContentKind ==
    {"conversation", "tool-definition", "tool-argument", "tool-result", "tool-history"}

Protocol == {"responses", "messages"}

\* What a part of a list may be: a text, a refusal, or something else.
PartType == {"part"} \X {"text", "refusal", "other"}

NoLabel == <<"part", "none">>

\* text: a string.  json: a string that holds a JSON object.  object, list: a
\* JSON value.  parts: a list of typed parts.  other: anything else.
Form == {"text", "json", "object", "list", "parts", "other"}

Content == [form : Form, words : SUBSET ((Word \cup PartType \cup {NoLabel}) \X Word)]

ASSUME MatrixAssumption == Refused \notin Word /\ Refused \notin Content

WordsOf(content) ==
    {e[2] : e \in content.words} \cup (Word \cap {e[1] : e \in content.words})

-----------------------------------------------------------------------------
(***************************************************************************)
(* A rule says of one field what it may hold, whether it may be absent,    *)
(* whether keys are transformed, and which parts of a list are.            *)
(***************************************************************************)
Rule(field, kind, forms, absent, keys, parts) ==
    [field |-> field, kind |-> kind, forms |-> forms, absent |-> absent,
     keys |-> keys, parts |-> {"part"} \X parts]

RequiredString(field, kind) == Rule(field, kind, {"text"}, FALSE, FALSE, {})
OptionalString(field, kind) == Rule(field, kind, {"text"}, TRUE, FALSE, {})
InnerJson(field, kind) == Rule(field, kind, {"json"}, FALSE, TRUE, {})
Recursive(field, kind, forms, absent, keys) ==
    Rule(field, kind, forms, absent, keys, {"text", "refusal", "other"})
TypedParts(field, kind, forms, absent, parts) ==
    Rule(field, kind, forms, absent, FALSE, parts)

\* Of one field: every eligible text is transformed, and two keys may not
\* become one.
TransformedContent(rule, content, transform) ==
    LET apply == transform[rule.kind]
        label(e) == IF rule.keys /\ e[1] \in Word THEN apply[e[1]] ELSE e[1]
        text(e) == IF content.form = "parts" /\ e[1] \notin rule.parts
                   THEN e[2] ELSE apply[e[2]]
        refused ==
            \/ content.form \notin rule.forms
            \/ \E e \in content.words : Refused \in {label(e), text(e)}
            \/ \E e1, e2 \in content.words : e1[1] # e2[1] /\ label(e1) = label(e2)
    IN  IF refused THEN Refused
        ELSE [content EXCEPT !.words = {<<label(e), text(e)>> : e \in content.words}]

\* Of one item: fields without a rule stay as they are, and one refusal
\* refuses the whole.
Transformed(rules, item, transform) ==
    LET fields == [f \in DOMAIN item.fields |->
                     IF \E r \in rules : r.field = f
                     THEN TransformedContent(CHOOSE r \in rules : r.field = f,
                                             item.fields[f], transform)
                     ELSE item.fields[f]]
    IN  IF \/ \E r \in rules : ~r.absent /\ r.field \notin DOMAIN item.fields
           \/ \E f \in DOMAIN fields : fields[f] = Refused
        THEN Refused
        ELSE [item EXCEPT !.fields = fields]

-----------------------------------------------------------------------------
(***************************************************************************)
(* The matrices.  A type without a rule is opaque.                         *)
(***************************************************************************)
\* _transform_item; the same for what is sent and what is received.
ResponsesItem(type) ==
    CASE type = "message" ->
            {TypedParts("content", "conversation", {"text", "parts"}, TRUE, {"text", "refusal"})}
      [] type = "function_call_output" ->
            {Recursive("output", "tool-result", {"text", "list", "parts"}, FALSE, FALSE)}
      [] type \in {"function_call", "mcp_call"} ->
            {InnerJson("arguments", "tool-argument"), OptionalString("name", "tool-definition")}
      [] type = "custom_tool_call" ->
            {RequiredString("input", "tool-argument"), OptionalString("name", "tool-definition")}
      [] type = "reasoning" ->
            {TypedParts(f, "conversation", {"parts"}, TRUE, {"text"}) : f \in {"summary", "content"}}
      [] OTHER -> {}

\* _transform_request; a string input is a message.
ResponsesRequest(type) ==
    IF type = "request"
    THEN {OptionalString("instructions", "conversation"),
          Recursive("tools", "tool-definition", {"object", "list"}, TRUE, TRUE),
          Recursive("variables", "conversation", {"object", "list", "text"}, TRUE, FALSE)}
    ELSE ResponsesItem(type)

\* _transform_response
ResponsesResponse(type) ==
    IF type = "response"
    THEN {OptionalString(f, "conversation") : f \in {"instructions", "message"}}
    ELSE ResponsesItem(type)

\* _transform_tool_result
ToolResult == {TypedParts("content", "tool-result", {"text", "parts"}, TRUE, {"text"})}

\* _transform_document: "data" is a source of type text, "source" one of type content.
Document ==
    {OptionalString(f, "conversation") : f \in {"title", "context", "data"}}
        \cup {TypedParts("source", "conversation", {"text", "parts"}, TRUE, {"text"})}

\* _transform_input_block
MessagesBlock(type) ==
    CASE type = "text" -> {RequiredString("text", "conversation")}
      [] type = "tool_use" ->
            {RequiredString("name", "tool-history"),
             Recursive("input", "tool-history", {"object"}, FALSE, TRUE)}
      [] type = "tool_result" -> ToolResult
      [] type = "document" -> Document
      [] type = "search_result" ->
            {OptionalString("title", "conversation"),
             TypedParts("content", "conversation", {"text", "parts"}, TRUE, {"text"})}
      [] OTHER -> {}

\* _transform_request; the content of a message is a string or its blocks.
MessagesRequest(type) ==
    IF type = "request"
    THEN {TypedParts("system", "conversation", {"text", "parts"}, TRUE, {"text"}),
          Recursive("tools", "tool-definition", {"object", "list"}, TRUE, TRUE)}
    ELSE MessagesBlock(type)

\* Seeded fault: the thinking of the model is restored too.
OutputBlock_RestoresThinking(type) ==
    CASE type \in {"text", "thinking"} -> {RequiredString("text", "conversation")}
      [] type = "tool_use" ->
            {RequiredString("name", "tool-definition"),
             Recursive("input", "tool-argument", {"object"}, TRUE, TRUE)}
      [] OTHER -> {}

\* Seeded fault: the input of a tool is left as the provider wrote it.
OutputBlock_KeepsInputs(type) ==
    CASE type = "text" -> {RequiredString("text", "conversation")}
      [] type = "tool_use" -> {RequiredString("name", "tool-definition")}
      [] OTHER -> {}

\* _transform_output_block
OutputBlock(type) ==
    CASE type = "text" -> {RequiredString("text", "conversation")}
      [] type = "tool_use" ->
            {RequiredString("name", "tool-definition"),
             Recursive("input", "tool-argument", {"object"}, TRUE, TRUE)}
      [] OTHER -> {}

\* _transform_response
MessagesResponse(type) ==
    IF type = "response" THEN {OptionalString("message", "conversation")} ELSE OutputBlock(type)

Rules(protocol, direction, type) ==
    CASE protocol = "responses" /\ direction = "to-provider" -> ResponsesRequest(type)
      [] protocol = "responses" /\ direction = "to-local" -> ResponsesResponse(type)
      [] protocol = "messages" /\ direction = "to-provider" -> MessagesRequest(type)
      [] protocol = "messages" /\ direction = "to-local" -> MessagesResponse(type)
=============================================================================
