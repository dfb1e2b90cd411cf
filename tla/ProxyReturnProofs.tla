--------------------------- MODULE ProxyReturnProofs ---------------------------
(***************************************************************************)
(* What comes back to the provider, for any values, any requests and any   *)
(* items: an answer is restored by one matrix and protected again by the   *)
(* other one, and the two agree.  So what has been delivered is accepted   *)
(* again, returns as the provider wrote it, and shows the provider no      *)
(* value that it has not written itself.                                   *)
(***************************************************************************)
EXTENDS ProxyProofs

-----------------------------------------------------------------------------
(***************************************************************************)
(* The transformation of one field, entry by entry.                        *)
(***************************************************************************)
Label(rule, apply, e) == IF rule.keys /\ e[1] \in Word THEN apply[e[1]] ELSE e[1]

Text(rule, form, apply, e) ==
    IF form = "parts" /\ e[1] \notin rule.parts THEN e[2] ELSE apply[e[2]]

NewWords(rule, content, apply) ==
    {<<Label(rule, apply, e), Text(rule, content.form, apply, e)>> : e \in content.words}

Accepts(rule, content, apply) ==
    /\ content.form \in rule.forms
    /\ \A e \in content.words :
          Label(rule, apply, e) # Refused /\ Text(rule, content.form, apply, e) # Refused
    /\ \A e1, e2 \in content.words :
          Label(rule, apply, e1) = Label(rule, apply, e2) => e1[1] = e2[1]

LEMMA EntryTyped ==
    ASSUME NEW content \in Content, NEW e \in content.words
    PROVE  /\ e = <<e[1], e[2]>>
           /\ e[1] \in Word \cup PartType \cup {NoLabel}
           /\ e[2] \in Word /\ e[2] \in WordsOf(content)
           /\ e[1] \in Word => e[1] \in WordsOf(content)
BY DEF Content, WordsOf

LEMMA ContentCases ==
    ASSUME NEW rule, NEW content \in Content, NEW transform, Maps(transform[rule.kind])
    PROVE  LET apply == transform[rule.kind]
               out == TransformedContent(rule, content, transform)
           IN  /\ out # Refused <=> Accepts(rule, content, apply)
               /\ out # Refused =>
                     /\ out \in Content
                     /\ out = [form |-> content.form, words |-> NewWords(rule, content, apply)]
<1> DEFINE apply == transform[rule.kind]
<1> DEFINE out == TransformedContent(rule, content, transform)
<1> DEFINE new == [form |-> content.form, words |-> NewWords(rule, content, apply)]
<1>1. [content EXCEPT !.words = NewWords(rule, content, apply)] = new
  BY WordsReplaced
<1>2. out = IF Accepts(rule, content, apply)
            THEN [content EXCEPT !.words = NewWords(rule, content, apply)] ELSE Refused
  <2>1. CASE Accepts(rule, content, apply)
    BY <2>1 DEF TransformedContent, Accepts, Label, Text, NewWords
  <2>2. CASE ~Accepts(rule, content, apply)
    BY <2>2 DEF TransformedContent, Accepts, Label, Text
  <2> QED BY <2>1, <2>2
<1>3. ASSUME Accepts(rule, content, apply) PROVE new \in Content
  <2>1. content.form \in Form
    BY DEF Content
  <2>2. NewWords(rule, content, apply) \subseteq (Word \cup PartType \cup {NoLabel}) \X Word
    BY <1>3, EntryTyped DEF NewWords, Accepts, Label, Text, Maps
  <2> QED BY <2>1, <2>2 DEF Content
<1> QED BY <1>1, <1>2, <1>3, MatrixAssumption

\* Transformations that agree on the words of a field do the same to it.
LEMMA ContentAgrees ==
    ASSUME NEW rule, NEW content \in Content, NEW one, NEW other,
           \A w \in WordsOf(content) : one[rule.kind][w] = other[rule.kind][w]
    PROVE  TransformedContent(rule, content, one) = TransformedContent(rule, content, other)
<1> DEFINE a == one[rule.kind]
<1> DEFINE b == other[rule.kind]
<1>1. \A e \in content.words :
         /\ Label(rule, a, e) = Label(rule, b, e)
         /\ Text(rule, content.form, a, e) = Text(rule, content.form, b, e)
  BY EntryTyped DEF Label, Text
<1>2. Accepts(rule, content, a) <=> Accepts(rule, content, b)
  BY <1>1 DEF Accepts
<1>3. NewWords(rule, content, a) = NewWords(rule, content, b)
  BY <1>1 DEF NewWords
<1>4. ASSUME NEW transform
      PROVE  TransformedContent(rule, content, transform) =
               IF Accepts(rule, content, transform[rule.kind])
               THEN [content EXCEPT !.words = NewWords(rule, content, transform[rule.kind])]
               ELSE Refused
  <2>1. CASE Accepts(rule, content, transform[rule.kind])
    BY <2>1 DEF TransformedContent, Accepts, Label, Text, NewWords
  <2>2. CASE ~Accepts(rule, content, transform[rule.kind])
    BY <2>2 DEF TransformedContent, Accepts, Label, Text
  <2> QED BY <2>1, <2>2
<1> QED BY <1>2, <1>3, <1>4

-----------------------------------------------------------------------------
(***************************************************************************)
(* The transformation of an item, field by field.                          *)
(***************************************************************************)
Ruled(rules, f) == \E r \in rules : r.field = f

LEMMA RuleForFacts ==
    ASSUME NEW rules, NEW f, Ruled(rules, f)
    PROVE  RuleFor(rules, f) \in rules /\ RuleFor(rules, f).field = f
BY DEF Ruled, RuleFor

LEMMA ItemTyped ==
    ASSUME NEW item, IsItem(item)
    PROVE  item # None /\ item # Refused
<1>1. item = [type |-> item.type, fields |-> item.fields]
  BY DEF IsItem
<1>2. item.fields \in [DOMAIN item.fields -> Content] /\ DOMAIN item.fields \in SUBSET FieldName
  BY DEF IsItem
<1>3. item \in Item
  BY <1>1, <1>2 DEF Item, IsItem
<1> QED BY <1>3, ProxyAssumption

LEMMA ItemCases ==
    ASSUME NEW rules, Typed(rules), NEW item, IsItem(item), NEW transform,
           \A kind \in ContentKind : Maps(transform[kind])
    PROVE  LET out == Transformed(rules, item, transform)
               one(f) == TransformedContent(RuleFor(rules, f), item.fields[f], transform)
           IN  /\ out # Refused <=>
                     /\ \A r \in rules : r.absent \/ r.field \in DOMAIN item.fields
                     /\ \A f \in DOMAIN item.fields : Ruled(rules, f) => one(f) # Refused
               /\ out # Refused =>
                     /\ IsItem(out) /\ out.type = item.type
                     /\ DOMAIN out.fields = DOMAIN item.fields
                     /\ \A f \in DOMAIN item.fields :
                           out.fields[f] = IF Ruled(rules, f) THEN one(f) ELSE item.fields[f]
<1> DEFINE one(f) == TransformedContent(RuleFor(rules, f), item.fields[f], transform)
<1> DEFINE fields == [f \in DOMAIN item.fields |-> IF Ruled(rules, f) THEN one(f) ELSE item.fields[f]]
<1> DEFINE out == Transformed(rules, item, transform)
<1> DEFINE refused == \/ \E r \in rules : ~r.absent /\ r.field \notin DOMAIN item.fields
                      \/ \E f \in DOMAIN fields : fields[f] = Refused
<1>1. out = IF refused THEN Refused ELSE [item EXCEPT !.fields = fields]
  BY DEF Transformed, RuleFor, Ruled
<1>3. ASSUME NEW f \in DOMAIN item.fields
      PROVE  /\ item.fields[f] \in Content /\ item.fields[f] # Refused
             /\ Ruled(rules, f) /\ one(f) # Refused => one(f) \in Content
  <2>1. item.fields[f] \in Content
    BY DEF IsItem
  <2>2. Ruled(rules, f) => Maps(transform[RuleFor(rules, f).kind])
    BY RuleForFacts DEF Typed
  <2> QED BY <2>1, <2>2, ContentCases, MatrixAssumption
<1>4. refused <=> ~(/\ \A r \in rules : r.absent \/ r.field \in DOMAIN item.fields
                    /\ \A f \in DOMAIN item.fields : Ruled(rules, f) => one(f) # Refused)
  BY <1>3
<1>5. ASSUME ~refused
      PROVE  /\ [item EXCEPT !.fields = fields] = [type |-> item.type, fields |-> fields]
             /\ IsItem([item EXCEPT !.fields = fields])
  <2>1. fields \in [DOMAIN item.fields -> Content]
    BY <1>3, <1>5
  <2> HIDE DEF fields, refused
  <2> QED BY <2>1, FieldsReplaced
<1> HIDE DEF refused
<1>6. out # Refused <=> ~refused
  BY <1>1, <1>5, ItemTyped
<1> QED BY <1>1, <1>4, <1>5, <1>6

LEMMA ItemAgrees ==
    ASSUME NEW rules, NEW item, IsItem(item), NEW one, NEW other,
           Typed(rules),
           \A kind \in ContentKind : \A w \in ItemWords(item) : one[kind][w] = other[kind][w]
    PROVE  Transformed(rules, item, one) = Transformed(rules, item, other)
<1>1. ASSUME NEW f \in DOMAIN item.fields, Ruled(rules, f)
      PROVE  TransformedContent(RuleFor(rules, f), item.fields[f], one) =
             TransformedContent(RuleFor(rules, f), item.fields[f], other)
  <2>1. RuleFor(rules, f).kind \in ContentKind
    BY <1>1, RuleForFacts DEF Typed
  <2>2. item.fields[f] \in Content /\ WordsOf(item.fields[f]) \subseteq ItemWords(item)
    BY DEF IsItem, ItemWords
  <2> QED BY <2>1, <2>2, ContentAgrees
<1> DEFINE fields(t) ==
      [f \in DOMAIN item.fields |->
         IF Ruled(rules, f) THEN TransformedContent(RuleFor(rules, f), item.fields[f], t)
         ELSE item.fields[f]]
<1>2. fields(one) = fields(other)
  BY <1>1
<1>3. ASSUME NEW t
      PROVE  Transformed(rules, item, t) =
               IF \/ \E r \in rules : ~r.absent /\ r.field \notin DOMAIN item.fields
                  \/ \E f \in DOMAIN fields(t) : fields(t)[f] = Refused
               THEN Refused ELSE [item EXCEPT !.fields = fields(t)]
  BY DEF Transformed, RuleFor, Ruled
<1> HIDE DEF fields
<1> QED BY <1>2, <1>3

-----------------------------------------------------------------------------
(***************************************************************************)
(* The matrices.                                                           *)
(***************************************************************************)
\* A part of a list is not a word.
PartsOnly(rules) == \A r \in rules : r.parts \cap Word = {}

LEMMA RuleParts ==
    ASSUME NEW field, NEW kind, NEW forms, NEW absent, NEW keys, NEW parts
    PROVE  Rule(field, kind, forms, absent, keys, parts).parts \cap Word = {}
BY DEF Rule, Word, Plain

LEMMA ConstructedParts ==
    ASSUME NEW field, NEW kind, NEW forms, NEW absent, NEW keys, NEW parts
    PROVE  /\ Recursive(field, kind, forms, absent, keys).parts \cap Word = {}
           /\ TypedParts(field, kind, forms, absent, parts).parts \cap Word = {}
           /\ InnerJson(field, kind).parts \cap Word = {}
           /\ OptionalString(field, kind).parts \cap Word = {}
           /\ RequiredString(field, kind).parts \cap Word = {}
BY RuleParts, Zenon DEF Recursive, TypedParts, InnerJson, OptionalString, RequiredString

LEMMA RequestParts ==
    ASSUME NEW p \in Protocol, NEW type
    PROVE  PartsOnly(Rules(p, "to-provider", type))
<1>1. PartsOnly(ResponsesItem(type))
  <2>1. CASE type = "reasoning"
    <3> SUFFICES ASSUME NEW r \in ResponsesItem(type) PROVE r.parts \cap Word = {}
      BY DEF PartsOnly
    <3>1. PICK f \in {"summary", "content"} :
            r = TypedParts(f, "conversation", {"parts"}, TRUE, {"text"})
      BY <2>1 DEF ResponsesItem
    <3> QED BY <3>1, RuleParts, Zenon DEF TypedParts
  <2>2. CASE type # "reasoning"
    BY <2>2, ConstructedParts DEF PartsOnly, ResponsesItem
  <2> QED BY <2>1, <2>2
<1>2. PartsOnly(ResponsesRequest(type))
  BY <1>1, ConstructedParts DEF PartsOnly, ResponsesRequest
<1>3. PartsOnly(MessagesBlock(type))
  BY ConstructedParts DEF PartsOnly, MessagesBlock, ToolResult, Document
<1>4. PartsOnly(MessagesRequest(type))
  BY <1>3, ConstructedParts DEF PartsOnly, MessagesRequest
<1> QED BY <1>2, <1>4 DEF Rules, Protocol

\* What is protected under each policy is conversation, the rest is tool data;
\* and keys are transformed in tool data only.
Placed(rules, type) ==
    \A r \in rules :
        /\ r.kind = "conversation" \/ <<type, r.field>> \in ToolData
        /\ r.keys => r.kind # "conversation"

LEMMA ResponsesItemPlaced ==
    ASSUME NEW type
    PROVE  Placed(ResponsesItem(type), type)
<1>1. CASE type = "message"
  BY <1>1 DEF Placed, ResponsesItem, TypedParts, Rule
<1>2. CASE type = "function_call_output"
  BY <1>2 DEF Placed, ResponsesItem, Recursive, Rule, ToolData
<1>3. CASE type \in {"function_call", "mcp_call"}
  <2> DEFINE arguments == InnerJson("arguments", "tool-argument")
  <2> DEFINE name == OptionalString("name", "tool-definition")
  <2>1. ResponsesItem(type) = {arguments, name}
    BY <1>3 DEF ResponsesItem
  <2>2. Placed({arguments}, type)
    BY <1>3 DEF Placed, ToolData, InnerJson, Rule
  <2>3. Placed({name}, type)
    BY <1>3 DEF Placed, ToolData, OptionalString, Rule
  <2> QED BY <2>1, <2>2, <2>3 DEF Placed
<1>4. CASE type = "custom_tool_call"
  BY <1>4 DEF Placed, ResponsesItem, RequiredString, OptionalString, Rule, ToolData
<1>5. CASE type = "reasoning"
  <2> SUFFICES ASSUME NEW r \in ResponsesItem(type)
               PROVE  r.kind = "conversation" /\ ~r.keys
    BY DEF Placed
  <2>1. PICK f \in {"summary", "content"} :
          r = TypedParts(f, "conversation", {"parts"}, TRUE, {"text"})
    BY <1>5 DEF ResponsesItem
  <2> QED BY <2>1 DEF TypedParts, Rule
<1>6. CASE type \notin {"message", "function_call_output", "function_call", "mcp_call",
                        "custom_tool_call", "reasoning"}
  BY <1>6 DEF Placed, ResponsesItem
<1> QED BY <1>1, <1>2, <1>3, <1>4, <1>5, <1>6

LEMMA MessagesBlockPlaced ==
    ASSUME NEW type
    PROVE  Placed(MessagesBlock(type), type)
<1>1. CASE type = "text"
  BY <1>1 DEF Placed, MessagesBlock, RequiredString, Rule
<1>2. CASE type = "tool_use"
  BY <1>2 DEF Placed, MessagesBlock, Recursive, Rule, RequiredString, ToolData
<1>3. CASE type = "tool_result"
  BY <1>3 DEF Placed, MessagesBlock, ToolResult, TypedParts, Rule, ToolData
<1>4. CASE type = "document"
  BY <1>4 DEF Placed, MessagesBlock, Document, TypedParts, OptionalString, Rule
<1>5. CASE type = "search_result"
  BY <1>5 DEF Placed, MessagesBlock, TypedParts, OptionalString, Rule
<1>6. CASE type \notin {"text", "tool_use", "tool_result", "document", "search_result"}
  BY <1>6 DEF Placed, MessagesBlock
<1> QED BY <1>1, <1>2, <1>3, <1>4, <1>5, <1>6

LEMMA RequestRules ==
    ASSUME NEW p \in Protocol, NEW type
    PROVE  Placed(Rules(p, "to-provider", type), type)
<1>1. CASE type = "request" /\ p = "responses"
  BY <1>1 DEF Rules, Placed, ResponsesRequest, Recursive, Rule, OptionalString, ToolData
<1>2. CASE type = "request" /\ p = "messages"
  BY <1>2 DEF Rules, Placed, MessagesRequest, Recursive, Rule, TypedParts, Rule, ToolData
<1>3. CASE type # "request"
  BY <1>3, ResponsesItemPlaced, MessagesBlockPlaced DEF Rules, Protocol, ResponsesRequest, MessagesRequest
<1> QED BY <1>1, <1>2, <1>3 DEF Protocol

\* What the provider writes and what it is sent again agree: the same fields,
\* keys and parts, and what an answer may be a request may be.
Agree(in, out, type) ==
    \A f : /\ Ruled(in, f) <=> Ruled(out, f)
           /\ Ruled(in, f) =>
                /\ RuleFor(in, f).keys = RuleFor(out, f).keys
                /\ RuleFor(in, f).parts = RuleFor(out, f).parts
                /\ RuleFor(in, f).forms \subseteq RuleFor(out, f).forms
           /\ \A s \in out : s.field = f /\ ~s.absent =>
                \/ \E r \in in : r.field = f /\ ~r.absent
                \/ type = "tool_use" /\ f = "input"

InputOnly(p) ==
    {"request"} \cup (IF p = "messages" THEN {"tool_result", "document", "search_result"} ELSE {})

LEMMA ToolUseAgrees == Agree(OutputBlock("tool_use"), MessagesBlock("tool_use"), "tool_use")
<1> DEFINE name(kind) == RequiredString("name", kind)
<1> DEFINE input(kind, absent) == Recursive("input", kind, {"object"}, absent, TRUE)
<1>1. /\ OutputBlock("tool_use") = {name("tool-definition"), input("tool-argument", TRUE)}
      /\ MessagesBlock("tool_use") = {name("tool-history"), input("tool-history", FALSE)}
  BY DEF OutputBlock, MessagesBlock
<1>2. /\ name("tool-definition").field = "name" /\ name("tool-history").field = "name"
      /\ name("tool-definition").keys = name("tool-history").keys
      /\ name("tool-definition").parts = name("tool-history").parts
      /\ name("tool-definition").forms = name("tool-history").forms
      /\ ~name("tool-definition").absent
  BY DEF RequiredString, Rule
<1>3. /\ input("tool-argument", TRUE).field = "input" /\ input("tool-history", FALSE).field = "input"
      /\ input("tool-argument", TRUE).keys = input("tool-history", FALSE).keys
      /\ input("tool-argument", TRUE).parts = input("tool-history", FALSE).parts
      /\ input("tool-argument", TRUE).forms = input("tool-history", FALSE).forms
  BY DEF Recursive, Rule
<1> HIDE DEF name, input
<1>4. ASSUME NEW f, f \in {"name", "input"}
      PROVE  /\ RuleFor(OutputBlock("tool_use"), f)
                  = IF f = "name" THEN name("tool-definition") ELSE input("tool-argument", TRUE)
             /\ RuleFor(MessagesBlock("tool_use"), f)
                  = IF f = "name" THEN name("tool-history") ELSE input("tool-history", FALSE)
  BY <1>1, <1>2, <1>3, <1>4 DEF RuleFor
<1>5. \A f : /\ Ruled(OutputBlock("tool_use"), f) <=> f \in {"name", "input"}
             /\ Ruled(MessagesBlock("tool_use"), f) <=> f \in {"name", "input"}
  BY <1>1, <1>2, <1>3 DEF Ruled
<1> QED BY <1>1, <1>2, <1>3, <1>4, <1>5 DEF Agree

LEMMA SameAgrees ==
    ASSUME NEW rules, NEW type
    PROVE  Agree(rules, rules, type)
BY DEF Agree

LEMMA MatricesAgree ==
    ASSUME NEW p \in Protocol, NEW type, type \notin InputOnly(p), type # "response"
    PROVE  Agree(Rules(p, "to-local", type), Rules(p, "to-provider", type), type)
<1>1. CASE p = "responses"
  <2>1. /\ Rules(p, "to-local", type) = ResponsesItem(type)
        /\ Rules(p, "to-provider", type) = ResponsesItem(type)
    BY <1>1 DEF Rules, InputOnly, ResponsesRequest, ResponsesResponse
  <2> QED BY <2>1, SameAgrees
<1>2. CASE p = "messages"
  <2>1. /\ Rules(p, "to-local", type) = OutputBlock(type)
        /\ Rules(p, "to-provider", type) = MessagesBlock(type)
        /\ type \notin {"tool_result", "document", "search_result"}
    BY <1>2 DEF Rules, InputOnly, MessagesRequest, MessagesResponse
  <2>2. CASE type = "tool_use"
    BY <2>1, <2>2, ToolUseAgrees
  <2>3. CASE type # "tool_use"
    <3>1. OutputBlock(type) = MessagesBlock(type)
      BY <2>1, <2>3 DEF OutputBlock, MessagesBlock
    <3> QED BY <2>1, <3>1, SameAgrees
  <2> QED BY <2>2, <2>3
<1> QED BY <1>1, <1>2 DEF Protocol

-----------------------------------------------------------------------------
(***************************************************************************)
(* One field that is restored and protected again.                         *)
(***************************************************************************)
TypedTable == table \in [Value -> Spelling \cup {None}]

Known(w) == w[1] = "alias" => table[w[2]] # None

LEMMA WordKinds ==
    ASSUME NEW w \in Word
    PROVE  \/ w = Plain /\ w[1] = "plain"
           \/ w = <<w[1], w[2]>> /\ w[1] \in {"value", "variant", "alias"} /\ w[2] \in Value
BY DEF Word, Plain

LEMMA RestoredWord ==
    ASSUME TypedTable, NEW w \in Word, Known(w)
    PROVE  LET back == Restore(table, w)
           IN  /\ back \in Word /\ back[1] # "alias"
               /\ IsRaw(back) =>
                    back = w \/ (w = <<"alias", back[2]>> /\ back = <<table[back[2]], back[2]>>)
               /\ w[1] # "alias" => back = w
<1>1. CASE w[1] = "alias"
  <2>1. w = <<"alias", w[2]>> /\ w[2] \in Value
    BY <1>1, WordKinds DEF Plain
  <2>2. table[w[2]] \in {"value", "variant"}
    BY <1>1, <2>1 DEF Known, TypedTable, Spelling
  <2>3. Restore(table, w) = <<table[w[2]], w[2]>>
    BY <1>1 DEF Restore, Known
  <2> QED BY <1>1, <2>1, <2>2, <2>3 DEF Word
<1>2. CASE w[1] # "alias"
  BY <1>2 DEF Restore
<1> QED BY <1>1, <1>2

LEMMA ProtectedWord ==
    ASSUME NEW known, NEW w \in Word, w[1] # "alias"
    PROVE  /\ Protect(known, w) = IF IsRaw(w) THEN <<"alias", w[2]>> ELSE w
           /\ Protect(known, w) \in Word
           /\ ~IsRaw(Protect(known, w))
<1>1. IsRaw(w) => w[2] \in Value
  BY WordKinds DEF IsRaw, Plain
<1> QED BY <1>1 DEF Protect, IsRaw, Word

\* A known substitute returns, and so does a word that is none.
LEMMA WordReturns ==
    ASSUME TypedTable, NEW w \in Word, Known(w), ~IsRaw(w)
    PROVE  Protect(table, Restore(table, w)) = w
<1>1. CASE w[1] = "alias"
  <2>1. w = <<"alias", w[2]>> /\ w[2] \in Value
    BY <1>1, WordKinds DEF Plain
  <2>2. table[w[2]] \in {"value", "variant"}
    BY <1>1, <2>1 DEF Known, TypedTable, Spelling
  <2>3. Restore(table, w) = <<table[w[2]], w[2]>>
    BY <1>1 DEF Restore, Known
  <2> QED BY <2>1, <2>2, <2>3 DEF Protect, IsRaw
<1>2. CASE w[1] # "alias"
  BY <1>2 DEF Restore, Protect
<1> QED BY <1>1, <1>2

\* What is raw after protection was there before, where it is not applied.
LEMMA RawUnreached ==
    ASSUME NEW rule, rule.kind \in ContentKind, NEW content \in Content, NEW known,
           Protects(rule.kind), NEW out,
           out = TransformedContent(rule, content, ToProvider(known)), out # Refused,
           NEW w \in RawWords(out)
    PROVE  \E e \in content.words :
              \/ e[1] \in Word /\ w = e[1] /\ ~rule.keys
              \/ w = e[2] /\ content.form = "parts" /\ e[1] \notin rule.parts
<1> DEFINE P == ToProvider(known)[rule.kind]
<1>1. \A x \in Word : P[x] = Protect(known, x)
  BY DEF ToProvider
<1> HIDE DEF P
<1>2. \A x \in Word : P[x] # Refused => ~IsRaw(P[x])
  <2> SUFFICES ASSUME NEW x \in Word, Protect(known, x) # Refused
               PROVE  ~IsRaw(Protect(known, x))
    BY <1>1
  <2>1. CASE IsRaw(x)
    BY <2>1 DEF Protect, IsRaw
  <2>2. CASE ~IsRaw(x)
    BY <2>2 DEF Protect
  <2> QED BY <2>1, <2>2
<1>3. Maps(ToProvider(known)[rule.kind])
  BY ProtectMaps
<1>4. /\ Accepts(rule, content, P)
      /\ out = [form |-> content.form, words |-> NewWords(rule, content, P)]
  BY <1>3, ContentCases DEF P
<1>5. PICK e \in content.words :
        \/ w = Text(rule, content.form, P, e)
        \/ w \in Word /\ w = Label(rule, P, e)
  BY <1>4 DEF RawWords, WordsOf, NewWords
<1>6. /\ Label(rule, P, e) # Refused /\ Text(rule, content.form, P, e) # Refused
      /\ e[2] \in Word
  BY <1>4, EntryTyped DEF Accepts
<1>7. IsRaw(w)
  BY DEF RawWords
<1> QED BY <1>2, <1>5, <1>6, <1>7 DEF Label, Text

\* The rules of one field on both ways.
Match(in, out) ==
    /\ in.kind \in ContentKind /\ out.kind \in ContentKind
    /\ in.keys = out.keys /\ in.parts = out.parts /\ in.forms \subseteq out.forms
    /\ out.parts \cap Word = {}
    /\ out.keys => out.kind # "conversation"

\* The entry that restoring leaves of e.
Mid(in, content, e) ==
    <<Label(in, ToLocal(table)[in.kind], e), Text(in, content.form, ToLocal(table)[in.kind], e)>>

LEMMA RestoredEntry ==
    ASSUME TypedTable, NEW in, NEW out, Match(in, out), NEW content \in Content,
           \A w \in WordsOf(content) : Known(w), NEW e \in content.words
    PROVE  LET m == Mid(in, content, e)
           IN  /\ m[1] \in Word <=> e[1] \in Word
               /\ m[1] \in out.parts <=> e[1] \in in.parts
               /\ m[1] = IF in.keys /\ e[1] \in Word THEN Restore(table, e[1]) ELSE e[1]
               /\ m[2] = IF content.form = "parts" /\ e[1] \notin in.parts THEN e[2]
                         ELSE Restore(table, e[2])
<1>1. \A x \in Word : ToLocal(table)[in.kind][x] = Restore(table, x)
  BY DEF ToLocal, Match
<1>2. e[2] \in Word /\ (e[1] \in Word => Known(e[1]))
  BY EntryTyped
<1>3. e[1] \in Word => Restore(table, e[1]) \in Word
  BY <1>2, RestoredWord
<1>4. /\ Mid(in, content, e)[1] = IF in.keys /\ e[1] \in Word THEN Restore(table, e[1]) ELSE e[1]
      /\ Mid(in, content, e)[2] = IF content.form = "parts" /\ e[1] \notin in.parts THEN e[2]
                                  ELSE Restore(table, e[2])
  BY <1>1, <1>2 DEF Mid, Label, Text
<1> QED BY <1>3, <1>4 DEF Match

KnownContent(content) == content \in Content /\ \A w \in WordsOf(content) : Known(w)

LEMMA RestoredContent ==
    ASSUME TypedTable, NEW in, NEW out, Match(in, out), NEW content, KnownContent(content),
           NEW mid, mid = TransformedContent(in, content, ToLocal(table)), mid # Refused
    PROVE  /\ mid \in Content /\ mid.form = content.form /\ mid.form \in out.forms
           /\ mid.words = {Mid(in, content, e) : e \in content.words}
           /\ \A e \in content.words : Mid(in, content, e)[1] # Refused
           /\ \A e1, e2 \in content.words :
                 Mid(in, content, e1)[1] = Mid(in, content, e2)[1] => e1[1] = e2[1]
<1> DEFINE R == ToLocal(table)[in.kind]
<1>1. Maps(R)
  BY RestoreMaps DEF Match, TypedTable
<1>2. content \in Content
  BY DEF KnownContent
<1>3. /\ Accepts(in, content, R) /\ mid \in Content
      /\ mid = [form |-> content.form, words |-> NewWords(in, content, R)]
  BY <1>1, <1>2, ContentCases
<1>4. mid.words = {Mid(in, content, e) : e \in content.words}
  BY <1>3 DEF NewWords, Mid
<1> QED BY <1>3, <1>4 DEF Accepts, Mid, Match

\* The provider is shown no value that it has not written there itself.
LEMMA ReturnsRaw ==
    ASSUME TypedTable, NEW in, NEW out, Match(in, out), NEW content, KnownContent(content),
           NEW mid, mid = TransformedContent(in, content, ToLocal(table)), mid # Refused,
           Protects(out.kind), NEW known,
           NEW back, back = TransformedContent(out, mid, ToProvider(known)), back # Refused
    PROVE  RawWords(back) \subseteq RawWords(content)
<1> SUFFICES ASSUME NEW w \in RawWords(back) PROVE w \in RawWords(content)
  OBVIOUS
<1>1. mid \in Content /\ mid.form = content.form /\ content \in Content
      /\ mid.words = {Mid(in, content, e) : e \in content.words}
  BY RestoredContent DEF KnownContent
<1>2. PICK m \in mid.words :
        \/ m[1] \in Word /\ w = m[1] /\ ~out.keys
        \/ w = m[2] /\ mid.form = "parts" /\ m[1] \notin out.parts
  BY <1>1, RawUnreached DEF Match
<1>3. PICK e \in content.words : m = Mid(in, content, e)
  BY <1>1
<1>4. /\ m[1] \in Word <=> e[1] \in Word
      /\ m[1] \in out.parts <=> e[1] \in in.parts
      /\ m[1] = IF in.keys /\ e[1] \in Word THEN Restore(table, e[1]) ELSE e[1]
      /\ m[2] = IF content.form = "parts" /\ e[1] \notin in.parts THEN e[2]
                ELSE Restore(table, e[2])
  BY <1>1, <1>3, RestoredEntry DEF KnownContent
<1>5. (w = e[1] /\ e[1] \in Word) \/ w = e[2]
  BY <1>1, <1>2, <1>4 DEF Match
<1>6. w \in WordsOf(content)
  BY <1>5 DEF WordsOf
<1> QED BY <1>6 DEF RawWords

\* What the provider wrote without raw values returns as it was.
LEMMA ReturnsSame ==
    ASSUME TypedTable, NEW in, NEW out, Match(in, out), NEW content, KnownContent(content),
           NEW mid, mid = TransformedContent(in, content, ToLocal(table)), mid # Refused,
           Protects(out.kind), RawWords(content) = {},
           NEW back, back = TransformedContent(out, mid, ToProvider(table)), back # Refused
    PROVE  back = content
<1> DEFINE P == ToProvider(table)[out.kind]
<1>1. mid \in Content /\ mid.form = content.form /\ content \in Content
      /\ mid.words = {Mid(in, content, e) : e \in content.words}
  BY RestoredContent DEF KnownContent
<1>2. Maps(P)
  BY ProtectMaps DEF Match
<1>3. back = [form |-> mid.form, words |-> NewWords(out, mid, P)]
  BY <1>1, <1>2, ContentCases
<1>4. \A x \in Word : P[x] = Protect(table, x)
  BY DEF ToProvider, Match
<1> HIDE DEF P
<1>5. ASSUME NEW e \in content.words
      PROVE  LET m == Mid(in, content, e)
             IN  <<Label(out, P, m), Text(out, mid.form, P, m)>> = e
  <2> DEFINE m == Mid(in, content, e)
  <2>1. /\ e = <<e[1], e[2]>> /\ e[2] \in Word /\ e[2] \in WordsOf(content)
        /\ e[1] \in Word => e[1] \in WordsOf(content)
    BY <1>1, EntryTyped
  <2>2. /\ m[1] \in Word <=> e[1] \in Word
        /\ m[1] \in out.parts <=> e[1] \in in.parts
        /\ m[1] = IF in.keys /\ e[1] \in Word THEN Restore(table, e[1]) ELSE e[1]
        /\ m[2] = IF content.form = "parts" /\ e[1] \notin in.parts THEN e[2]
                  ELSE Restore(table, e[2])
    BY <1>1, RestoredEntry DEF KnownContent
  <2> HIDE DEF m
  <2>3. \A x \in Word : x \in WordsOf(content) => Known(x) /\ ~IsRaw(x)
    BY DEF KnownContent, RawWords
  <2>4. \A x \in Word : x \in WordsOf(content) =>
           Restore(table, x) \in Word /\ P[Restore(table, x)] = x
    BY <1>4, <2>3, WordReturns, RestoredWord
  <2>5. Label(out, P, m) = e[1]
    BY <2>1, <2>2, <2>4 DEF Label, Match
  <2>6. Text(out, mid.form, P, m) = e[2]
    BY <1>1, <2>1, <2>2, <2>4 DEF Text, Match
  <2> QED BY <2>1, <2>5, <2>6 DEF m
<1>6. NewWords(out, mid, P) = content.words
  BY <1>1, <1>5 DEF NewWords
<1> QED BY <1>1, <1>3, <1>6 DEF Content

\* What has been restored is accepted: no substitute is left where the request
\* is protected, and no two keys become one.
LEMMA ReturnsAccepted ==
    ASSUME TypedTable, NEW in, NEW out, Match(in, out), NEW content, KnownContent(content),
           NEW mid, mid = TransformedContent(in, content, ToLocal(table)), mid # Refused,
           policy # "default" => RawWords(content) = {}
    PROVE  TransformedContent(out, mid, ToProvider(table)) # Refused
<1> DEFINE P == ToProvider(table)[out.kind]
<1>1. /\ mid \in Content /\ mid.form = content.form /\ content \in Content
      /\ mid.words = {Mid(in, content, e) : e \in content.words}
      /\ mid.form \in out.forms
      /\ \A e \in content.words : Mid(in, content, e)[1] # Refused
      /\ \A e1, e2 \in content.words :
            Mid(in, content, e1)[1] = Mid(in, content, e2)[1] => e1[1] = e2[1]
  BY RestoredContent DEF KnownContent
<1>2. Maps(P)
  BY ProtectMaps DEF Match
<1>3. \A x \in Word : P[x] = IF Protects(out.kind) THEN Protect(table, x) ELSE x
  BY DEF ToProvider, Match
<1> HIDE DEF P
<1>4. ASSUME NEW e \in content.words
      PROVE  LET m == Mid(in, content, e)
             IN  /\ out.keys /\ m[1] \in Word =>
                      e[1] \in WordsOf(content) /\ e[1] \in Word /\ m[1] = Restore(table, e[1])
                 /\ Label(out, P, m) # Refused
                 /\ Text(out, mid.form, P, m) # Refused
  <2> DEFINE m == Mid(in, content, e)
  <2>1. /\ e = <<e[1], e[2]>> /\ e[2] \in Word /\ e[2] \in WordsOf(content)
        /\ e[1] \in Word \cup PartType \cup {NoLabel}
        /\ e[1] \in Word => e[1] \in WordsOf(content)
    BY <1>1, EntryTyped
  <2>2. /\ m[1] \in Word <=> e[1] \in Word
        /\ m[1] \in out.parts <=> e[1] \in in.parts
        /\ m[1] = IF in.keys /\ e[1] \in Word THEN Restore(table, e[1]) ELSE e[1]
        /\ m[2] = IF content.form = "parts" /\ e[1] \notin in.parts THEN e[2]
                  ELSE Restore(table, e[2])
    BY <1>1, RestoredEntry DEF KnownContent
  <2>3. m \in mid.words
    BY <1>1
  <2>4. m[1] \in Word \cup PartType \cup {NoLabel} /\ m[2] \in Word
    BY <1>1, <2>3, EntryTyped
  <2> HIDE DEF m
  <2>5. \A x \in Word : x \in WordsOf(content) =>
           Restore(table, x) \in Word /\ P[Restore(table, x)] # Refused
    <3> SUFFICES ASSUME NEW x \in Word, x \in WordsOf(content)
                 PROVE  Restore(table, x) \in Word /\ P[Restore(table, x)] # Refused
      OBVIOUS
    <3>1. Restore(table, x) \in Word /\ Restore(table, x)[1] # "alias"
      BY RestoredWord DEF KnownContent
    <3>2. Protect(table, Restore(table, x)) \in Word
      BY <3>1, ProtectedWord
    <3> QED BY <1>3, <3>1, <3>2, MatrixAssumption
  <2>6. Label(out, P, m) # Refused
    <3>1. CASE out.keys /\ m[1] \in Word
      BY <2>1, <2>2, <2>5, <3>1 DEF Label, Match
    <3>2. CASE ~(out.keys /\ m[1] \in Word)
      <4>1. m[1] # Refused
        BY <1>1 DEF m
      <4> QED BY <3>2, <4>1 DEF Label
    <3> QED BY <3>1, <3>2
  <2>7. Text(out, mid.form, P, m) # Refused
    BY <1>1, <2>1, <2>2, <2>4, <2>5, MatrixAssumption DEF Text, Match
  <2>8. out.keys /\ m[1] \in Word =>
           e[1] \in WordsOf(content) /\ e[1] \in Word /\ m[1] = Restore(table, e[1])
    BY <2>1, <2>2 DEF Match
  <2> QED BY <2>6, <2>7, <2>8 DEF m
<1>5. ASSUME NEW e1 \in content.words, NEW e2 \in content.words,
             Label(out, P, Mid(in, content, e1)) = Label(out, P, Mid(in, content, e2))
      PROVE  Mid(in, content, e1)[1] = Mid(in, content, e2)[1]
  <2> DEFINE m1 == Mid(in, content, e1)
  <2> DEFINE m2 == Mid(in, content, e2)
  <2>1. CASE ~out.keys \/ ~Protects(out.kind)
    BY <1>3, <1>5, <2>1 DEF Label
  <2>2. CASE out.keys /\ Protects(out.kind)
    <3>1. RawWords(content) = {}
      BY <2>2 DEF Protects, Match
    <3>2. ASSUME NEW e \in content.words, Mid(in, content, e)[1] \in Word
          PROVE  P[Mid(in, content, e)[1]] = e[1] /\ e[1] \in Word
      <4>1. /\ e[1] \in WordsOf(content) /\ e[1] \in Word
            /\ Mid(in, content, e)[1] = Restore(table, e[1])
        BY <1>4, <2>2, <3>2
      <4>2. Known(e[1]) /\ ~IsRaw(e[1])
        BY <3>1, <4>1 DEF KnownContent, RawWords
      <4> QED BY <1>3, <2>2, <3>2, <4>1, <4>2, WordReturns
    <3>3. ASSUME NEW e \in content.words
          PROVE  Label(out, P, Mid(in, content, e)) =
                   IF Mid(in, content, e)[1] \in Word THEN e[1] ELSE Mid(in, content, e)[1]
      BY <2>2, <3>2, <3>3 DEF Label
    <3>4. CASE m1[1] \in Word /\ m2[1] \in Word
      <4>1. e1[1] = e2[1]
        BY <1>5, <3>3, <3>4
      <4>2. m1[1] = Restore(table, e1[1]) /\ m2[1] = Restore(table, e2[1])
        BY <1>4, <2>2, <3>4
      <4> QED BY <4>1, <4>2
    <3>5. CASE ~(m1[1] \in Word /\ m2[1] \in Word)
      BY <1>5, <3>2, <3>3, <3>5
    <3> QED BY <3>4, <3>5
  <2> QED BY <2>1, <2>2
<1>6. Accepts(out, mid, P)
  <2>1. ASSUME NEW m \in mid.words
        PROVE  Label(out, P, m) # Refused /\ Text(out, mid.form, P, m) # Refused
    BY <1>1, <1>4
  <2>2. ASSUME NEW m1 \in mid.words, NEW m2 \in mid.words, Label(out, P, m1) = Label(out, P, m2)
        PROVE  m1[1] = m2[1]
    <3>1. PICK e1 \in content.words : m1 = Mid(in, content, e1)
      BY <1>1
    <3>2. PICK e2 \in content.words : m2 = Mid(in, content, e2)
      BY <1>1
    <3> QED BY <1>5, <2>2, <3>1, <3>2
  <2> QED BY <1>1, <2>1, <2>2 DEF Accepts
<1> QED BY <1>1, <1>2, <1>6, ContentCases DEF P

-----------------------------------------------------------------------------
(***************************************************************************)
(* An answer that is restored and protected again.                         *)
(***************************************************************************)
RawFree(item) == \A f \in DOMAIN item.fields : RawWords(item.fields[f]) = {}

\* An answer that has been delivered, as the client has it.
Delivered(meant, form) ==
    /\ meant \in ProviderItems[protocol] /\ meant.type # "response"
    /\ SavedIn(meant) /\ form = Incoming(meant, table) /\ form # Refused

LEMMA RulesMatch ==
    ASSUME protocol \in Protocol, NEW type, type \notin InputOnly(protocol), type # "response"
    PROVE  LET in == Rules(protocol, "to-local", type)
               out == Rules(protocol, "to-provider", type)
           IN  /\ \A f : Ruled(in, f) <=> Ruled(out, f)
               /\ \A f : Ruled(in, f) => Match(RuleFor(in, f), RuleFor(out, f))
<1> DEFINE in == Rules(protocol, "to-local", type)
<1> DEFINE out == Rules(protocol, "to-provider", type)
<1>1. Typed(in) /\ Typed(out)
  BY RulesTyped
<1>2. Placed(out, type) /\ PartsOnly(out)
  BY RequestRules, RequestParts
<1>3. Agree(in, out, type)
  BY MatricesAgree
<1> HIDE DEF in, out
<1>4. ASSUME NEW f, Ruled(in, f) PROVE Match(RuleFor(in, f), RuleFor(out, f))
  <2>1. Ruled(out, f)
    BY <1>3, <1>4 DEF Agree
  <2>2. RuleFor(in, f) \in in /\ RuleFor(out, f) \in out
    BY <1>4, <2>1, RuleForFacts
  <2> QED BY <1>1, <1>2, <1>3, <1>4, <2>2 DEF Match, Typed, Placed, PartsOnly, Agree
<1>5. \A f : Ruled(in, f) <=> Ruled(out, f)
  BY <1>3 DEF Agree
<1> QED BY <1>4, <1>5 DEF in, out

\* What is known of an answer and of each of its fields.
LEMMA DeliveredFields ==
    ASSUME ProxyInvariant, table # None, NEW meant, NEW form, Delivered(meant, form)
    PROVE  LET in == Rules(protocol, "to-local", meant.type)
               out == Rules(protocol, "to-provider", meant.type)
           IN  /\ TypedTable /\ protocol \in Protocol /\ policy \in Policy
               /\ Typed(out) /\ Placed(out, meant.type)
               /\ IsItem(meant) /\ IsItem(form)
               /\ form.type = meant.type /\ DOMAIN form.fields = DOMAIN meant.fields
               /\ \A f : Ruled(in, f) <=> Ruled(out, f)
               /\ \A r \in out : r.absent \/ r.field \in DOMAIN form.fields
               /\ \A f \in DOMAIN meant.fields :
                     /\ KnownContent(meant.fields[f])
                     /\ Ruled(out, f) =>
                          /\ Match(RuleFor(in, f), RuleFor(out, f))
                          /\ form.fields[f] # Refused
                          /\ form.fields[f] = TransformedContent(RuleFor(in, f), meant.fields[f], ToLocal(table))
                     /\ ~Ruled(out, f) => form.fields[f] = meant.fields[f]
<1> DEFINE in == Rules(protocol, "to-local", meant.type)
<1> DEFINE out == Rules(protocol, "to-provider", meant.type)
<1>1. TypedTable /\ protocol \in Protocol /\ policy \in Policy
  BY DEF ProxyInvariant, TypedTable
<1>2. IsItem(meant) /\ meant.type \notin InputOnly(protocol) /\ meant.type # "response"
  BY <1>1, ProxyAssumption, ProviderAssumption DEF Delivered, InputOnly
<1>3. Typed(in) /\ Typed(out) /\ Placed(out, meant.type) /\ Agree(in, out, meant.type)
  BY <1>1, <1>2, RulesTyped, RequestRules, MatricesAgree
<1>4. /\ \A f : Ruled(in, f) <=> Ruled(out, f)
      /\ \A f : Ruled(in, f) => Match(RuleFor(in, f), RuleFor(out, f))
  BY <1>1, <1>2, RulesMatch
<1>5. \A kind \in ContentKind : Maps(ToLocal(table)[kind])
  BY <1>1, RestoreMaps DEF TypedTable
<1>6. form = Transformed(in, meant, ToLocal(table)) /\ form # Refused
  BY DEF Delivered, Incoming
<1> HIDE DEF in, out
<1>7. /\ \A r \in in : r.absent \/ r.field \in DOMAIN meant.fields
      /\ \A f \in DOMAIN meant.fields : Ruled(in, f) =>
            TransformedContent(RuleFor(in, f), meant.fields[f], ToLocal(table)) # Refused
      /\ IsItem(form) /\ form.type = meant.type /\ DOMAIN form.fields = DOMAIN meant.fields
      /\ \A f \in DOMAIN meant.fields :
            form.fields[f] = IF Ruled(in, f)
                             THEN TransformedContent(RuleFor(in, f), meant.fields[f], ToLocal(table))
                             ELSE meant.fields[f]
  BY <1>2, <1>3, <1>5, <1>6, ItemCases
<1>8. ASSUME NEW s \in out PROVE s.absent \/ s.field \in DOMAIN form.fields
  <2>1. CASE meant.type = "tool_use" /\ s.field = "input" /\ protocol = "messages"
    BY <1>1, <1>7, <2>1, ProviderAssumption DEF Delivered
  <2>2. CASE protocol = "responses"
    <3>1. in = out
      BY <1>2, <2>2 DEF in, out, Rules, ResponsesRequest, ResponsesResponse, InputOnly
    <3> QED BY <1>7, <3>1
  <2>3. CASE ~(meant.type = "tool_use" /\ s.field = "input")
    BY <1>3, <1>7, <2>3 DEF Agree
  <2> QED BY <1>1, <2>1, <2>2, <2>3 DEF Protocol
<1>9. \A f \in DOMAIN meant.fields : KnownContent(meant.fields[f])
  <2> SUFFICES ASSUME NEW f \in DOMAIN meant.fields PROVE KnownContent(meant.fields[f])
    OBVIOUS
  <2>1. meant.fields[f] \in Content
    BY <1>2 DEF IsItem
  <2>2. \A w \in WordsOf(meant.fields[f]) : w \in ItemWords(meant)
    BY DEF ItemWords
  <2> QED BY <2>1, <2>2 DEF KnownContent, Known, Delivered, SavedIn
<1> QED BY <1>1, <1>2, <1>3, <1>4, <1>7, <1>8, <1>9 DEF in, out

LEMMA OutgoingCases ==
    ASSUME protocol \in Protocol, NEW item, IsItem(item), NEW known
    PROVE  LET out == Outgoing(item, known)
               rules == Rules(protocol, "to-provider", item.type)
               one(f) == TransformedContent(RuleFor(rules, f), item.fields[f], ToProvider(known))
           IN  /\ out # Refused <=>
                     /\ \A r \in rules : r.absent \/ r.field \in DOMAIN item.fields
                     /\ \A f \in DOMAIN item.fields : Ruled(rules, f) => one(f) # Refused
               /\ out # Refused =>
                     /\ IsItem(out) /\ out.type = item.type
                     /\ DOMAIN out.fields = DOMAIN item.fields
                     /\ \A f \in DOMAIN item.fields :
                           out.fields[f] = IF Ruled(rules, f) THEN one(f) ELSE item.fields[f]
<1>1. Typed(Rules(protocol, "to-provider", item.type))
  BY RulesTyped
<1>2. \A kind \in ContentKind : Maps(ToProvider(known)[kind])
  BY ProtectMaps
<1> QED BY <1>1, <1>2, ItemCases DEF Outgoing

LEMMA MeantIsAccepted ==
    ASSUME ProxyInvariant, table # None, NEW meant, NEW form, Delivered(meant, form),
           policy # "default" => RawFree(meant)
    PROVE  Outgoing(form, table) # Refused
<1> DEFINE out == Rules(protocol, "to-provider", meant.type)
<1> DEFINE in == Rules(protocol, "to-local", meant.type)
<1>1. /\ TypedTable /\ protocol \in Protocol
      /\ IsItem(form) /\ form.type = meant.type /\ DOMAIN form.fields = DOMAIN meant.fields
      /\ \A r \in out : r.absent \/ r.field \in DOMAIN form.fields
      /\ \A f \in DOMAIN meant.fields : Ruled(out, f) =>
            /\ KnownContent(meant.fields[f])
            /\ Match(RuleFor(in, f), RuleFor(out, f))
            /\ form.fields[f] # Refused
            /\ form.fields[f] = TransformedContent(RuleFor(in, f), meant.fields[f], ToLocal(table))
  BY DeliveredFields
<1> HIDE DEF in
<1>2. ASSUME NEW f \in DOMAIN form.fields, Ruled(out, f)
      PROVE  TransformedContent(RuleFor(out, f), form.fields[f], ToProvider(table)) # Refused
  BY <1>1, <1>2, ReturnsAccepted DEF RawFree
<1> QED BY <1>1, <1>2, OutgoingCases

LEMMA MeantReturns ==
    ASSUME ProxyInvariant, table # None, NEW meant, NEW form, Delivered(meant, form),
           NEW back, back = Outgoing(form, table), back # Refused,
           NEW f \in DOMAIN meant.fields, RawWords(meant.fields[f]) = {},
           \A r \in Rules(protocol, "to-provider", meant.type) : r.field = f => Protects(r.kind)
    PROVE  back.fields[f] = meant.fields[f]
<1> DEFINE out == Rules(protocol, "to-provider", meant.type)
<1> DEFINE in == Rules(protocol, "to-local", meant.type)
<1>1. /\ TypedTable /\ protocol \in Protocol
      /\ IsItem(form) /\ form.type = meant.type /\ DOMAIN form.fields = DOMAIN meant.fields
      /\ KnownContent(meant.fields[f])
      /\ ~Ruled(out, f) => form.fields[f] = meant.fields[f]
      /\ Ruled(out, f) =>
            /\ Match(RuleFor(in, f), RuleFor(out, f))
            /\ form.fields[f] # Refused
            /\ form.fields[f] = TransformedContent(RuleFor(in, f), meant.fields[f], ToLocal(table))
  BY DeliveredFields
<1>2. /\ back.fields[f] = IF Ruled(out, f)
                          THEN TransformedContent(RuleFor(out, f), form.fields[f], ToProvider(table))
                          ELSE form.fields[f]
      /\ Ruled(out, f) =>
            TransformedContent(RuleFor(out, f), form.fields[f], ToProvider(table)) # Refused
  BY <1>1, OutgoingCases
<1>3. Ruled(out, f) => Protects(RuleFor(out, f).kind)
  BY RuleForFacts
<1> HIDE DEF in, out
<1> QED BY <1>1, <1>2, <1>3, ReturnsSame

\* Raw in a body: tool data under the default policy, or the provider's own.
Tolerated(item, f, raw) ==
    \/ policy = "default" /\ <<item.type, f>> \in ToolData
    \/ RawWords(item.fields[f]) \subseteq raw

LEMMA MeantIsTolerated ==
    ASSUME ProxyInvariant, table # None, NEW meant, NEW form, Delivered(meant, form),
           NEW known, NEW back, back = Outgoing(form, known), back # Refused,
           NEW f \in DOMAIN back.fields
    PROVE  f \in DOMAIN meant.fields /\ Tolerated(back, f, RawWords(meant.fields[f]))
<1> DEFINE out == Rules(protocol, "to-provider", meant.type)
<1> DEFINE in == Rules(protocol, "to-local", meant.type)
<1>1. /\ TypedTable /\ protocol \in Protocol /\ policy \in Policy /\ Placed(out, meant.type)
      /\ IsItem(form) /\ form.type = meant.type /\ DOMAIN form.fields = DOMAIN meant.fields
  BY DeliveredFields
<1>2. /\ DOMAIN back.fields = DOMAIN form.fields /\ back.type = form.type
      /\ back.fields[f] = IF Ruled(out, f)
                          THEN TransformedContent(RuleFor(out, f), form.fields[f], ToProvider(known))
                          ELSE form.fields[f]
      /\ Ruled(out, f) =>
            TransformedContent(RuleFor(out, f), form.fields[f], ToProvider(known)) # Refused
  BY <1>1, OutgoingCases
<1>3. /\ KnownContent(meant.fields[f])
      /\ ~Ruled(out, f) => form.fields[f] = meant.fields[f]
      /\ Ruled(out, f) =>
            /\ Match(RuleFor(in, f), RuleFor(out, f))
            /\ form.fields[f] # Refused
            /\ form.fields[f] = TransformedContent(RuleFor(in, f), meant.fields[f], ToLocal(table))
  BY <1>1, <1>2, DeliveredFields
<1>4. Ruled(out, f) =>
        Protects(RuleFor(out, f).kind) \/ (policy = "default" /\ <<meant.type, f>> \in ToolData)
  BY <1>1, RuleForFacts DEF Placed, Protects
<1> HIDE DEF in, out
<1> QED BY <1>1, <1>2, <1>3, <1>4, ReturnsRaw DEF Tolerated

\* The same for what a client writes.
LEMMA ClientIsTolerated ==
    ASSUME protocol \in Protocol, policy \in Policy, NEW item, IsItem(item),
           KeepsToMatrix(protocol, item), NEW known,
           NEW back, back = Outgoing(item, known), back # Refused, NEW f \in DOMAIN back.fields
    PROVE  Tolerated(back, f, {})
<1> DEFINE out == Rules(protocol, "to-provider", item.type)
<1>1. /\ DOMAIN back.fields = DOMAIN item.fields /\ back.type = item.type
      /\ back.fields[f] = IF Ruled(out, f)
                          THEN TransformedContent(RuleFor(out, f), item.fields[f], ToProvider(known))
                          ELSE item.fields[f]
      /\ Ruled(out, f) =>
            TransformedContent(RuleFor(out, f), item.fields[f], ToProvider(known)) # Refused
  BY OutgoingCases
<1>2. Typed(out) /\ Placed(out, item.type) /\ item.fields[f] \in Content
  BY <1>1, RulesTyped, RequestRules DEF IsItem
<1>3. ASSUME NEW e \in item.fields[f].words
      PROVE  /\ IsRaw(e[1]) \/ IsRaw(e[2]) => Ruled(out, f)
             /\ \A r \in out : r.field = f =>
                  /\ IsRaw(e[1]) => r.keys
                  /\ IsRaw(e[2]) => item.fields[f].form # "parts" \/ e[1] \in r.parts
  BY <1>1, <1>3 DEF KeepsToMatrix, Ruled
<1> HIDE DEF out
<1>4. CASE ~Ruled(out, f)
  <2>1. RawWords(item.fields[f]) = {}
    BY <1>3, <1>4 DEF RawWords, WordsOf
  <2> QED BY <1>1, <1>4, <2>1 DEF Tolerated
<1>5. CASE Ruled(out, f)
  <2> DEFINE rule == RuleFor(out, f)
  <2>1. rule \in out /\ rule.field = f
    BY <1>5, RuleForFacts
  <2>2. Protects(rule.kind) \/ (policy = "default" /\ <<item.type, f>> \in ToolData)
    BY <1>2, <2>1 DEF Placed, Protects
  <2>3. CASE Protects(rule.kind)
    <3>1. rule.kind \in ContentKind
      BY <1>2, <2>1 DEF Typed
    <3>2. ASSUME NEW w \in RawWords(back.fields[f]) PROVE FALSE
      <4>1. PICK e \in item.fields[f].words :
              \/ e[1] \in Word /\ w = e[1] /\ ~rule.keys
              \/ w = e[2] /\ item.fields[f].form = "parts" /\ e[1] \notin rule.parts
        BY <1>1, <1>2, <1>5, <2>3, <3>1, RawUnreached
      <4>2. IsRaw(w)
        BY DEF RawWords
      <4> QED BY <1>3, <2>1, <4>1, <4>2
    <3> QED BY <3>2 DEF Tolerated
  <2>4. CASE policy = "default" /\ <<item.type, f>> \in ToolData
    BY <1>1, <2>4 DEF Tolerated
  <2> QED BY <2>2, <2>3, <2>4
<1> QED BY <1>4, <1>5

-----------------------------------------------------------------------------
(***************************************************************************)
(* The first invariant: the history has what the provider wrote, restored. *)
(* A substitute stands for one spelling for as long as there is a vault,   *)
(* so it does not matter with which table that was.                        *)
(***************************************************************************)
EntryReturns(entry) ==
    entry.meant # None =>
        /\ entry.meant \in ProviderItems[protocol] /\ entry.meant.type # "response"
        /\ table # None => SavedIn(entry.meant) /\ entry.form = Incoming(entry.meant, table)

ReturnInvariant ==
    /\ \A i \in DOMAIN history : EntryReturns(history[i])
    /\ \A r \in Request :
          request[r].phase = "answered" => request[r].answer \in ProviderItems[protocol]

LEMMA HistoryAppended ==
    ASSUME ProxyInvariant, NEW entry, history' = Append(history, entry)
    PROVE  /\ \A i \in DOMAIN history' :
                 history'[i] = entry \/ (i \in DOMAIN history /\ history'[i] = history[i])
           /\ \A i \in DOMAIN history : i \in DOMAIN history' /\ history'[i] = history[i]
<1>1. PICK entries : history \in Seq(entries)
  BY DEF ProxyInvariant
<1>2. history \in Seq(entries \cup {entry})
  BY <1>1, SeqMonotonic
<1> QED BY <1>2

\* A larger table restores the same.
LEMMA RestoredAlike ==
    ASSUME ProxyInvariant, table # None, table' \in Recorded(table),
           UNCHANGED <<protocol, policy>>, NEW item, IsItem(item), SavedIn(item)
    PROVE  SavedIn(item)' /\ Incoming(item, table)' = Incoming(item, table)
<1>1. table \in [Value -> Spelling \cup {None}] /\ table' \in [Value -> Spelling \cup {None}]
  BY DEF ProxyInvariant, Recorded
<1>2. \A v \in Value : table[v] # None => table'[v] = table[v]
  BY DEF Recorded
<1>3. ASSUME NEW w \in ItemWords(item), w[1] = "alias"
      PROVE  w[2] \in Value /\ table[w[2]] # None
  BY <1>3, WordFacts DEF SavedIn, Plain
<1>4. SavedIn(item)'
  BY <1>2, <1>3 DEF SavedIn
<1>5. ASSUME NEW kind \in ContentKind, NEW w \in ItemWords(item)
      PROVE  ToLocal(table)'[kind][w] = ToLocal(table)[kind][w]
  <2>1. w \in Word
    BY WordFacts
  <2>2. Restore(table, w)' = Restore(table, w)
    <3>1. CASE w[1] = "alias"
      BY <1>2, <1>3, <3>1 DEF Restore
    <3>2. CASE w[1] # "alias"
      BY <3>2 DEF Restore
    <3> QED BY <3>1, <3>2
  <2>3. ToLocal(table)[kind][w] = Restore(table, w)
    BY <2>1 DEF ToLocal
  <2>4. ToLocal(table)'[kind][w] = Restore(table, w)'
    BY <2>1 DEF ToLocal
  <2> QED BY <2>2, <2>3, <2>4
<1> DEFINE rules == Rules(protocol, "to-local", item.type)
<1>6. Typed(rules)
  BY RulesTyped DEF ProxyInvariant
<1>7. Transformed(rules, item, ToLocal(table)') = Transformed(rules, item, ToLocal(table))
  BY <1>5, <1>6, ItemAgrees
<1>8. Incoming(item, table)' = Transformed(rules, item, ToLocal(table)')
  BY DEF Incoming
<1>9. Incoming(item, table) = Transformed(rules, item, ToLocal(table))
  BY DEF Incoming
<1> QED BY <1>4, <1>7, <1>8, <1>9

LEMMA ReturnInit == Init => ReturnInvariant
BY DEF Init, ReturnInvariant, Free

\* The entries of a history, while the table restores the same.
LEMMA EntriesStay ==
    ASSUME ProxyInvariant, ReturnInvariant, UNCHANGED <<protocol, policy>>,
           table' \in {table, None} \/ (table # None /\ table' \in Recorded(table)),
           NEW entry, IsItem(entry.meant) \/ entry.meant = None, EntryReturns(entry)
    PROVE  EntryReturns(entry)'
<1> SUFFICES ASSUME entry.meant # None, table' # None
             PROVE  SavedIn(entry.meant)' /\ entry.form = Incoming(entry.meant, table)'
  BY DEF EntryReturns
<1>1. CASE table' = table
  BY <1>1 DEF EntryReturns, SavedIn, Incoming, ToLocal, Restore
<1>2. CASE table # None /\ table' \in Recorded(table)
  BY <1>2, RestoredAlike DEF EntryReturns
<1> QED BY <1>1, <1>2

LEMMA ReturnNext ==
    ASSUME ProxyInvariant, ReturnInvariant, [Next]_vars
    PROVE  ReturnInvariant'
<1>1. UNCHANGED <<protocol, policy>>
  BY DEF Next, vars, Write, Protected, SavedButFailed, Protecting, Respond, Deliver, Fail, Expire
<1>2. table' \in {table, None} \/ (table # None /\ table' \in Recorded(table))
  BY DEF Next, vars, Write, Protected, SavedButFailed, Protecting, Respond, Deliver, Fail, Expire
<1>3. ASSUME NEW i \in DOMAIN history PROVE EntryReturns(history[i])'
               \/ history'[i] # history[i]
  <2>1. IsItem(history[i].meant) \/ history[i].meant = None
    BY DEF ProxyInvariant, HistoryOK
  <2>2. PICK entry : entry = history[i]
    OBVIOUS
  <2>3. EntryReturns(entry)'
    BY <1>1, <1>2, <2>1, <2>2, EntriesStay DEF ReturnInvariant
  <2> QED BY <2>2, <2>3 DEF EntryReturns
<1> DEFINE Entries == \A i \in DOMAIN history : EntryReturns(history[i])
<1> DEFINE Answers ==
      \A r \in Request : request[r].phase = "answered" => request[r].answer \in ProviderItems[protocol]
<1>4. history' = history => Entries'
  BY <1>3
<1>5. ASSUME NEW entry, history' = Append(history, entry), EntryReturns(entry)'
      PROVE  Entries'
  BY <1>3, <1>5, HistoryAppended DEF EntryReturns
<1>6. request' = request => Answers'
  BY <1>1 DEF ReturnInvariant
<1>7. ASSUME NEW r \in Request, NEW state, request' = [request EXCEPT ![r] = state],
             state.phase = "answered" => state.answer \in ProviderItems[protocol]
      PROVE  Answers'
  BY <1>1, <1>7 DEF ReturnInvariant, ProxyInvariant
<1> HIDE DEF Entries, Answers
<1>8. ASSUME NEW item \in ClientItems[protocol], Write(item) PROVE Entries' /\ Answers'
  <2> DEFINE entry == [form |-> item, meant |-> None]
  <2>1. EntryReturns(entry)'
    BY DEF EntryReturns
  <2> QED BY <1>5, <1>6, <1>8, <2>1 DEF Write
<1>9. ASSUME NEW r \in Request, NEW sent \in BOOLEAN, Protecting(r, sent) PROVE Entries' /\ Answers'
  <2>1. CASE sent
    <3> DEFINE state == [request[r] EXCEPT !.phase = "sending", !.body = ProtectedBody(table)]
    <3>1. request[r] = Free /\ request' = [request EXCEPT ![r] = state]
      BY <1>9, <2>1 DEF Protecting, ProxyInvariant, RequestOK
    <3>2. state.phase = "sending"
      BY <3>1 DEF Free
    <3> HIDE DEF state
    <3> QED BY <1>4, <1>7, <1>9, <3>1, <3>2 DEF Protecting
  <2>2. CASE ~sent
    BY <1>4, <1>6, <1>9, <2>2 DEF Protecting
  <2> QED BY <2>1, <2>2
<1>10. ASSUME NEW r \in Request, NEW item \in ProviderItems[protocol], Respond(r, item)
       PROVE  Entries' /\ Answers'
  BY <1>4, <1>7, <1>10 DEF Respond
<1>11. ASSUME NEW r \in Request, Deliver(r) PROVE Entries' /\ Answers'
  <2> DEFINE meant == request[r].answer
  <2> DEFINE entry == [form |-> Incoming(meant, table), meant |-> meant]
  <2>1. Answers'
    BY <1>7, <1>11 DEF Deliver, Free
  <2>2. CASE meant.type = "response"
    BY <1>4, <1>11, <2>1, <2>2 DEF Deliver
  <2>3. CASE meant.type # "response"
    <3>1. history' = Append(history, entry) /\ UNCHANGED table
      BY <1>11, <2>3 DEF Deliver
    <3>2. /\ meant \in ProviderItems[protocol] /\ IsItem(meant)
          /\ table # None => SavedIn(meant)
      BY <1>11 DEF Deliver, ReturnInvariant, ProxyInvariant, RequestOK
    <3>3. PICK m : m = meant
      OBVIOUS
    <3>4. PICK e : e = [form |-> Incoming(m, table), meant |-> m]
      OBVIOUS
    <3>5. EntryReturns(e)
      BY <2>3, <3>2, <3>3, <3>4 DEF EntryReturns
    <3>6. IsItem(e.meant)
      BY <3>2, <3>3, <3>4
    <3>7. EntryReturns(e)'
      BY <1>1, <1>2, <3>5, <3>6, EntriesStay
    <3> QED BY <1>5, <2>1, <3>1, <3>3, <3>4, <3>7
  <2> QED BY <2>2, <2>3
<1>12. ASSUME NEW r \in Request, Fail(r) PROVE Entries' /\ Answers'
  BY <1>4, <1>7, <1>12 DEF Fail, Free
<1>13. ASSUME Expire PROVE Entries' /\ Answers'
  BY <1>4, <1>6, <1>13 DEF Expire
<1>14. ASSUME UNCHANGED vars PROVE Entries' /\ Answers'
  BY <1>4, <1>6, <1>14 DEF vars
<1>15. Entries' /\ Answers'
  BY <1>8, <1>9, <1>10, <1>11, <1>12, <1>13, <1>14 DEF Next, Protected, SavedButFailed
<1> QED BY <1>15 DEF ReturnInvariant, Entries, Answers

\* The history has what the provider wrote, restored with the table of now.
THEOREM ReturnInvariantHolds == Spec => []ReturnInvariant
BY ProxyInvariantHolds, ReturnInit, ReturnNext, PTL DEF Spec

LEMMA EntryDelivered ==
    ASSUME ProxyInvariant, ReturnInvariant, table # None, NEW i \in DOMAIN history,
           history[i].meant # None
    PROVE  Delivered(history[i].meant, history[i].form)
<1>1. IsItem(history[i].form) /\ history[i].form # Refused
  BY ItemTyped DEF ProxyInvariant, HistoryOK
<1> QED BY <1>1 DEF ReturnInvariant, EntryReturns, Delivered

\* The provider finds its own words in the next request, in every field that
\* is protected and in every field that neither matrix names.
THEOREM ProviderReadsItsOwn == Spec => []OwnWordsReturn
<1>1. ProxyInvariant /\ ReturnInvariant => OwnWordsReturn
  <2> SUFFICES ASSUME ProxyInvariant, ReturnInvariant, table # None,
                      NEW i \in DOMAIN history, history[i].meant # None,
                      Outgoing(history[i].form, table) # Refused,
                      NEW f \in DOMAIN history[i].meant.fields,
                      RawWords(history[i].meant.fields[f]) = {},
                      \A r \in Rules(protocol, "to-provider", history[i].meant.type) :
                         r.field = f => Protects(r.kind)
               PROVE  Outgoing(history[i].form, table).fields[f] = history[i].meant.fields[f]
    BY DEF OwnWordsReturn
  <2> QED BY EntryDelivered, MeantReturns
<1> QED BY <1>1, ProxyInvariantHolds, ReturnInvariantHolds, PTL

-----------------------------------------------------------------------------
(***************************************************************************)
(* The second invariant, for clients that keep to the matrix: no value is  *)
(* raw in a body but in tool data, or where the provider wrote it; and     *)
(* under the other policies none is raw at all.                            *)
(***************************************************************************)
EntryRaw(entry, f) == IF entry.meant = None THEN {} ELSE RawWords(entry.meant.fields[f])

SentFrom(item, entry) == \A f \in DOMAIN item.fields : Tolerated(item, f, EntryRaw(entry, f))

KeptEntry(entry) ==
    /\ entry.meant = None => entry.form \in ClientItems[protocol]
    /\ entry.meant # None /\ policy # "default" => RawFree(entry.meant)

KeptRequest(q) ==
    /\ \A i \in DOMAIN q.body :
          /\ i \in DOMAIN history /\ SentFrom(q.body[i], history[i])
          /\ policy # "default" => RawFree(q.body[i])
    /\ q.phase = "answered" /\ policy # "default" => RawFree(q.answer)

KeepInvariant ==
    /\ \A i \in DOMAIN history : KeptEntry(history[i])
    /\ \A r \in Request : KeptRequest(request[r])

\* A protected item of the history.
LEMMA ProtectedItem ==
    ASSUME ClientsKeepToMatrix, ProxyInvariant, ReturnInvariant, KeepInvariant, table # None,
           NEW i \in DOMAIN history, NEW item, item = Outgoing(history[i].form, table),
           item # Refused
    PROVE  SentFrom(item, history[i]) /\ (policy # "default" => RawFree(item))
<1>1. /\ protocol \in Protocol /\ policy \in Policy /\ KeptEntry(history[i])
      /\ IsItem(history[i].form)
  BY DEF ProxyInvariant, KeepInvariant, HistoryOK
<1>2. CASE history[i].meant = None
  <2>1. KeepsToMatrix(protocol, history[i].form)
    BY <1>1, <1>2 DEF KeptEntry, ClientsKeepToMatrix
  <2>2. \A f \in DOMAIN item.fields : Tolerated(item, f, {})
    BY <1>1, <2>1, ClientIsTolerated
  <2> QED BY <1>2, <2>2 DEF SentFrom, EntryRaw, Tolerated, RawFree
<1>3. CASE history[i].meant # None
  <2>1. Delivered(history[i].meant, history[i].form)
    BY <1>3, EntryDelivered
  <2>2. \A f \in DOMAIN item.fields :
           /\ f \in DOMAIN history[i].meant.fields
           /\ Tolerated(item, f, RawWords(history[i].meant.fields[f]))
    BY <2>1, MeantIsTolerated
  <2> QED BY <1>1, <1>3, <2>2 DEF SentFrom, EntryRaw, Tolerated, RawFree, KeptEntry
<1> QED BY <1>2, <1>3

LEMMA RawFreeWords ==
    ASSUME NEW item, IsItem(item)
    PROVE  RawFree(item) <=> \A w \in WordsIn({item}) : ~IsRaw(w)
BY DEF RawFree, RawWords, WordsIn

LEMMA KeepInit == Init => KeepInvariant
BY DEF Init, KeepInvariant, KeptRequest, Free

LEMMA KeepNext ==
    ASSUME ClientsKeepToMatrix, ProxyInvariant, ReturnInvariant, KeepInvariant, [Next]_vars
    PROVE  KeepInvariant'
<1>1. UNCHANGED <<protocol, policy>>
  BY DEF Next, vars, Write, Protected, SavedButFailed, Protecting, Respond, Deliver, Fail, Expire
<1> DEFINE Entries == \A i \in DOMAIN history : KeptEntry(history[i])
<1> DEFINE Requests == \A r \in Request : KeptRequest(request[r])
<1>2. history' = history => Entries'
  BY <1>1 DEF KeepInvariant, KeptEntry
<1>3. ASSUME NEW entry, history' = Append(history, entry), KeptEntry(entry)
      PROVE  Entries'
  BY <1>1, <1>3, HistoryAppended DEF KeepInvariant, KeptEntry
<1>4. ASSUME NEW q, KeptRequest(q),
             history' = history \/ \E entry : history' = Append(history, entry)
      PROVE  KeptRequest(q)'
  <2>1. \A i \in DOMAIN history : i \in DOMAIN history' /\ history'[i] = history[i]
    BY <1>4, HistoryAppended
  <2> QED BY <1>1, <1>4, <2>1 DEF KeptRequest, SentFrom, Tolerated
<1>5. ASSUME history' = history \/ \E entry : history' = Append(history, entry),
             request' = request
      PROVE  Requests'
  BY <1>4, <1>5 DEF KeepInvariant
<1>6. ASSUME history' = history \/ \E entry : history' = Append(history, entry),
             NEW r \in Request, NEW state, request' = [request EXCEPT ![r] = state],
             KeptRequest(state)
      PROVE  Requests'
  <2> SUFFICES ASSUME NEW q \in Request PROVE KeptRequest(request[q])'
    OBVIOUS
  <2>1. request'[q] = IF q = r THEN state ELSE request[q]
    BY <1>6 DEF ProxyInvariant
  <2>2. PICK new : new = request'[q]
    OBVIOUS
  <2>3. KeptRequest(new)
    BY <1>6, <2>1, <2>2 DEF KeepInvariant
  <2> QED BY <1>4, <1>6, <2>2, <2>3 DEF KeptRequest
<1>7. KeptRequest(Free)
  BY DEF KeptRequest, Free
<1> HIDE DEF Entries, Requests
<1>8. ASSUME NEW item \in ClientItems[protocol], Write(item) PROVE Entries' /\ Requests'
  <2> DEFINE entry == [form |-> item, meant |-> None]
  <2>1. KeptEntry(entry)
    BY DEF KeptEntry
  <2> QED BY <1>3, <1>5, <1>8, <2>1 DEF Write
<1>9. ASSUME NEW r \in Request, NEW sent \in BOOLEAN, Protecting(r, sent) PROVE Entries' /\ Requests'
  <2> DEFINE body == ProtectedBody(table)
  <2>1. /\ table # None /\ Refused \notin ToSet(body) /\ history' = history /\ request[r] = Free
        /\ request' = IF sent
                      THEN [request EXCEPT ![r] = [@ EXCEPT !.phase = "sending", !.body = body]]
                      ELSE request
    BY <1>9 DEF Protecting, ProxyInvariant, RequestOK
  <2>2. ASSUME NEW i \in DOMAIN body
        PROVE  /\ i \in DOMAIN history /\ SentFrom(body[i], history[i])
               /\ policy # "default" => RawFree(body[i])
    <3>1. i \in DOMAIN history /\ body[i] = Outgoing(history[i].form, table)
      BY DEF ProtectedBody
    <3>2. body[i] # Refused
      BY <2>1 DEF ToSet
    <3> HIDE DEF body
    <3> QED BY <2>1, <3>1, <3>2, ProtectedItem
  <2>3. CASE sent
    <3> DEFINE state == [Free EXCEPT !.phase = "sending", !.body = body]
    <3>1. request' = [request EXCEPT ![r] = state]
      BY <2>1, <2>3
    <3>2. state.phase = "sending" /\ state.body = body
      BY DEF Free
    <3> HIDE DEF state, body
    <3>3. KeptRequest(state)
      BY <2>2, <3>2 DEF KeptRequest
    <3> QED BY <1>2, <1>6, <2>1, <3>1, <3>3
  <2>4. CASE ~sent
    BY <1>2, <1>5, <2>1, <2>4
  <2> QED BY <2>3, <2>4
<1>10. ASSUME NEW r \in Request, NEW item \in ProviderItems[protocol], Respond(r, item)
       PROVE  Entries' /\ Requests'
  <2> DEFINE state == [phase |-> "answered", body |-> <<>>, answer |-> item]
  <2>1. IsItem(item) /\ KeptRequest(request[r]) /\ RequestOK(request[r])
    BY ProxyAssumption DEF ProxyInvariant, KeepInvariant
  <2>2. ASSUME policy # "default", NEW w \in WordsIn({item}), IsRaw(w) PROVE FALSE
    <3>1. w \in WordsIn(ToSet(request[r].body))
      <4>1. w # Plain
        BY <2>2 DEF Plain, IsRaw
      <4>2. WordsIn({item}) \subseteq {Plain} \cup WordsIn(ToSet(request[r].body))
        BY <1>10 DEF Respond
      <4> QED BY <4>1, <4>2
    <3>2. PICK i \in DOMAIN request[r].body : w \in WordsIn({request[r].body[i]})
      BY <3>1 DEF WordsIn, ToSet
    <3>3. RawFree(request[r].body[i]) /\ IsItem(request[r].body[i])
      BY <2>1, <2>2 DEF KeptRequest, RequestOK
    <3> QED BY <2>2, <3>2, <3>3, RawFreeWords
  <2>3. policy # "default" => RawFree(item)
    BY <2>1, <2>2, RawFreeWords
  <2>4. KeptRequest(state)
    BY <2>3 DEF KeptRequest
  <2> QED BY <1>2, <1>6, <1>10, <2>4 DEF Respond
<1>11. ASSUME NEW r \in Request, Deliver(r) PROVE Entries' /\ Requests'
  <2> DEFINE meant == request[r].answer
  <2> DEFINE entry == [form |-> Incoming(meant, table), meant |-> meant]
  <2>1. /\ request[r].phase = "answered" /\ request' = [request EXCEPT ![r] = Free]
        /\ history' = history \/ history' = Append(history, entry)
    BY <1>11 DEF Deliver
  <2>2. Requests'
    BY <1>6, <1>7, <2>1
  <2>3. IsItem(meant) /\ (policy # "default" => RawFree(meant))
    BY <2>1 DEF ProxyInvariant, RequestOK, KeepInvariant, KeptRequest
  <2>4. meant # None
    BY <2>3, ItemTyped
  <2>5. KeptEntry(entry)
    BY <2>3, <2>4 DEF KeptEntry
  <2> QED BY <1>2, <1>3, <2>1, <2>2, <2>5
<1>12. ASSUME NEW r \in Request, Fail(r) PROVE Entries' /\ Requests'
  BY <1>2, <1>6, <1>7, <1>12 DEF Fail
<1>13. ASSUME Expire PROVE Entries' /\ Requests'
  BY <1>2, <1>5, <1>13 DEF Expire
<1>14. ASSUME UNCHANGED vars PROVE Entries' /\ Requests'
  BY <1>2, <1>5, <1>14 DEF vars
<1>15. Entries' /\ Requests'
  BY <1>8, <1>9, <1>10, <1>11, <1>12, <1>13, <1>14 DEF Next, Protected, SavedButFailed
<1> QED BY <1>15 DEF KeepInvariant, Entries, Requests

\* The bodies that are sent, item by item: a value is raw in tool data of the
\* default policy, or where the provider wrote it into that answer itself.
THEOREM KeepInvariantHolds ==
    ASSUME ClientsKeepToMatrix
    PROVE  Spec => []KeepInvariant
BY ProxyInvariantHolds, ReturnInvariantHolds, KeepInit, KeepNext, PTL DEF Spec

\* A value reaches the provider in tool data under the default policy only, or
\* where the provider has written it itself.
THEOREM RawStaysInToolData ==
    ASSUME ClientsKeepToMatrix
    PROVE  Spec => []RawOnlyInToolData
<1>1. KeepInvariant => RawOnlyInToolData
  BY DEF KeepInvariant, KeptRequest, SentFrom, EntryRaw, Tolerated, RawOnlyInToolData, MeantThere
<1> QED BY <1>1, KeepInvariantHolds, PTL

\* Whatever has been delivered can be sent again.
THEOREM DeliveredCanBeSent ==
    ASSUME ClientsKeepToMatrix
    PROVE  Spec => []DeliveredIsAccepted
<1>1. ProxyInvariant /\ ReturnInvariant /\ KeepInvariant => DeliveredIsAccepted
  <2> SUFFICES ASSUME ProxyInvariant, ReturnInvariant, KeepInvariant, table # None,
                      NEW i \in DOMAIN history, history[i].meant # None
               PROVE  Outgoing(history[i].form, table) # Refused
    BY DEF DeliveredIsAccepted
  <2>1. Delivered(history[i].meant, history[i].form)
    BY EntryDelivered
  <2>2. policy # "default" => RawFree(history[i].meant)
    BY DEF KeepInvariant, KeptEntry
  <2> QED BY <2>1, <2>2, MeantIsAccepted
<1> QED BY <1>1, ProxyInvariantHolds, ReturnInvariantHolds, KeepInvariantHolds, PTL

\* Under the other policies tool data is protected with the rest: the outputs of
\* custom tools, which no rule names, are the only exception that a client can be.
THEOREM ToolDataIsProtected ==
    ASSUME ClientsKeepToMatrix
    PROVE  Spec => []ToolDataProtected
<1>1. KeepInvariant => ToolDataProtected
  BY DEF KeepInvariant, KeptRequest, RawFree, ToolDataProtected
<1> QED BY <1>1, KeepInvariantHolds, PTL
=============================================================================
