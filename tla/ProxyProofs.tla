----------------------------- MODULE ProxyProofs -----------------------------
(***************************************************************************)
(* What Proxy sends is saved, for any values, any number of requests and   *)
(* any items: the substitutes in a body stand for values that the          *)
(* transaction has recorded, or come from the history, whose substitutes   *)
(* came from bodies that were sent before.                                 *)
(***************************************************************************)
EXTENDS Proxy, SequenceTheorems, TLAPS

\* transform is applied to x.
Reaches(rule, content, x) ==
    /\ x \in Word
    /\ \E e \in content.words :
          \/ rule.keys /\ e[1] = x
          \/ e[2] = x /\ ~(content.form = "parts" /\ e[1] \notin rule.parts)

\* Words become words, or are refused.
Maps(apply) == \A w \in Word : apply[w] \in Word \cup {Refused}

LEMMA ReachedIsContained ==
    ASSUME NEW rule, NEW content \in Content, NEW x, Reaches(rule, content, x)
    PROVE  x \in WordsOf(content)
BY DEF Reaches, WordsOf

LEMMA ReachedIsRefused ==
    ASSUME NEW rule, NEW content, NEW transform, NEW x,
           Reaches(rule, content, x), transform[rule.kind][x] = Refused
    PROVE  TransformedContent(rule, content, transform) = Refused
BY DEF Reaches, TransformedContent

LEMMA WordsReplaced ==
    ASSUME NEW content \in Content, NEW words
    PROVE  [content EXCEPT !.words = words] = [form |-> content.form, words |-> words]
BY DEF Content

LEMMA TransformedWords ==
    ASSUME NEW rule, NEW content \in Content, NEW transform, Maps(transform[rule.kind]),
           TransformedContent(rule, content, transform) # Refused
    PROVE  LET out == TransformedContent(rule, content, transform)
           IN  /\ out \in Content
               /\ \A w \in WordsOf(out) :
                     \/ w \in WordsOf(content)
                     \/ \E x \in Word : Reaches(rule, content, x) /\ w = transform[rule.kind][x]
<1> DEFINE apply == transform[rule.kind]
<1> DEFINE label(e) == IF rule.keys /\ e[1] \in Word THEN apply[e[1]] ELSE e[1]
<1> DEFINE text(e) == IF content.form = "parts" /\ e[1] \notin rule.parts
                      THEN e[2] ELSE apply[e[2]]
<1> DEFINE out == [content EXCEPT !.words = {<<label(e), text(e)>> : e \in content.words}]
<1> DEFINE Labels == Word \cup PartType \cup {NoLabel}
<1>1. TransformedContent(rule, content, transform) = out
  BY DEF TransformedContent
<1>2. \A e \in content.words : label(e) # Refused /\ text(e) # Refused
  BY DEF TransformedContent
<1>3. \A e \in content.words : e = <<e[1], e[2]>> /\ e[1] \in Labels /\ e[2] \in Word
  BY DEF Content
<1>4. \A e \in content.words : label(e) \in Labels /\ text(e) \in Word
  BY <1>2, <1>3 DEF Maps
<1>5. content.form \in Form
  BY DEF Content
<1>6. out = [form |-> content.form, words |-> {<<label(e), text(e)>> : e \in content.words}]
  BY WordsReplaced
<1>7. out.words \in SUBSET (Labels \X Word)
  BY <1>4, <1>6
<1>8. out \in Content
  BY <1>5, <1>6, <1>7 DEF Content
<1>9. ASSUME NEW w \in WordsOf(out)
      PROVE  \/ w \in WordsOf(content)
             \/ \E x \in Word : Reaches(rule, content, x) /\ w = apply[x]
  <2>1. PICK e \in content.words : w = text(e) \/ (w \in Word /\ w = label(e))
    BY <1>6 DEF WordsOf
  <2>2. e[1] \in Labels /\ e[2] \in Word
    BY <1>3
  <2>3. CASE w = text(e)
    BY <2>2, <2>3 DEF WordsOf, Reaches
  <2>4. CASE w \in Word /\ w = label(e)
    BY <2>2, <2>4 DEF WordsOf, Reaches
  <2> QED BY <2>1, <2>3, <2>4
<1> QED BY <1>1, <1>8, <1>9

-----------------------------------------------------------------------------
(***************************************************************************)
(* The same for a whole item.                                              *)
(***************************************************************************)
RuleFor(rules, f) == CHOOSE r \in rules : r.field = f

Typed(rules) == \A r \in rules : r.kind \in ContentKind

ItemWords(item) == UNION {WordsOf(item.fields[f]) : f \in DOMAIN item.fields}

LEMMA RulesTyped ==
    ASSUME NEW p \in Protocol, NEW d \in {"to-provider", "to-local"}, NEW type
    PROVE  Typed(Rules(p, d, type))
<1>1. Typed(ResponsesItem(type))
  BY DEF Typed, ResponsesItem, TypedParts, Recursive, InnerJson, OptionalString,
         RequiredString, Rule, ContentKind
<1>2. Typed(ResponsesRequest(type))
  BY <1>1 DEF Typed, ResponsesRequest, Recursive, OptionalString, Rule, ContentKind
<1>3. Typed(ResponsesResponse(type))
  BY <1>1 DEF Typed, ResponsesResponse, OptionalString, Rule, ContentKind
<1>4. Typed(MessagesBlock(type))
  BY DEF Typed, MessagesBlock, ToolResult, Document, TypedParts, Recursive,
         OptionalString, RequiredString, Rule, ContentKind
<1>5. Typed(MessagesRequest(type))
  BY <1>4 DEF Typed, MessagesRequest, TypedParts, Recursive, Rule, ContentKind
<1>6. Typed(OutputBlock(type))
  BY DEF Typed, OutputBlock, Recursive, RequiredString, Rule, ContentKind
<1>7. Typed(MessagesResponse(type))
  BY <1>6 DEF Typed, MessagesResponse, OptionalString, Rule, ContentKind
<1> QED BY <1>2, <1>3, <1>5, <1>7 DEF Rules, Protocol

LEMMA ItemRefused ==
    ASSUME NEW rules, NEW item, NEW transform, NEW f \in DOMAIN item.fields, NEW x,
           \E r \in rules : r.field = f,
           Reaches(RuleFor(rules, f), item.fields[f], x),
           transform[RuleFor(rules, f).kind][x] = Refused
    PROVE  Transformed(rules, item, transform) = Refused
<1>1. TransformedContent(RuleFor(rules, f), item.fields[f], transform) = Refused
  BY ReachedIsRefused
<1> QED BY <1>1 DEF Transformed, RuleFor

LEMMA FieldsReplaced ==
    ASSUME NEW item, IsItem(item), NEW fields \in [DOMAIN item.fields -> Content]
    PROVE  /\ [item EXCEPT !.fields = fields] = [type |-> item.type, fields |-> fields]
           /\ IsItem([item EXCEPT !.fields = fields])
<1>1. [item EXCEPT !.fields = fields] = [type |-> item.type, fields |-> fields]
  BY DEF IsItem
<1>2. IsItem([type |-> item.type, fields |-> fields])
  BY DEF IsItem
<1> QED BY <1>1, <1>2

\* A transformed item is an item, and each of its words was there or is what
\* became of a word that its rule reaches.
LEMMA TransformedItem ==
    ASSUME NEW rules, Typed(rules), NEW item, IsItem(item), NEW transform,
           \A kind \in ContentKind : Maps(transform[kind]),
           Transformed(rules, item, transform) # Refused
    PROVE  LET out == Transformed(rules, item, transform)
           IN  /\ IsItem(out)
               /\ \A w \in ItemWords(out) :
                     \/ w \in ItemWords(item)
                     \/ \E f \in DOMAIN item.fields, x \in Word :
                           /\ \E r \in rules : r.field = f
                           /\ Reaches(RuleFor(rules, f), item.fields[f], x)
                           /\ w = transform[RuleFor(rules, f).kind][x]
<1> DEFINE ruled(f) == \E r \in rules : r.field = f
<1> DEFINE one(f) == TransformedContent(RuleFor(rules, f), item.fields[f], transform)
<1> DEFINE fields == [f \in DOMAIN item.fields |-> IF ruled(f) THEN one(f) ELSE item.fields[f]]
<1> DEFINE out == [item EXCEPT !.fields = fields]
<1>1. Transformed(rules, item, transform) = out /\ \A f \in DOMAIN fields : fields[f] # Refused
  BY DEF Transformed, RuleFor
<1>2. out.fields = fields
  BY DEF IsItem
<1>3. ASSUME NEW f \in DOMAIN item.fields
      PROVE  /\ fields[f] \in Content
             /\ \A w \in WordsOf(fields[f]) :
                   \/ w \in WordsOf(item.fields[f])
                   \/ \E x \in Word : /\ ruled(f)
                                      /\ Reaches(RuleFor(rules, f), item.fields[f], x)
                                      /\ w = transform[RuleFor(rules, f).kind][x]
  <2>1. item.fields[f] \in Content
    BY DEF IsItem
  <2>2. CASE ruled(f)
    <3>1. RuleFor(rules, f) \in rules
      BY <2>2 DEF RuleFor
    <3>2. Maps(transform[RuleFor(rules, f).kind])
      BY <3>1 DEF Typed
    <3>3. fields[f] = one(f) /\ one(f) # Refused
      BY <1>1, <2>2
    <3>4. /\ one(f) \in Content
          /\ \A w \in WordsOf(one(f)) :
                \/ w \in WordsOf(item.fields[f])
                \/ \E x \in Word : /\ Reaches(RuleFor(rules, f), item.fields[f], x)
                                   /\ w = transform[RuleFor(rules, f).kind][x]
      <4> HIDE DEF fields
      <4>1. one(f) # Refused
        BY <3>3
      <4> QED BY <2>1, <3>2, <4>1, TransformedWords
    <3> QED BY <2>2, <3>3, <3>4
  <2>3. CASE ~ruled(f)
    BY <2>1, <2>3
  <2> QED BY <2>2, <2>3
<1>4. fields \in [DOMAIN item.fields -> Content]
  BY <1>3
<1> HIDE DEF fields
<1>5. IsItem(out)
  BY <1>4, FieldsReplaced
<1>6. ASSUME NEW w \in ItemWords(out)
      PROVE  \/ w \in ItemWords(item)
             \/ \E f \in DOMAIN item.fields, x \in Word :
                   /\ ruled(f)
                   /\ Reaches(RuleFor(rules, f), item.fields[f], x)
                   /\ w = transform[RuleFor(rules, f).kind][x]
  <2>1. PICK f \in DOMAIN item.fields : w \in WordsOf(fields[f])
    BY <1>2, <1>4 DEF ItemWords
  <2> QED BY <1>3, <2>1 DEF ItemWords
<1> QED BY <1>1, <1>5, <1>6

-----------------------------------------------------------------------------
(***************************************************************************)
(* The invariant: every substitute in a history, a body or an answer is in *)
(* the table, for as long as there is a vault.                             *)
(***************************************************************************)
SavedIn(item) == \A w \in ItemWords(item) : w[1] = "alias" => table[w[2]] # None

HistoryOK(entry) ==
    /\ IsItem(entry.form)
    /\ entry.meant # None => IsItem(entry.meant)
    /\ table # None => SavedIn(entry.form)

RequestOK(q) ==
    /\ q.phase \in {"free", "sending", "answered"}
    /\ q.phase = "free" => q = Free
    /\ \A i \in DOMAIN q.body : IsItem(q.body[i]) /\ (table # None => SavedIn(q.body[i]))
    /\ q.phase = "answered" => IsItem(q.answer) /\ (table # None => SavedIn(q.answer))

ProxyInvariant ==
    /\ protocol \in Protocol
    /\ policy \in Policy
    /\ table = None \/ table \in [Value -> Spelling \cup {None}]
    /\ \E entries : history \in Seq(entries)
    /\ \A i \in DOMAIN history : HistoryOK(history[i])
    /\ DOMAIN request = Request
    /\ \A r \in Request : RequestOK(request[r])

LEMMA WordFacts ==
    ASSUME NEW item, IsItem(item), NEW w \in ItemWords(item)
    PROVE  w \in Word /\ (w = Plain \/ (w = <<w[1], w[2]>> /\ w[2] \in Value))
<1>1. w \in Word
  BY DEF IsItem, ItemWords, WordsOf, Content
<1> QED BY <1>1 DEF Word

LEMMA ProtectMaps ==
    ASSUME NEW known, NEW kind \in ContentKind
    PROVE  Maps(ToProvider(known)[kind])
<1>1. ASSUME NEW w \in Word PROVE Protect(known, w) \in Word \cup {Refused}
  <2>1. IsRaw(w) => <<"alias", w[2]>> \in Word
    BY DEF IsRaw, Word, Plain
  <2> QED BY <2>1 DEF Protect
<1> QED BY <1>1 DEF Maps, ToProvider

LEMMA RestoreMaps ==
    ASSUME NEW known \in [Value -> Spelling \cup {None}], NEW kind \in ContentKind
    PROVE  Maps(ToLocal(known)[kind])
<1>1. ASSUME NEW w \in Word PROVE Restore(known, w) \in Word \cup {Refused}
  <2>1. w[1] = "alias" /\ known[w[2]] # None => <<known[w[2]], w[2]>> \in Word
    BY DEF Word, Plain, Spelling
  <2> QED BY <2>1 DEF Restore
<1> QED BY <1>1 DEF Maps, ToLocal

\* A protected item is saved with the table that its transaction records.
LEMMA OutgoingSaved ==
    ASSUME ProxyInvariant, table # None, NEW larger \in Recorded(table),
           NEW i \in DOMAIN history, Outgoing(history[i].form, table) # Refused
    PROVE  /\ IsItem(Outgoing(history[i].form, table))
           /\ \A w \in ItemWords(Outgoing(history[i].form, table)) :
                 w[1] = "alias" => larger[w[2]] # None
<1> DEFINE item == history[i].form
<1> DEFINE rules == Rules(protocol, "to-provider", item.type)
<1> DEFINE out == Outgoing(item, table)
<1>1. IsItem(item) /\ SavedIn(item) /\ protocol \in Protocol
  BY DEF ProxyInvariant, HistoryOK
<1>2. Typed(rules)
  BY <1>1, RulesTyped
<1>3. \A kind \in ContentKind : Maps(ToProvider(table)[kind])
  BY ProtectMaps
<1>4. /\ IsItem(out)
      /\ \A w \in ItemWords(out) :
            \/ w \in ItemWords(item)
            \/ \E f \in DOMAIN item.fields, x \in Word :
                  /\ \E r \in rules : r.field = f
                  /\ Reaches(RuleFor(rules, f), item.fields[f], x)
                  /\ w = ToProvider(table)[RuleFor(rules, f).kind][x]
  BY <1>1, <1>2, <1>3, TransformedItem DEF Outgoing
<1>5. ASSUME NEW w \in ItemWords(item), w[1] = "alias" PROVE larger[w[2]] # None
  <2>1. w[2] \in Value /\ table[w[2]] # None
    BY <1>1, <1>5, WordFacts DEF SavedIn, Plain
  <2> QED BY <2>1 DEF Recorded
<1>6. ASSUME NEW f \in DOMAIN item.fields, NEW x \in Word, \E r \in rules : r.field = f,
             Reaches(RuleFor(rules, f), item.fields[f], x),
             NEW w, w = ToProvider(table)[RuleFor(rules, f).kind][x], w[1] = "alias",
             w # Refused
      PROVE  larger[w[2]] # None
  <2> DEFINE kind == RuleFor(rules, f).kind
  <2>1. kind \in ContentKind
    BY <1>2, <1>6 DEF Typed, RuleFor
  <2>2. x \in ItemWords(item)
    BY <1>1, <1>6, ReachedIsContained DEF ItemWords, IsItem
  <2>3. w = IF Protects(kind) THEN Protect(table, x) ELSE x
    BY <1>6, <2>1 DEF ToProvider
  <2>4. CASE w = x
    BY <1>5, <1>6, <2>2, <2>4
  <2>5. CASE Protects(kind) /\ IsRaw(x) /\ w = <<"alias", x[2]>>
    <3>1. x = <<x[1], x[2]>> /\ x[1] \in Spelling /\ x[2] \in Value
      BY <2>5 DEF IsRaw, Word, Plain, Spelling
    <3>2. Touches(item, x)
      <4> DEFINE marking == [k \in ContentKind |->
                               [y \in Word |-> IF y = x /\ Protects(k) THEN Refused ELSE y]]
      <4>1. marking[kind][x] = Refused
        BY <2>1, <2>5
      <4> HIDE DEF marking
      <4>2. Transformed(rules, item, marking) = Refused
        BY <1>6, <4>1, ItemRefused
      <4> QED BY <4>2 DEF Touches, marking
    <3> DEFINE found == {s \in Spelling :
                            \E j \in DOMAIN history : Touches(history[j].form, <<s, x[2]>>)}
    <3>3. x[1] \in found
      BY <3>1, <3>2
    <3>4. table[x[2]] # None \/ larger[x[2]] \in found
      BY <3>1, <3>3 DEF Recorded
    <3>5. table[x[2]] # None => larger[x[2]] = table[x[2]]
      BY <3>1 DEF Recorded
    <3> QED BY <2>5, <3>4, <3>5, ProxyAssumption
  <2> QED BY <1>6, <2>3, <2>4, <2>5 DEF Protect
<1>7. \A w \in ItemWords(out) : w # Refused
  BY <1>4, WordFacts, MatrixAssumption
<1> QED BY <1>4, <1>5, <1>6, <1>7

\* A restored item has no substitute that was not in the answer.
LEMMA IncomingSaved ==
    ASSUME ProxyInvariant, table # None, NEW item, IsItem(item), SavedIn(item),
           Incoming(item, table) # Refused
    PROVE  IsItem(Incoming(item, table)) /\ SavedIn(Incoming(item, table))
<1> DEFINE rules == Rules(protocol, "to-local", item.type)
<1> DEFINE out == Incoming(item, table)
<1>1. protocol \in Protocol /\ table \in [Value -> Spelling \cup {None}]
  BY DEF ProxyInvariant
<1>2. Typed(rules)
  BY <1>1, RulesTyped
<1>3. \A kind \in ContentKind : Maps(ToLocal(table)[kind])
  BY <1>1, RestoreMaps
<1>4. /\ IsItem(out)
      /\ \A w \in ItemWords(out) :
            \/ w \in ItemWords(item)
            \/ \E f \in DOMAIN item.fields, x \in Word :
                  /\ \E r \in rules : r.field = f
                  /\ Reaches(RuleFor(rules, f), item.fields[f], x)
                  /\ w = ToLocal(table)[RuleFor(rules, f).kind][x]
  BY <1>2, <1>3, TransformedItem DEF Incoming
<1>5. ASSUME NEW f \in DOMAIN item.fields, NEW x \in Word, \E r \in rules : r.field = f,
             Reaches(RuleFor(rules, f), item.fields[f], x),
             NEW w \in Word, w = ToLocal(table)[RuleFor(rules, f).kind][x], w[1] = "alias"
      PROVE  table[w[2]] # None
  <2>1. RuleFor(rules, f).kind \in ContentKind
    BY <1>2, <1>5 DEF Typed, RuleFor
  <2>2. x \in ItemWords(item)
    BY <1>5, ReachedIsContained DEF ItemWords, IsItem
  <2>3. w = Restore(table, x)
    BY <1>5, <2>1 DEF ToLocal
  <2>4. CASE w = x
    BY <1>5, <2>2, <2>4 DEF SavedIn
  <2>5. CASE w = <<table[x[2]], x[2]>> /\ x[1] = "alias" /\ table[x[2]] # None
    <3>1. x[2] \in Value
      BY <2>5 DEF Word, Plain
    <3>2. w[1] \in Spelling
      BY <1>1, <2>5, <3>1
    <3> QED BY <1>5, <3>2 DEF Spelling
  <2> QED BY <1>5, <2>3, <2>4, <2>5, MatrixAssumption DEF Restore
<1>6. ASSUME NEW w \in ItemWords(out), w[1] = "alias" PROVE table[w[2]] # None
  <2>1. w \in Word
    BY <1>4, WordFacts
  <2> QED BY <1>4, <1>5, <1>6, <2>1 DEF SavedIn
<1> QED BY <1>4, <1>6 DEF SavedIn

-----------------------------------------------------------------------------
(***************************************************************************)
(* The steps.                                                              *)
(***************************************************************************)
\* A longer history.
LEMMA HistoryGrows ==
    ASSUME ProxyInvariant, NEW entry, HistoryOK(entry)', UNCHANGED table,
           history' = Append(history, entry)
    PROVE  /\ (\E entries : history \in Seq(entries))'
           /\ (\A i \in DOMAIN history : HistoryOK(history[i]))'
<1>1. PICK entries : history \in Seq(entries)
  BY DEF ProxyInvariant
<1> DEFINE all == entries \cup {entry}
<1>2. history \in Seq(all)
  BY <1>1, SeqMonotonic
<1>3. /\ history' \in Seq(all)
      /\ \A i \in DOMAIN history' : history'[i] = entry
                                    \/ (i \in DOMAIN history /\ history'[i] = history[i])
  BY <1>2
<1>4. ASSUME NEW i \in DOMAIN history' PROVE HistoryOK(history[i])'
  <2>1. CASE history'[i] = entry
    BY <2>1 DEF HistoryOK, SavedIn
  <2>2. CASE i \in DOMAIN history /\ history'[i] = history[i]
    BY <2>2 DEF ProxyInvariant, HistoryOK, SavedIn
  <2> QED BY <1>3, <2>1, <2>2
<1> QED BY <1>3, <1>4

LEMMA WriteStep ==
    ASSUME ProxyInvariant, NEW item \in ClientItems[protocol], Write(item)
    PROVE  ProxyInvariant'
<1> DEFINE entry == [form |-> item, meant |-> None]
<1>1. protocol \in Protocol
  BY DEF ProxyInvariant
<1>2. IsItem(item) /\ \A w \in ItemWords(item) : w[1] # "alias"
  BY <1>1, ProxyAssumption, ClientAssumption DEF WordsIn, ItemWords
<1>3. HistoryOK(entry)'
  BY <1>2 DEF HistoryOK, SavedIn
<1>4. UNCHANGED <<protocol, policy, table, request>> /\ history' = Append(history, entry)
  BY DEF Write
<1>5. \A r \in Request : RequestOK(request[r])'
  BY <1>4 DEF ProxyInvariant, RequestOK, SavedIn
<1>6. /\ (\E entries : history \in Seq(entries))'
      /\ (\A i \in DOMAIN history : HistoryOK(history[i]))'
  BY <1>3, <1>4, HistoryGrows
<1> QED BY <1>4, <1>5, <1>6 DEF ProxyInvariant

\* What a larger table holds besides changes nothing that is saved.
LEMMA ProtectingStep ==
    ASSUME ProxyInvariant, NEW r \in Request, NEW sent \in BOOLEAN, Protecting(r, sent)
    PROVE  ProxyInvariant'
<1> DEFINE body == ProtectedBody(table)
<1>1. /\ table # None /\ table' \in Recorded(table) /\ Refused \notin ToSet(body)
      /\ request' = IF sent
                    THEN [request EXCEPT ![r] = [@ EXCEPT !.phase = "sending", !.body = body]]
                    ELSE request
      /\ request[r] = Free
      /\ UNCHANGED <<protocol, policy, history>>
  BY DEF Protecting, ProxyInvariant, RequestOK
<1>2. table \in [Value -> Spelling \cup {None}] /\ table' \in [Value -> Spelling \cup {None}]
  BY <1>1 DEF ProxyInvariant, Recorded
<1>3. \A v \in Value : table[v] # None => table'[v] # None
  BY <1>1 DEF Recorded
<1>4. ASSUME NEW item, IsItem(item), SavedIn(item) PROVE SavedIn(item)'
  BY <1>3, <1>4, WordFacts DEF SavedIn, Plain
<1>5. (\A i \in DOMAIN history : HistoryOK(history[i]))'
  BY <1>1, <1>4 DEF ProxyInvariant, HistoryOK
<1>6. \A i \in DOMAIN body : IsItem(body[i]) /\ \A w \in ItemWords(body[i]) : w[1] = "alias" => table'[w[2]] # None
  <2> SUFFICES ASSUME NEW i \in DOMAIN body
               PROVE  /\ IsItem(body[i])
                      /\ \A w \in ItemWords(body[i]) : w[1] = "alias" => table'[w[2]] # None
    OBVIOUS
  <2>1. i \in DOMAIN history /\ body[i] = Outgoing(history[i].form, table)
    BY DEF ProtectedBody
  <2>2. body[i] # Refused
    BY <1>1 DEF ToSet
  <2>3. PICK larger \in Recorded(table) : larger = table'
    BY <1>1
  <2> QED BY <1>1, <2>1, <2>2, <2>3, OutgoingSaved
<1>7. (\A q \in Request : RequestOK(request[q]))'
  <2> SUFFICES ASSUME NEW q \in Request PROVE RequestOK(request[q])'
    OBVIOUS
  <2>1. RequestOK(request[q]) => RequestOK(request[q])' \/ request'[q] # request[q]
    BY <1>1, <1>4 DEF RequestOK
  <2>2. CASE sent /\ q = r
    <3>1. request'[q] = [phase |-> "sending", body |-> body, answer |-> None]
      <4>1. request'[q] = [Free EXCEPT !.phase = "sending", !.body = body]
        BY <1>1, <2>2 DEF ProxyInvariant
      <4> HIDE DEF body
      <4> QED BY <4>1 DEF Free
    <3> QED BY <1>6, <3>1 DEF RequestOK, SavedIn
  <2>3. CASE ~(sent /\ q = r)
    <3>1. request'[q] = request[q]
      BY <1>1, <2>3
    <3> QED BY <2>1, <3>1 DEF ProxyInvariant
  <2> QED BY <2>2, <2>3
<1>8. DOMAIN request' = Request
  BY <1>1 DEF ProxyInvariant
<1> QED BY <1>1, <1>2, <1>5, <1>7, <1>8 DEF ProxyInvariant

\* One request changes, and the history and the table stay.
LEMMA RequestStep ==
    ASSUME ProxyInvariant, NEW r \in Request, NEW state, RequestOK(state),
           request' = [request EXCEPT ![r] = state],
           UNCHANGED <<protocol, policy, history, table>>
    PROVE  ProxyInvariant'
<1>1. (\A q \in Request : RequestOK(request[q]))'
  BY DEF ProxyInvariant, RequestOK, SavedIn
<1>2. (\A i \in DOMAIN history : HistoryOK(history[i]))'
  BY DEF ProxyInvariant, HistoryOK, SavedIn
<1> QED BY <1>1, <1>2 DEF ProxyInvariant

LEMMA FreeIsOK == RequestOK(Free)
BY DEF RequestOK, Free

LEMMA RespondStep ==
    ASSUME ProxyInvariant, NEW r \in Request, NEW item \in ProviderItems[protocol], Respond(r, item)
    PROVE  ProxyInvariant'
<1> DEFINE state == [phase |-> "answered", body |-> <<>>, answer |-> item]
<1>1. IsItem(item) /\ RequestOK(request[r])
  BY ProxyAssumption DEF ProxyInvariant
<1>2. ASSUME table # None, NEW w \in ItemWords(item), w[1] = "alias" PROVE table[w[2]] # None
  <2>1. w \in WordsIn({item})
    BY DEF WordsIn, ItemWords
  <2>2. w \in WordsIn(ToSet(request[r].body))
    BY <1>2, <2>1 DEF Respond, Plain
  <2>3. PICK i \in DOMAIN request[r].body : w \in ItemWords(request[r].body[i])
    BY <2>2 DEF WordsIn, ItemWords, ToSet
  <2> QED BY <1>1, <1>2, <2>3 DEF RequestOK, SavedIn
<1>3. RequestOK(state)
  BY <1>1, <1>2 DEF RequestOK, SavedIn
<1> QED BY <1>3, RequestStep DEF Respond

LEMMA FailStep ==
    ASSUME ProxyInvariant, NEW r \in Request, Fail(r)
    PROVE  ProxyInvariant'
BY FreeIsOK, RequestStep DEF Fail

LEMMA DeliverStep ==
    ASSUME ProxyInvariant, NEW r \in Request, Deliver(r)
    PROVE  ProxyInvariant'
<1> DEFINE meant == request[r].answer
<1> DEFINE form == Incoming(meant, table)
<1> DEFINE entry == [form |-> form, meant |-> meant]
<1>1. /\ table # None /\ form # Refused /\ IsItem(meant) /\ SavedIn(meant)
      /\ history' = history \/ history' = Append(history, entry)
      /\ request' = [request EXCEPT ![r] = Free]
      /\ UNCHANGED <<protocol, policy, table>>
  BY DEF Deliver, ProxyInvariant, RequestOK
<1>2. IsItem(form) /\ SavedIn(form)
  BY <1>1, IncomingSaved
<1>3. (\A q \in Request : RequestOK(request[q]))'
  BY <1>1, FreeIsOK DEF ProxyInvariant, RequestOK, SavedIn
<1>4. /\ (\E entries : history \in Seq(entries))'
      /\ (\A i \in DOMAIN history : HistoryOK(history[i]))'
  <2>1. CASE history' = history
    BY <1>1, <2>1 DEF ProxyInvariant, HistoryOK, SavedIn
  <2>2. CASE history' = Append(history, entry)
    <3>1. PICK e : e = entry
      OBVIOUS
    <3>2. HistoryOK(e)'
      BY <1>1, <1>2, <3>1 DEF HistoryOK, SavedIn
    <3> QED BY <1>1, <2>2, <3>1, <3>2, HistoryGrows
  <2> QED BY <1>1, <2>1, <2>2
<1> QED BY <1>1, <1>3, <1>4 DEF ProxyInvariant

LEMMA ExpireStep ==
    ASSUME ProxyInvariant, Expire
    PROVE  ProxyInvariant'
<1>1. (\A q \in Request : RequestOK(request[q]))'
  BY DEF Expire, ProxyInvariant, RequestOK
<1>2. (\A i \in DOMAIN history : HistoryOK(history[i]))'
  BY DEF Expire, ProxyInvariant, HistoryOK
<1> QED BY <1>1, <1>2 DEF Expire, ProxyInvariant

-----------------------------------------------------------------------------
LEMMA InitHolds == Init => ProxyInvariant
<1> SUFFICES ASSUME Init PROVE ProxyInvariant
  OBVIOUS
<1>1. history \in Seq({}) /\ DOMAIN history = {}
  BY DEF Init
<1>2. \A r \in Request : RequestOK(request[r])
  BY FreeIsOK DEF Init
<1> QED BY <1>1, <1>2 DEF Init, ProxyInvariant

LEMMA NextHolds ==
    ASSUME ProxyInvariant, [Next]_vars
    PROVE  ProxyInvariant'
<1>1. CASE \E item \in ClientItems[protocol] : Write(item)
  BY <1>1, WriteStep
<1>2. ASSUME NEW r \in Request,
             \/ Protected(r) \/ SavedButFailed(r)
             \/ \E item \in ProviderItems[protocol] : Respond(r, item)
             \/ Deliver(r) \/ Fail(r)
      PROVE  ProxyInvariant'
  BY <1>2, ProtectingStep, RespondStep, DeliverStep, FailStep DEF Protected, SavedButFailed
<1>3. CASE Expire
  BY <1>3, ExpireStep
<1>4. CASE UNCHANGED vars
  <2>1. (\A q \in Request : RequestOK(request[q]))'
    BY <1>4 DEF vars, ProxyInvariant, RequestOK, SavedIn
  <2>2. (\A i \in DOMAIN history : HistoryOK(history[i]))'
    BY <1>4 DEF vars, ProxyInvariant, HistoryOK, SavedIn
  <2> QED BY <1>4, <2>1, <2>2 DEF vars, ProxyInvariant
<1> QED BY <1>1, <1>2, <1>3, <1>4 DEF Next

\* The invariant that the two theorems below rest on.
THEOREM ProxyInvariantHolds == Spec => []ProxyInvariant
BY InitHolds, NextHolds, PTL DEF Spec

\* Histories, bodies and answers are made of items, whatever the matrices do
\* to them (transform_request_json, transform_response_json).
THEOREM ProxyTypeCorrect == Spec => []ProxyTypeOK
<1>1. ProxyInvariant => ProxyTypeOK
  BY DEF ProxyInvariant, HistoryOK, RequestOK, ProxyTypeOK
<1> QED BY <1>1, ProxyInvariantHolds, PTL

\* No substitute is sent that is not in the vault, whatever the client and the
\* provider write and whichever requests fail (commit before client.send).
THEOREM SubstitutesAreSaved == Spec => []SentIsSaved
<1>1. ProxyInvariant => SentIsSaved
  <2> SUFFICES ASSUME ProxyInvariant, table # None, NEW r \in Request,
                      NEW w \in WordsIn(ToSet(request[r].body)), w[1] = "alias"
               PROVE  table[w[2]] # None
    BY DEF SentIsSaved
  <2>1. PICK i \in DOMAIN request[r].body : w \in ItemWords(request[r].body[i])
    BY DEF WordsIn, ItemWords, ToSet
  <2> QED BY <2>1 DEF ProxyInvariant, RequestOK, SavedIn
<1> QED BY <1>1, ProxyInvariantHolds, PTL
=============================================================================
