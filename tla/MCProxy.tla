-------------------------------- MODULE MCProxy --------------------------------
(* The items of the instances: each form of content, with the words that       *)
(* matter in it.                                                               *)
EXTENDS Proxy, TLC

CONSTANT v1

Raw == <<"value", v1>>
Variant == <<"variant", v1>>
Alias == <<"alias", v1>>

Text(w) == [form |-> "text", words |-> {<<NoLabel, w>>}]
Part(type, w) == [form |-> "parts", words |-> {<<<<"part", type>>, w>>}]
Entries(form, words) == [form |-> form, words |-> words]
Keys(form, k, l) == Entries(form, {<<k, Plain>>, <<l, Plain>>})
Malformed == Entries("other", {})

Item1(type, f, content) == [type |-> type, fields |-> f :> content]
Item2(type, f, content, g, other) ==
    [type |-> type, fields |-> (f :> content) @@ (g :> other)]

Client ==
    [responses |->
        {Item1("message", "content", Text(w)) : w \in {Plain, Raw, Variant}} \cup
        {Item2("request", "instructions", Text(Raw), "tools", Entries("object", {<<Raw, Plain>>})),
         Item1("request", "variables", Entries("object", {<<Plain, Raw>>})),
         Item1("message", "content", Part("text", Raw)),
         Item1("message", "content", Malformed),
         Item1("function_call_output", "output", Text(Raw)),
         Item1("function_call_output", "output", Entries("list", {<<Plain, Variant>>})),
         Item1("custom_tool_call_output", "output", Text(Plain))},
     messages |->
        {Item1("text", "text", Text(w)) : w \in {Plain, Raw, Variant}} \cup
        {Item2("request", "system", Text(Raw), "tools", Entries("object", {<<Raw, Plain>>})),
         Item1("tool_result", "content", Text(Raw)),
         Item1("tool_result", "content", Part("text", Variant)),
         Item1("tool_result", "content", Part("other", Plain)),
         Item2("document", "title", Text(Raw), "data", Text(Variant)),
         Item2("search_result", "title", Text(Raw), "content", Part("text", Raw)),
         Item1("tool_use", "name", Text(Plain))}]

Provider ==
    [responses |->
        {Item1("message", "content", Part(type, w)) :
            type \in {"text", "refusal"}, w \in {Raw, Alias}} \cup
        {Item2("function_call", "arguments", Entries("json", {<<w, w>>}), "name", Text(Plain)) :
            w \in {Raw, Alias}} \cup
        {Item1("function_call", "arguments", Keys("json", Variant, w)) : w \in {Raw, Alias}} \cup
        {Item1("custom_tool_call", "input", Text(Alias)),
         Item1("reasoning", "summary", Part("text", Alias)),
         Item2("mcp_call", "arguments", Entries("json", {<<Plain, Alias>>}), "output", Text(Alias)),
         Item1("web_search_call", "output", Text(Alias)),
         Item1("response", "message", Text(Alias))},
     messages |->
        {Item1("text", "text", Text(w)) : w \in {Plain, Raw, Alias}} \cup
        {Item2("tool_use", "input", Entries("object", {<<w, w>>}), "name", Text(Plain)) :
            w \in {Raw, Alias}} \cup
        {Item2("tool_use", "input", Keys("object", Variant, w), "name", Text(Plain)) :
            w \in {Raw, Alias}} \cup
        {Item1("thinking", "text", Text(Alias)),
         Item1("response", "message", Text(Alias))}]

ASSUME ClientKeeps == \A p \in Protocol : \A item \in Client[p] : KeepsToMatrix(p, item)

\* With the outputs of custom tools.
AllClient ==
    [Client EXCEPT !.responses =
        @ \cup {Item1("custom_tool_call_output", "output", Text(Raw))}]

Symmetry == Permutations(Request)
=============================================================================
