--------------------------------- MODULE Proxy ---------------------------------
(***************************************************************************)
(* The requests of one conversation through the proxy                      *)
(* (proxy/forwarding.py), with the fields that FieldMatrix names and the   *)
(* policy of policy.py.  The client keeps the history and sends all of it  *)
(* with each request, again when a request has failed; the proxy protects  *)
(* the body and saves the table before it sends anything, and restores the *)
(* answer as a whole before the client gets any of it.                     *)
(*                                                                         *)
(* Nothing else runs in the process between the transaction of a body and  *)
(* its commit, so the two are one step.  Before and after it, requests     *)
(* interleave, the upstream fails, and the vault may be deleted.           *)
(***************************************************************************)
EXTENDS FieldMatrix, Sequences, SequencesExt

CONSTANTS
    Request,        \* requests in flight
    ClientItems,    \* what a client may add to a history, by protocol
    ProviderItems,  \* what a provider may answer, by protocol
    MaxItems        \* bound: nothing is written into a history of this length, and no longer one is sent

Policy == {"default", "safe-tool-calls", "tool-compatibility"}

VARIABLES
    protocol,       \* which runtime serves the launch
    policy,         \* the tool policy of the launch
    history,        \* the client's items, and what the provider meant by its own
    table,          \* value -> the spelling recorded first; None: no vault
    request         \* the requests in flight

vars == <<protocol, policy, history, table, request>>

FieldName ==
    {"content", "output", "arguments", "name", "input", "summary", "instructions", "tools",
     "variables", "message", "text", "title", "context", "data", "source", "system"}

IsItem(item) ==
    /\ item.type \in STRING /\ DOMAIN item.fields \subseteq FieldName
    /\ item \in [type : {item.type}, fields : [DOMAIN item.fields -> Content]]

Item == [type : STRING, fields : UNION {[F -> Content] : F \in SUBSET FieldName}]

WordsIn(items) ==
    UNION {UNION {WordsOf(item.fields[f]) : f \in DOMAIN item.fields} : item \in items}

Spelling == {"value", "variant"}

ASSUME ProxyAssumption ==
    /\ MaxItems \in Nat
    /\ DOMAIN ClientItems = Protocol /\ DOMAIN ProviderItems = Protocol
    /\ \A p \in Protocol : \A item \in ClientItems[p] \cup ProviderItems[p] : IsItem(item)
    /\ None \notin Spelling
    /\ None \notin Item /\ Refused \notin Item

\* What a client adds of its own accord contains no substitute (AliasCollision
\* of Substitution is about the one that does).
ASSUME ClientAssumption ==
    \A p \in Protocol : \A w \in WordsIn(ClientItems[p]) : w[1] # "alias"

\* The provider answers with items of its own, never with what only a request
\* has, and the tools that it calls have an input.
ASSUME ProviderAssumption ==
    \A p \in Protocol : \A item \in ProviderItems[p] :
        /\ item.type # "request"
        /\ p = "messages" =>
              /\ item.type \notin {"tool_result", "document", "search_result"}
              /\ item.type = "tool_use" => "input" \in DOMAIN item.fields

\* The raw words of an item stand where the matrix of requests has them
\* transformed.
KeepsToMatrix(p, item) ==
    \A f \in DOMAIN item.fields : \A e \in item.fields[f].words :
        LET named == {r \in Rules(p, "to-provider", item.type) : r.field = f}
        IN  /\ IsRaw(e[1]) \/ IsRaw(e[2]) => named # {}
            /\ \A r \in named :
                  /\ IsRaw(e[1]) => r.keys
                  /\ IsRaw(e[2]) => item.fields[f].form # "parts" \/ e[1] \in r.parts

Free == [phase |-> "free", body |-> <<>>, answer |-> None]

ProxyTypeOK ==
    /\ protocol \in Protocol
    /\ policy \in Policy
    /\ \A i \in DOMAIN history :
          IsItem(history[i].form) /\ (history[i].meant # None => IsItem(history[i].meant))
    /\ table = None \/ table \in [Value -> Spelling \cup {None}]
    /\ \A r \in Request :
          /\ request[r].phase \in {"free", "sending", "answered"}
          /\ \A i \in DOMAIN request[r].body : IsItem(request[r].body[i])
          /\ request[r].phase = "answered" => IsItem(request[r].answer)
          /\ request[r].phase = "free" => request[r] = Free

Init ==
    /\ protocol \in Protocol
    /\ policy \in Policy
    /\ history = <<>>
    /\ table = [v \in Value |-> None]
    /\ request = [r \in Request |-> Free]

-----------------------------------------------------------------------------
(***************************************************************************)
(* PrivacyTransaction.transform.                                           *)
(***************************************************************************)
\* decide_policy: which content is protected on its way to the provider.
Protects(kind) == kind = "conversation" \/ policy # "default"

\* Seeded fault: values are recorded as they are spelled.
Protect_ExactSpelling(known, w) ==
    CASE w[1] = "value" -> <<"alias", w[2]>>
      [] w[1] = "alias" /\ known[w[2]] # None -> Refused
      [] OTHER -> w

\* transform_text: a value becomes its substitute, whichever its spelling; a
\* substitute that is in use must not be there already.
Protect(known, w) ==
    CASE IsRaw(w) -> <<"alias", w[2]>>
      [] w[1] = "alias" /\ known[w[2]] # None -> Refused
      [] OTHER -> w

\* restore_text: a known substitute becomes the spelling that was recorded. An
\* unknown one is refused; as a surrogate it cannot be told from other words.
Restore(known, w) ==
    CASE w[1] = "alias" /\ known[w[2]] # None -> <<known[w[2]], w[2]>>
      [] w[1] = "alias" /\ known[w[2]] = None /\ policy # "tool-compatibility" -> Refused
      [] OTHER -> w

ToProvider(known) ==
    [kind \in ContentKind |->
        [w \in Word |-> IF Protects(kind) THEN Protect(known, w) ELSE w]]

ToLocal(known) == [kind \in ContentKind |-> [w \in Word |-> Restore(known, w)]]

Outgoing(item, known) ==
    Transformed(Rules(protocol, "to-provider", item.type), item, ToProvider(known))

Incoming(item, known) ==
    Transformed(Rules(protocol, "to-local", item.type), item, ToLocal(known))

\* The body of a request is its items, those of the history as the client has them.
ProtectedBody(known) == [i \in DOMAIN history |-> Outgoing(history[i].form, known)]

\* A word stands where transform is applied to it and protects it.
Touches(item, w) ==
    Transformed(Rules(protocol, "to-provider", item.type), item,
        [kind \in ContentKind |->
            [x \in Word |-> IF x = w /\ Protects(kind) THEN Refused ELSE x]]) = Refused

\* Each value that is found first is recorded under one of its spellings there.
Recorded(known) ==
    {larger \in [Value -> Spelling \cup {None}] :
        \A v \in Value :
            LET found == {s \in Spelling :
                            \E i \in DOMAIN history : Touches(history[i].form, <<s, v>>)}
            IN  IF known[v] # None \/ found = {} THEN larger[v] = known[v]
                ELSE larger[v] \in found}

-----------------------------------------------------------------------------
(***************************************************************************)
(* The client.                                                             *)
(***************************************************************************)
\* The user writes something, a tool has run, or the instructions are given.
Write(item) ==
    /\ Len(history) < MaxItems
    /\ history' = Append(history, [form |-> item, meant |-> None])
    /\ UNCHANGED <<protocol, policy, table, request>>

-----------------------------------------------------------------------------
(***************************************************************************)
(* _forward_protected_responses and _forward_protected_messages.           *)
(***************************************************************************)
\* Seeded fault: the body is sent whether or not the table could be saved.
Protecting_SendsUnsaved(r, sent) ==
    /\ request[r].phase = "free"
    /\ Len(history) \in 1 .. MaxItems
    /\ table # None
    /\ LET body == ProtectedBody(table)
       IN  /\ Refused \notin ToSet(body)
           /\ table' \in Recorded(table) \cup {table}
           /\ request' = IF sent
                         THEN [request EXCEPT ![r] = [@ EXCEPT !.phase = "sending", !.body = body]]
                         ELSE request
    /\ UNCHANGED <<protocol, policy, history>>

\* The whole body is transformed and the table saved.  A body that is refused,
\* or a vault that is gone or stale, changes nothing; a save that is reported as
\* failed may have taken effect (saved): the body is not sent.
Protecting(r, sent) ==
    /\ request[r].phase = "free"
    /\ Len(history) \in 1 .. MaxItems
    /\ table # None
    /\ LET body == ProtectedBody(table)
       IN  /\ Refused \notin ToSet(body)
           /\ table' \in Recorded(table)
           /\ request' = IF sent
                         THEN [request EXCEPT ![r] = [@ EXCEPT !.phase = "sending", !.body = body]]
                         ELSE request
    /\ UNCHANGED <<protocol, policy, history>>

Protected(r) == Protecting(r, TRUE)

SavedButFailed(r) == Protecting(r, FALSE)

\* The provider has the whole body and answers with words that are in it.
Respond(r, item) ==
    /\ request[r].phase = "sending"
    /\ WordsIn({item}) \subseteq {Plain} \cup WordsIn(ToSet(request[r].body))
    /\ request' = [request EXCEPT ![r] = [phase |-> "answered", body |-> <<>>, answer |-> item]]
    /\ UNCHANGED <<protocol, policy, history, table>>

\* The answer is restored and the activity saved; an answer without an item (an
\* error, a count of tokens) is shown and forgotten.
Deliver(r) ==
    /\ request[r].phase = "answered"
    /\ table # None
    /\ LET meant == request[r].answer
           form == Incoming(meant, table)
       IN  /\ form # Refused
           /\ history' = IF meant.type = "response" THEN history
                         ELSE Append(history, [form |-> form, meant |-> meant])
    /\ request' = [request EXCEPT ![r] = Free]
    /\ UNCHANGED <<protocol, policy, table>>

\* Seeded fault: what a failed request held stays behind.
Fail_KeepsBody(r) ==
    /\ request[r].phase # "free"
    /\ request' = [request EXCEPT ![r].phase = "free"]
    /\ UNCHANGED <<protocol, policy, history, table>>

\* 502 or 504: the upstream fails or times out, before or after it has the
\* body; the answer cannot be read, is refused, or cannot be saved.  Or the
\* client goes away.
Fail(r) ==
    /\ request[r].phase # "free"
    /\ request' = [request EXCEPT ![r] = Free]
    /\ UNCHANGED <<protocol, policy, history, table>>

\* Another process deletes the vault.
Expire ==
    /\ table # None
    /\ table' = None
    /\ UNCHANGED <<protocol, policy, history, request>>

Next ==
    \/ \E item \in ClientItems[protocol] : Write(item)
    \/ \E r \in Request :
          \/ Protected(r)
          \/ SavedButFailed(r)
          \/ \E item \in ProviderItems[protocol] : Respond(r, item)
          \/ Deliver(r)
          \/ Fail(r)
    \/ Expire

Spec == Init /\ [][Next]_vars

-----------------------------------------------------------------------------
(***************************************************************************)
(* Properties                                                              *)
(***************************************************************************)
\* What the clients of the theorems keep to: the outputs of custom tools, which
\* ToolDataProtected is about, are the exception.
ClientsKeepToMatrix ==
    \A p \in Protocol : \A item \in ClientItems[p] : KeepsToMatrix(p, item)

RawWords(content) == {w \in WordsOf(content) : IsRaw(w)}

\* Tool definitions, arguments and results, which the default policy leaves raw.
ToolData ==
    {<<"request", "tools">>, <<"function_call_output", "output">>, <<"tool_result", "content">>}
    \cup {"function_call", "mcp_call", "custom_tool_call", "tool_use"}
            \X {"arguments", "input", "name"}

\* What the provider wrote into that place itself.
MeantThere(i, f) ==
    IF history[i].meant = None THEN {} ELSE RawWords(history[i].meant.fields[f])

\* A value reaches the provider in tool data under the default policy only, or
\* where the provider itself has written it (plan 003, "Verification": captured
\* traffic contains no original outside default tool fields).  This must hold of
\* the history as a whole, restored answers included: what one matrix restores
\* and the other one does not protect leaves raw with the next request.
RawOnlyInToolData ==
    \A r \in Request : \A i \in DOMAIN request[r].body :
        LET item == request[r].body[i]
        IN  \A f \in DOMAIN item.fields :
                \/ policy = "default" /\ <<item.type, f>> \in ToolData
                \/ RawWords(item.fields[f]) \subseteq MeantThere(i, f)

\* Whatever has been delivered can be sent again: no answer leaves a history
\* that the proxy refuses from then on (restoring makes no substitute, no missing
\* field and no two equal keys where the request has none).
DeliveredIsAccepted ==
    table # None =>
        \A i \in DOMAIN history :
            history[i].meant # None => Outgoing(history[i].form, table) # Refused

\* The provider finds its own words in the next request: what it wrote without
\* raw values comes back as it was, in every field that is protected and in
\* every field that neither matrix names, even when the client saw another
\* spelling in between.
OwnWordsReturn ==
    table # None =>
        \A i \in {j \in DOMAIN history : history[j].meant # None} :
            LET meant == history[i].meant
                back == Outgoing(history[i].form, table)
                rules == Rules(protocol, "to-provider", meant.type)
            IN  back # Refused =>
                    \A f \in DOMAIN meant.fields :
                        \/ back.fields[f] = meant.fields[f]
                        \/ RawWords(meant.fields[f]) # {}
                        \/ \E r \in rules : r.field = f /\ ~Protects(r.kind)

\* Every substitute that has been sent is in the vault, whatever failed since
\* (commit before client.send).
SentIsSaved ==
    table # None =>
        \A r \in Request : \A w \in WordsIn(ToSet(request[r].body)) :
            w[1] = "alias" => table[w[2]] # None

\* Under the other policies a value reaches the provider in no tool definition,
\* argument or output at all (plan 003, R3.1, which names the outputs of custom
\* tools with the others).
ToolDataProtected ==
    policy # "default" =>
        \A r \in Request : \A i \in DOMAIN request[r].body :
            LET item == request[r].body[i]
            IN  \A f \in DOMAIN item.fields :
                    <<item.type, f>> \in ToolData \cup {<<"custom_tool_call_output", "output">>}
                        => RawWords(item.fields[f]) \subseteq MeantThere(i, f)
=============================================================================
