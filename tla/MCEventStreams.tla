---------------------------- MODULE MCEventStreams ----------------------------
(* Small streams for TLC. *)
EXTENDS EventStreams

\* Texts are cut in the middle of an alias: "<P" "0>" is one that is known, and
\* "<P" "9>" one that is not.
Alias(text, tail) == {n \in DOMAIN text : n > 1 /\ text[n - 1] = "<P" /\ text[n] = tail}

MCRestore(text) ==
    LET known == Alias(text, "0>")
        Piece(n) == IF n + 1 \in known THEN <<"Bob">>
                    ELSE IF n \in known THEN <<>> ELSE <<text[n]>>
    IN  IF Alias(text, "9>") # {} THEN None
        ELSE FlattenSeq([n \in DOMAIN text |-> Piece(n)])

\* An object, or something else that cannot be decoded as one.
MCRestoreJson(text) ==
    IF /\ Len(text) > 1 /\ text[1] = "{" /\ text[Len(text)] = "}"
       /\ \A n \in 2..(Len(text) - 1) : text[n] \notin {"{", "}"}
    THEN MCRestore(text) ELSE None

\* Checked for the texts of up to four pieces.
ASSUME RestoresTexts ==
    \A n \in 0..4 : \A text \in [1..n -> {"{", "<P", "0>", "9>", "}"}] : RestoresText(text)

Frame(type, names, kinds, texts) ==
    {[type |-> type, name |-> name, kind |-> kind, text |-> text] :
        name \in names, kind \in kinds, text \in texts}

Halves == {<<"<P">>, <<"0>">>}
ToolHalves == {<<"{", "<P">>, <<"0>", "}">>}
Known == <<"<P", "0>">>
Unknown == <<"<P", "9>">>

MCEvent ==
    [messages |->
        Frame("direct", {None}, {"text"}, {Unknown}) \cup
        Frame("opaque", {None}, {"other"}, {Known}) \cup
        Frame("malformed", {None}, {"other"}, {<<>>}) \cup
        Frame("start", {0}, {"text", "other"}, {<<>>}) \cup
        Frame("start", {1}, {"tool"}, {<<>>}) \cup
        Frame("delta", {0}, {"text"}, Halves) \cup
        Frame("delta", {0}, {"other"}, {Known}) \cup
        Frame("delta", {1}, {"tool"}, ToolHalves) \cup
        Frame("stop", {0, 1}, {"other"}, {<<>>}),
     responses |->
        Frame("direct", {None}, {"text"}, {Known}) \cup
        Frame("opaque", {None}, {"other"}, {Known}) \cup
        Frame("delta", {0}, {"text"}, Halves) \cup
        Frame("delta", {0}, {"tool"}, ToolHalves) \cup
        Frame("done", {0, 1}, {"text"}, {Known}) \cup
        Frame("done", {0}, {"text"}, {Unknown, <<"0>">>}) \cup
        Frame("done", {0}, {"tool"}, {<<"{", "<P", "0>", "}">>})]

MCMaxFrames == [messages |-> 7, responses |-> 6]
=============================================================================
