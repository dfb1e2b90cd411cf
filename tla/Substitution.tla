----------------------------- MODULE Substitution -----------------------------
(***************************************************************************)
(* The substitutes of one conversation: transform_text and restore_text    *)
(* over the table of mappings (privacy/mapping.py), the transactions that  *)
(* run them for the texts of a body (runtime/privacy.py) and the decision  *)
(* which texts are protected (policy.py).                                  *)
(*                                                                         *)
(* A text is a sequence of words.  A word is what the code treats as a     *)
(* whole: a detected value, a substitute or anything between them.  The    *)
(* relation Inside says which words occur within which others.             *)
(***************************************************************************)
EXTENDS Naturals, Sequences, FiniteSets

CONSTANTS
    Word,           \* everything that a text may contain
    Entity,         \* detected values up to normalization, with their types
    Family,         \* what the banks of substitutes are kept for
    None,
    Normalize,      \* word -> entity it spells, or None
    FamilyOf,       \* entity -> family
    Candidates,     \* family -> the candidates at each index, best ones first
    Inside,         \* pairs of a word and a word in which it occurs
    Reserved,       \* the words that are aliases
    Policy,         \* the tool policy of the conversation
    Attempts,       \* _MAX_ALLOCATION_ATTEMPTS
    MaxLength,      \* bound: words of a text
    MaxTexts        \* bound: different texts of a conversation

ASSUME SubstitutionAssumption ==
    /\ None \notin Entity
    /\ Normalize \in [Word -> Entity \cup {None}]
    /\ FamilyOf \in [Entity -> Family]
    /\ Candidates \in [Family -> Seq(SUBSET Word)]
    /\ Inside \subseteq Word \X Word
    /\ \A w \in Word : <<w, w>> \in Inside
    /\ \A f \in Family : \A k \in DOMAIN Candidates[f] : \A s \in Candidates[f][k] :
         \A a \in Reserved : <<a, s>> \in Inside => a = s
    /\ Reserved \subseteq Word
    /\ Policy \in {"default", "safe-tool-calls", "tool-compatibility"}
    /\ Attempts \in Nat /\ MaxLength \in Nat

VARIABLES
    saved,          \* the table of the vault
    table,          \* the table of the transaction in hand
    body,           \* the texts that the transaction has finished
    call,           \* the run of transform_text in hand
    exchanged,      \* texts that have been sent to the provider
    refused         \* why the last body was refused

vars == <<saved, table, body, call, exchanged, refused>>

Record == [original : Word, substitute : Word]
Table == [Entity -> Record \cup {None}]
Source == UNION {[1..n -> Word] : n \in 1..MaxLength}
Kind == {"conversation", "tool"}
Text == [source : Seq(Word), marks : SUBSET Nat, out : Seq(Word), protected : BOOLEAN]
Call == [source : Seq(Word), marks : SUBSET Nat, todo : SUBSET Nat, out : Seq(Word)]

ASSUME NoneIsNothing == None \notin Record /\ None \notin Call

\* The transaction keeps what its declarations say.
SubstitutionTypeOK ==
    /\ saved \in Table /\ table \in Table
    /\ body \subseteq Text /\ exchanged \subseteq Text
    /\ call \in Call \cup {None}
    /\ refused \in {"no", "ambiguous", "exhausted", "dropped"}

Empty == [e \in Entity |-> None]

Init ==
    /\ saved = Empty /\ table = Empty
    /\ body = {} /\ exchanged = {}
    /\ call = None /\ refused = "no"

-----------------------------------------------------------------------------
Known(tab) == {e \in Entity : tab[e] # None}
Substitutes(tab) == {tab[e].substitute : e \in Known(tab)}
Originals(tab) == {tab[e].original : e \in Known(tab)}

Within(value, text) == \E i \in DOMAIN text : <<value, text[i]>> \in Inside

\* ambiguous-existing-substitute: a text may not contain a substitute in use.
Ambiguous(tab, text) == \E s \in Substitutes(tab) : Within(s, text)

\* decide_policy for what goes to the provider.
Protects(kind) == kind = "conversation" \/ Policy # "default"

Collides(candidate, value) == <<candidate, value>> \in Inside \/ <<value, candidate>> \in Inside

\* Seeded fault: the text itself is not among the forbidden values.
Forbidden_ForgetsText(candidate, text) ==
    \E value \in Originals(table) \cup Substitutes(table) : Collides(candidate, value)

\* Seeded fault: only the text and the originals are forbidden.
Forbidden_ForgetsSubstitutes(candidate, text) ==
    \/ \E value \in Originals(table) : Collides(candidate, value)
    \/ Within(candidate, text)

\* A candidate may not be related to the text nor to a value of the table.
Forbidden(candidate, text) ==
    \/ \E value \in Originals(table) \cup Substitutes(table) : Collides(candidate, value)
    \/ Within(candidate, text)
    \/ Len(text) = 1 /\ <<text[1], candidate>> \in Inside

Free(family, k, text) == {s \in Candidates[family][k] : ~Forbidden(s, text)}

\* The indices that an allocation tries, from the number of records on.
Tried(family) ==
    LET used == Cardinality({e \in Known(table) : FamilyOf[e] = family})
    IN  {k \in DOMAIN Candidates[family] : used < k /\ k <= used + Attempts}

\* The candidates of the first index that has a free one; the scorer chooses.
Allocatable(family, text) ==
    {s \in Word : \E k \in Tried(family) :
        /\ s \in Free(family, k, text)
        /\ \A j \in Tried(family) : j < k => Free(family, j, text) = {}}

-----------------------------------------------------------------------------
\* The bound; a client repeats its earlier texts in every request.
Room(text, marks) ==
    \/ Cardinality(body \cup exchanged) < MaxTexts
    \/ \E t \in body \cup exchanged : t.source = text /\ t.marks = marks

\* transform_text begins with the spans that the detector found.
BeginText(text, marks) ==
    /\ call = None /\ Room(text, marks)
    /\ ~Ambiguous(table, text)
    /\ call' = [source |-> text, marks |-> marks, todo |-> marks, out |-> text]
    /\ refused' = "no"
    /\ UNCHANGED <<saved, table, body, exchanged>>

\* A text that is not protected goes as it is.
PassText(text) ==
    /\ call = None /\ Room(text, {})
    /\ body' = body \cup {[source |-> text, marks |-> {}, out |-> text, protected |-> FALSE]}
    /\ refused' = "no"
    /\ UNCHANGED <<saved, table, call, exchanged>>

Replace(i, substitute) ==
    call' = [call EXCEPT !.todo = call.todo \ {i}, !.out = [call.out EXCEPT ![i] = substitute]]

FindRecord(i, e) ==
    /\ table[e] # None
    /\ Replace(i, table[e].substitute)
    /\ UNCHANGED <<saved, table, body, exchanged, refused>>

\* Seeded fault: the record keeps the normalized value for the original.
Allocate_KeepsNormalized(i, e) ==
    /\ table[e] = None
    /\ \E substitute \in Allocatable(FamilyOf[e], call.source) :
         /\ table' = [table EXCEPT ![e] = [original |-> e, substitute |-> substitute]]
         /\ Replace(i, substitute)
    /\ UNCHANGED <<saved, body, exchanged, refused>>

\* A new record; the check that MappingTable makes of it is TableValid below.
Allocate(i, e) ==
    /\ table[e] = None
    /\ \E substitute \in Allocatable(FamilyOf[e], call.source) :
         /\ table' = [table EXCEPT ![e] = [original |-> call.source[i], substitute |-> substitute]]
         /\ Replace(i, substitute)
    /\ UNCHANGED <<saved, body, exchanged, refused>>

\* Everything the transaction has staged is given up with its body.
GiveUp(reason) ==
    /\ table' = saved /\ body' = {} /\ call' = None
    /\ refused' = reason
    /\ UNCHANGED <<saved, exchanged>>

RefuseAmbiguous(text) == call = None /\ Ambiguous(table, text) /\ GiveUp("ambiguous")

Exhausted(i, e) ==
    /\ table[e] = None
    /\ Allocatable(FamilyOf[e], call.source) = {}
    /\ GiveUp("exhausted")

\* The spans of the text in hand, from left to right.
ReplaceSpan ==
    /\ call # None
    /\ \E i \in call.todo :
         /\ \A j \in call.todo : i <= j
         /\ LET e == Normalize[call.source[i]]
            IN  FindRecord(i, e) \/ Allocate(i, e) \/ Exhausted(i, e)

EndText ==
    /\ call # None /\ call.todo = {}
    /\ body' = body \cup {[source |-> call.source, marks |-> call.marks, out |-> call.out,
                           protected |-> TRUE]}
    /\ call' = None
    /\ UNCHANGED <<saved, table, exchanged, refused>>

\* Seeded fault: the body leaves and its table is not saved.
Commit_LosesTable ==
    /\ call = None /\ body # {}
    /\ exchanged' = exchanged \cup body
    /\ table' = saved /\ body' = {}
    /\ UNCHANGED <<saved, call, refused>>

\* The table is saved and the body leaves.
Commit ==
    /\ call = None /\ body # {}
    /\ saved' = table
    /\ exchanged' = exchanged \cup body
    /\ body' = {}
    /\ UNCHANGED <<table, call, refused>>

\* A body that is refused for another reason, or whose commit fails.
Drop == (call # None \/ body # {}) /\ GiveUp("dropped")

TransformText(text, kind) ==
    \/ /\ Protects(kind)
       /\ \/ \E marks \in SUBSET {i \in DOMAIN text : Normalize[text[i]] # None} :
               BeginText(text, marks)
          \/ RefuseAmbiguous(text)
    \/ ~Protects(kind) /\ PassText(text)

Next ==
    \/ \E text \in Source, kind \in Kind : TransformText(text, kind)
    \/ ReplaceSpan \/ EndText \/ Commit \/ Drop

Spec == Init /\ [][Next]_vars

-----------------------------------------------------------------------------
\* What stands for a word after restoration: the first spelling of a substitute,
\* and for a word around one the pair of that spelling and the word.
Restored(tab, word) ==
    LET RecordIn == CHOOSE r \in {tab[e] : e \in Known(tab)} : <<r.substitute, word>> \in Inside
    IN  IF word \in Substitutes(tab) THEN RecordIn.original
        ELSE IF \E s \in Substitutes(tab) : <<s, word>> \in Inside THEN <<RecordIn.original, word>>
        ELSE word

\* Seeded fault: every alias is unknown.
RestoreText_RefusesKnown(tab, text) ==
    IF \E a \in Reserved : Within(a, text)
    THEN None
    ELSE [i \in DOMAIN text |-> Restored(tab, text[i])]

\* restore_text, or None for a text with an alias that nobody has allocated.
RestoreText(tab, text) ==
    IF \E a \in Reserved \ Substitutes(tab) : Within(a, text)
    THEN None
    ELSE [i \in DOMAIN text |-> Restored(tab, text[i])]

\* A table that MappingTable accepts: no substitute is its own original or
\* occurs in another substitute or original.
ValidTable(tab) ==
    /\ \A e \in Known(tab) : /\ Normalize[tab[e].original] = e
                             /\ tab[e].original # tab[e].substitute
    /\ \A e, f \in Known(tab) : e # f =>
         /\ <<tab[e].substitute, tab[f].original>> \notin Inside
         /\ <<tab[e].substitute, tab[f].substitute>> \notin Inside

-----------------------------------------------------------------------------
\* The check in MappingTable.__post_init__ never fails for a table that
\* transform_text builds, so it never refuses a body.
TableValid == ValidTable(saved) /\ ValidTable(table)

\* R15: every detected occurrence of a value, however spelled and in whatever
\* request, left as the substitute that the vault holds for it.
EstablishedSubstitutes ==
    \A t \in exchanged : \A i \in t.marks :
        LET e == Normalize[t.source[i]]
        IN  e \in Known(saved) /\ t.out[i] = saved[e].substitute

\* A substitute allocated while a text is transformed occurs nowhere else in it.
LiteralsStayLiteral ==
    call # None => ~Ambiguous(table, call.source)

\* A text whose other words cannot be taken for substitutes comes back, whenever
\* the provider repeats it, with the values in their first spelling.
Plain(word) ==
    /\ \A a \in Reserved : <<a, word>> \notin Inside
    /\ \A f \in Family : \A k \in DOMAIN Candidates[f] : \A s \in Candidates[f][k] :
         <<s, word>> \notin Inside

EchoRestores ==
    \A t \in exchanged :
        (\A i \in DOMAIN t.source \ t.marks : Plain(t.source[i]))
        => RestoreText(saved, t.out) =
               [i \in DOMAIN t.source |->
                    IF i \in t.marks THEN saved[Normalize[t.source[i]]].original
                    ELSE t.source[i]]

-----------------------------------------------------------------------------
(***************************************************************************)
(* What the documents say and the code does not do.                        *)
(***************************************************************************)
\* R13: no word that was exchanged as it is, is a substitute later.
CollisionFree ==
    \A t \in exchanged : t.protected =>
        \A i \in DOMAIN t.source \ t.marks : t.source[i] \notin Substitutes(saved)
=============================================================================
