-------------------------- MODULE SubstitutionProofs --------------------------
(***************************************************************************)
(* The invariants of Substitution for any words, detections, candidates    *)
(* and containment of words, and without use of the bounds.                *)
(***************************************************************************)
EXTENDS Substitution, SequenceTheorems, TLAPS

\* The tables in use are valid, and the transaction's extends the vault's.
TablesOK ==
    /\ ValidTable(saved) /\ ValidTable(table)
    /\ \A e \in Known(saved) : table[e] = saved[e]

\* A substitute is always one of the candidates.
FromBanks(tab) ==
    \A e \in Known(tab) : \E f \in Family : \E k \in DOMAIN Candidates[f] :
        tab[e].substitute \in Candidates[f][k]

\* The positions of done carry the substitutes of tab, the others their words.
Replaced(t, tab, done) ==
    /\ DOMAIN t.out = DOMAIN t.source
    /\ t.marks \subseteq {i \in DOMAIN t.source : Normalize[t.source[i]] # None}
    /\ \A i \in done : /\ Normalize[t.source[i]] \in Known(tab)
                       /\ t.out[i] = tab[Normalize[t.source[i]]].substitute
    /\ \A i \in DOMAIN t.source \ done : t.out[i] = t.source[i]

CallOK ==
    call # None =>
        /\ call.todo \subseteq call.marks
        /\ ~Ambiguous(table, call.source)
        /\ Replaced(call, table, call.marks \ call.todo)

TextsOK ==
    /\ \A t \in body : Replaced(t, table, t.marks)
    /\ \A t \in exchanged : Replaced(t, saved, t.marks)

SubstitutionInvariant ==
    /\ SubstitutionTypeOK
    /\ TablesOK
    /\ FromBanks(saved) /\ FromBanks(table)
    /\ CallOK
    /\ TextsOK

LEMMA SourcesAreTexts ==
  ASSUME NEW text \in Source
  PROVE  text \in Seq(Word) /\ DOMAIN text \subseteq Nat
<1>1. PICK n \in 1..MaxLength : text \in [1..n -> Word]
  BY DEF Source
<1>2. n \in Nat
  BY SubstitutionAssumption
<1> QED BY <1>1, <1>2, IsASeq

LEMMA KnownRecords ==
  ASSUME NEW tab \in Table, NEW e \in Known(tab)
  PROVE  tab[e] \in Record /\ e \in Entity
  BY DEF Table, Known

LEMMA InitEstablishes == Init => SubstitutionInvariant
<1> SUFFICES ASSUME Init PROVE SubstitutionInvariant
  OBVIOUS
<1>1. Empty \in Table /\ Known(Empty) = {}
  BY DEF Empty, Table, Known
<1>2. SubstitutionTypeOK
  BY <1>1 DEF Init, SubstitutionTypeOK
<1>3. TablesOK /\ FromBanks(saved) /\ FromBanks(table)
  BY <1>1 DEF Init, TablesOK, ValidTable, FromBanks
<1>4. CallOK /\ TextsOK
  BY DEF Init, CallOK, TextsOK
<1> QED BY <1>2, <1>3, <1>4 DEF SubstitutionInvariant

LEMMA BeginPreserves ==
  ASSUME SubstitutionInvariant,
         NEW text \in Source, NEW marks \in SUBSET {i \in DOMAIN text : Normalize[text[i]] # None},
         BeginText(text, marks)
  PROVE  SubstitutionInvariant'
<1> USE DEF SubstitutionInvariant, BeginText
<1>1. SubstitutionTypeOK'
  <2>1. text \in Seq(Word) /\ marks \in SUBSET Nat
    BY SourcesAreTexts
  <2> QED BY <2>1 DEF SubstitutionTypeOK, Text, Call
<1>2. TablesOK' /\ FromBanks(saved)' /\ FromBanks(table)' /\ TextsOK'
  BY DEF TablesOK, FromBanks, TextsOK, ValidTable, Known, Replaced
<1>3. CallOK'
  BY DEF CallOK, Replaced, Ambiguous, Substitutes, Known, Within
<1> QED BY <1>1, <1>2, <1>3

LEMMA PassPreserves ==
  ASSUME SubstitutionInvariant, NEW text \in Source, PassText(text)
  PROVE  SubstitutionInvariant'
<1> USE DEF SubstitutionInvariant, PassText
<1> DEFINE new == [source |-> text, marks |-> {}, out |-> text, protected |-> FALSE]
<1>1. new \in Text /\ Replaced(new, table, new.marks)
  BY SourcesAreTexts DEF Text, Replaced
<1>2. SubstitutionTypeOK'
  BY <1>1 DEF SubstitutionTypeOK
<1>3. TablesOK' /\ FromBanks(saved)' /\ FromBanks(table)' /\ CallOK'
  BY DEF TablesOK, FromBanks, CallOK, ValidTable, Known
<1>4. TextsOK'
  BY <1>1 DEF TextsOK, Replaced, Known
<1> QED BY <1>2, <1>3, <1>4

LEMMA GiveUpPreserves ==
  ASSUME SubstitutionInvariant, NEW reason \in {"ambiguous", "exhausted", "dropped"},
         GiveUp(reason)
  PROVE  SubstitutionInvariant'
<1> USE DEF SubstitutionInvariant, GiveUp
<1>1. SubstitutionTypeOK'
  BY DEF SubstitutionTypeOK
<1>2. TablesOK' /\ FromBanks(saved)' /\ FromBanks(table)'
  BY DEF TablesOK, FromBanks, ValidTable, Known
<1>3. CallOK' /\ TextsOK'
  BY DEF CallOK, TextsOK, Replaced, Known
<1> QED BY <1>1, <1>2, <1>3

\* The span in hand.
LEMMA SpanInHand ==
  ASSUME SubstitutionInvariant, call # None, NEW i \in call.todo
  PROVE  /\ call \in Call
         /\ i \in DOMAIN call.source /\ i \in call.marks /\ i \in DOMAIN call.out
         /\ call.source[i] \in Word
         /\ Normalize[call.source[i]] \in Entity
<1>1. call \in Call
  BY NoneIsNothing DEF SubstitutionInvariant, SubstitutionTypeOK
<1>2. /\ i \in call.marks
      /\ i \in DOMAIN call.source /\ i \in DOMAIN call.out
      /\ Normalize[call.source[i]] # None
  BY DEF SubstitutionInvariant, CallOK, Replaced
<1>3. call.source[i] \in Word
  BY <1>1, <1>2, ElementOfSeq DEF Call
<1> QED BY <1>1, <1>2, <1>3, SubstitutionAssumption

\* What a replacement does to the call.
LEMMA ReplaceEffect ==
  ASSUME SubstitutionInvariant, call # None, NEW i \in call.todo, NEW s \in Word,
         Replace(i, s)
  PROVE  /\ call' \in Call
         /\ call' # None
         /\ call'.source = call.source /\ call'.marks = call.marks
         /\ call'.todo = call.todo \ {i}
         /\ DOMAIN call'.out = DOMAIN call.out
         /\ call'.out[i] = s
         /\ \A j \in DOMAIN call.out : j # i => call'.out[j] = call.out[j]
<1>1. call.out \in Seq(Word) /\ i \in DOMAIN call.out
  BY SpanInHand DEF Call
<1>2. [call.out EXCEPT ![i] = s] \in Seq(Word)
  BY <1>1, ExceptSeq
<1> QED BY <1>1, <1>2, SpanInHand, NoneIsNothing DEF Replace, Call

LEMMA FindPreserves ==
  ASSUME SubstitutionInvariant, call # None, NEW i \in call.todo,
         FindRecord(i, Normalize[call.source[i]])
  PROVE  SubstitutionInvariant'
<1> DEFINE e == Normalize[call.source[i]]
           s == table[e].substitute
<1> USE DEF SubstitutionInvariant, FindRecord
<1>1. e \in Known(table) /\ s \in Word
  BY SpanInHand DEF SubstitutionTypeOK, Table, Record, Known
<1>2. Replace(i, s)
  OBVIOUS
<1> HIDE DEF s, e
<1>3. /\ call' \in Call /\ call'.source = call.source /\ call'.marks = call.marks
      /\ call'.todo = call.todo \ {i} /\ DOMAIN call'.out = DOMAIN call.out
      /\ call'.out[i] = s /\ \A j \in DOMAIN call.out : j # i => call'.out[j] = call.out[j]
  BY <1>1, <1>2, ReplaceEffect
<1>4. SubstitutionTypeOK'
  BY <1>3 DEF SubstitutionTypeOK
<1>5. TablesOK' /\ FromBanks(saved)' /\ FromBanks(table)' /\ TextsOK'
  BY DEF TablesOK, FromBanks, TextsOK, ValidTable, Known, Replaced
<1>6. CallOK'
  <2>1. call.todo \subseteq call.marks /\ ~Ambiguous(table, call.source)
        /\ Replaced(call, table, call.marks \ call.todo) /\ i \in DOMAIN call.out
    BY SpanInHand DEF CallOK
  <2>2. Replaced(call', table, call'.marks \ call'.todo)
    BY <1>1, <1>3, <2>1 DEF Replaced, e, s
  <2>3. call'.todo \subseteq call'.marks /\ ~Ambiguous(table, call'.source)
    BY <1>3, <2>1
  <2>4. table' = table
    OBVIOUS
  <2> QED BY <2>2, <2>3, <2>4 DEF CallOK
<1> QED BY <1>4, <1>5, <1>6

\* What a free candidate is related to: nothing that it could be confused with.
LEMMA FreeCandidate ==
  ASSUME SubstitutionInvariant, NEW family \in Family, NEW text, NEW s \in Allocatable(family, text)
  PROVE  /\ s \in Word
         /\ \E k \in DOMAIN Candidates[family] : s \in Candidates[family][k]
         /\ ~Within(s, text)
         /\ \A f \in Known(table) :
              /\ <<s, table[f].original>> \notin Inside
              /\ <<s, table[f].substitute>> \notin Inside
              /\ <<table[f].substitute, s>> \notin Inside
<1>1. PICK k \in Tried(family) : s \in Free(family, k, text)
  BY DEF Allocatable
<1>2. s \in Word /\ k \in DOMAIN Candidates[family]
  BY DEF Allocatable, Tried
<1> QED BY <1>1, <1>2 DEF Free, Forbidden, Collides, Originals, Substitutes

EntityAt(i) == Normalize[call.source[i]]
WithRecord(i, s) ==
    [table EXCEPT ![EntityAt(i)] = [original |-> call.source[i], substitute |-> s]]

\* The new record keeps the table valid: the check of MappingTable passes.
LEMMA AllocatedTable ==
  ASSUME SubstitutionInvariant, call # None, NEW i \in call.todo,
         table[EntityAt(i)] = None,
         NEW s \in Allocatable(FamilyOf[EntityAt(i)], call.source)
  PROVE  LET tab == WithRecord(i, s)  e == EntityAt(i)
         IN
         /\ tab \in Table /\ Known(tab) = Known(table) \cup {e} /\ e \notin Known(table)
         /\ tab[e].substitute = s
         /\ \A f \in Known(table) : tab[f] = table[f]
         /\ ValidTable(tab) /\ FromBanks(tab)
<1> DEFINE o == call.source[i]
           e == EntityAt(i)
           tab == WithRecord(i, s)
<1>0. e = Normalize[o] /\ tab = [table EXCEPT ![e] = [original |-> o, substitute |-> s]]
      /\ table[e] = None
  BY DEF EntityAt, WithRecord
<1>1. e \in Entity /\ FamilyOf[e] \in Family /\ o \in Word /\ table \in Table
  BY <1>0, SpanInHand, SubstitutionAssumption DEF SubstitutionInvariant, SubstitutionTypeOK
<1> HIDE DEF tab, e
<1>2. /\ s \in Word /\ ~Within(s, call.source)
      /\ \E k \in DOMAIN Candidates[FamilyOf[e]] : s \in Candidates[FamilyOf[e]][k]
      /\ \A f \in Known(table) : /\ <<s, table[f].original>> \notin Inside
                                 /\ <<s, table[f].substitute>> \notin Inside
                                 /\ <<table[f].substitute, s>> \notin Inside
  BY <1>1, FreeCandidate DEF e
<1>3. [original |-> o, substitute |-> s] \in Record
  BY <1>1, <1>2 DEF Record
<1>4. /\ tab \in Table /\ tab[e] = [original |-> o, substitute |-> s]
      /\ \A f \in Entity \ {e} : tab[f] = table[f]
  BY <1>0, <1>1, <1>3 DEF Table
<1>5. Known(tab) = Known(table) \cup {e} /\ e \notin Known(table)
  BY <1>0, <1>1, <1>3, <1>4, NoneIsNothing DEF Known
<1>6. \A f \in Known(table) : tab[f] = table[f]
  BY <1>4, <1>5 DEF Known
<1>7. ValidTable(tab)
  <2>1. o # s
    BY <1>1, <1>2, SpanInHand, SubstitutionAssumption DEF Within
  <2>2. \A f \in Known(table) : <<table[f].substitute, o>> \notin Inside
    BY SpanInHand DEF SubstitutionInvariant, CallOK, Ambiguous, Substitutes, Within
  <2>3. ValidTable(table)
    BY DEF SubstitutionInvariant, TablesOK
  <2>4. tab[e].original = o /\ tab[e].substitute = s /\ Normalize[o] = e
    BY <1>0, <1>4
  <2> HIDE DEF o
  <2>5. \A f \in Known(tab) : Normalize[tab[f].original] = f /\ tab[f].original # tab[f].substitute
    BY <1>5, <1>6, <2>1, <2>3, <2>4 DEF ValidTable
  <2>6. \A f, g \in Known(tab) : f # g =>
          /\ <<tab[f].substitute, tab[g].original>> \notin Inside
          /\ <<tab[f].substitute, tab[g].substitute>> \notin Inside
    <3> SUFFICES ASSUME NEW f \in Known(tab), NEW g \in Known(tab), f # g
                 PROVE  /\ <<tab[f].substitute, tab[g].original>> \notin Inside
                        /\ <<tab[f].substitute, tab[g].substitute>> \notin Inside
      OBVIOUS
    <3>1. CASE f = e
      BY <3>1, <1>2, <1>5, <1>6, <2>4
    <3>2. CASE g = e
      BY <3>2, <1>2, <1>5, <1>6, <2>2, <2>4
    <3>3. CASE f # e /\ g # e
      BY <3>3, <1>5, <1>6, <2>3 DEF ValidTable
    <3> QED BY <3>1, <3>2, <3>3
  <2> QED BY <2>5, <2>6 DEF ValidTable
<1>8. FromBanks(tab)
  <2>1. FromBanks(table)
    BY DEF SubstitutionInvariant
  <2>2. ASSUME NEW f \in Known(tab)
        PROVE  \E g \in Family : \E k \in DOMAIN Candidates[g] :
                   tab[f].substitute \in Candidates[g][k]
    <3>1. CASE f = e
      BY <3>1, <1>1, <1>2, <1>4
    <3>2. CASE f # e
      BY <3>2, <1>5, <1>6, <2>1, <2>2 DEF FromBanks
    <3> QED BY <3>1, <3>2
  <2> QED BY <2>2 DEF FromBanks
<1>9. tab[e].substitute = s
  BY <1>4
<1> QED BY <1>4, <1>5, <1>6, <1>7, <1>8, <1>9 DEF tab, e

LEMMA AllocatePreserves ==
  ASSUME SubstitutionInvariant, call # None, NEW i \in call.todo,
         Allocate(i, Normalize[call.source[i]])
  PROVE  SubstitutionInvariant'
<1> DEFINE e == Normalize[call.source[i]]
<1>1. PICK s \in Allocatable(FamilyOf[e], call.source) :
        /\ table' = [table EXCEPT ![e] = [original |-> call.source[i], substitute |-> s]]
        /\ Replace(i, s)
  BY DEF Allocate
<1>2. table[e] = None /\ UNCHANGED <<saved, body, exchanged, refused>>
  BY DEF Allocate
<1>3. /\ table' \in Table /\ Known(table') = Known(table) \cup {e} /\ e \notin Known(table)
      /\ table'[e].substitute = s
      /\ \A f \in Known(table) : table'[f] = table[f]
      /\ ValidTable(table') /\ FromBanks(table')
  <2>1. e = EntityAt(i) /\ table' = WithRecord(i, s)
    BY <1>1 DEF EntityAt, WithRecord
  <2>2. table[EntityAt(i)] = None /\ s \in Allocatable(FamilyOf[EntityAt(i)], call.source)
    BY <1>2, <2>1
  <2> HIDE DEF e
  <2>3. LET tab == WithRecord(i, s)  f == EntityAt(i)
        IN  /\ tab \in Table /\ Known(tab) = Known(table) \cup {f} /\ f \notin Known(table)
            /\ tab[f].substitute = s
            /\ \A g \in Known(table) : tab[g] = table[g]
            /\ ValidTable(tab) /\ FromBanks(tab)
    BY <2>2, AllocatedTable
  <2> QED BY <2>1, <2>3
<1>4. s \in Word /\ ~Within(s, call.source)
  BY <1>1, SpanInHand, SubstitutionAssumption, FreeCandidate
<1>5. /\ call' \in Call /\ call'.source = call.source /\ call'.marks = call.marks
      /\ call'.todo = call.todo \ {i} /\ DOMAIN call'.out = DOMAIN call.out
      /\ call'.out[i] = s /\ \A j \in DOMAIN call.out : j # i => call'.out[j] = call.out[j]
  BY <1>1, <1>4, ReplaceEffect
<1> HIDE DEF e
<1> USE DEF SubstitutionInvariant
<1>6. SubstitutionTypeOK'
  BY <1>2, <1>3, <1>5 DEF SubstitutionTypeOK
<1>7. TablesOK'
  <2>1. \A f \in Known(saved) : f \in Known(table) /\ table[f] = saved[f]
    BY DEF TablesOK, Known
  <2> QED BY <1>2, <1>3, <2>1 DEF TablesOK, ValidTable, Known
<1>8. FromBanks(saved)' /\ FromBanks(table)'
  BY <1>2, <1>3 DEF FromBanks, Known
<1>9. CallOK'
  <2>1. call.todo \subseteq call.marks /\ ~Ambiguous(table, call.source)
        /\ Replaced(call, table, call.marks \ call.todo) /\ i \in DOMAIN call.out
    BY SpanInHand DEF CallOK
  <2>2. ~Ambiguous(table', call.source)
    BY <1>3, <1>4, <2>1 DEF Ambiguous, Substitutes
  <2>3. Replaced(call', table', call'.marks \ call'.todo)
    BY <1>3, <1>5, <2>1 DEF Replaced, e
  <2> QED BY <1>5, <2>1, <2>2, <2>3 DEF CallOK, Ambiguous, Substitutes, Known, Replaced, Within
<1>10. TextsOK'
  BY <1>2, <1>3 DEF TextsOK, Replaced, Known
<1> QED BY <1>6, <1>7, <1>8, <1>9, <1>10

LEMMA EndPreserves ==
  ASSUME SubstitutionInvariant, EndText
  PROVE  SubstitutionInvariant'
<1> USE DEF SubstitutionInvariant, EndText
<1> DEFINE new == [source |-> call.source, marks |-> call.marks, out |-> call.out,
                   protected |-> TRUE]
<1>1. call \in Call
  BY DEF SubstitutionTypeOK
<1>2. new \in Text /\ Replaced(new, table, new.marks)
  BY <1>1 DEF Text, Call, CallOK, Replaced
<1>3. SubstitutionTypeOK'
  BY <1>2 DEF SubstitutionTypeOK
<1>4. TablesOK' /\ FromBanks(saved)' /\ FromBanks(table)' /\ CallOK'
  BY DEF TablesOK, FromBanks, ValidTable, Known, CallOK
<1>5. TextsOK'
  BY <1>2 DEF TextsOK, Replaced, Known
<1> QED BY <1>3, <1>4, <1>5

LEMMA CommitPreserves ==
  ASSUME SubstitutionInvariant, Commit
  PROVE  SubstitutionInvariant'
<1> USE DEF SubstitutionInvariant, Commit
<1>1. SubstitutionTypeOK'
  BY DEF SubstitutionTypeOK
<1>2. TablesOK' /\ FromBanks(saved)' /\ FromBanks(table)' /\ CallOK'
  BY DEF TablesOK, FromBanks, ValidTable, Known, CallOK
<1>3. TextsOK'
  BY DEF TextsOK, TablesOK, Replaced, Known
<1> QED BY <1>1, <1>2, <1>3

LEMMA NextPreserves == SubstitutionInvariant /\ [Next]_vars => SubstitutionInvariant'
<1> SUFFICES ASSUME SubstitutionInvariant, [Next]_vars PROVE SubstitutionInvariant'
  OBVIOUS
<1>1. ASSUME NEW text \in Source, NEW kind \in Kind, TransformText(text, kind)
      PROVE  SubstitutionInvariant'
  BY <1>1, BeginPreserves, PassPreserves, GiveUpPreserves DEF TransformText, RefuseAmbiguous
<1>2. CASE ReplaceSpan
  <2>1. PICK i \in call.todo : LET e == Normalize[call.source[i]]
                               IN  FindRecord(i, e) \/ Allocate(i, e) \/ Exhausted(i, e)
    BY <1>2 DEF ReplaceSpan
  <2>2. call # None
    BY <1>2 DEF ReplaceSpan
  <2> QED BY <2>1, <2>2, FindPreserves, AllocatePreserves, GiveUpPreserves DEF Exhausted
<1>3. CASE EndText
  BY <1>3, EndPreserves
<1>4. CASE Commit
  BY <1>4, CommitPreserves
<1>5. CASE Drop
  BY <1>5, GiveUpPreserves DEF Drop
<1>6. CASE UNCHANGED vars
  BY <1>6 DEF vars, SubstitutionInvariant, SubstitutionTypeOK, TablesOK, ValidTable, FromBanks,
              CallOK, TextsOK, Replaced, Known, Ambiguous, Substitutes
<1> QED BY <1>1, <1>2, <1>3, <1>4, <1>5, <1>6 DEF Next

-----------------------------------------------------------------------------
\* The invariant holds for any words, detector, policy and banks.
THEOREM SubstitutionInvariantHolds == Spec => []SubstitutionInvariant
<1> QED BY InitEstablishes, NextPreserves, PTL DEF Spec

\* The type invariant.
THEOREM SubstitutionTypeCorrect == Spec => []SubstitutionTypeOK
<1>1. SubstitutionInvariant => SubstitutionTypeOK
  BY DEF SubstitutionInvariant
<1> QED BY <1>1, SubstitutionInvariantHolds, PTL

\* MappingTable.__post_init__ never rejects a table that transform_text builds.
THEOREM TablesStayValid == Spec => []TableValid
<1>1. SubstitutionInvariant => TableValid
  BY DEF SubstitutionInvariant, TablesOK, TableValid
<1> QED BY <1>1, SubstitutionInvariantHolds, PTL

\* R15: an established substitute is used for every later occurrence.
THEOREM SubstitutesAreEstablished == Spec => []EstablishedSubstitutes
<1>1. SubstitutionInvariant => EstablishedSubstitutes
  BY DEF SubstitutionInvariant, TextsOK, Replaced, EstablishedSubstitutes
<1> QED BY <1>1, SubstitutionInvariantHolds, PTL

\* The substitutes allocated for a text occur nowhere else in it.
THEOREM LiteralsAreKept == Spec => []LiteralsStayLiteral
<1>1. SubstitutionInvariant => LiteralsStayLiteral
  BY DEF SubstitutionInvariant, CallOK, LiteralsStayLiteral
<1> QED BY <1>1, SubstitutionInvariantHolds, PTL

\* In a valid table a word has at most one record whose substitute it is.
LEMMA RestoredSubstitute ==
  ASSUME NEW tab \in Table, ValidTable(tab), NEW e \in Known(tab)
  PROVE  Restored(tab, tab[e].substitute) = tab[e].original
<1> DEFINE s == tab[e].substitute
           R == CHOOSE r \in {tab[f] : f \in Known(tab)} : <<r.substitute, s>> \in Inside
<1>1. s \in Word /\ <<s, s>> \in Inside
  BY KnownRecords, SubstitutionAssumption DEF Record
<1>2. \E r \in {tab[f] : f \in Known(tab)} : <<r.substitute, s>> \in Inside
  BY <1>1
<1>3. \A f \in Known(tab) : <<tab[f].substitute, s>> \in Inside => f = e
  BY DEF ValidTable
<1>4. R = tab[e]
  BY <1>2, <1>3
<1>5. s \in Substitutes(tab)
  BY DEF Substitutes
<1> QED BY <1>4, <1>5 DEF Restored

\* What the provider repeats comes back with the values in their first spelling.
THEOREM EchoesRestore == Spec => []EchoRestores
<1>1. ASSUME SubstitutionInvariant, NEW t \in exchanged,
             \A i \in DOMAIN t.source \ t.marks : Plain(t.source[i])
      PROVE  RestoreText(saved, t.out) =
               [i \in DOMAIN t.source |->
                    IF i \in t.marks THEN saved[Normalize[t.source[i]]].original
                    ELSE t.source[i]]
  <2>1. Replaced(t, saved, t.marks) /\ saved \in Table /\ ValidTable(saved) /\ FromBanks(saved)
    BY <1>1 DEF SubstitutionInvariant, TextsOK, TablesOK, SubstitutionTypeOK
  <2>2. ASSUME NEW i \in DOMAIN t.out, i \in t.marks
        PROVE  /\ Restored(saved, t.out[i]) = saved[Normalize[t.source[i]]].original
               /\ \A a \in Reserved \ Substitutes(saved) : <<a, t.out[i]>> \notin Inside
    <3> DEFINE e == Normalize[t.source[i]]
    <3>1. e \in Known(saved) /\ t.out[i] = saved[e].substitute
      BY <2>1, <2>2 DEF Replaced
    <3>2. PICK f \in Family : \E k \in DOMAIN Candidates[f] : saved[e].substitute \in Candidates[f][k]
      BY <2>1, <3>1 DEF FromBanks
    <3>3. \A a \in Reserved : <<a, saved[e].substitute>> \in Inside => a = saved[e].substitute
      BY <3>2, SubstitutionAssumption
    <3>4. saved[e].substitute \in Substitutes(saved)
      BY <3>1 DEF Substitutes
    <3> QED BY <2>1, <3>1, <3>3, <3>4, RestoredSubstitute
  <2>3. ASSUME NEW i \in DOMAIN t.out, i \notin t.marks
        PROVE  /\ Restored(saved, t.out[i]) = t.source[i]
               /\ \A a \in Reserved : <<a, t.out[i]>> \notin Inside
    <3>1. t.out[i] = t.source[i] /\ Plain(t.source[i])
      BY <1>1, <2>1, <2>3 DEF Replaced
    <3>2. \A s \in Substitutes(saved) : <<s, t.source[i]>> \notin Inside
      BY <2>1, <3>1 DEF Substitutes, FromBanks, Plain
    <3>3. \A s \in Substitutes(saved) : <<s, s>> \in Inside
      BY <2>1, KnownRecords, SubstitutionAssumption DEF Substitutes, Record
    <3> QED BY <3>1, <3>2, <3>3 DEF Restored, Plain
  <2>4. ~ \E a \in Reserved \ Substitutes(saved) : Within(a, t.out)
    BY <2>2, <2>3 DEF Within
  <2>5. RestoreText(saved, t.out) = [i \in DOMAIN t.out |-> Restored(saved, t.out[i])]
    BY <2>4 DEF RestoreText
  <2>6. DOMAIN t.out = DOMAIN t.source
    BY <2>1 DEF Replaced
  <2> QED BY <2>2, <2>3, <2>5, <2>6
<1>2. SubstitutionInvariant => EchoRestores
  BY <1>1 DEF EchoRestores
<1> QED BY <1>2, SubstitutionInvariantHolds, PTL
=============================================================================
