------------------------------ MODULE StreamText ------------------------------
(***************************************************************************)
(* The text that some frames of a stream make up, in their order.          *)
(***************************************************************************)
EXTENDS Naturals, Sequences, FiniteSets, SequencesExt

InOrder(ns) ==
    CHOOSE at \in [1..Cardinality(ns) -> ns] : \A i, j \in DOMAIN at : i < j => at[i] < at[j]

Flat(stream, at) == FlattenSeq([k \in DOMAIN at |-> stream[at[k]].text])

TextAt(stream, ns) == Flat(stream, InOrder(ns))
=============================================================================
