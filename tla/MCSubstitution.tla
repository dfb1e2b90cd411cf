---------------------------- MODULE MCSubstitution ----------------------------
(* Small instances of Substitution for TLC. *)
EXTENDS Substitution

Reflexive == {<<w, w>> : w \in Word}

\* Aliases of one family.
AliasNormalize ==
    [w \in Word |-> IF w \in {"Alice", "ALICE"} THEN "alice"
                    ELSE IF w = "Bob" THEN "bob" ELSE None]
PersonOf == [e \in Entity |-> "PERSON"]
AliasCandidates == [f \in Family |-> <<{"<P0>"}, {"<P1>"}>>]
AliasInside == Reflexive \cup {<<"<P1>", "<P1>s">>}
AliasReserved == {"<P0>", "<P1>"}
=============================================================================
