---------------------------- MODULE RestoredStream ----------------------------
(***************************************************************************)
(* What a client may expect of a protected event stream: it reads nothing  *)
(* until the provider has ended the stream, and then every text of the     *)
(* stream as a whole with its substitutes restored, in however many parts  *)
(* the provider wrote it; or it reads nothing at all.                      *)
(***************************************************************************)
EXTENDS StreamText

CONSTANTS
    None,
    Restored(_, _)  \* kind, text -> the restored text, or None

VARIABLES
    written,        \* the parts the provider wrote: [group, kind, text]
    outcome,        \* "open", "delivered" or "refused"
    read            \* group -> what the client reads of it

vars == <<written, outcome, read>>

Groups == {part.group : part \in Range(written)}
KindOf(group) == (CHOOSE part \in Range(written) : part.group = group).kind
TextOf(group) == TextAt(written, {n \in DOMAIN written : written[n].group = group})

Init == written = <<>> /\ outcome = "open" /\ read = <<>>

Write ==
    /\ outcome = "open" /\ outcome' = "open"
    /\ IsPrefix(written, written')
    /\ UNCHANGED read

Refuse ==
    /\ outcome = "open" /\ outcome' = "refused"
    /\ IsPrefix(written, written')
    /\ UNCHANGED read

Deliver ==
    /\ outcome = "open" /\ outcome' = "delivered"
    /\ read' = [group \in Groups |-> Restored(KindOf(group), TextOf(group))]
    /\ \A group \in Groups : read'[group] # None
    /\ UNCHANGED written

Next == Write \/ Refuse \/ Deliver

Spec == Init /\ [][Next]_vars
=============================================================================
