----------------------------- MODULE DurableFiles -----------------------------
(***************************************************************************)
(* What the users of a directory of files may rely on when the machine can *)
(* stop at any time: a file always shows something that was written into   *)
(* it, and once a change has been acknowledged nothing older shows again.  *)
(***************************************************************************)
CONSTANTS
    Name,       \* the names of the files
    Content,    \* what a file may hold
    Missing     \* the file is not there

VARIABLES
    shown,      \* what a reader of each file finds
    survivors   \* what a reader may find after a power loss

filesVars == <<shown, survivors>>

FilesInit ==
    /\ shown = [f \in Name |-> Missing]
    /\ survivors = [f \in Name |-> {Missing}]

\* The file is replaced or removed; nobody has been told yet.
Change(f) ==
    /\ shown'[f] \in Content \cup {Missing}
    /\ shown' = [shown EXCEPT ![f] = shown'[f]]
    /\ survivors' = [survivors EXCEPT ![f] = @ \cup {shown'[f]}]

\* The caller is told that the file was written or removed.
Acknowledge(f) ==
    /\ survivors' = [survivors EXCEPT ![f] = {shown[f]}]
    /\ UNCHANGED shown

LosePower ==
    /\ DOMAIN shown' = Name
    /\ \A f \in Name : shown'[f] \in survivors[f]
    /\ UNCHANGED survivors

FilesNext ==
    \/ \E f \in Name : Change(f) \/ Acknowledge(f)
    \/ LosePower

FilesSpec == FilesInit /\ [][FilesNext]_filesVars
=============================================================================
