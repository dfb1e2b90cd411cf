---------------------------- MODULE VaultRepository ----------------------------
(***************************************************************************)
(* The encrypted conversation vaults of mr_hide.state as every process     *)
(* sees them: one file per conversation, and the operations of             *)
(* VaultRepository, each of which runs from start to end under the         *)
(* conversation's file lock (store.py AtomicVaultStore.lock) and is        *)
(* therefore one step.                                                     *)
(*                                                                         *)
(* An operation is a relation between the vaults before, the vaults after  *)
(* and the result r its caller sees.  A caller tells apart "ok",           *)
(* "vault-missing" and "failed" (any other VaultError); the reasons that   *)
(* no caller tells apart are one reason here.                              *)
(*                                                                         *)
(* Encryption is left out: a payload that does not decrypt is a failed     *)
(* operation.  Faults says which failures the environment may inject:      *)
(*   "unavailable"  the operation fails before it takes effect (the lock   *)
(*                  times out, the keyring has no key, the disk is full);  *)
(*   "unsynced"     the file was replaced or unlinked and then the fsync   *)
(*                  of the directory failed: the caller sees an error      *)
(*                  although the operation took effect;                    *)
(*   "crash"        the process stops (used by the modules that model it). *)
(***************************************************************************)
EXTENDS Naturals, FiniteSets

CONSTANTS
    Conversation,   \* conversation identifiers (UUIDs)
    Original,       \* sensitive values, by entity type and normalized text
    Alias,          \* substitutes that may stand for them
    Mode,           \* substitution modes
    Retention,      \* RETENTION_PERIOD in clock units
    MaxVaults,      \* _MAX_VAULT_FILES: more files than this are not listed
    Faults,         \* failures the environment may inject
    None            \* "no vault", "no alias", "no conversation"

FaultKind == {"unavailable", "unsynced", "crash"}

ASSUME RepositoryAssumption ==
    /\ Retention \in Nat \ {0}
    /\ MaxVaults \in Nat
    /\ Faults \subseteq FaultKind
    /\ None \notin Conversation
    /\ None \notin Alias

VARIABLE vault      \* the vault file of each conversation, or None

(***************************************************************************)
(* MappingTable: which substitute stands for each original (None: none     *)
(* allocated).  The constructor refuses two originals with one substitute. *)
(***************************************************************************)
Table == [Original -> Alias \cup {None}]

Injective(table) ==
    \A o1, o2 \in Original :
        table[o1] # None /\ table[o1] = table[o2] => o1 = o2

\* MappingTable.add only appends: what an earlier table maps, a later one maps alike.
Extends(table, larger) ==
    \A o \in Original : table[o] # None => larger[o] = table[o]

ConversationState ==
    [revision : Nat, last_activity : Nat, bypassed : BOOLEAN,
     mode : Mode, mappings : Table]

ASSUME NoneIsNoState == None \notin ConversationState

\* ConversationState.new
NewState(mode, now) ==
    [revision |-> 0, last_activity |-> now, bypassed |-> FALSE,
     mode |-> mode, mappings |-> [o \in Original |-> None]]

\* ConversationState.next_revision
NextRevision(state, mappings, bypassed, now) ==
    [revision |-> state.revision + 1, last_activity |-> now,
     bypassed |-> bypassed, mode |-> state.mode, mappings |-> mappings]

\* now - last_activity >= RETENTION_PERIOD, and equally
\* last_activity <= now - RETENTION_PERIOD, the cutoff of delete_if_inactive.
Inactive(state, now) == state.last_activity + Retention <= now

Exists(c) == vault[c] # None

Stored == {c \in Conversation : Exists(c)}

-----------------------------------------------------------------------------
(***************************************************************************)
(* The operations.                                                         *)
(***************************************************************************)
Unavailable(r) ==
    /\ "unavailable" \in Faults
    /\ r = "failed"
    /\ UNCHANGED vault

\* os.replace takes effect at once; the directory fsync after it may fail.
Replace(c, content, r) ==
    /\ vault' = [vault EXCEPT ![c] = content]
    /\ \/ r = "ok"
       \/ r = "failed" /\ "unsynced" \in Faults

Create(c, state, r) ==
    \/ Exists(c) /\ r = "failed" /\ UNCHANGED vault
    \/ ~Exists(c) /\ Replace(c, state, r)
    \/ Unavailable(r)

Load(c, r) ==
    \/ Exists(c) /\ r = "ok" /\ UNCHANGED vault
    \/ ~Exists(c) /\ r = "vault-missing" /\ UNCHANGED vault
    \/ Unavailable(r)

\* Seeded fault: save without the comparison of revisions.
Save_NoRevisionCheck(c, state, expected, r) ==
    \/ ~Exists(c) /\ r = "vault-missing" /\ UNCHANGED vault
    \/ Exists(c) /\ Replace(c, state, r)
    \/ Unavailable(r)

\* Seeded fault: save writes a vault that is gone.
Save_RecreatesMissing(c, state, expected, r) ==
    \/ (Exists(c) => vault[c].revision = expected) /\ Replace(c, state, r)
    \/ Exists(c) /\ vault[c].revision # expected /\ r = "failed" /\ UNCHANGED vault
    \/ Unavailable(r)

Save(c, state, expected, r) ==
    \/ ~Exists(c) /\ r = "vault-missing" /\ UNCHANGED vault
    \/ Exists(c) /\ vault[c].revision # expected /\ r = "failed" /\ UNCHANGED vault
    \/ Exists(c) /\ vault[c].revision = expected /\ Replace(c, state, r)
    \/ Unavailable(r)

\* conversation_ids: no lock is taken, and a directory with too many vaults is an error.
ConversationIds(ids, r) ==
    \/ /\ Cardinality(Stored) <= MaxVaults
       /\ ids = Stored
       /\ r = "ok"
       /\ UNCHANGED vault
    \/ Cardinality(Stored) > MaxVaults /\ ids = {} /\ r = "failed" /\ UNCHANGED vault
    \/ ids = {} /\ Unavailable(r)

\* Seeded fault: the caller's decision is carried out without a second look.
DeleteIfInactive_NoRecheck(c, now, r) ==
    \/ ~Exists(c) /\ r = "kept" /\ UNCHANGED vault
    \/ Exists(c) /\ vault' = [vault EXCEPT ![c] = None] /\ r = "deleted"
    \/ Unavailable(r)

\* Seeded fault: the cutoff itself counts as active.
DeleteIfInactive_AfterCutoff(c, now, r) ==
    \/ ~Exists(c) /\ r = "kept" /\ UNCHANGED vault
    \/ /\ Exists(c) /\ now <= vault[c].last_activity + Retention
       /\ r = "kept" /\ UNCHANGED vault
    \/ /\ Exists(c) /\ vault[c].last_activity + Retention < now
       /\ r = "deleted" /\ vault' = [vault EXCEPT ![c] = None]
    \/ Unavailable(r)

\* delete_if_inactive(c, inactive_since = now - RETENTION_PERIOD): the
\* activity is read again under the lock.
DeleteIfInactive(c, now, r) ==
    \/ ~Exists(c) /\ r = "kept" /\ UNCHANGED vault
    \/ Exists(c) /\ ~Inactive(vault[c], now) /\ r = "kept" /\ UNCHANGED vault
    \/ /\ Exists(c)
       /\ Inactive(vault[c], now)
       /\ vault' = [vault EXCEPT ![c] = None]
       /\ \/ r = "deleted"
          \/ r = "failed" /\ "unsynced" \in Faults
    \/ Unavailable(r)
=============================================================================
