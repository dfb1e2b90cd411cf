------------------------------ MODULE VaultFiles ------------------------------
(***************************************************************************)
(* The operations of VaultRepository and of BindingRegistry at the level   *)
(* of files, locks and the keyring: state/store.py, state/keys.py, the     *)
(* envelope of state/codec.py and the file of state/bindings.py.           *)
(*                                                                         *)
(* Every operation holds the lock of its file (portalocker; the operating  *)
(* system releases it when its process ends), so a running operation *is*  *)
(* the lock.  It goes through                                              *)
(*                                                                         *)
(*   create   [key, [setkey, confirm,]] write, replace, directory          *)
(*   save     write, replace, directory                                    *)
(*   delete   unlink, directory                                            *)
(*   bind     write, replace                                               *)
(*                                                                         *)
(* and may stop after each step, by an error or because its process died.  *)
(* A machine that loses power forgets every change of a directory that was *)
(* not synced since, independently for each name.                          *)
(***************************************************************************)
EXTENDS Naturals

CONSTANTS
    Conversation, Original, Alias, Mode, Retention, MaxVaults, Faults, None,
    Process,        \* launched mr-hide processes
    Identity,       \* native sessions
    Key,            \* what os.urandom may return for the master key
    Registry,       \* bindings.json
    Torn,           \* a file whose data did not reach the disk
    MaxRevision     \* bound: no save begins on a vault at this revision

File == Conversation \cup {Registry}

VARIABLES
    live,           \* what each name shows: contents, None (no file) or Torn
    kept,           \* what each name may show after a power loss
    since,          \* history: what each name showed since its last acknowledged change
    keyring,        \* the entry of the keyring, or None
    generated,      \* history: keys that os.urandom has returned
    call            \* the operation each process is running

vars == <<live, kept, since, keyring, generated, call>>

\* The repository that callers see: what decrypts in each vault file.
R == INSTANCE VaultRepository WITH
        vault <- [c \in Conversation |->
                    IF live[c] \in {None, Torn} THEN None ELSE live[c].state]

\* An AES-GCM envelope: it opens under the key it was sealed with only.
Sealed == [key : Key, state : R!ConversationState]

Bindings == [bound : SUBSET (Identity \X Conversation)]

\* What a whole file holds.
Whole(f) == IF f = Registry THEN Bindings ELSE Sealed

ASSUME FilesAssumption ==
    /\ MaxRevision \in Nat
    /\ Retention \in Nat
    /\ Registry \notin Conversation
    /\ None # Torn
    /\ {None, Torn} \cap (Sealed \cup Bindings) = {}
    /\ None \notin Key
    /\ None \notin R!ConversationState

-----------------------------------------------------------------------------
Step == {"idle", "key", "setkey", "confirm", "write", "replace", "unlink", "directory"}

\* new: what the operation will put in place.  A new vault has no key at first.
Frame == [at : Step, file : File \cup {None}, synced : BOOLEAN,
          new : [key : Key \cup {None}, state : R!ConversationState] \cup Bindings \cup {None}]

Idle == [at |-> "idle", file |-> None, synced |-> FALSE, new |-> None]

\* Each variable holds what its declaration says.
FilesTypeOK ==
    /\ DOMAIN live = File /\ DOMAIN kept = File /\ DOMAIN since = File
    /\ \A f \in File :
          {live[f]} \cup kept[f] \cup since[f] \subseteq Whole(f) \cup {None, Torn}
    /\ keyring \in Key \cup {None}
    /\ generated \subseteq Key
    /\ call \in [Process -> Frame]

Init ==
    /\ live = [f \in File |-> None]
    /\ kept = [f \in File |-> {None}]
    /\ since = [f \in File |-> {None}]
    /\ keyring = None
    /\ generated = {}
    /\ call = [p \in Process |-> Idle]

-----------------------------------------------------------------------------
Running(p) == call[p].at # "idle"

\* Seeded fault: an operation does not wait for the lock of its file.
Locked_Never(f) == FALSE

Locked(f) == \E p \in Process : Running(p) /\ call[p].file = f

\* Seeded fault: the master key is made without a lock.
KeyLocked_Never == FALSE

KeyLocked == \E p \in Process : call[p].at \in {"setkey", "confirm"}

\* decrypt: the envelope is whole and authenticates under the master key.
Opens(c) == live[c] \notin {None, Torn} /\ live[c].key = keyring

Begin(p, f, at, new) ==
    /\ ~Running(p)
    /\ ~Locked(f)
    /\ call' = [call EXCEPT ![p] = [at |-> at, file |-> f, synced |-> FALSE, new |-> new]]
    /\ UNCHANGED <<live, kept, since, keyring, generated>>

GoTo(p, at) == call' = [call EXCEPT ![p].at = at]

BeginCreate(p, c, mode) ==
    /\ live[c] = None
    /\ Begin(p, c, "key", [key |-> None, state |-> R!NewState(mode, 0)])

\* save(state, expected_revision): expected is the revision the caller has
\* seen.  What it changes in the state makes no difference here.
BeginSave(p, c, expected) ==
    /\ expected < MaxRevision
    /\ Opens(c)
    /\ live[c].state.revision = expected
    /\ Begin(p, c, "write",
             [key |-> keyring,
              state |-> R!NextRevision(live[c].state, live[c].state.mappings, live[c].state.bypassed, 0)])

\* delete_if_inactive, when the vault it reads under the lock is inactive.
BeginDelete(p, c) ==
    /\ Opens(c)
    /\ Begin(p, c, "unlink", None)

Registered == IF live[Registry] = None THEN {} ELSE live[Registry].bound

\* bind, for an identity that is not bound yet.
BeginBind(p, i, c) ==
    /\ live[Registry] # Torn
    /\ \A d \in Conversation : <<i, d>> \notin Registered
    /\ Begin(p, Registry, "write", [bound |-> Registered \cup {<<i, c>>}])

-----------------------------------------------------------------------------
(***************************************************************************)
(* The master key, under its own lock.                                     *)
(***************************************************************************)
\* Seeded fault: the first launch goes on with the key that it did not find.
ReadKey_AsFound(p) ==
    /\ call[p].at = "key"
    /\ ~KeyLocked
    /\ call' = [call EXCEPT ![p].at = "write", ![p].new.key = keyring]
    /\ UNCHANGED <<live, kept, since, keyring, generated>>

\* get_or_create: read the keyring.
ReadKey(p) ==
    /\ call[p].at = "key"
    /\ ~KeyLocked
    /\ \/ keyring # None /\ call' = [call EXCEPT ![p].at = "write", ![p].new.key = keyring]
       \/ keyring = None /\ GoTo(p, "setkey")
    /\ UNCHANGED <<live, kept, since, keyring, generated>>

\* Generate and store; a backend may drop the entry without an error.
SetKey(p) ==
    /\ call[p].at = "setkey"
    /\ \E k \in Key \ generated :
          /\ generated' = generated \cup {k}
          /\ keyring' \in {k, keyring}
          /\ call' = [call EXCEPT ![p].at = "confirm", ![p].new.key = k]
    /\ UNCHANGED <<live, kept, since>>

\* Read it back; anything else is an error (Stop).
ConfirmKey(p) ==
    /\ call[p].at = "confirm"
    /\ keyring = call[p].new.key
    /\ GoTo(p, "write")
    /\ UNCHANGED <<live, kept, since, keyring, generated>>

-----------------------------------------------------------------------------
(***************************************************************************)
(* write_unlocked and delete_unlocked.                                     *)
(***************************************************************************)
\* mkstemp, write, flush, fsync: nothing shows, and the data is on the disk.
WriteTemporary(p) ==
    /\ call[p].at = "write"
    /\ call' = [call EXCEPT ![p].at = "replace", ![p].synced = TRUE]
    /\ UNCHANGED <<live, kept, since, keyring, generated>>

\* A name shows something new, and what it showed before may come back.
Show(f, content, synced) ==
    /\ live' = [live EXCEPT ![f] = content]
    /\ kept' = [kept EXCEPT ![f] = @ \cup {content} \cup IF synced THEN {} ELSE {Torn}]

\* os.replace of a vault; the caller is not told yet.
ReplaceVault(p) ==
    /\ call[p].at = "replace"
    /\ call[p].file # Registry
    /\ Show(call[p].file, call[p].new, call[p].synced)
    /\ since' = [since EXCEPT ![call[p].file] = @ \cup {call[p].new}]
    /\ GoTo(p, "directory")
    /\ UNCHANGED <<keyring, generated>>

\* os.replace of the registry is the last step of bind.
ReplaceRegistry(p) ==
    /\ call[p].at = "replace"
    /\ call[p].file = Registry
    /\ Show(Registry, call[p].new, call[p].synced)
    /\ since' = [since EXCEPT ![Registry] = {call[p].new}]
    /\ call' = [call EXCEPT ![p] = Idle]
    /\ UNCHANGED <<keyring, generated>>

\* Seeded fault: a deletion is reported before the directory is synced.
Unlink_Unsynced(p) ==
    /\ call[p].at = "unlink"
    /\ Show(call[p].file, None, TRUE)
    /\ since' = [since EXCEPT ![call[p].file] = {None}]
    /\ call' = [call EXCEPT ![p] = Idle]
    /\ UNCHANGED <<keyring, generated>>

Unlink(p) ==
    /\ call[p].at = "unlink"
    /\ Show(call[p].file, None, TRUE)
    /\ since' = [since EXCEPT ![call[p].file] = @ \cup {None}]
    /\ GoTo(p, "directory")
    /\ UNCHANGED <<keyring, generated>>

\* _sync_directory makes the whole directory durable; the operation returns.
SyncDirectory(p) ==
    /\ call[p].at = "directory"
    /\ kept' = [f \in File |-> {live[f]} \cup (kept[f] \cap {Torn})]
    /\ since' = [since EXCEPT ![call[p].file] = {live[call[p].file]}]
    /\ call' = [call EXCEPT ![p] = Idle]
    /\ UNCHANGED <<live, keyring, generated>>

\* An OSError or VaultError ends the operation, or its process ends: the lock
\* is free, the temporary file is unlinked or ignored by everybody.
Stop(p) ==
    /\ Running(p)
    /\ call' = [call EXCEPT ![p] = Idle]
    /\ UNCHANGED <<live, kept, since, keyring, generated>>

\* Every process ends, and every name shows one of the things it may show.
PowerLoss ==
    /\ live' \in [File -> UNION {kept[f] : f \in File}]
    /\ \A f \in File : live'[f] \in kept[f]
    /\ kept' = [f \in File |-> {live'[f]}]
    /\ call' = [p \in Process |-> Idle]
    /\ UNCHANGED <<since, keyring, generated>>

-----------------------------------------------------------------------------
Operate(p) ==
    \/ \E c \in Conversation :
          \/ \E mode \in Mode : BeginCreate(p, c, mode)
          \/ \E expected \in 0 .. MaxRevision : BeginSave(p, c, expected)
          \/ BeginDelete(p, c)
          \/ \E i \in Identity : BeginBind(p, i, c)
    \/ ReadKey(p)
    \/ SetKey(p)
    \/ ConfirmKey(p)
    \/ WriteTemporary(p)
    \/ ReplaceVault(p)
    \/ ReplaceRegistry(p)
    \/ Unlink(p)
    \/ SyncDirectory(p)
    \/ Stop(p)

Next == PowerLoss \/ \E p \in Process : Operate(p)

Spec == Init /\ [][Next]_vars

-----------------------------------------------------------------------------
(***************************************************************************)
(* Properties                                                              *)
(***************************************************************************)

\* Whatever a name shows, and whatever it may show after a power loss, is whole,
\* and a vault opens under the key that the keyring holds: neither an
\* interrupted write nor two first launches that make a key at the same time
\* leave a vault that nobody can decrypt (store.py write_unlocked, keys.py
\* get_or_create).
Readable ==
    \A f \in File :
        \A content \in kept[f] \cup {live[f]} :
            /\ content # Torn
            /\ f # Registry /\ content # None => content.key = keyring

\* A vault that was reported written, or deleted, stays so through a power
\* loss; until then the old contents may return but nothing else
\* (store.py _sync_directory before the return).
Durable == INSTANCE DurableFiles WITH
    Name <- Conversation, Content <- Sealed, Missing <- None,
    shown <- [c \in Conversation |-> live[c]], survivors <- [c \in Conversation |-> since[c]]

DurableVaults == Durable!FilesSpec

\* As long as the machine has power, the vaults that callers see change by the
\* repository's create, save and delete_if_inactive only, each in one step and
\* on the state that its caller expected: the lock makes a read, a comparison
\* and a replacement one operation (repository.py).
RepositoryStep ==
    \E c \in Conversation :
        \/ \E mode \in Mode : R!Create(c, R!NewState(mode, 0), "ok")
        \/ /\ live[c] \notin {None, Torn}
           /\ \/ LET old == live[c].state
                 IN  R!Save(c, R!NextRevision(old, old.mappings, old.bypassed, 0), old.revision, "ok")
              \/ R!DeleteIfInactive(c, live[c].state.last_activity + Retention, "deleted")

RepositorySteps ==
    [][PowerLoss \/ RepositoryStep \/ \A c \in Conversation : live'[c] = live[c]]_vars
=============================================================================
