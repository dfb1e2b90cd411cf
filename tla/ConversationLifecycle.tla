------------------------ MODULE ConversationLifecycle ------------------------
(***************************************************************************)
(* The operations that launched processes run on the shared vaults:        *)
(* ConversationService (state/lifecycle.py) and the transactions of        *)
(* PrivacyRuntime (runtime/privacy.py).                                    *)
(*                                                                         *)
(* A process runs one operation at a time: the proxy of a process is one   *)
(* event loop and no operation awaits.  Processes interleave at every      *)
(* operation of the repository and at every reading of the clock, so an    *)
(* operation is a frame, call[p], that walks through the steps of its      *)
(* method:                                                                 *)
(*                                                                         *)
(*   create         write                                                  *)
(*   resume         load, clock, [expire, reload,] save                    *)
(*   accept_bypass  load, clock, [expire, reload,] stamp, save             *)
(*   process        load, clock, [expire, reload,] transform, stamp, save  *)
(*   transaction    load, clock, transform, save                           *)
(*   cleanup        list, sweep ... sweep                                  *)
(*                                                                         *)
(* The clock is the machine's UTC clock, read by every process; it is      *)
(* taken to be monotonic.                                                  *)
(***************************************************************************)
EXTENDS VaultRepository

CONSTANTS
    Process,        \* launched mr-hide processes
    MaxTime,        \* bound: the clock stops here
    MaxRevision     \* bound: no operation begins on a vault at this revision

ASSUME LifecycleAssumption == MaxTime \in Nat /\ MaxRevision \in Nat

VARIABLES
    clock,          \* the UTC clock
    used,           \* identifiers that uuid4 has handed out
    call,           \* the operation each process is running
    exchanged,      \* substitutions that left a committed operation
    rawPassed       \* conversations whose text left an operation untransformed

vars == <<vault, clock, used, call, exchanged, rawPassed>>

-----------------------------------------------------------------------------
Operation ==
    {"none", "create", "resume", "accept_bypass", "process", "transaction", "cleanup"}

Step == {"idle", "write", "load", "clock", "expire", "reload", "stamp",
         "transform", "save", "list", "sweep"}

\* ConversationStatus, and what a transaction and a cleanup report.
Status == {"none", "protected", "bypassed", "blocked", "missing", "expired",
           "committed", "cleaned", "raised"}

Direction == {"to_provider", "to_local"}

Frame == [op : Operation, at : Step, conversation : Conversation \cup {None},
          direction : Direction,
          seen : ConversationState \cup {None},   \* the loaded state
          now : Nat,                              \* the last reading of the clock
          mappings : Table,                       \* the staged mappings
          touched : SUBSET Original,              \* values replaced or restored
          pending : SUBSET Conversation,          \* what cleanup has still to visit
          mode : Mode,                            \* substitution mode of the process's policy
          result : Status]                        \* what the last operation returned

Substitution == [conversation : Conversation, original : Original, alias : Alias]

\* The invariant every process relies on: each variable holds what its declaration says.
TypeOK ==
    /\ vault \in [Conversation -> ConversationState \cup {None}]
    /\ clock \in Nat
    /\ used \subseteq Conversation
    /\ call \in [Process -> Frame]
    /\ exchanged \subseteq Substitution
    /\ rawPassed \subseteq Conversation

NoMappings == [o \in Original |-> None]

Idle(mode, result) ==
    [op |-> "none", at |-> "idle", conversation |-> None,
     direction |-> "to_provider", seen |-> None, now |-> 0,
     mappings |-> NoMappings, touched |-> {}, pending |-> {}, mode |-> mode,
     result |-> result]

Init ==
    /\ vault = [c \in Conversation |-> None]
    /\ clock = 0
    /\ used = {}
    /\ call \in [Process -> {Idle(mode, "none") : mode \in Mode}]
    /\ exchanged = {}
    /\ rawPassed = {}

At(p, ops, step) == call[p].op \in ops /\ call[p].at = step

Continue(p, frame) == call' = [call EXCEPT ![p] = frame]

Return(p, status) == Continue(p, Idle(call[p].mode, status))

NothingLeaves == UNCHANGED <<exchanged, rawPassed>>

-----------------------------------------------------------------------------
(***************************************************************************)
(* The beginning of an operation.                                          *)
(***************************************************************************)
Begin(p, op, step, c, direction) ==
    /\ call[p].op = "none"
    /\ Continue(p, [Idle(call[p].mode, "none") EXCEPT
                       !.op = op, !.at = step, !.conversation = c,
                       !.direction = direction, !.now = clock])
    /\ UNCHANGED <<vault, clock>> /\ NothingLeaves

BelowBound(c) == Exists(c) => vault[c].revision < MaxRevision

\* identifier_factory() hands out an identifier that was never used, and
\* ConversationState.new reads the clock.
BeginCreate(p, c) ==
    /\ c \notin used
    /\ used' = used \cup {c}
    /\ Begin(p, "create", "write", c, "to_provider")

BeginResume(p, c) ==
    /\ BelowBound(c)
    /\ Begin(p, "resume", "load", c, "to_provider")
    /\ UNCHANGED used

\* accept_bypass blocks at once when the warning was not accepted.
BeginAcceptBypass(p, c, warningAccepted) ==
    /\ BelowBound(c)
    /\ \/ warningAccepted /\ Begin(p, "accept_bypass", "load", c, "to_provider")
       \/ /\ ~warningAccepted
          /\ call[p].op = "none"
          /\ Return(p, "blocked")
          /\ UNCHANGED <<vault, clock>> /\ NothingLeaves
    /\ UNCHANGED used

BeginProcess(p, c, direction) ==
    /\ BelowBound(c)
    /\ Begin(p, "process", "load", c, direction)
    /\ UNCHANGED used

BeginTransaction(p, c, direction) ==
    /\ BelowBound(c)
    /\ Begin(p, "transaction", "load", c, direction)
    /\ UNCHANGED used

\* cleanup_expired computes its cutoff once, before it lists the vaults.
BeginCleanup(p) ==
    /\ Begin(p, "cleanup", "list", None, "to_provider")
    /\ UNCHANGED used

-----------------------------------------------------------------------------
(***************************************************************************)
(* The steps of an operation.                                              *)
(***************************************************************************)
WriteNew(p) ==
    /\ At(p, {"create"}, "write")
    /\ \E r \in {"ok", "failed"} :
         /\ Create(call[p].conversation, NewState(call[p].mode, call[p].now), r)
         /\ Return(p, IF r = "ok" THEN "protected" ELSE "blocked")
    /\ UNCHANGED <<clock, used>> /\ NothingLeaves

Loading == {"resume", "accept_bypass", "process", "transaction"}

\* Seeded fault: the repository's reason is returned as the status.
LoadThen_ReasonAsStatus(p, step) ==
    \E r \in {"ok", "vault-missing", "failed"} :
        /\ Load(call[p].conversation, r)
        /\ \/ /\ r = "ok"
              /\ Continue(p, [call[p] EXCEPT !.seen = vault[call[p].conversation], !.at = step])
           \/ r # "ok" /\ Return(p, r)

\* Read a state and go on to `step`, or return what the failed load means:
\* the service tells a missing vault from other errors, a transaction does not.
LoadThen(p, step) ==
    \E r \in {"ok", "vault-missing", "failed"} :
        /\ Load(call[p].conversation, r)
        /\ \/ /\ r = "ok"
              /\ Continue(p, [call[p] EXCEPT !.seen = vault[call[p].conversation], !.at = step])
           \/ r # "ok" /\ Return(p, IF r = "vault-missing" /\ call[p].op # "transaction"
                                     THEN "missing" ELSE "blocked")

LoadVault(p) ==
    /\ At(p, Loading, "load")
    /\ LoadThen(p, "clock")
    /\ UNCHANGED <<clock, used>> /\ NothingLeaves

\* Where an operation goes with a state it takes for active.
AfterLoad(op) ==
    CASE op = "resume"        -> "save"
      [] op = "accept_bypass" -> "stamp"
      [] OTHER                -> "transform"

\* Seeded fault: a transaction does not look at the retention period.
CheckExpiry_NotInTransactions(p) ==
    /\ At(p, Loading, "clock")
    /\ \/ /\ ~Inactive(call[p].seen, clock) \/ call[p].op = "transaction"
          /\ Continue(p, [call[p] EXCEPT !.now = clock, !.at = AfterLoad(call[p].op)])
       \/ /\ Inactive(call[p].seen, clock)
          /\ call[p].op # "transaction"
          /\ Continue(p, [call[p] EXCEPT !.now = clock, !.at = "expire"])
    /\ UNCHANGED <<vault, clock, used>> /\ NothingLeaves

\* The clock is read after the load has returned, and the loaded state is
\* judged by it.
CheckExpiry(p) ==
    /\ At(p, Loading, "clock")
    /\ \/ /\ ~Inactive(call[p].seen, clock)
          /\ Continue(p, [call[p] EXCEPT !.now = clock, !.at = AfterLoad(call[p].op)])
       \/ /\ Inactive(call[p].seen, clock)
          /\ call[p].op # "transaction"
          /\ Continue(p, [call[p] EXCEPT !.now = clock, !.at = "expire"])
       \/ /\ Inactive(call[p].seen, clock)
          /\ call[p].op = "transaction"
          /\ Return(p, "blocked")
    /\ UNCHANGED <<vault, clock, used>> /\ NothingLeaves

\* A vault that was refreshed in the meantime is not deleted, but loaded again.
\* Only resume lets a VaultError of the deletion through.
Expire(p) ==
    /\ At(p, Loading, "expire")
    /\ \E r \in {"deleted", "kept", "failed"} :
         /\ DeleteIfInactive(call[p].conversation, call[p].now, r)
         /\ \/ r = "deleted" /\ Return(p, "expired")
            \/ r = "kept" /\ Continue(p, [call[p] EXCEPT !.at = "reload"])
            \/ r = "failed" /\ Return(p, IF call[p].op = "resume" THEN "raised" ELSE "blocked")
    /\ UNCHANGED <<clock, used>> /\ NothingLeaves

Reload(p) ==
    /\ At(p, Loading, "reload")
    /\ LoadThen(p, AfterLoad(call[p].op))
    /\ UNCHANGED <<clock, used>> /\ NothingLeaves

\* Every table that transform_text may leave behind when it protects `text`:
\* what was mapped stays, and each new value gets a substitute of its own.
Allocations(table, text) ==
    {larger \in Table :
        /\ Extends(table, larger)
        /\ Injective(larger)
        /\ \A o \in Original : larger[o] # None <=> table[o] # None \/ o \in text}

Transforming == {"process", "transaction"}

AfterTransform(op) == IF op = "process" THEN "stamp" ELSE "save"

Stage(p, table, values) ==
    Continue(p, [call[p] EXCEPT !.mappings = table, !.touched = values,
                                !.at = AfterTransform(call[p].op)])

\* The whole body is transformed against the loaded state.  A bypassed
\* conversation passes it raw; otherwise values on their way to the provider
\* are replaced and known substitutes on their way back restored.  The policy
\* passes some text as it is, and a body of such text alone never meets the
\* comparison of the modes.
Transform(p) ==
    LET seen == call[p].seen
        known == {o \in Original : seen.mappings[o] # None}
    IN  /\ At(p, Transforming, "transform")
        /\ \/ seen.bypassed /\ Stage(p, seen.mappings, {})
           \/ /\ ~seen.bypassed
              /\ call[p].direction = "to_provider"
              /\ \E text \in SUBSET Original :
                   /\ text # {} => call[p].mode = seen.mode
                   /\ \E table \in Allocations(seen.mappings, text) : Stage(p, table, text)
           \/ /\ ~seen.bypassed
              /\ call[p].direction = "to_local"
              /\ \E values \in SUBSET known : Stage(p, seen.mappings, values)
        /\ UNCHANGED <<vault, clock, used>> /\ NothingLeaves

\* The policy's mode is not the conversation's, no substitute is left, the
\* text already holds a substitute, an alias is unknown, detection failed:
\* the body is refused and nothing was saved.
RefuseText(p) ==
    /\ At(p, Transforming, "transform")
    /\ ~call[p].seen.bypassed
    /\ Return(p, "blocked")
    /\ UNCHANGED <<vault, clock, used>> /\ NothingLeaves

\* A transaction is dropped before its commit: the handler cannot parse the
\* body, the upstream fails, the native session cannot be bound, or the body
\* only counts tokens.
DropTransaction(p) ==
    /\ At(p, {"transaction"}, "save")
    /\ Return(p, "blocked")
    /\ UNCHANGED <<vault, clock, used>> /\ NothingLeaves

\* accept_bypass and _commit_text read the clock again for last_activity.
Stamp(p) ==
    /\ At(p, {"accept_bypass", "process"}, "stamp")
    /\ Continue(p, [call[p] EXCEPT !.now = clock, !.at = "save"])
    /\ UNCHANGED <<vault, clock, used>> /\ NothingLeaves

\* The next revision that an operation writes.
Updated(frame) ==
    NextRevision(frame.seen,
                 IF frame.op \in Transforming THEN frame.mappings ELSE frame.seen.mappings,
                 frame.seen.bypassed \/ frame.op = "accept_bypass",
                 frame.now)

SavedStatus(frame) ==
    IF frame.op = "transaction" THEN "committed"
    ELSE IF Updated(frame).bypassed THEN "bypassed" ELSE "protected"

Substitutions(frame) ==
    {[conversation |-> frame.conversation, original |-> o, alias |-> frame.mappings[o]] :
        o \in frame.touched}

\* Text leaves the operation only when its revision was saved.
SaveState(p) ==
    LET frame == call[p]
    IN  /\ At(p, Loading, "save")
        /\ \E r \in {"ok", "vault-missing", "failed"} :
             /\ Save(frame.conversation, Updated(frame), frame.seen.revision, r)
             /\ \/ /\ r = "ok"
                   /\ Return(p, SavedStatus(frame))
                   /\ exchanged' = exchanged \cup Substitutions(frame)
                   /\ rawPassed' = IF frame.op \in Transforming /\ frame.seen.bypassed
                                   THEN rawPassed \cup {frame.conversation}
                                   ELSE rawPassed
                \/ r # "ok" /\ Return(p, "blocked") /\ NothingLeaves
        /\ UNCHANGED <<clock, used>>

ListVaults(p) ==
    /\ At(p, {"cleanup"}, "list")
    /\ \E ids \in SUBSET Conversation, r \in {"ok", "failed"} :
         /\ ConversationIds(ids, r)
         /\ \/ r = "ok" /\ Continue(p, [call[p] EXCEPT !.pending = ids, !.at = "sweep"])
            \/ r = "failed" /\ Return(p, "raised")
    /\ UNCHANGED <<clock, used>> /\ NothingLeaves

\* Seeded fault: a vault that is kept is visited again.
Sweep_RevisitsKept(p) ==
    /\ At(p, {"cleanup"}, "sweep")
    /\ \E c \in call[p].pending, r \in {"deleted", "kept", "failed"} :
         /\ DeleteIfInactive(c, call[p].now, r)
         /\ \/ r = "deleted" /\ Continue(p, [call[p] EXCEPT !.pending = @ \ {c}])
            \/ r = "kept" /\ UNCHANGED call
            \/ r = "failed" /\ Return(p, "raised")
    /\ UNCHANGED <<clock, used>> /\ NothingLeaves

\* The first error ends the cleanup: the vaults that are left stay.
Sweep(p) ==
    /\ At(p, {"cleanup"}, "sweep")
    /\ \E c \in call[p].pending, r \in {"deleted", "kept", "failed"} :
         /\ DeleteIfInactive(c, call[p].now, r)
         /\ \/ r # "failed" /\ Continue(p, [call[p] EXCEPT !.pending = @ \ {c}])
            \/ r = "failed" /\ Return(p, "raised")
    /\ UNCHANGED <<clock, used>> /\ NothingLeaves

EndCleanup(p) ==
    /\ At(p, {"cleanup"}, "sweep")
    /\ call[p].pending = {}
    /\ Return(p, "cleaned")
    /\ UNCHANGED <<vault, clock, used>> /\ NothingLeaves

\* A process that stops loses its frame; what it saved stays.
Crash(p) ==
    /\ "crash" \in Faults
    /\ call[p].op # "none"
    /\ Return(p, "none")
    /\ UNCHANGED <<vault, clock, used>> /\ NothingLeaves

Tick ==
    /\ clock < MaxTime
    /\ clock' = clock + 1
    /\ UNCHANGED <<vault, used, call>> /\ NothingLeaves

-----------------------------------------------------------------------------
BeginOperation(p) ==
    \/ BeginCleanup(p)
    \/ \E c \in Conversation :
         \/ BeginCreate(p, c)
         \/ BeginResume(p, c)
         \/ \E accepted \in BOOLEAN : BeginAcceptBypass(p, c, accepted)
         \/ \E direction \in Direction :
              BeginProcess(p, c, direction) \/ BeginTransaction(p, c, direction)

Advance(p) ==
    \/ WriteNew(p)
    \/ LoadVault(p) \/ CheckExpiry(p) \/ Expire(p) \/ Reload(p)
    \/ Transform(p) \/ RefuseText(p) \/ DropTransaction(p) \/ Stamp(p) \/ SaveState(p)
    \/ ListVaults(p) \/ Sweep(p) \/ EndCleanup(p)

Next ==
    \/ Tick
    \/ \E p \in Process : BeginOperation(p) \/ Advance(p) \/ Crash(p)

Spec == Init /\ [][Next]_vars

\* A process that is running goes on: nothing but the file locks, which time
\* out, ever makes an operation wait.
FairSpec == Spec /\ \A p \in Process : WF_vars(Advance(p))

-----------------------------------------------------------------------------
(***************************************************************************)
(* What the operations promise.                                            *)
(***************************************************************************)

\* One alias never stands for two originals in what left the committed
\* operations of a conversation, whichever processes ran them and whether or
\* not the vault still exists (transform_text allocates from a snapshot;
\* only save's revision check keeps two snapshots from allocating alike).
AliasDenotesOneOriginal ==
    \A e1, e2 \in exchanged :
        e1.conversation = e2.conversation /\ e1.alias = e2.alias
            => e1.original = e2.original

\* What left a committed operation can be restored from the vault for as long
\* as the vault exists (handlers forward a body only after commit).
ExchangedIsRestorable ==
    \A e \in exchanged :
        Exists(e.conversation) => vault[e.conversation].mappings[e.original] = e.alias

\* Text passes raw only in a conversation whose vault records the bypass, and
\* no later save by a process with an older snapshot takes the record back.
RawOnlyUnderRecordedBypass ==
    \A c \in rawPassed : Exists(c) => vault[c].bypassed

\* No update of a vault is lost: a vault changes only to the next revision of
\* what it holds, with every mapping and an accepted bypass kept and the mode
\* as it was (save's revision check against interleaved snapshots).
NoLostUpdate ==
    [][\A c \in Conversation :
         Exists(c) /\ Exists(c)' /\ vault'[c] # vault[c] =>
             /\ vault'[c].revision = vault[c].revision + 1
             /\ Extends(vault[c].mappings, vault'[c].mappings)
             /\ vault[c].bypassed => vault'[c].bypassed
             /\ vault'[c].mode = vault[c].mode]_vars

\* A vault file disappears only when its last activity is a whole retention
\* period ago, although the decision to delete was taken from an older reading
\* of the clock and of the vault (delete_if_inactive looks again under the lock).
DeletesOnlyInactive ==
    [][\A c \in Conversation :
         Exists(c) /\ ~Exists(c)' => Inactive(vault[c], clock)]_vars

\* No vault, and nothing ever left an operation under this identifier.
NothingUnder(c) ==
    ~Exists(c) /\ c \notin rawPassed /\ \A e \in exchanged : e.conversation # c

\* An identifier whose vault was deleted is reported expired or missing and
\* never comes back: a vault that appears is a new one that nothing was ever
\* exchanged under and that no process has loaded.
NeverRecreated ==
    [][\A c \in Conversation :
         ~Exists(c) /\ Exists(c)' =>
             /\ vault'[c].revision = 0
             /\ NothingUnder(c)
             /\ \A p \in Process : call[p].conversation = c => call[p].seen = None]_vars

\* p saves c in this step.
Saves(p, c) ==
    /\ call[p].at = "save" /\ call[p].conversation = c
    /\ call'[p] # call[p]
    /\ vault'[c] # vault[c]

\* The commit of a transaction moves the last activity forward, and by less
\* than a retention period: it never takes activity back and never extends a
\* conversation that had run out when the transaction looked (transaction()
\* reads the clock once, after its load).
TransactionRefreshes ==
    [][\A p \in Process, c \in Conversation :
         call[p].op = "transaction" /\ Saves(p, c) =>
             /\ vault[c].last_activity <= vault'[c].last_activity
             /\ vault'[c].last_activity < vault[c].last_activity + Retention]_vars

\* A vault that a cleanup has listed as inactive ends deleted or refreshed,
\* unless the cleanup fails or its process is stopped, however many other
\* processes save and delete meanwhile (the sweep visits every listed vault
\* and ends).
CleanupReclaims ==
    \A p \in Process, c \in Conversation, started \in 0..MaxTime :
        (/\ At(p, {"cleanup"}, "sweep") /\ c \in call[p].pending
         /\ call[p].now = started)
            ~> \/ ~Exists(c)
               \/ ~Inactive(vault[c], started)
               \/ call[p].op = "none" /\ call[p].result # "cleaned"

\* Every operation that began returns (its steps never wait for another process).
OperationsReturn ==
    \A p \in Process : call[p].op # "none" ~> call[p].op = "none"

-----------------------------------------------------------------------------
(***************************************************************************)
(* Why the promises hold: the parts of the inductive invariant.            *)
(***************************************************************************)

\* What each step of an operation has established about its own frame.
FrameOK(frame) ==
    /\ frame.op \in Loading \cup {"create"} => frame.conversation \in Conversation
    /\ frame.op \in Loading /\ frame.at # "load" <=> frame.seen # None
    /\ frame.seen # None => Injective(frame.seen.mappings)
    /\ frame.touched # {} => frame.op \in Transforming
    /\ frame.op \in Transforming /\ frame.at \in {"stamp", "save"} =>
         /\ Extends(frame.seen.mappings, frame.mappings)
         /\ Injective(frame.mappings)
         /\ \A o \in frame.touched : frame.mappings[o] # None

FramesOK == \A p \in Process : FrameOK(call[p])

TablesInjective == \A c \in Conversation : Exists(c) => Injective(vault[c].mappings)

\* Only an identifier that uuid4 has handed out has a vault, was exchanged
\* under, or was ever loaded.
KnownAreUsed ==
    /\ \A c \in Conversation : Exists(c) => c \in used
    /\ \A e \in exchanged : e.conversation \in used
    /\ rawPassed \subseteq used
    /\ \A p \in Process : call[p].seen # None \/ call[p].op = "create"
                              => call[p].conversation \in used

\* The identifier of a vault that is being created is new to everyone else.
CreatedIsFresh ==
    \A p \in Process : call[p].op = "create" =>
        /\ NothingUnder(call[p].conversation)
        /\ \A q \in Process : call[q].conversation = call[p].conversation =>
             call[q].seen = None /\ (q # p => call[q].op # "create")

IsCurrent(seen, state) ==
    seen.revision <= state.revision /\ (seen.revision = state.revision => seen = state)

\* A process whose snapshot has the vault's revision holds the vault's state,
\* so what save replaces is what the operation has seen: the revision number
\* alone tells whether anyone saved in between.
SnapshotsAreCurrent ==
    \A p \in Process :
        call[p].seen # None /\ Exists(call[p].conversation) =>
            IsCurrent(call[p].seen, vault[call[p].conversation])

InductiveInvariant ==
    /\ TypeOK
    /\ FramesOK
    /\ TablesInjective
    /\ KnownAreUsed
    /\ CreatedIsFresh
    /\ SnapshotsAreCurrent
    /\ ExchangedIsRestorable
    /\ AliasDenotesOneOriginal
    /\ RawOnlyUnderRecordedBypass

\* No reading of the clock lies in the future, and a transaction that is past
\* its look at the clock read it within the retention period of its snapshot.
TimesInOrder ==
    /\ \A c \in Conversation : Exists(c) => vault[c].last_activity <= clock
    /\ \A p \in Process :
         /\ call[p].now <= clock
         /\ call[p].seen # None => call[p].seen.last_activity <= clock
         /\ call[p].op = "transaction" => call[p].at \notin {"expire", "reload"}
         /\ call[p].op = "transaction" /\ call[p].at \in {"transform", "save"} =>
              /\ call[p].seen.last_activity <= call[p].now
              /\ call[p].now < call[p].seen.last_activity + Retention

=============================================================================
