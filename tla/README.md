# Verification of Mr Hide

Mr Hide (`src/`) launches a coding client (Codex or Claude Code) behind a proxy on the
loopback interface. The proxy replaces sensitive values in what the client sends by
substitutes, and substitutes in what the provider answers by the values. Which substitute
stands for which value is kept per conversation in an encrypted vault that several launched
processes share and that expires 30 days after its last use.

This directory holds TLA+ modules that model the parts of that program in which order,
concurrency, time and failure matter, the configurations with which TLC checks them, and
proofs that TLAPS checks. Paths below are relative to `src/src/mr_hide`.

## The system

| Component | State | Operations | Hard because |
|---|---|---|---|
| Vault repository (`state/repository.py`, `store.py`, `models.py`) | one file per conversation: revision, last activity, mode, bypass, mappings | create, load, save with an expected revision, list, delete if inactive | several processes; each operation is atomic under a file lock, sequences of them are not; a write may take effect and be reported as failed; a power loss brings back what was not synced |
| Conversation lifecycle (`state/lifecycle.py`) | none of its own: loaded states and clock readings of running operations | create, resume, accept_bypass, process, cleanup_expired | snapshots and clock readings go stale between the steps |
| Privacy transactions (`runtime/privacy.py`) | one snapshot and staged mappings per body | transaction, transform, commit | the provider must never see an alias that is not saved |
| Native bindings (`state/bindings.py`) | session identity -> conversation | lookup, bind | bindings outlive vaults; a launch can stop half way |
| Launch (`runtime/privacy.py` `_prepare`, `protocols/*/handler.py`, `cli.py`) | the conversation and identity of a process | cleanup, create or resume, bypass, bind | every phase may fail or be interrupted |
| Supervisor (`runtime/supervisor.py`, `processes.py`) | server task, child process, socket | start, wait, stop | timeouts, failures and interrupts at every await |
| Mapping table (`privacy/mapping.py`, `policy.py`) | records of a conversation | allocate, transform, restore | substitutes must never be ambiguous in any text |
| Streams (`protocols/*/sse.py`) | frames, open groups | parse, restore, render | values are split over events that interleave |
| Proxy (`proxy/forwarding.py`) | requests in flight | protect, send, restore | requests of one process interleave at every await; the upstream fails after the commit; the client sends every answer again |
| JSON bodies (`protocols/*/json_body.py`, `policy.py`) | none | transform a request, an answer or an event by a matrix of fields | what one matrix restores another one must protect, and neither may refuse what the other lets through |
| Master key (`state/keys.py`, `codec.py`) | one keyring entry | read, create | concurrent first launches; a backend that forgets |
| Detection, adapters, command line | none | - | sequential |

The launch creates or resumes the conversation, binds it to the client's session, and starts
the supervisor, which starts the proxy and then the client. Every request runs a transaction
of the privacy runtime on the repository before it is sent and another before its answer is
returned. The transaction substitutes text by text with the conversation's table; a streamed
answer is restored as a whole before the client gets any of it. All processes share the
directory of vaults, the registry of bindings, the keyring and the clock, and nothing else.

What makes each part correct:

- vaults: no update is lost, no alias ever denotes two values, what left the process can be
  restored, an active vault is not deleted and a deleted one does not return;
- launch: what is exchanged can be reached again by the session, one session per
  conversation, no write under another mode;
- supervisor: the port belongs to the launch as long as its client lives, nothing stays
  behind, exit codes are true, everything ends;
- substitution: tables are valid, substitutes are stable, literals are not rewritten,
  repeated text is restored;
- streams: the client reads each text restored as a whole or reads nothing;
- files and key: what a name shows is whole and can be decrypted, what was acknowledged
  survives a power loss, what runs at the same time looks like one operation after the other;
- proxy and bodies: values leave only where the policy allows it, what was delivered can be sent
  again and means the same to the provider, no substitute leaves unsaved.

## Modules

    VaultRepository <- ConversationLifecycle <- Launch <- LaunchProofs
                                             <- ConversationLifecycleProofs
    Supervisor <- SupervisorProofs
    Substitution <- SubstitutionProofs
    StreamText <- RestoredStream <= EventStreams <- EventStreamsProofs
    VaultRepository, DurableFiles <= VaultFiles <- VaultFilesProofs
    FieldMatrix <- Proxy <- ProxyProofs <- ProxyReturnProofs

(`<-`: is extended by; `<=`: is implemented by.) The `MC...` modules hold the values, the
symmetry and the fault sets of the runs. An operator with an underscore (`Save_NoRevisionCheck`)
is a seeded fault: the definition of that name with a mistake in it, which no specification
uses; put in the place of the definition, it makes the named properties fail.

### VaultRepository and ConversationLifecycle

`VaultRepository` is the state of the vault files and the repository's operations as
relations between the vaults before, the vaults after and the result. One operation is one
step, because the code runs it under the conversation's lock. `Faults` selects which failures
the environment may inject. A caller cannot tell the many error reasons apart except
"vault-missing", so there are the results "ok", "vault-missing" and "failed".

`ConversationLifecycle` extends it by the processes. A running operation is a frame
`call[p]` that walks through the calls its method makes, and other processes act between any
two of them. `create`, `resume`, `accept_bypass`, `process`, `cleanup_expired` and the
transactions of the privacy runtime are operations; `Expire`, `Reload` are the path of
`_load_active` and `resume` when the loaded state has run out. Text is the set of values it
contains; `Allocations` is every table `transform_text` may leave for it. `exchanged` and
`rawPassed` are history variables: what the callers have seen and may have sent on.

| TLA+ | Code |
|---|---|
| `vault[c]` | the decrypted content of `<c>.vault`, `None` when there is no file |
| `clock`, `call[p].now` | `datetime.now(UTC)`, the local `now` of a method |
| `call[p].seen` | the state that `_load_or_status` or `transaction` returned |
| `call[p].mappings`, `touched` | `PrivacyTransaction._mappings`, the values the body held |
| `used` | identifiers that `uuid4` has returned |
| `WriteNew` | `create`: `_repository.create` and its error path |
| `LoadVault`, `CheckExpiry` | `_load_or_status`, then `_now` and `_is_expired` |
| `Transform`, `RefuseText` | `PrivacyTransaction.transform`, the body of `process` |
| `Stamp`, `SaveState` | `next_revision(last_activity=_now())`, `save`; `commit` |
| `ListVaults`, `Sweep`, `EndCleanup` | `cleanup_expired` |

### Launch

`Launch` composes the operations into what a launched process does: the phases of
`PrivacyRuntime._prepare`, then bodies until the client ends. `launch[p]` is that process and
`bindings` the registry. Each phase begins an operation of the lifecycle and goes on when it
has returned; `Proceed` lets the operation take its next step. A Claude launch is bound in
`BindNew`, at the end of the preparation; a Codex launch in `BindRequest`, between the
transformation of a request and its commit, where `forwarding.py` calls the handler.
`Interrupt` stops a process anywhere.

| TLA+ | Code |
|---|---|
| `StartNew`, `CreateNew`, `AcceptBypass`, `BindNew` | `_prepare` without a resume identity |
| `StartResume`, `LoadBound`, `CleanAfterResume` | `_prepare` with one: lookup, mode check, `resume`, cleanup |
| `Serve`, `Fail`, `Exit` | the result of `_prepare`, its errors, the end of `supervise_launch` |
| `Bind` | `BindingRegistry.bind`, one step under the registry's lock |
| `ServeBody`, `BindRequest`, `RefuseIdentity`, `Proceed` | a request or an answer in `_forward_protected_*` |
| `launch[p].bypassed` | what the banner of the launch says |

### Supervisor

One launch from the reserved socket to its release. `at` names the await at which
`supervise_launch` stands, `server` and `uvicorn` are the task of `serve_uvicorn` and the one
inside it, `client` and `descendant` the processes it owns. What the code does between two
awaits is one step, because the three tasks share an event loop; `Cleanup`, `Release`,
`StopServer` and `Close` are the parts of its `finally` block and are used by every action
that enters it. Each bounded wait may end by its timeout at any time (`StartupTimeout`,
`TerminateTimeout`, `KillFails`, `StopTimeout`). An interrupt cancels the await that the
supervisor is at; the second one also cancels the tasks of the server, as `asyncio.run` does.

### Substitution

The table of one conversation over many bodies. `BeginText`, `ReplaceSpan` (`FindRecord`,
`Allocate`, `Exhausted`) and `EndText` are `transform_text` span by span, `GiveUp`, `Drop` and
`Commit` the transaction around it, `RestoreText` is `restore_text`. A text is a sequence of
words, where a word is a detected value, a substitute or what is between them; `Inside` says
which words occur within others, which is all that the collision rules look at. The banks, the
normalization, the families and what is detected are constants or choices.

### EventStreams

`transform_sse_bytes` of both protocols. The provider chooses a frame, the scan looks at it,
and `out` holds the frames as rewritten. `pending` is the dictionary of that name:
open blocks of a Messages stream, groups of deltas of a Responses stream. `StopBlock` and
`Done` restore a complete text and put it in the first delta; `Refuse` is every error that a
frame can raise, `EndStream` the end of the payload with the events that are restored by
themselves. `RestoredStream` is the promise: texts are read whole and restored, or nothing is
read; `EventStreams` implements it with `Reads`, the texts a client puts together from what
was delivered. `StreamText` says what text some frames of a stream make up; both use it. Texts
are sequences of fragments in which an alias is two, so that a delta may end inside one.

### VaultFiles

The operations of `VaultRepository` and `BindingRegistry.bind` one level down, with the master
key that a new vault needs. An operation holds the lock of its file from its beginning to its
end, and the operating system frees the lock of a process that dies, so "locked" is read off the
operations that run; the key has a lock of its own. `Stop` ends an operation after any step, by
an error or with its process. `PowerLoss` ends all of them and lets every name show one of the
things in `kept`: what it shows now, what it showed since its directory was last synced, and,
had the data not been synced before the rename, a torn file.

| TLA+ | Code |
|---|---|
| `live[f]` | what a reader of `<c>.vault` or `bindings.json` finds |
| `since[f]` | a history variable: what the file showed since its caller was last told of a change |
| `BeginCreate`, `BeginSave`, `BeginDelete`, `BeginBind` | the lock and the checks under it |
| `ReadKey`, `SetKey`, `ConfirmKey` | `get_or_create` |
| `WriteTemporary`, `ReplaceVault`, `SyncDirectory` | `write_unlocked` |
| `Unlink`, `SyncDirectory` | `delete_unlocked` |
| `WriteTemporary`, `ReplaceRegistry` | `_write_unlocked` of the registry, which ends at the rename |

There are two abstract specifications. `DurableFiles` is what the users of a directory of files
may rely on when the machine can stop at any time, and `VaultFiles` implements it for the vaults
(`DurableVaults`). Between power losses, `RepositorySteps` says that each change that others can
see is one operation of `VaultRepository`, on the state that its caller expected: this is what
lets `ConversationLifecycle` take every operation as one step.

### FieldMatrix and Proxy

`FieldMatrix` is the traversal of bodies: for each type of item (an input or output item, a
content block, the body itself) the set of rules for its fields, and `Transformed`, which applies
them. A rule says what kind of content a field holds, which JSON it may be, whether it may be
absent, and whether its keys are transformed. There is one matrix per protocol and direction.
What has no rule is opaque.

`Proxy` is a conversation of requests over the matrices. The client keeps a history, writes into
it, and sends all of it with each request; `meant` remembers for each delivered answer what the
provider had written. A word is plain, a value in one of two spellings, or its alias; `table` is
the vault. A protocol and a policy are chosen once.

| TLA+ | Code |
|---|---|
| `Write` | the client (external) |
| `Protected`, `SavedButFailed` | `_forward_protected_*` to the end of `commit`, one step: nothing is awaited in it |
| `Respond` | `client.send` and the reading of the body |
| `Deliver` | the second transaction, its commit, and the answer to the client |
| `Fail` | every 502 and 504, and a client that goes away |
| `Expire` | a cleanup of another process |
| `Protects`, `Protect`, `Restore` | `decide_policy`, `transform_text`, `restore_text` |

## Runs

| Run | Question | Bounds |
|---|---|---|
| LifecycleRace | Do two processes on one conversation lose an update, share an alias, delete an active vault, revive a deleted one, or move the activity wrongly? | 2 processes, 2 values, 2 aliases, retention 2, clock 0..3, revisions up to 2 at the start of an operation |
| CleanupLiveness | Does every operation return, and every cleanup reclaim what it listed, when directories cannot be synced and processes stop? | weak fairness, failures after the effect and crashes, 2 processes, 1 conversation, retention 1, clock 0..2 |
| LaunchCodex | Do the registry, the identity in memory and the vaults agree when two Codex processes launch, resume and serve under two identities? | 2 processes, 2 conversations, 2 identities, one value, revisions up to 2, a clock that stands still |
| LaunchClaude | Is what a Claude session exchanged reachable when launches stop anywhere, and is a vault of another mode left alone? | 2 processes, 2 conversations, 2 identities, 2 modes, crashes and unavailable storage, listing limit 1, so that two vaults are too many, retention 1, clock 0..1 |
| Supervisor | Is everything released, is every exit code true, and does every launch end? | 2 interrupts, every timeout early or late |
| Substitution | Are tables valid, substitutes stable, literals safe and echoes restored? | aliases, 6 words (two spellings of one value, a second value, two aliases, a word around one), 2 texts of 2 words |
| EventStreams | Are texts restored whole whatever order their frames come in, and refused exactly if something is wrong? | 7 frames (Messages) or 6 (Responses), 2 texts, 2 deltas each, one other event, refusal after at most 3 frames |
| VaultFiles | Are files whole, readable and durable, and changes atomic, on a machine that may lose power at any step? | 2 processes, 2 vaults and the registry, 2 keys, 1 identity, revisions 0 and 1 |
| Proxy | Do values leave only where the policy says so, and does every delivered answer survive its way back? | both protocols, 3 policies, 1 value in 2 spellings, 2 requests, histories of 2 items chosen from about 20 that cover every row and form |
| ClientReleased (violated) | Has every client ended, or been killed, when its launch has ended? | 2 interrupts |
| AliasCollision (violated) | Is no word that was exchanged as a literal a substitute later? | as Substitution |
| ToolDataProtected (violated) | Do the policies that protect tool data protect all of it? | as Proxy, one request, with outputs of custom tools |

Two processes suffice for the races: every one is between an operation and one that changed
the vault in between. Two values and two aliases suffice for an alias to be taken twice. A
clock of one unit beyond the retention period reaches the boundary, a refresh at it and a
stale reading from before it. Two identities and two conversations let an identity be bound
elsewhere and a process meet an identity that is not its own. Two words per text put a value
next to a literal, and two texts put them into different requests. Six frames hold two
interleaved texts of two deltas with their ends, and seven a block that starts, grows by two deltas
and stops next to another one. Two processes, of which one may die, and two keys let a first
launch meet the key of another one, and two vaults let one directory sync make another name
durable. Two items of history and two requests let an answer be delivered into a history that
another request has already sent, and let a value be spelled twice before it is recorded. Two interrupts are all that can be modelled: the third one ends
Python itself. Bounds on counters (`MaxTime`, `MaxRevision`, `MaxTexts`, `MaxFrames`,
`MaxDeltas`, `MaxPlain`, `MaxGood`, `MaxItems`, `MaxInterrupts`, `IdentifiersLeft`) only stop new activity
from beginning; none cuts an operation short. `MaxVaults` and `Attempts` are limits of the
code (10 000 and 256) made small.

**Fairness.** CleanupLiveness assumes weak fairness of `Advance(p)`: a process that is running
an operation goes on. The code justifies it because an operation awaits nothing; it waits for
file locks only, which are held for one repository operation and time out after 30 seconds.
Nothing is assumed of the beginning of operations, of the clock or of crashes. The run injects
directories that cannot be synced and crashes, and leaves out storage that is unavailable: a
failure that may come at every step would also end an operation that makes no progress of its
own, and hide it. Supervisor
assumes it of the tasks and timers of the event loop (`Supervise`, `ServeTask`, `LoopCloses`),
of asyncio noticing the end of a child (`ClientNoticed`), and that a uvicorn server that was
cancelled ends. Nothing is assumed of a server that starts or stops by itself nor of the
client, not even that it ends by a signal.

## What the runs refute

- **ClientReleased.** An interrupt during the wait for SIGTERM ends `terminate_owned_process`
  (`runtime/processes.py:60`) and `supervise_launch` goes on with the cleanup. A client that
  ignores SIGTERM still runs when the launch has ended, and its port is free.
- **AliasCollision.** A candidate is compared with the text in hand and with the table
  (`privacy/mapping.py:247`), not with earlier texts. A literal that looks like a candidate and
  left in one request can become the substitute of a value in the next; from then on the
  provider's copies of the literal are restored to that value, and the client's next request,
  which repeats the literal, is refused.
- **ToolDataProtected.** `_transform_item` (`protocols/responses/json_body.py:228`) has rules for
  `function_call_output` and for the calls of functions, custom tools and MCP tools. An item of
  type `custom_tool_call_output` has none and goes to the provider as it is, under
  safe-tool-calls and tool-compatibility too; plan 003 (R3.1) asks for the output strings of
  function, custom and MCP tools.

Other differences between documents and code that came up while modelling, and that no run
keeps: `resume` reads the clock at `state/lifecycle.py:67`, and when the state it loaded has run
out but another process refreshes the vault before the deletion, it reloads and saves the
refreshed state with the old reading, so the last activity goes back; extended surrogates of a
family share a prefix ("Example Person 2", ...), so a value of the conversation that occurs in
it collides with all 256 attempts (`privacy/mapping.py:168`) and the body is refused;
`bindings.py:1` calls the registry crash-safe, and it replaces its file without an fsync of the
directory, so an acknowledged binding may be gone after a power loss, though the file is always
a whole one (`Readable`); `accept_bypass` judges the retention period with one reading of the clock and stamps the
vault with a later one, so a vault that reaches the boundary in between is refreshed where
`privacy-core.md` says that it is deleted; a bypass that another process accepted on the same
conversation is applied by a running launch without an announcement, where the README calls
bypass visible; a new Claude session is bound after its conversation has been created, where
plan 004 has it before, which leaves a vault without a session when the launch stops in
between (it then expires unused); and a descendant of the client that outlives SIGTERM stays
when the client itself ends by it, where plan 001 expects the whole group to be cleaned up.

## Proofs

All theorems hold for arbitrary sets and for all values of the bounds. None of the invariants
is inductive alone; each proof module strengthens them, with one lemma per group of actions.

**ConversationLifecycleProofs.** For any processes, conversations, values, aliases and faults:
type correctness; an alias denotes one original; exchanged substitutions stay restorable; raw
text needs a recorded bypass; no update is lost; no deleted identifier comes back; only
inactive vaults are deleted; commits refresh. `InductiveInvariant` adds that a process whose
snapshot has the vault's revision holds the vault's state (`SnapshotsAreCurrent`): a save
replaces exactly what the operation has seen, which is why comparing revision numbers is
enough. It holds because revisions only grow while a vault exists and a vault that is gone
never returns, for which `KnownAreUsed` and `CreatedIsFresh` say that a new identifier is new
to everybody. `FramesOK` carries what each step of an operation has established.
`TimesInOrder`, proved on top of it, relates clock readings to the clock; the two theorems
about time rest on both. Assumptions: `RepositoryAssumption`, `NoneIsNoState`,
`LifecycleAssumption`.

**LaunchProofs.** `Implements`: every step of `Launch` is a step of `ConversationLifecycle` or
changes nothing of it, so all of the above holds for launched processes. `BindingInvariant`
says what a launch knows of its conversation, and that a conversation which is not bound yet
is known to one launch only (`Exclusive`); from it follow `ServesWhatIsBound` and
`OneSessionPerConversation`. `ExchangedIsReachable` also needs `ServingInOrder`: the operation
that runs is the one of the launch's phase, and a request in hand was bound before its save.
`WritesInItsMode` rests on `ModesAgree`: the mode of a vault never changes, a vault that appears
was created by the only launch that knows of it, and a resumed one was looked at before.
Further assumption: `LaunchAssumption`.

**SupervisorProofs.** `SupervisorInvariant` follows what is known of the client through the
cleanup: before it nothing was signalled, behind the termination the client is gone or was
given up. From it follow the safety properties. Assumption: `SupervisorAssumption`, that
there are at most two interrupts.

**SubstitutionProofs.** `SubstitutionInvariant` says that the transaction's table extends the
vault's, that both are valid, that every substitute comes from a bank, and that the texts in
hand, finished and exchanged carry the substitutes of the table at the positions done. The
core is `AllocatedTable`: a candidate that is not forbidden keeps the table valid.
`EchoesRestore` is about texts whose other words cannot be taken for substitutes; AliasCollision
shows that this condition is needed. Assumptions: `SubstitutionAssumption`, which includes that
no candidate contains an alias other than itself, and `NoneIsNothing`.

**VaultFilesProofs.** `FilesInvariant` says that at most one operation runs on a file and at
most one between the reading and the confirming of the key; that every operation behind the
confirmation holds the keyring's key in what it will put in place; that a delete, and a save
behind its checks, still see the state that they read; and that `kept` lies between what shows and what
`since` allows, with nothing torn because the data is synced before the rename. From it follow
`Readable`, the refinement of `DurableFiles` (each step maps to `Change`, `Acknowledge`,
`LosePower` or a stutter; the sync of the directory for one caller makes other names durable
without acknowledging them) and `RepositorySteps`. Assumption: `FilesAssumption`, that contents,
`None` and `Torn` are different things.

**ProxyProofs.** For any items, values and numbers of requests: types, and `SentIsSaved`.
`ProxyInvariant` says that every substitute in the history, in a body that is sent and in an
answer is one of a recorded value. The core is `TransformedWords`: a word of a transformed field
was there before or is the image of a word that the transformation reached; a value that is
reached on the way out is recorded (`Recorded` looks at the same fields), and the table only
grows while the vault exists.
Assumptions: `ProxyAssumption`, that items are made of the words and contents of the model;
`MatrixAssumption`, that a refusal is neither; and `ClientAssumption`, that clients write no
substitutes of their own, without which AliasCollision applies.

**ProxyReturnProofs.** What comes back. `ReturnInvariant` says that every delivered answer in the
history is what the provider wrote, restored with the table of *now*: the table grows between
the delivery and the next request, and another process may delete it, but what is recorded keeps
its alias. The core is `RulesMatch` with `MeantReturns`: for every type of item that an answer
can have, the request matrix names the fields that the response matrix names, with forms and
parts that are at least as wide, so that protecting the restored field gives the field back
(`OwnWordsReturn`) and refuses nothing (`DeliveredIsAccepted`). `KeepInvariant` follows the raw
values of each item into the bodies that are sent; `RawOnlyInToolData` follows. Assumptions:
those of ProxyProofs; `ProviderAssumption`, that a provider sends no requests and, in the Messages
protocol, no tool results or documents, and every tool call with its input; and for all but
`OwnWordsReturn`, as a hypothesis of the theorems, `ClientsKeepToMatrix`: clients put values only
where the request matrix has a rule. The clients of the run Proxy do
(`MCProxy`, `ClientKeeps`); the output of a custom tool is what breaks it, and the run
ToolDataProtected shows the consequence.

**EventStreamsProofs.** For any frames, any number of texts that interleave and any restoration
of one text. `ShapeInv` is about positions: `out` has the frames of the provider with other
texts, and held deltas are in order and unchanged, from which `StreamTypeOK` follows. `OpenInv`
relates `pending` to the history of frames: what is held of a key is exactly the deltas since its
last boundary, an open block is the last start without a stop, and whatever was before it was
complete. `OutInv` says what has been written: each frame as it came or with the restored text of
its whole group, carried by the first delta. At the end nothing is held, so the three give
`DeliversWellFormed` and the refinement of `RestoredStream` (`ReadsRestored`): a frame maps to
`Write`, an error to `Refuse`, the end to `Deliver`. Texts are put together by a fold, so the lemmas
on text show only what the argument needs: that a concatenation is a text, depends on its parts
alone, and equals its first part when the others are empty. Assumptions: `EventAssumption`, which
kinds of frames a protocol has; and for the refinement `RestoresTexts`, that restoring a text gives
a text or fails, which TLC checks of the run's restoration for short texts.

**Only model-checked**: liveness (`CleanupReclaims`, `OperationsReturn`, `LaunchEnds`,
`ClientFollowsProxy`), which TLAPS does not support. Every invariant, action property and
refinement that a passing run checks is the statement of a theorem.

## Plan

Done: (1) VaultRepository and ConversationLifecycle, (2) Launch, (3) Supervisor,
(4) Substitution, (5) EventStreams, (6) VaultFiles with the master key and the registry's file,
as a refinement of the repository and of DurableFiles, (7) FieldMatrix and Proxy, each with its
runs, and the proofs of all of them.

Left, in this order:

1. A specification of one conversation's vault as its users see it, and the refinement of
   `ConversationLifecycle` to it, proved.
2. Overlap: which of two overlapping detections wins, as a function against its definition.
3. The byte streams of `proxy/forwarding.py`: size limits and frames that are split over chunks.

Runs are kept few: a question of a new component is added to an existing run where the two can
share a state space.

## Not modelled

Detection, the encoding of vaults, the probe of the keyring backend, authentication, header
filtering, routes, argument parsing, version checks and the scripts that prepare a release are
sequential code without state of their own. The clock
is taken to be monotonic: `datetime.now(UTC)` follows adjustments of the system clock, and a
clock that is set back makes every statement about time void.

Hazards that no property covers, each with its reason in PROJECT.json: the stale reading in
`resume` and the shared prefix of extended surrogates, which do happen and are described above;
that one unreadable vault fails every launch's cleanup (`runtime/privacy.py:156`) and that a
member of the client's group may outlive its leader (`runtime/processes.py:59`), about which the
documents do not say enough to state a property; the bypass accepted behind a running launch
(`runtime/privacy.py:122`); and a tool call without arguments, whose empty input is not an
object (`protocols/messages/sse.py:170`), which is a question of what providers send.

Limits of what is modelled: interrupts arrive at awaits only, as asyncio delivers them, and the
reservation of a port is left out (Supervisor). Words are wholes, so a substitute that spans
the end of one word and the beginning of the next is not seen, and which of two overlapping
detections wins is not decided (Substitution). The sizes of streams and events, the bytes that
separate frames and the chunks of the transport are left out; the text that a content block
starts with is restored by itself, as in the code, so an alias that is split between it and the
first delta is restored in neither (EventStreams; providers send it empty). On Windows a
directory is not synced, so VaultFiles describes the other systems; the entry of the keyring is
taken to be durable; a deletion whose sync failed is reported as failed and not repeated; the
temporary files that a crash leaves behind are not vaults and are left out (VaultFiles). A
conversation in bypass passes everything and is left out, and so are authentication and
headers, lists within parts, instructions that are a list, blocks within tool results, aliases
that a provider invents, and tool calls without input; a text is one word, and which spelling is
recorded when a body has two is left open (Proxy).
