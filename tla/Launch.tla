-------------------------------- MODULE Launch --------------------------------
(***************************************************************************)
(* The launch of a protected client and the requests it serves:            *)
(* PrivacyRuntime._prepare and bind_native_identity (runtime/privacy.py),  *)
(* the registry of native bindings (state/bindings.py), the preflight of   *)
(* the command line (cli.py) and the order in which a request is           *)
(* transformed, bound and committed (proxy/forwarding.py).                 *)
(*                                                                         *)
(* A launch runs operations of ConversationLifecycle one after the other:  *)
(*                                                                         *)
(*   new      cleanup, create, [accept_bypass,] bind (Claude), serve       *)
(*   resume   lookup, load, resume, cleanup, [accept_bypass,] serve        *)
(*                                                                         *)
(* and a launch that fails or is stopped leaves everything as it is then.  *)
(* Claude's session identity is generated by the launcher, Codex's is      *)
(* learned from the first request.                                         *)
(***************************************************************************)
EXTENDS ConversationLifecycle

CONSTANTS
    Client,         \* the clients this instance launches
    Identity        \* canonical native session identities

ASSUME LaunchAssumption == Client \subseteq {"codex", "claude"} /\ None \notin Identity

VARIABLES
    launch,         \* the launch each process is running
    bindings        \* the registry: client and native identity -> conversation

launchVars == <<vars, launch, bindings>>

Phase == {"off", "cleaning", "creating", "loading", "resuming", "sweeping",
          "accepting", "serving"}

LaunchFrame == [phase : Phase, client : Client,
                resumed : BOOLEAN,                  \* resume_identity is not None
                bypass : BOOLEAN,                   \* --bypass --accept-bypass-warning
                conversation : Conversation \cup {None},
                identity : Identity \cup {None},    \* native_identity
                bypassed : BOOLEAN,                 \* what the banner says
                bound : BOOLEAN,                    \* the request in hand has been bound
                sent : BOOLEAN]                     \* a request has gone to the provider

\* The registry and the launches hold what their declarations say.
LaunchTypeOK ==
    /\ launch \in [Process -> LaunchFrame]
    /\ bindings \in [Client \X Identity -> Conversation \cup {None}]

NewLaunch(client) ==
    [phase |-> "off", client |-> client, resumed |-> FALSE, bypass |-> FALSE,
     conversation |-> None, identity |-> None, bypassed |-> FALSE, bound |-> FALSE,
     sent |-> FALSE]

LaunchInit ==
    /\ Init
    /\ launch \in [Process -> {NewLaunch(client) : client \in Client}]
    /\ bindings = [key \in Client \X Identity |-> None]

Goto(p, frame) == launch' = [launch EXCEPT ![p] = frame]

End(p) == Goto(p, NewLaunch(launch[p].client))

\* The operation that phase started has returned one of results.
Returned(p, phase, results) ==
    /\ launch[p].phase = phase
    /\ call[p].op = "none"
    /\ call[p].result \in results

-----------------------------------------------------------------------------
(***************************************************************************)
(* BindingRegistry.bind, one step under the registry's lock.               *)
(***************************************************************************)
\* Seeded fault: an identity that is bound elsewhere is bound again.
Bind_Rebinds(client, identity, c, r) ==
    \/ r = "ok" /\ bindings' = [bindings EXCEPT ![<<client, identity>>] = c]
    \/ r = "failed" /\ "unavailable" \in Faults /\ UNCHANGED bindings

\* A full registry, a held lock and a failed write are unavailable.
Bind(client, identity, c, r) ==
    LET existing == bindings[<<client, identity>>]
    IN  \/ existing \notin {None, c} /\ r = "failed" /\ UNCHANGED bindings
        \/ /\ existing \in {None, c}
           /\ r = "ok"
           /\ bindings' = [bindings EXCEPT ![<<client, identity>>] = c]
        \/ r = "failed" /\ "unavailable" \in Faults /\ UNCHANGED bindings

-----------------------------------------------------------------------------
(***************************************************************************)
(* The phases of a launch.                                                 *)
(***************************************************************************)
\* Bound: a new launch starts only while there is an identifier for it.
IdentifiersLeft ==
    Cardinality({q \in Process : launch[q].phase = "cleaning"}) < Cardinality(Conversation \ used)

\* An identity that uuid4 may return to a new Claude launch.
Fresh(identity) ==
    /\ \A client \in Client : bindings[<<client, identity>>] = None
    /\ \A q \in Process : launch[q].identity # identity

StartNew(p, client, bypass) ==
    /\ launch[p].phase = "off"
    /\ IdentifiersLeft
    /\ BeginCleanup(p)
    /\ \E identity \in IF client = "claude" THEN {i \in Identity : Fresh(i)} ELSE {None} :
         Goto(p, [NewLaunch(client) EXCEPT !.phase = "cleaning", !.bypass = bypass,
                                           !.identity = identity])
    /\ UNCHANGED bindings

\* An identity that is not bound, or a registry that cannot be read, ends the
\* launch before it has changed anything.
StartResume(p, client, identity, bypass) ==
    /\ launch[p].phase = "off"
    /\ bindings[<<client, identity>>] # None
    /\ Goto(p, [NewLaunch(client) EXCEPT !.phase = "loading", !.bypass = bypass,
                   !.resumed = TRUE, !.identity = identity,
                   !.conversation = bindings[<<client, identity>>]])
    /\ UNCHANGED <<vars, bindings>>

\* Seeded fault: the conversation's identifier is taken for the session's.
CreateNew_NamesSession(p, c) ==
    /\ Returned(p, "cleaning", {"cleaned"})
    /\ BeginCreate(p, c)
    /\ Goto(p, [launch[p] EXCEPT !.phase = "creating", !.conversation = c, !.identity = c])
    /\ UNCHANGED bindings

CreateNew(p, c) ==
    /\ Returned(p, "cleaning", {"cleaned"})
    /\ BeginCreate(p, c)
    /\ Goto(p, [launch[p] EXCEPT !.phase = "creating", !.conversation = c])
    /\ UNCHANGED bindings

\* Seeded fault: the mode of the bound conversation is not looked at.
LoadBound_NoModeCheck(p) ==
    /\ launch[p].phase = "loading"
    /\ \E r \in {"ok", "vault-missing", "failed"} :
         /\ Load(launch[p].conversation, r)
         /\ \/ /\ r = "ok"
               /\ BeginResume(p, launch[p].conversation)
               /\ Goto(p, [launch[p] EXCEPT !.phase = "resuming"])
            \/ r # "ok" /\ End(p) /\ UNCHANGED vars
    /\ UNCHANGED bindings

\* The bound conversation is looked at before it is resumed: a policy of
\* another mode ends the launch without a refresh.
LoadBound(p) ==
    LET c == launch[p].conversation
    IN  /\ launch[p].phase = "loading"
        /\ \E r \in {"ok", "vault-missing", "failed"} :
             /\ Load(c, r)
             /\ \/ /\ r = "ok"
                   /\ vault[c].mode = call[p].mode
                   /\ BeginResume(p, c)
                   /\ Goto(p, [launch[p] EXCEPT !.phase = "resuming"])
                \/ /\ r = "ok" => vault[c].mode # call[p].mode
                   /\ End(p)
                   /\ UNCHANGED vars
        /\ UNCHANGED bindings

CleanAfterResume(p) ==
    /\ Returned(p, "resuming", {"protected", "bypassed"})
    /\ BeginCleanup(p)
    /\ Goto(p, [launch[p] EXCEPT !.phase = "sweeping",
                                 !.bypassed = (call[p].result = "bypassed")])
    /\ UNCHANGED bindings

\* The conversation is there and active.
Ready(p) ==
    \/ Returned(p, "creating", {"protected"})
    \/ Returned(p, "sweeping", {"cleaned"})

WantsBypass(p) == launch[p].bypass /\ ~launch[p].bypassed

AcceptBypass(p) ==
    /\ Ready(p)
    /\ WantsBypass(p)
    /\ BeginAcceptBypass(p, launch[p].conversation, TRUE)
    /\ Goto(p, [launch[p] EXCEPT !.phase = "accepting"])
    /\ UNCHANGED bindings

\* Line 109 of _prepare; `bypassed` is the status that the launch goes on with.
Prepared(p, bypassed) ==
    \/ Ready(p) /\ ~WantsBypass(p) /\ bypassed = launch[p].bypassed
    \/ Returned(p, "accepting", {"bypassed"}) /\ bypassed = TRUE

\* A new Claude session is bound last.
BindNew(p) ==
    /\ ~launch[p].resumed /\ launch[p].identity # None
    /\ \E bypassed \in BOOLEAN, r \in {"ok", "failed"} :
         /\ Prepared(p, bypassed)
         /\ Bind(launch[p].client, launch[p].identity, launch[p].conversation, r)
         /\ \/ r = "ok" /\ Goto(p, [launch[p] EXCEPT !.phase = "serving", !.bypassed = bypassed])
            \/ r = "failed" /\ End(p)
    /\ UNCHANGED vars

\* Seeded fault: a new Claude session is served without being bound.
Serve_Unbound(p) ==
    /\ \E bypassed \in BOOLEAN :
         /\ Prepared(p, bypassed)
         /\ Goto(p, [launch[p] EXCEPT !.phase = "serving", !.bypassed = bypassed])
    /\ UNCHANGED <<vars, bindings>>

Serve(p) ==
    /\ launch[p].resumed \/ launch[p].identity = None
    /\ \E bypassed \in BOOLEAN :
         /\ Prepared(p, bypassed)
         /\ Goto(p, [launch[p] EXCEPT !.phase = "serving", !.bypassed = bypassed])
    /\ UNCHANGED <<vars, bindings>>

Succeeds == [cleaning |-> {"cleaned"}, creating |-> {"protected"},
             resuming |-> {"protected", "bypassed"}, sweeping |-> {"cleaned"},
             accepting |-> {"bypassed"}]

\* An operation that did not succeed ends the launch with its reason.
Fail(p) ==
    /\ launch[p].phase \in DOMAIN Succeeds
    /\ Returned(p, launch[p].phase, Status \ Succeeds[launch[p].phase])
    /\ End(p)
    /\ UNCHANGED <<vars, bindings>>

-----------------------------------------------------------------------------
(***************************************************************************)
(* Requests and answers.                                                   *)
(***************************************************************************)
\* A body arrives: a request of the client, or an answer to one that was sent.
ServeBody(p, direction) ==
    /\ launch[p].phase = "serving"
    /\ direction = "to_local" => launch[p].sent
    /\ BeginTransaction(p, launch[p].conversation, direction)
    /\ Goto(p, [launch[p] EXCEPT !.bound = FALSE])
    /\ UNCHANGED bindings

\* A Codex request carries the session's identity and is bound by it after it
\* was transformed and before it is committed.
MustBind(p) ==
    /\ launch[p].phase = "serving" /\ launch[p].client = "codex"
    /\ At(p, {"transaction"}, "save")
    /\ call[p].direction = "to_provider"
    /\ ~launch[p].bound

\* Seeded fault: the process does not keep the identity it has bound.
BindRequest_Forgets(p, identity) ==
    /\ MustBind(p)
    /\ \/ /\ launch[p].identity \in {None, identity}
          /\ \E r \in {"ok", "failed"} :
               /\ Bind("codex", identity, launch[p].conversation, r)
               /\ \/ /\ r = "ok"
                     /\ Goto(p, [launch[p] EXCEPT !.bound = TRUE])
                     /\ UNCHANGED vars
                  \/ /\ r = "failed"
                     /\ DropTransaction(p)
                     /\ UNCHANGED launch
       \/ /\ launch[p].identity \notin {None, identity}
          /\ DropTransaction(p)
          /\ UNCHANGED <<launch, bindings>>

\* Seeded fault: a request that has been bound is sent at once.
BindRequest_Sends(p, identity) ==
    /\ MustBind(p)
    /\ launch[p].identity \in {None, identity}
    /\ Bind("codex", identity, launch[p].conversation, "ok")
    /\ Goto(p, [launch[p] EXCEPT !.identity = identity, !.bound = TRUE, !.sent = TRUE])
    /\ Return(p, "committed")
    /\ exchanged' = exchanged \cup Substitutions(call[p])
    /\ UNCHANGED <<vault, clock, used, rawPassed>>

\* bind_native_identity: the identity of this process, or the first one.
BindRequest(p, identity) ==
    /\ MustBind(p)
    /\ \/ /\ launch[p].identity \in {None, identity}
          /\ \E r \in {"ok", "failed"} :
               /\ Bind("codex", identity, launch[p].conversation, r)
               /\ \/ /\ r = "ok"
                     /\ Goto(p, [launch[p] EXCEPT !.identity = identity, !.bound = TRUE])
                     /\ UNCHANGED vars
                  \/ /\ r = "failed"
                     /\ DropTransaction(p)
                     /\ UNCHANGED launch
       \/ /\ launch[p].identity \notin {None, identity}
          /\ DropTransaction(p)
          /\ UNCHANGED <<launch, bindings>>

\* A request without an identity, or with one that is not canonical.
RefuseIdentity(p) ==
    /\ MustBind(p)
    /\ DropTransaction(p)
    /\ UNCHANGED <<launch, bindings>>

\* The operation in hand goes on.  A request is sent once it is committed.
Proceed(p) ==
    /\ launch[p].phase # "off"
    /\ ~MustBind(p)
    /\ Advance(p)
    /\ Goto(p, [launch[p] EXCEPT !.sent = @ \/ call'[p].result = "committed"])
    /\ UNCHANGED bindings

\* The client ends, and with it the proxy.
Exit(p) ==
    /\ launch[p].phase = "serving" /\ call[p].op = "none"
    /\ End(p)
    /\ UNCHANGED <<vars, bindings>>

\* The launch stops wherever it is.
Interrupt(p) ==
    /\ "crash" \in Faults
    /\ launch[p].phase # "off"
    /\ Crash(p) \/ (call[p].op = "none" /\ UNCHANGED vars)
    /\ End(p)
    /\ UNCHANGED bindings

-----------------------------------------------------------------------------
Start(p) ==
    \E client \in Client, bypass \in BOOLEAN :
        \/ StartNew(p, client, bypass)
        \/ \E identity \in Identity : StartResume(p, client, identity, bypass)

Prepare(p) ==
    \/ \E c \in Conversation : CreateNew(p, c)
    \/ LoadBound(p) \/ CleanAfterResume(p) \/ AcceptBypass(p)
    \/ BindNew(p) \/ Serve(p) \/ Fail(p)

Exchange(p) ==
    \/ \E direction \in Direction : ServeBody(p, direction)
    \/ \E identity \in Identity : BindRequest(p, identity)
    \/ RefuseIdentity(p)

LaunchNext ==
    \/ Tick /\ UNCHANGED <<launch, bindings>>
    \/ \E p \in Process :
         Start(p) \/ Prepare(p) \/ Exchange(p) \/ Proceed(p) \/ Exit(p) \/ Interrupt(p)

LaunchSpec == LaunchInit /\ [][LaunchNext]_launchVars

-----------------------------------------------------------------------------
(***************************************************************************)
(* What a launch promises.                                                 *)
(***************************************************************************)

\* A launch is one of the uses of the vaults that ConversationLifecycle
\* describes, so what holds there holds for launched processes: an operation
\* begins only when the one before it has returned.
ImplementsLifecycle == Init /\ [][Next]_vars

\* What a process serves under an identity is what a resume by that identity
\* finds: two launches never get the same identity to mean two conversations
\* (registry.bind against the identity that each process holds in memory).
ServesWhatIsBound ==
    \A p \in Process :
        launch[p].phase = "serving" /\ launch[p].identity # None =>
            bindings[<<launch[p].client, launch[p].identity>>] = launch[p].conversation

\* A conversation has one native session of a client: text of two sessions never shares
\* a mapping table (native_identity is kept after the first bind).
OneSessionPerConversation ==
    \A key1, key2 \in Client \X Identity :
        bindings[key1] # None /\ bindings[key1] = bindings[key2] => key1 = key2

\* Whatever left for the provider belongs to a conversation that a native
\* resume can find again, although a launch may stop at any step (a request is
\* bound before it is committed and committed before it is sent).
ExchangedIsReachable ==
    \A e \in exchanged : \E key \in Client \X Identity : bindings[key] = e.conversation

\* No launch writes to a conversation of another mode, not even to refresh it
\* (R4.9: a mode change blocks before the activity refresh).
WritesInItsMode ==
    [][\A p \in Process, c \in Conversation :
         Saves(p, c) => vault[c].mode = call[p].mode]_launchVars

-----------------------------------------------------------------------------
(***************************************************************************)
(* Why the promises hold: the parts of the inductive invariant.            *)
(***************************************************************************)

\* The launch has found its conversation in the registry, or has put it there.
Held(frame) ==
    frame.identity # None /\ (frame.resumed \/ frame.phase = "serving")

\* What a launch knows about its own conversation.
LaunchOK(frame) ==
    /\ frame.conversation = None <=> frame.phase \in {"off", "cleaning"}
    /\ frame.conversation = None => ~frame.resumed
    /\ frame.conversation # None => frame.conversation \in used
    /\ Held(frame) => bindings[<<frame.client, frame.identity>>] = frame.conversation

\* A conversation that its launch has not bound yet is known to nobody else.
Exclusive(p) ==
    launch[p].conversation # None /\ ~Held(launch[p]) =>
        /\ \A key \in Client \X Identity : bindings[key] # launch[p].conversation
        /\ \A q \in Process \ {p} : launch[q].conversation # launch[p].conversation

\* Only identifiers that uuid4 has handed out are bound.
BoundAreUsed ==
    \A key \in Client \X Identity : bindings[key] # None => bindings[key] \in used

BindingInvariant ==
    /\ LaunchTypeOK
    /\ \A p \in Process : LaunchOK(launch[p]) /\ Exclusive(p)
    /\ BoundAreUsed
    /\ OneSessionPerConversation

\* The operation that each phase runs.
OperationOf ==
    [off |-> "none", cleaning |-> "cleanup", creating |-> "create", loading |-> "none",
     resuming |-> "resume", sweeping |-> "cleanup", accepting |-> "accept_bypass",
     serving |-> "transaction"]

\* A launch runs the operation of its phase on its own conversation, and has
\* bound the conversation before a request is committed or an answer arrives.
InOrder(operation, frame) ==
    /\ operation.op \in {"none", OperationOf[frame.phase]}
    /\ operation.op = "transaction" =>
         /\ operation.conversation = frame.conversation
         /\ operation.direction = "to_local" => frame.sent
    /\ operation.op # "none" => operation.result = "none"
    /\ frame.bound \/ frame.sent => Held(frame)
    /\ frame.client = "claude" /\ frame.phase # "off" => frame.identity # None

ServingInOrder == \A p \in Process : InOrder(call[p], launch[p])

\* The vault of a launch that has created or looked at its conversation has the
\* mode of the launch; until then nobody knows what the vault holds.
InItsMode(p) ==
    /\ call[p].op \in {"create", "resume", "accept_bypass"} =>
         call[p].conversation = launch[p].conversation
    /\ launch[p].phase = "creating" => ~launch[p].resumed
    /\ launch[p].phase \notin {"off", "cleaning", "loading"}
         /\ vault[launch[p].conversation] # None
         => vault[launch[p].conversation].mode = call[p].mode

ModesAgree == \A p \in Process : InItsMode(p)

LaunchInvariant ==
    /\ BindingInvariant /\ InductiveInvariant /\ ServingInOrder /\ ModesAgree
    /\ ExchangedIsReachable
=============================================================================
