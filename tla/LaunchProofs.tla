----------------------------- MODULE LaunchProofs -----------------------------
(***************************************************************************)
(* Theorems about Launch, for any number of processes, clients, native     *)
(* identities and conversations.                                           *)
(*                                                                         *)
(* A step of a launch either leaves the vaults and the operations alone or *)
(* is a step of ConversationLifecycle, so every theorem about the          *)
(* operations holds for launched processes too.  What a launch adds rests  *)
(* on one idea: until a launch has bound its conversation nobody else      *)
(* knows of it (Exclusive), and from then on the registry names it.        *)
(***************************************************************************)
EXTENDS Launch, ConversationLifecycleProofs

Known == /\ LaunchAssumption /\ None \notin Conversation

LEMMA KnownFacts == Known
BY LaunchAssumption, RepositoryAssumption DEF Known

-----------------------------------------------------------------------------
(***************************************************************************)
(* The ways in which a step changes a launch.                              *)
(***************************************************************************)
\* A new launch is well typed.
LEMMA NewLaunchTyped ==
    ASSUME NEW client \in Client
    PROVE  NewLaunch(client) \in LaunchFrame
BY DEF NewLaunch, LaunchFrame, Phase

\* A step in which no launch and no binding changes.
LEMMA LaunchesStay ==
    ASSUME BindingInvariant, UNCHANGED <<launch, bindings>>, used \subseteq used'
    PROVE  BindingInvariant'
BY DEF BindingInvariant, LaunchTypeOK, LaunchOK, Held, Exclusive, BoundAreUsed,
       OneSessionPerConversation

\* A launch that gives its conversation up, or has none yet.
LEMMA LaunchWithoutConversation ==
    ASSUME BindingInvariant, NEW p \in Process, NEW frame \in LaunchFrame, Goto(p, frame),
           UNCHANGED bindings, used \subseteq used',
           frame.conversation = None, frame.phase \in {"off", "cleaning"}, ~frame.resumed
    PROVE  BindingInvariant'
<1>1. /\ launch' \in [Process -> LaunchFrame]
      /\ launch'[p] = frame
      /\ \A q \in Process \ {p} : launch'[q] = launch[q]
  BY DEF BindingInvariant, LaunchTypeOK, Goto
<1>2. LaunchTypeOK' /\ BoundAreUsed' /\ OneSessionPerConversation'
  BY <1>1 DEF BindingInvariant, LaunchTypeOK, BoundAreUsed, OneSessionPerConversation
<1>3. ASSUME NEW q \in Process PROVE LaunchOK(launch[q])'
  BY <1>1 DEF BindingInvariant, LaunchOK, Held
<1>4. ASSUME NEW q \in Process PROVE Exclusive(q)'
  BY <1>1 DEF BindingInvariant, Exclusive, Held
<1> QED BY <1>2, <1>3, <1>4 DEF BindingInvariant

\* A launch that goes on with the conversation it has.
LEMMA LaunchGoesOn ==
    ASSUME BindingInvariant, NEW p \in Process, NEW frame \in LaunchFrame, Goto(p, frame),
           UNCHANGED bindings, used \subseteq used',
           frame.conversation = launch[p].conversation, frame.client = launch[p].client,
           frame.identity = launch[p].identity, frame.resumed = launch[p].resumed,
           launch[p].phase \notin {"off", "cleaning"}, frame.phase \notin {"off", "cleaning"},
           Held(frame) <=> Held(launch[p])
    PROVE  BindingInvariant'
<1>1. /\ launch' \in [Process -> LaunchFrame]
      /\ launch'[p] = frame
      /\ \A q \in Process \ {p} : launch'[q] = launch[q]
  BY DEF BindingInvariant, LaunchTypeOK, Goto
<1>2. LaunchTypeOK' /\ BoundAreUsed' /\ OneSessionPerConversation'
  BY <1>1 DEF BindingInvariant, LaunchTypeOK, BoundAreUsed, OneSessionPerConversation
<1>3. ASSUME NEW q \in Process PROVE LaunchOK(launch[q])'
  <2>1. LaunchOK(launch[q]) /\ LaunchOK(launch[p])
    BY DEF BindingInvariant
  <2>2. CASE q = p
    BY <1>1, <2>1, <2>2 DEF LaunchOK, Held
  <2>3. CASE q # p
    BY <1>1, <2>1, <2>3 DEF LaunchOK, Held
  <2> QED BY <2>2, <2>3
<1>4. ASSUME NEW q \in Process PROVE Exclusive(q)'
  <2>1. \A r \in Process : launch'[r].conversation = launch[r].conversation
    BY <1>1
  <2>2. Held(launch'[q]) <=> Held(launch[q])
    BY <1>1
  <2>3. Exclusive(q)
    BY DEF BindingInvariant
  <2> QED BY <2>1, <2>2, <2>3 DEF Exclusive, Held
<1> QED BY <1>2, <1>3, <1>4 DEF BindingInvariant

\* A launch whose session is in the registry once it has gone on; the
\* conversation was either there under this session or known to nobody else.
LEMMA LaunchBinds ==
    ASSUME BindingInvariant, NEW p \in Process, NEW frame \in LaunchFrame, Goto(p, frame),
           used \subseteq used',
           frame.conversation = launch[p].conversation, frame.client = launch[p].client,
           launch[p].conversation # None, frame.identity \in Identity,
           launch[p].phase \notin {"off", "cleaning"}, frame.phase \notin {"off", "cleaning"},
           Held(frame), Held(launch[p]) => frame.identity = launch[p].identity,
           Bind(frame.client, frame.identity, frame.conversation, "ok")
    PROVE  BindingInvariant'
<1> DEFINE key == <<frame.client, frame.identity>>
           c == frame.conversation
<1>1. /\ launch' \in [Process -> LaunchFrame]
      /\ launch'[p] = frame
      /\ \A q \in Process \ {p} : launch'[q] = launch[q]
      /\ frame.client \in Client /\ c \in Conversation /\ c \in used
  BY DEF BindingInvariant, LaunchTypeOK, Goto, LaunchFrame, LaunchOK
<1>2. /\ bindings[key] \in {None, c}
      /\ bindings' \in [Client \X Identity -> Conversation \cup {None}]
      /\ bindings'[key] = c
      /\ \A k \in Client \X Identity : k # key => bindings'[k] = bindings[k]
  BY <1>1 DEF Bind, BindingInvariant, LaunchTypeOK
<1>3. key \in Client \X Identity
  BY <1>1
<1>4. \A k \in Client \X Identity : bindings[k] = c => k = key
  <2>1. CASE Held(launch[p])
    <3>1. bindings[key] = c
      BY <2>1 DEF BindingInvariant, LaunchOK
    <3> QED BY <3>1, <1>3, KnownFacts, <1>1 DEF BindingInvariant, OneSessionPerConversation, Known
  <2>2. CASE ~Held(launch[p])
    BY <2>2 DEF BindingInvariant, Exclusive
  <2> QED BY <2>1, <2>2
<1> HIDE DEF key, c
<1>5. LaunchTypeOK'
  BY <1>1, <1>2 DEF LaunchTypeOK
<1>6. BoundAreUsed'
  BY <1>1, <1>2, <1>3 DEF BindingInvariant, BoundAreUsed
<1>7. OneSessionPerConversation'
  BY <1>2, <1>3, <1>4 DEF BindingInvariant, OneSessionPerConversation
<1>8. ASSUME NEW q \in Process PROVE LaunchOK(launch[q])'
  <2>1. LaunchOK(launch[q]) /\ launch[q] \in LaunchFrame
    BY DEF BindingInvariant, LaunchTypeOK
  <2>2. CASE q = p
    BY <1>1, <1>2, <2>2, KnownFacts DEF LaunchOK, Held, key, c, Known
  <2>3. CASE q # p
    <3>1. launch'[q] = launch[q]
      BY <1>1, <2>3
    <3>2. CASE Held(launch[q])
      <4> DEFINE k == <<launch[q].client, launch[q].identity>>
      <4>1. k \in Client \X Identity /\ bindings[k] = launch[q].conversation
        BY <2>1, <3>2 DEF LaunchOK, Held, LaunchFrame
      <4>2. bindings[k] # None
        BY <2>1, <3>2, <4>1 DEF LaunchOK, Held
      <4>3. bindings'[k] = bindings[k]
        BY <1>2, <4>1, <4>2
      <4> QED BY <2>1, <3>1, <4>1, <4>3 DEF LaunchOK, Held
    <3>3. CASE ~Held(launch[q])
      BY <2>1, <3>1, <3>3 DEF LaunchOK, Held
    <3> QED BY <3>2, <3>3
  <2> QED BY <2>2, <2>3
<1>9. ASSUME NEW q \in Process PROVE Exclusive(q)'
  <2>1. CASE q = p
    BY <1>1, <2>1 DEF Exclusive, Held
  <2>2. CASE q # p
    <3>1. launch'[q] = launch[q] /\ Exclusive(q)
      BY <1>1, <2>2 DEF BindingInvariant
    <3>2. SUFFICES ASSUME launch[q].conversation # None, ~Held(launch[q])
                   PROVE  /\ \A k \in Client \X Identity : bindings'[k] # launch[q].conversation
                          /\ \A r \in Process \ {q} : launch'[r].conversation # launch[q].conversation
      BY <3>1 DEF Exclusive, Held
    <3>3. \A r \in Process \ {q} : launch[r].conversation # launch[q].conversation
      BY <3>1, <3>2 DEF Exclusive
    <3>4. c # launch[q].conversation
      BY <2>2, <3>3 DEF c
    <3> QED BY <1>1, <1>2, <3>1, <3>2, <3>3, <3>4 DEF Exclusive, c
  <2> QED BY <2>1, <2>2
<1> QED BY <1>5, <1>6, <1>7, <1>8, <1>9 DEF BindingInvariant

-----------------------------------------------------------------------------
(***************************************************************************)
(* Every step of a launch is a step of ConversationLifecycle, or none.     *)
(***************************************************************************)
LEMMA AdvanceKeepsUsed ==
    ASSUME NEW p \in Process, Advance(p)
    PROVE  used' = used
BY DEF Advance, WriteNew, LoadVault, CheckExpiry, Expire, Reload, Transform, RefuseText,
       DropTransaction, Stamp, SaveState, ListVaults, Sweep, EndCleanup

LEMMA NextKeepsUsed ==
    ASSUME [Next]_vars
    PROVE  used \subseteq used'
<1>1. ASSUME NEW p \in Process, BeginOperation(p) PROVE used \subseteq used'
  BY <1>1 DEF BeginOperation, BeginCleanup, BeginCreate, BeginResume, BeginAcceptBypass,
              BeginProcess, BeginTransaction
<1>2. ASSUME NEW p \in Process, Crash(p) PROVE used \subseteq used'
  BY <1>2 DEF Crash
<1> QED BY <1>1, <1>2, AdvanceKeepsUsed DEF Next, Tick, vars

LEMMA PrepareImplements ==
    ASSUME BindingInvariant, NEW p \in Process, Prepare(p)
    PROVE  [Next]_vars
<1>0. launch[p].conversation \in Conversation \cup {None}
      /\ (launch[p].phase \notin {"off", "cleaning"} => launch[p].conversation \in Conversation)
  BY DEF BindingInvariant, LaunchTypeOK, LaunchFrame, LaunchOK
<1>1. ASSUME NEW c \in Conversation, CreateNew(p, c) PROVE Next
  BY <1>1 DEF CreateNew, Next, BeginOperation
<1>2. CASE LoadBound(p)
  <2>1. UNCHANGED vars \/ BeginResume(p, launch[p].conversation)
    BY <1>2 DEF LoadBound
  <2>2. launch[p].conversation \in Conversation
    BY <1>0, <1>2 DEF LoadBound
  <2> QED BY <2>1, <2>2 DEF Next, BeginOperation
<1>3. CASE CleanAfterResume(p)
  BY <1>3 DEF CleanAfterResume, Next, BeginOperation
<1>4. CASE AcceptBypass(p)
  <2>1. BeginAcceptBypass(p, launch[p].conversation, TRUE)
    BY <1>4 DEF AcceptBypass
  <2>2. launch[p].conversation \in Conversation
    BY <1>0, <1>4 DEF AcceptBypass, Ready, Returned
  <2> QED BY <2>1, <2>2 DEF Next, BeginOperation
<1>5. CASE BindNew(p) \/ Serve(p) \/ Fail(p)
  BY <1>5 DEF BindNew, Serve, Fail
<1> QED BY <1>1, <1>2, <1>3, <1>4, <1>5 DEF Prepare

LEMMA ExchangeImplements ==
    ASSUME BindingInvariant, NEW p \in Process, Exchange(p)
    PROVE  [Next]_vars
<1>1. ASSUME NEW direction \in Direction, ServeBody(p, direction) PROVE Next
  <2>1. launch[p].conversation \in Conversation
    BY <1>1 DEF ServeBody, BindingInvariant, LaunchTypeOK, LaunchFrame, LaunchOK
  <2> QED BY <1>1, <2>1 DEF ServeBody, Next, BeginOperation
<1>2. ASSUME NEW identity \in Identity, BindRequest(p, identity) PROVE [Next]_vars
  <2>1. UNCHANGED vars \/ DropTransaction(p)
    BY <1>2 DEF BindRequest
  <2> QED BY <2>1 DEF Next, Advance
<1>3. CASE RefuseIdentity(p)
  BY <1>3 DEF RefuseIdentity, Next, Advance
<1> QED BY <1>1, <1>2, <1>3 DEF Exchange

LEMMA StepImplements ==
    ASSUME BindingInvariant, [LaunchNext]_launchVars
    PROVE  [Next]_vars
<1>1. CASE Tick
  BY <1>1 DEF Next
<1>2. CASE UNCHANGED launchVars
  BY <1>2 DEF launchVars
<1>3. ASSUME NEW p \in Process, Start(p) PROVE [Next]_vars
  BY <1>3 DEF Start, StartNew, StartResume, Next, BeginOperation
<1>4. ASSUME NEW p \in Process, Proceed(p) PROVE [Next]_vars
  BY <1>4 DEF Proceed, Next
<1>5. ASSUME NEW p \in Process, Exit(p) \/ Interrupt(p) PROVE [Next]_vars
  BY <1>5 DEF Exit, Interrupt, Next
<1> QED BY <1>1, <1>2, <1>3, <1>4, <1>5, PrepareImplements, ExchangeImplements DEF LaunchNext

-----------------------------------------------------------------------------
(***************************************************************************)
(* The binding invariant is inductive.                                     *)
(***************************************************************************)
LEMMA InitBinding == LaunchInit => BindingInvariant
<1> SUFFICES ASSUME LaunchInit PROVE BindingInvariant
  OBVIOUS
<1>1. \A p \in Process : \E client \in Client : launch[p] = NewLaunch(client)
  BY DEF LaunchInit
<1>2. LaunchTypeOK
  BY <1>1, NewLaunchTyped DEF LaunchInit, LaunchTypeOK
<1> QED
  BY <1>1, <1>2 DEF LaunchInit, BindingInvariant, LaunchOK, Held, Exclusive, BoundAreUsed,
                    OneSessionPerConversation, NewLaunch

LEMMA StartBinding ==
    ASSUME BindingInvariant, NEW p \in Process, Start(p), used \subseteq used'
    PROVE  BindingInvariant'
<1>1. ASSUME NEW client \in Client, NEW bypass \in BOOLEAN, StartNew(p, client, bypass)
      PROVE  BindingInvariant'
  <2>1. PICK identity \in Identity \cup {None} :
          Goto(p, [NewLaunch(client) EXCEPT !.phase = "cleaning", !.bypass = bypass,
                                            !.identity = identity])
    BY <1>1 DEF StartNew
  <2> DEFINE frame == [NewLaunch(client) EXCEPT !.phase = "cleaning", !.bypass = bypass,
                                                !.identity = identity]
  <2>2. /\ frame \in LaunchFrame /\ frame.conversation = None
        /\ frame.phase = "cleaning" /\ ~frame.resumed
    BY DEF NewLaunch, LaunchFrame, Phase
  <2> QED BY <1>1, <2>1, <2>2, LaunchWithoutConversation DEF StartNew
<1>2. ASSUME NEW client \in Client, NEW bypass \in BOOLEAN, NEW identity \in Identity,
             StartResume(p, client, identity, bypass)
      PROVE  BindingInvariant'
  <2> DEFINE c == bindings[<<client, identity>>]
             frame == [NewLaunch(client) EXCEPT !.phase = "loading", !.bypass = bypass,
                         !.resumed = TRUE, !.identity = identity, !.conversation = c]
  <2>1. /\ <<client, identity>> \in Client \X Identity
        /\ c \in Conversation /\ c \in used
        /\ Goto(p, frame) /\ UNCHANGED <<vars, bindings>>
    BY <1>2 DEF StartResume, BindingInvariant, LaunchTypeOK, BoundAreUsed
  <2>2. /\ frame \in LaunchFrame /\ frame.conversation = c /\ frame.phase = "loading"
        /\ frame.resumed /\ frame.client = client /\ frame.identity = identity
    BY <2>1 DEF NewLaunch, LaunchFrame, Phase
  <2> HIDE DEF frame
  <2>3. /\ launch' \in [Process -> LaunchFrame]
        /\ launch'[p] = frame
        /\ \A q \in Process \ {p} : launch'[q] = launch[q]
    BY <2>1, <2>2 DEF BindingInvariant, LaunchTypeOK, Goto
  <2>4. LaunchTypeOK' /\ BoundAreUsed' /\ OneSessionPerConversation'
    BY <2>1, <2>3 DEF BindingInvariant, LaunchTypeOK, BoundAreUsed, OneSessionPerConversation, vars
  <2>5. ASSUME NEW q \in Process PROVE LaunchOK(launch[q])'
    <3>1. CASE q = p
      BY <2>1, <2>2, <2>3, <3>1, KnownFacts DEF LaunchOK, Held, vars, Known
    <3>2. CASE q # p
      BY <2>1, <2>3, <3>2 DEF BindingInvariant, LaunchOK, Held, vars
    <3> QED BY <3>1, <3>2
  <2>6. ASSUME NEW q \in Process PROVE Exclusive(q)'
    <3>1. CASE q = p
      BY <2>2, <2>3, <3>1, KnownFacts DEF Exclusive, Held, Known
    <3>2. CASE q # p
      <4>1. launch'[q] = launch[q] /\ Exclusive(q)
        BY <2>3, <3>2 DEF BindingInvariant
      <4>2. launch[q].conversation # None /\ ~Held(launch[q]) => c # launch[q].conversation
        BY <2>1, <4>1 DEF Exclusive
      <4> QED BY <2>1, <2>2, <2>3, <4>1, <4>2 DEF Exclusive, Held
    <3> QED BY <3>1, <3>2
  <2> QED BY <2>4, <2>5, <2>6 DEF BindingInvariant
<1> QED BY <1>1, <1>2 DEF Start

LEMMA EndBinding ==
    ASSUME BindingInvariant, NEW p \in Process, End(p), UNCHANGED bindings, used \subseteq used'
    PROVE  BindingInvariant'
<1>1. launch[p].client \in Client
  BY DEF BindingInvariant, LaunchTypeOK, LaunchFrame
<1> DEFINE frame == NewLaunch(launch[p].client)
<1>2. /\ frame \in LaunchFrame /\ frame.conversation = None
      /\ frame.phase = "off" /\ ~frame.resumed
  BY <1>1, NewLaunchTyped DEF NewLaunch
<1> QED BY <1>2, LaunchWithoutConversation DEF End

\* A step that changes only where p's launch is, and not to or from serving.
LEMMA PhaseBinding ==
    ASSUME BindingInvariant, NEW p \in Process, NEW frame, Goto(p, frame),
           UNCHANGED bindings, used \subseteq used',
           launch[p].phase \notin {"off", "cleaning", "serving"},
           NEW phase \in Phase \ {"off", "cleaning", "serving"}, NEW bypassed \in BOOLEAN,
           frame = [launch[p] EXCEPT !.phase = phase, !.bypassed = bypassed]
    PROVE  BindingInvariant'
<1>1. launch[p] \in LaunchFrame
  BY DEF BindingInvariant, LaunchTypeOK
<1>2. /\ frame \in LaunchFrame
      /\ frame.conversation = launch[p].conversation /\ frame.client = launch[p].client
      /\ frame.identity = launch[p].identity /\ frame.resumed = launch[p].resumed
      /\ frame.phase = phase
  BY <1>1 DEF LaunchFrame
<1> QED BY <1>2, LaunchGoesOn DEF Held

LEMMA CreateBinding ==
    ASSUME BindingInvariant, NEW p \in Process, NEW c \in Conversation, CreateNew(p, c)
    PROVE  BindingInvariant'
<1> DEFINE frame == [launch[p] EXCEPT !.phase = "creating", !.conversation = c]
<1>1. launch[p] \in LaunchFrame /\ LaunchOK(launch[p]) /\ launch[p].phase = "cleaning"
  BY DEF CreateNew, Returned, BindingInvariant, LaunchTypeOK
<1>2. /\ frame \in LaunchFrame /\ frame.conversation = c /\ frame.phase = "creating"
      /\ frame.resumed = launch[p].resumed /\ ~frame.resumed
  BY <1>1 DEF LaunchFrame, LaunchOK, Phase
<1>3. /\ c \notin used /\ used' = used \cup {c} /\ Goto(p, frame) /\ UNCHANGED bindings
  BY DEF CreateNew, BeginCreate
<1> HIDE DEF frame
<1>4. /\ launch' \in [Process -> LaunchFrame]
      /\ launch'[p] = frame
      /\ \A q \in Process \ {p} : launch'[q] = launch[q]
  BY <1>2, <1>3 DEF BindingInvariant, LaunchTypeOK, Goto
<1>5. LaunchTypeOK' /\ BoundAreUsed' /\ OneSessionPerConversation'
  BY <1>3, <1>4 DEF BindingInvariant, LaunchTypeOK, BoundAreUsed, OneSessionPerConversation
<1>6. ASSUME NEW q \in Process PROVE LaunchOK(launch[q])'
  <2>1. CASE q = p
    BY <1>2, <1>3, <1>4, <2>1, KnownFacts DEF LaunchOK, Held, Known
  <2>2. CASE q # p
    BY <1>3, <1>4, <2>2 DEF BindingInvariant, LaunchOK, Held
  <2> QED BY <2>1, <2>2
<1>7. \A q \in Process : launch[q].conversation # c
  BY <1>3, KnownFacts DEF BindingInvariant, LaunchOK, Known
<1>8. \A key \in Client \X Identity : bindings[key] # c
  BY <1>3, KnownFacts DEF BindingInvariant, BoundAreUsed, Known
<1>9. ASSUME NEW q \in Process PROVE Exclusive(q)'
  <2>1. CASE q = p
    BY <1>2, <1>3, <1>4, <1>7, <1>8, <2>1 DEF Exclusive
  <2>2. CASE q # p
    BY <1>2, <1>3, <1>4, <1>7, <2>2 DEF BindingInvariant, Exclusive, Held
  <2> QED BY <2>1, <2>2
<1> QED BY <1>5, <1>6, <1>9 DEF BindingInvariant

LEMMA PrepareBinding ==
    ASSUME BindingInvariant, NEW p \in Process, Prepare(p), used \subseteq used'
    PROVE  BindingInvariant'
<1>0. launch[p] \in LaunchFrame /\ LaunchOK(launch[p])
  BY DEF BindingInvariant, LaunchTypeOK
<1>1. CASE LoadBound(p)
  <2>1. UNCHANGED bindings /\ launch[p].phase = "loading"
    BY <1>1 DEF LoadBound
  <2>2. End(p) \/ Goto(p, [launch[p] EXCEPT !.phase = "resuming"])
    BY <1>1 DEF LoadBound
  <2>3. [launch[p] EXCEPT !.phase = "resuming"] =
          [launch[p] EXCEPT !.phase = "resuming", !.bypassed = launch[p].bypassed]
        /\ launch[p].bypassed \in BOOLEAN
    BY <1>0 DEF LaunchFrame
  <2> QED BY <2>1, <2>2, <2>3, EndBinding, PhaseBinding DEF Phase
<1>2. CASE CleanAfterResume(p)
  <2>1. PICK bypassed \in BOOLEAN :
          Goto(p, [launch[p] EXCEPT !.phase = "sweeping", !.bypassed = bypassed])
    BY <1>2 DEF CleanAfterResume
  <2>2. /\ UNCHANGED bindings /\ launch[p].phase = "resuming"
        /\ "sweeping" \in Phase \ {"off", "cleaning", "serving"}
    BY <1>2 DEF CleanAfterResume, Returned, Phase
  <2> QED BY <2>1, <2>2, PhaseBinding
<1>3. CASE AcceptBypass(p)
  <2>1. /\ UNCHANGED bindings /\ launch[p].phase \in {"creating", "sweeping"}
        /\ Goto(p, [launch[p] EXCEPT !.phase = "accepting"])
    BY <1>3 DEF AcceptBypass, Ready, Returned
  <2>2. [launch[p] EXCEPT !.phase = "accepting"] =
          [launch[p] EXCEPT !.phase = "accepting", !.bypassed = launch[p].bypassed]
        /\ launch[p].bypassed \in BOOLEAN
    BY <1>0 DEF LaunchFrame
  <2> QED BY <2>1, <2>2, PhaseBinding DEF Phase
<1>4. CASE BindNew(p)
  <2>1. PICK bypassed \in BOOLEAN, r \in {"ok", "failed"} :
          /\ Prepared(p, bypassed)
          /\ Bind(launch[p].client, launch[p].identity, launch[p].conversation, r)
          /\ \/ r = "ok" /\ Goto(p, [launch[p] EXCEPT !.phase = "serving", !.bypassed = bypassed])
             \/ r = "failed" /\ End(p)
    BY <1>4 DEF BindNew
  <2>2. CASE r = "failed"
    <3>1. End(p) /\ UNCHANGED bindings
      BY <2>1, <2>2 DEF Bind
    <3> QED BY <3>1, EndBinding
  <2>3. CASE r = "ok"
    <3> DEFINE frame == [launch[p] EXCEPT !.phase = "serving", !.bypassed = bypassed]
    <3>1. /\ launch[p].phase \in {"creating", "sweeping", "accepting"}
          /\ ~launch[p].resumed /\ launch[p].identity # None
      BY <1>4, <2>1 DEF BindNew, Prepared, Ready, Returned
    <3>2. /\ frame \in LaunchFrame
          /\ frame.conversation = launch[p].conversation /\ frame.client = launch[p].client
          /\ frame.identity = launch[p].identity /\ frame.phase = "serving"
      BY <1>0 DEF LaunchFrame, Phase
    <3>3. Goto(p, frame) /\ Bind(frame.client, frame.identity, frame.conversation, "ok")
      BY <2>1, <2>3, <3>2
    <3>4. launch[p].conversation # None /\ frame.identity \in Identity
      BY <1>0, <3>1, <3>2 DEF LaunchOK, LaunchFrame
    <3> HIDE DEF frame
    <3> QED BY <3>1, <3>2, <3>3, <3>4, LaunchBinds DEF Held
  <2> QED BY <2>2, <2>3
<1>5. CASE Serve(p)
  <2>1. PICK bypassed \in BOOLEAN :
          /\ Prepared(p, bypassed)
          /\ Goto(p, [launch[p] EXCEPT !.phase = "serving", !.bypassed = bypassed])
    BY <1>5 DEF Serve
  <2> DEFINE frame == [launch[p] EXCEPT !.phase = "serving", !.bypassed = bypassed]
  <2>2. /\ launch[p].phase \in {"creating", "sweeping", "accepting"}
        /\ launch[p].resumed \/ launch[p].identity = None
        /\ UNCHANGED bindings
    BY <1>5, <2>1 DEF Serve, Prepared, Ready, Returned
  <2>3. /\ frame \in LaunchFrame
        /\ frame.conversation = launch[p].conversation /\ frame.client = launch[p].client
        /\ frame.identity = launch[p].identity /\ frame.phase = "serving"
        /\ frame.resumed = launch[p].resumed
    BY <1>0 DEF LaunchFrame, Phase
  <2>4. Goto(p, frame)
    BY <2>1
  <2> HIDE DEF frame
  <2> QED BY <2>2, <2>3, <2>4, LaunchGoesOn DEF Held
<1>6. CASE Fail(p)
  BY <1>6, EndBinding DEF Fail
<1> QED BY <1>1, <1>2, <1>3, <1>4, <1>5, <1>6, CreateBinding DEF Prepare

\* A launch that serves changes only what it knows of its requests.
LEMMA ServingBinding ==
    ASSUME BindingInvariant, NEW p \in Process, UNCHANGED bindings, used \subseteq used',
           NEW bound \in BOOLEAN, NEW sent \in BOOLEAN,
           Goto(p, [launch[p] EXCEPT !.bound = bound, !.sent = sent])
    PROVE  BindingInvariant'
<1> DEFINE frame == [launch[p] EXCEPT !.bound = bound, !.sent = sent]
<1>1. launch[p] \in LaunchFrame /\ LaunchOK(launch[p])
  BY DEF BindingInvariant, LaunchTypeOK
<1>2. /\ frame \in LaunchFrame
      /\ frame.conversation = launch[p].conversation /\ frame.client = launch[p].client
      /\ frame.identity = launch[p].identity /\ frame.phase = launch[p].phase
      /\ frame.resumed = launch[p].resumed
  BY <1>1 DEF LaunchFrame
<1> HIDE DEF frame
<1>3. CASE launch[p].phase \in {"off", "cleaning"}
  BY <1>1, <1>2, <1>3, LaunchWithoutConversation DEF LaunchOK, frame
<1>4. CASE launch[p].phase \notin {"off", "cleaning"}
  BY <1>2, <1>4, LaunchGoesOn DEF Held, frame
<1> QED BY <1>3, <1>4

LEMMA ExchangeBinding ==
    ASSUME BindingInvariant, NEW p \in Process, Exchange(p), used \subseteq used'
    PROVE  BindingInvariant'
<1>0. launch[p] \in LaunchFrame /\ LaunchOK(launch[p])
  BY DEF BindingInvariant, LaunchTypeOK
<1>1. ASSUME NEW direction \in Direction, ServeBody(p, direction) PROVE BindingInvariant'
  <2>1. /\ [launch[p] EXCEPT !.bound = FALSE] =
             [launch[p] EXCEPT !.bound = FALSE, !.sent = launch[p].sent]
        /\ launch[p].sent \in BOOLEAN
    BY <1>0 DEF LaunchFrame
  <2> QED BY <1>1, <2>1, ServingBinding DEF ServeBody
<1>2. ASSUME NEW identity \in Identity, BindRequest(p, identity) PROVE BindingInvariant'
  <2>1. CASE UNCHANGED <<launch, bindings>>
    BY <2>1, LaunchesStay
  <2>2. CASE ~UNCHANGED <<launch, bindings>>
    <3> DEFINE frame == [launch[p] EXCEPT !.identity = identity, !.bound = TRUE]
    <3>1. /\ launch[p].identity \in {None, identity}
          /\ Bind("codex", identity, launch[p].conversation, "ok")
          /\ Goto(p, frame)
      BY <1>2, <2>2 DEF BindRequest, Bind
    <3>2. launch[p].phase = "serving" /\ launch[p].client = "codex"
      BY <1>2 DEF BindRequest, MustBind
    <3>3. /\ frame \in LaunchFrame
          /\ frame.conversation = launch[p].conversation /\ frame.client = launch[p].client
          /\ frame.identity = identity /\ frame.phase = launch[p].phase
          /\ launch[p].conversation # None
      BY <1>0, <3>2 DEF LaunchFrame, LaunchOK
    <3> HIDE DEF frame
    <3> QED BY <3>1, <3>2, <3>3, KnownFacts, LaunchBinds DEF Held, Known, LaunchAssumption
  <2> QED BY <2>1, <2>2
<1>3. CASE RefuseIdentity(p)
  BY <1>3, LaunchesStay DEF RefuseIdentity
<1> QED BY <1>1, <1>2, <1>3 DEF Exchange

LEMMA StepBinding ==
    ASSUME BindingInvariant, [LaunchNext]_launchVars
    PROVE  BindingInvariant'
<1>0. used \subseteq used'
  BY StepImplements, NextKeepsUsed
<1>1. CASE Tick /\ UNCHANGED <<launch, bindings>>
  BY <1>0, <1>1, LaunchesStay
<1>2. CASE UNCHANGED launchVars
  BY <1>0, <1>2, LaunchesStay DEF launchVars
<1>3. ASSUME NEW p \in Process, Proceed(p) PROVE BindingInvariant'
  <2> DEFINE sent == launch[p].sent \/ call'[p].result = "committed"
  <2>1. launch[p] \in LaunchFrame
    BY DEF BindingInvariant, LaunchTypeOK
  <2>2. /\ [launch[p] EXCEPT !.sent = sent] =
             [launch[p] EXCEPT !.bound = launch[p].bound, !.sent = sent]
        /\ launch[p].bound \in BOOLEAN /\ sent \in BOOLEAN
    BY <2>1 DEF LaunchFrame
  <2>3. Goto(p, [launch[p] EXCEPT !.sent = sent]) /\ UNCHANGED bindings
    BY <1>3 DEF Proceed
  <2> HIDE DEF sent
  <2> QED BY <1>0, <2>2, <2>3, ServingBinding
<1>4. ASSUME NEW p \in Process, Exit(p) \/ Interrupt(p) PROVE BindingInvariant'
  BY <1>0, <1>4, EndBinding DEF Exit, Interrupt
<1> QED
  BY <1>0, <1>1, <1>2, <1>3, <1>4, StartBinding, PrepareBinding, ExchangeBinding DEF LaunchNext

\* The invariant behind the theorems of this module: a launch and the registry
\* agree, and a conversation that is not bound yet belongs to one launch.
THEOREM BindingInvariantHolds == LaunchSpec => []BindingInvariant
BY InitBinding, StepBinding, PTL DEF LaunchSpec

\* A launch only ever uses the vaults in the way ConversationLifecycle
\* describes (_prepare and the proxy call the service and the transactions one
\* after the other).
THEOREM Implements == LaunchSpec => ImplementsLifecycle
<1>1. LaunchInit => Init
  BY DEF LaunchInit
<1> QED
  BY <1>1, StepImplements, BindingInvariantHolds, PTL DEF LaunchSpec, ImplementsLifecycle

\* The launches, the registry and the time of a launch keep their types (the
\* frames of _prepare and the entries of BindingRegistry).
THEOREM LaunchTypeCorrect == LaunchSpec => []LaunchTypeOK
<1>1. BindingInvariant => LaunchTypeOK
  BY DEF BindingInvariant
<1> QED BY <1>1, BindingInvariantHolds, PTL

\* What a process serves under an identity is what a resume by it finds.
THEOREM ServedIsBound == LaunchSpec => []ServesWhatIsBound
<1>1. BindingInvariant => ServesWhatIsBound
  BY DEF BindingInvariant, LaunchOK, Held, ServesWhatIsBound
<1> QED BY <1>1, BindingInvariantHolds, PTL

\* No conversation ever has two native sessions.
THEOREM SessionsDoNotShare == LaunchSpec => []OneSessionPerConversation
<1>1. BindingInvariant => OneSessionPerConversation
  BY DEF BindingInvariant
<1> QED BY <1>1, BindingInvariantHolds, PTL

-----------------------------------------------------------------------------
(***************************************************************************)
(* What leaves for the provider belongs to a conversation that is bound.   *)
(***************************************************************************)
\* The operations that began under ConversationLifecycle keep its invariant.
THEOREM LaunchKeepsLifecycle == LaunchSpec => []InductiveInvariant
BY Implements, InvariantHolds, PTL DEF ImplementsLifecycle, Spec

\* How a step of an operation changes its frame.
Follows(before, after) ==
    /\ after.mode = before.mode
    /\ \/ /\ after.op = "none"
          /\ after.result = "committed" => before.op = "transaction" /\ before.at = "save"
       \/ /\ after.op = before.op /\ after.conversation = before.conversation
          /\ after.direction = before.direction /\ after.result = before.result

LEMMA ReturnFollows ==
    ASSUME TypeOK, NEW p \in Process, NEW status \in Status, Return(p, status),
           status = "committed" => call[p].op = "transaction" /\ call[p].at = "save"
    PROVE  \E f : Continue(p, f) /\ Follows(call[p], f)
BY DEF Return, Follows, Idle

LEMMA ContinueFollows ==
    ASSUME TypeOK, NEW p \in Process, NEW f, Continue(p, f),
           f.op = call[p].op, f.conversation = call[p].conversation,
           f.direction = call[p].direction, f.result = call[p].result, f.mode = call[p].mode
    PROVE  \E g : Continue(p, g) /\ Follows(call[p], g)
BY DEF Follows

LEMMA AdvanceFollows ==
    ASSUME TypeOK, NEW p \in Process, Advance(p)
    PROVE  /\ call[p].op # "none"
           /\ \E f : Continue(p, f) /\ Follows(call[p], f)
<1>0. call[p] \in Frame
  BY DEF TypeOK
<1>1. ASSUME NEW step, LoadThen(p, step) PROVE \E f : Continue(p, f) /\ Follows(call[p], f)
  <2>1. \/ Continue(p, [call[p] EXCEPT !.seen = vault[call[p].conversation], !.at = step])
        \/ \E status \in {"missing", "blocked"} : Return(p, status)
    BY <1>1 DEF LoadThen
  <2>2. CASE \E status \in {"missing", "blocked"} : Return(p, status)
    BY <2>2, ReturnFollows DEF Status
  <2>3. CASE Continue(p, [call[p] EXCEPT !.seen = vault[call[p].conversation], !.at = step])
    BY <1>0, <2>3, ContinueFollows DEF Frame
  <2> QED BY <2>1, <2>2, <2>3
<1>2. CASE WriteNew(p)
  <2>1. \E status \in {"protected", "blocked"} : Return(p, status)
    BY <1>2 DEF WriteNew
  <2> QED BY <1>2, <2>1, ReturnFollows DEF Status, WriteNew, At
<1>3. CASE LoadVault(p) \/ Reload(p)
  BY <1>1, <1>3 DEF LoadVault, Reload, At, Loading
<1>4. CASE CheckExpiry(p)
  <2>1. \/ Return(p, "blocked")
        \/ \E at : Continue(p, [call[p] EXCEPT !.now = clock, !.at = at])
    BY <1>4 DEF CheckExpiry
  <2>2. CASE Return(p, "blocked")
    BY <1>4, <2>2, ReturnFollows DEF Status, CheckExpiry, At, Loading
  <2>3. ASSUME NEW at, Continue(p, [call[p] EXCEPT !.now = clock, !.at = at])
        PROVE  \E f : Continue(p, f) /\ Follows(call[p], f)
    BY <1>0, <2>3, ContinueFollows DEF Frame
  <2> QED BY <1>4, <2>1, <2>2, <2>3 DEF CheckExpiry, At, Loading
<1>5. CASE Expire(p)
  <2>1. \/ \E status \in {"expired", "raised", "blocked"} : Return(p, status)
        \/ Continue(p, [call[p] EXCEPT !.at = "reload"])
    BY <1>5 DEF Expire
  <2>2. CASE \E status \in {"expired", "raised", "blocked"} : Return(p, status)
    BY <1>5, <2>2, ReturnFollows DEF Status, Expire, At, Loading
  <2>3. CASE Continue(p, [call[p] EXCEPT !.at = "reload"])
    BY <1>0, <1>5, <2>3, ContinueFollows DEF Frame, Expire, At, Loading
  <2> QED BY <2>1, <2>2, <2>3
<1>6. CASE Transform(p)
  <2>1. \E table, values : Stage(p, table, values)
    BY <1>6 DEF Transform
  <2>2. ASSUME NEW table, NEW values, Stage(p, table, values)
        PROVE  \E f : Continue(p, f) /\ Follows(call[p], f)
    BY <1>0, <2>2, ContinueFollows DEF Frame, Stage
  <2> QED BY <1>6, <2>1, <2>2 DEF Transform, At, Transforming
<1>7. CASE RefuseText(p) \/ DropTransaction(p)
  BY <1>7, ReturnFollows DEF RefuseText, DropTransaction, Status, At, Transforming
<1>8. CASE Stamp(p)
  <2>1. Continue(p, [call[p] EXCEPT !.now = clock, !.at = "save"])
    BY <1>8 DEF Stamp
  <2> QED BY <1>0, <1>8, <2>1, ContinueFollows DEF Frame, Stamp, At
<1>9. CASE SaveState(p)
  <2>1. At(p, Loading, "save") /\ (Return(p, SavedStatus(call[p])) \/ Return(p, "blocked"))
    BY <1>9 DEF SaveState
  <2>2. /\ SavedStatus(call[p]) \in Status
        /\ SavedStatus(call[p]) = "committed" => call[p].op = "transaction"
    BY DEF SavedStatus, Status
  <2>3. call[p].op # "none" /\ call[p].at = "save"
    BY <2>1 DEF At, Loading
  <2>4. CASE Return(p, SavedStatus(call[p]))
    BY <2>2, <2>3, <2>4, ReturnFollows
  <2>5. CASE Return(p, "blocked")
    BY <2>3, <2>5, ReturnFollows DEF Status
  <2> QED BY <2>1, <2>3, <2>4, <2>5
<1>10. CASE ListVaults(p) \/ Sweep(p) \/ EndCleanup(p)
  <2>1. \/ \E status \in {"raised", "cleaned"} : Return(p, status)
        \/ \E ids, at : Continue(p, [call[p] EXCEPT !.pending = ids, !.at = at])
        \/ \E ids : Continue(p, [call[p] EXCEPT !.pending = ids])
    BY <1>10 DEF ListVaults, Sweep, EndCleanup
  <2>2. CASE \E status \in {"raised", "cleaned"} : Return(p, status)
    BY <1>10, <2>2, ReturnFollows DEF Status, ListVaults, Sweep, EndCleanup, At
  <2>3. ASSUME NEW ids, NEW at, Continue(p, [call[p] EXCEPT !.pending = ids, !.at = at])
        PROVE  \E f : Continue(p, f) /\ Follows(call[p], f)
    BY <1>0, <2>3, ContinueFollows DEF Frame
  <2>4. ASSUME NEW ids, Continue(p, [call[p] EXCEPT !.pending = ids])
        PROVE  \E f : Continue(p, f) /\ Follows(call[p], f)
    BY <1>0, <2>4, ContinueFollows DEF Frame
  <2> QED BY <1>10, <2>1, <2>2, <2>3, <2>4 DEF ListVaults, Sweep, EndCleanup, At
<1> QED
  BY <1>2, <1>3, <1>4, <1>5, <1>6, <1>7, <1>8, <1>9, <1>10 DEF Advance

\* What an operation lets out belongs to the conversation it runs on.
LEMMA AdvanceExchanges ==
    ASSUME FramesOK, NEW p \in Process, Advance(p), NEW e \in exchanged' \ exchanged
    PROVE  /\ call[p].at = "save" /\ call[p].op \in Transforming
           /\ e.conversation = call[p].conversation
<1>1. SaveState(p)
  BY DEF Advance, WriteNew, LoadVault, CheckExpiry, Expire, Reload, Transform, RefuseText,
         DropTransaction, Stamp, ListVaults, Sweep, EndCleanup, NothingLeaves
<1>2. e \in Substitutions(call[p])
  BY <1>1 DEF SaveState, NothingLeaves
<1> QED BY <1>1, <1>2 DEF SaveState, At, Substitutions, FramesOK, FrameOK

\* A step of one process that keeps its own operation in order.
LEMMA OneInOrder ==
    ASSUME TypeOK, BindingInvariant, ServingInOrder, NEW p \in Process,
           NEW operation, NEW frame, Continue(p, operation), Goto(p, frame),
           InOrder(operation, frame)
    PROVE  ServingInOrder'
<1>1. /\ call'[p] = operation /\ launch'[p] = frame
      /\ \A q \in Process \ {p} : call'[q] = call[q] /\ launch'[q] = launch[q]
  BY DEF TypeOK, BindingInvariant, LaunchTypeOK, Continue, Goto
<1> QED BY <1>1 DEF ServingInOrder, InOrder, Held

\* The same when p's operation or p's launch does not change.
LEMMA LaunchInOrder ==
    ASSUME TypeOK, BindingInvariant, ServingInOrder, NEW p \in Process, UNCHANGED call,
           NEW frame, Goto(p, frame), InOrder(call[p], frame)
    PROVE  ServingInOrder'
<1>1. Continue(p, call[p])
  BY DEF TypeOK, Continue
<1> QED BY <1>1, OneInOrder

LEMMA OperationInOrder ==
    ASSUME TypeOK, BindingInvariant, ServingInOrder, NEW p \in Process, UNCHANGED launch,
           NEW operation, Continue(p, operation), InOrder(operation, launch[p])
    PROVE  ServingInOrder'
<1>1. Goto(p, launch[p])
  BY DEF BindingInvariant, LaunchTypeOK, Goto
<1> QED BY <1>1, OneInOrder

\* An operation that begins as the first one of its phase.
LEMMA BeginInOrder ==
    ASSUME NEW p \in Process, NEW op, NEW step, NEW c, NEW direction, NEW frame,
           Begin(p, op, step, c, direction),
           op = OperationOf[frame.phase], op # "transaction",
           frame.bound \/ frame.sent => Held(frame),
           frame.client = "claude" /\ frame.phase # "off" => frame.identity # None
    PROVE  \E operation : Continue(p, operation) /\ InOrder(operation, frame)
BY DEF Begin, Idle, InOrder

\* A launch that ends has nothing in order to keep.
LEMMA EndInOrder ==
    ASSUME TypeOK, BindingInvariant, ServingInOrder, NEW p \in Process, End(p),
           call'[p].op = "none", NEW operation, Continue(p, operation)
    PROVE  ServingInOrder'
<1>1. operation.op = "none"
  BY DEF TypeOK, Continue
<1>2. InOrder(operation, NewLaunch(launch[p].client))
  BY <1>1 DEF InOrder, NewLaunch, OperationOf
<1> QED BY <1>2, OneInOrder DEF End

LEMMA EndQuietInOrder ==
    ASSUME TypeOK, BindingInvariant, ServingInOrder, NEW p \in Process, End(p),
           UNCHANGED call, call[p].op = "none"
    PROVE  ServingInOrder'
BY LaunchInOrder DEF End, InOrder, NewLaunch, OperationOf

LEMMA StartInOrder ==
    ASSUME TypeOK, BindingInvariant, ServingInOrder, NEW p \in Process, Start(p)
    PROVE  ServingInOrder'
<1>0. InOrder(call[p], launch[p])
  BY DEF ServingInOrder
<1>1. ASSUME NEW client \in Client, NEW bypass \in BOOLEAN, StartNew(p, client, bypass)
      PROVE  ServingInOrder'
  <2>1. PICK identity \in IF client = "claude" THEN {i \in Identity : Fresh(i)} ELSE {None} :
          Goto(p, [NewLaunch(client) EXCEPT !.phase = "cleaning", !.bypass = bypass,
                                            !.identity = identity])
    BY <1>1 DEF StartNew
  <2> DEFINE frame == [NewLaunch(client) EXCEPT !.phase = "cleaning", !.bypass = bypass,
                                                !.identity = identity]
  <2>2. /\ frame.phase = "cleaning" /\ ~frame.bound /\ ~frame.sent /\ frame.client = client
        /\ client = "claude" => frame.identity # None
    BY <2>1, KnownFacts DEF NewLaunch, Known, LaunchAssumption
  <2>3. Begin(p, "cleanup", "list", None, "to_provider")
    BY <1>1 DEF StartNew, BeginCleanup
  <2> HIDE DEF frame
  <2>4. \E operation : Continue(p, operation) /\ InOrder(operation, frame)
    BY <2>2, <2>3, BeginInOrder DEF OperationOf
  <2> QED BY <2>1, <2>4, OneInOrder DEF frame
<1>2. ASSUME NEW client \in Client, NEW bypass \in BOOLEAN, NEW identity \in Identity,
             StartResume(p, client, identity, bypass)
      PROVE  ServingInOrder'
  <2> DEFINE frame == [NewLaunch(client) EXCEPT !.phase = "loading", !.bypass = bypass,
                         !.resumed = TRUE, !.identity = identity,
                         !.conversation = bindings[<<client, identity>>]]
  <2>1. /\ frame.phase = "loading" /\ ~frame.bound /\ ~frame.sent
        /\ frame.identity # None
    BY KnownFacts DEF NewLaunch, Known, LaunchAssumption
  <2>2. Goto(p, frame) /\ UNCHANGED call /\ launch[p].phase = "off"
    BY <1>2 DEF StartResume, vars
  <2> HIDE DEF frame
  <2>3. call[p].op = "none"
    BY <1>0, <2>2 DEF InOrder, OperationOf
  <2>4. InOrder(call[p], frame)
    BY <2>1, <2>3 DEF InOrder
  <2> QED BY <2>2, <2>4, LaunchInOrder
<1> QED BY <1>1, <1>2 DEF Start

\* A launch that begins the next operation of its preparation.
LEMMA NextPhaseInOrder ==
    ASSUME TypeOK, BindingInvariant, ServingInOrder, NEW p \in Process,
           NEW frame, Goto(p, frame), launch[p].phase \notin {"off", "serving"},
           frame.client = launch[p].client, frame.identity = launch[p].identity,
           frame.resumed = launch[p].resumed, frame.bound = launch[p].bound,
           frame.sent = launch[p].sent,
           NEW op, NEW step, NEW c, NEW direction, Begin(p, op, step, c, direction),
           op = OperationOf[frame.phase], op # "transaction"
    PROVE  ServingInOrder'
<1>1. InOrder(call[p], launch[p])
  BY DEF ServingInOrder
<1>2. /\ frame.bound \/ frame.sent => Held(frame)
      /\ frame.client = "claude" /\ frame.phase # "off" => frame.identity # None
  BY <1>1 DEF InOrder, Held
<1>3. \E operation : Continue(p, operation) /\ InOrder(operation, frame)
  BY <1>2, BeginInOrder
<1> QED BY <1>3, OneInOrder

\* A launch that has been prepared and goes on to serve.
LEMMA ServesInOrder ==
    ASSUME TypeOK, BindingInvariant, ServingInOrder, NEW p \in Process, UNCHANGED call,
           NEW bypassed \in BOOLEAN, Prepared(p, bypassed),
           Goto(p, [launch[p] EXCEPT !.phase = "serving", !.bypassed = bypassed])
    PROVE  ServingInOrder'
<1> DEFINE frame == [launch[p] EXCEPT !.phase = "serving", !.bypassed = bypassed]
<1>1. launch[p] \in LaunchFrame /\ InOrder(call[p], launch[p])
  BY DEF BindingInvariant, LaunchTypeOK, ServingInOrder
<1>2. call[p].op = "none" /\ launch[p].phase # "off"
  BY DEF Prepared, Ready, Returned
<1>3. /\ frame.phase = "serving" /\ frame.client = launch[p].client
      /\ frame.identity = launch[p].identity /\ frame.resumed = launch[p].resumed
      /\ frame.bound = launch[p].bound /\ frame.sent = launch[p].sent
  BY <1>1 DEF LaunchFrame
<1> HIDE DEF frame
<1>4. InOrder(call[p], frame)
  BY <1>1, <1>2, <1>3 DEF InOrder, Held
<1> QED BY <1>4, LaunchInOrder DEF frame

LEMMA PrepareInOrder ==
    ASSUME TypeOK, BindingInvariant, ServingInOrder, NEW p \in Process, Prepare(p)
    PROVE  ServingInOrder'
<1>0. launch[p] \in LaunchFrame /\ InOrder(call[p], launch[p])
  BY DEF BindingInvariant, LaunchTypeOK, ServingInOrder
<1>1. ASSUME NEW c \in Conversation, CreateNew(p, c) PROVE ServingInOrder'
  <2> DEFINE frame == [launch[p] EXCEPT !.phase = "creating", !.conversation = c]
  <2>1. /\ Begin(p, "create", "write", c, "to_provider") /\ Goto(p, frame)
        /\ launch[p].phase = "cleaning"
    BY <1>1 DEF CreateNew, BeginCreate, Returned
  <2>2. /\ frame.phase = "creating" /\ frame.client = launch[p].client
        /\ frame.identity = launch[p].identity /\ frame.resumed = launch[p].resumed
        /\ frame.bound = launch[p].bound /\ frame.sent = launch[p].sent
    BY <1>0 DEF LaunchFrame
  <2> HIDE DEF frame
  <2> QED BY <2>1, <2>2, NextPhaseInOrder DEF OperationOf
<1>2. CASE LoadBound(p)
  <2> DEFINE frame == [launch[p] EXCEPT !.phase = "resuming"]
             c == launch[p].conversation
  <2>1. /\ launch[p].phase = "loading"
        /\ \/ End(p) /\ UNCHANGED call
           \/ Goto(p, frame) /\ Begin(p, "resume", "load", c, "to_provider")
    BY <1>2 DEF LoadBound, BeginResume, vars
  <2>2. /\ frame.phase = "resuming" /\ frame.client = launch[p].client
        /\ frame.identity = launch[p].identity /\ frame.resumed = launch[p].resumed
        /\ frame.bound = launch[p].bound /\ frame.sent = launch[p].sent
    BY <1>0 DEF LaunchFrame
  <2>3. call[p].op = "none"
    BY <1>0, <2>1 DEF InOrder, OperationOf
  <2> HIDE DEF frame, c
  <2>4. CASE End(p) /\ UNCHANGED call
    BY <2>3, <2>4, EndQuietInOrder
  <2>5. CASE Goto(p, frame) /\ Begin(p, "resume", "load", c, "to_provider")
    BY <2>1, <2>2, <2>5, NextPhaseInOrder DEF OperationOf
  <2> QED BY <2>1, <2>4, <2>5
<1>3. CASE CleanAfterResume(p)
  <2>1. PICK bypassed \in BOOLEAN :
          Goto(p, [launch[p] EXCEPT !.phase = "sweeping", !.bypassed = bypassed])
    BY <1>3 DEF CleanAfterResume
  <2> DEFINE frame == [launch[p] EXCEPT !.phase = "sweeping", !.bypassed = bypassed]
  <2>2. /\ Begin(p, "cleanup", "list", None, "to_provider") /\ Goto(p, frame)
        /\ launch[p].phase = "resuming"
    BY <1>3, <2>1 DEF CleanAfterResume, BeginCleanup, Returned
  <2>3. /\ frame.phase = "sweeping" /\ frame.client = launch[p].client
        /\ frame.identity = launch[p].identity /\ frame.resumed = launch[p].resumed
        /\ frame.bound = launch[p].bound /\ frame.sent = launch[p].sent
    BY <1>0 DEF LaunchFrame
  <2> HIDE DEF frame
  <2> QED BY <2>2, <2>3, NextPhaseInOrder DEF OperationOf
<1>4. CASE AcceptBypass(p)
  <2> DEFINE frame == [launch[p] EXCEPT !.phase = "accepting"]
             c == launch[p].conversation
  <2>1. /\ Begin(p, "accept_bypass", "load", c, "to_provider") /\ Goto(p, frame)
        /\ launch[p].phase \in {"creating", "sweeping"}
    BY <1>4 DEF AcceptBypass, BeginAcceptBypass, Ready, Returned
  <2>2. /\ frame.phase = "accepting" /\ frame.client = launch[p].client
        /\ frame.identity = launch[p].identity /\ frame.resumed = launch[p].resumed
        /\ frame.bound = launch[p].bound /\ frame.sent = launch[p].sent
    BY <1>0 DEF LaunchFrame
  <2> HIDE DEF frame, c
  <2> QED BY <2>1, <2>2, NextPhaseInOrder DEF OperationOf
<1>5. CASE BindNew(p)
  <2>1. PICK bypassed \in BOOLEAN :
          /\ Prepared(p, bypassed)
          /\ \/ Goto(p, [launch[p] EXCEPT !.phase = "serving", !.bypassed = bypassed])
             \/ End(p)
    BY <1>5 DEF BindNew
  <2>2. UNCHANGED call /\ call[p].op = "none"
    BY <1>5, <2>1 DEF BindNew, vars, Prepared, Ready, Returned
  <2> QED BY <2>1, <2>2, ServesInOrder, EndQuietInOrder
<1>6. CASE Serve(p)
  BY <1>6, ServesInOrder DEF Serve, vars
<1>7. CASE Fail(p)
  BY <1>7, EndQuietInOrder DEF Fail, Returned, vars
<1> QED BY <1>1, <1>2, <1>3, <1>4, <1>5, <1>6, <1>7 DEF Prepare

LEMMA ExchangeInOrder ==
    ASSUME TypeOK, BindingInvariant, ServingInOrder, NEW p \in Process, Exchange(p)
    PROVE  ServingInOrder'
<1>0. launch[p] \in LaunchFrame /\ InOrder(call[p], launch[p])
  BY DEF BindingInvariant, LaunchTypeOK, ServingInOrder
<1>1. ASSUME NEW direction \in Direction, ServeBody(p, direction) PROVE ServingInOrder'
  <2> DEFINE frame == [launch[p] EXCEPT !.bound = FALSE]
             operation == [Idle(call[p].mode, "none") EXCEPT
                             !.op = "transaction", !.at = "load",
                             !.conversation = launch[p].conversation,
                             !.direction = direction, !.now = clock]
  <2>1. Continue(p, operation) /\ Goto(p, frame) /\ launch[p].phase = "serving"
        /\ (direction = "to_local" => launch[p].sent)
    BY <1>1 DEF ServeBody, BeginTransaction, Begin
  <2>2. /\ operation.op = "transaction" /\ operation.conversation = launch[p].conversation
        /\ operation.direction = direction /\ operation.result = "none"
    BY DEF Idle
  <2>3. /\ frame.phase = launch[p].phase /\ frame.client = launch[p].client
        /\ frame.identity = launch[p].identity /\ frame.resumed = launch[p].resumed
        /\ frame.conversation = launch[p].conversation
        /\ ~frame.bound /\ frame.sent = launch[p].sent
    BY <1>0 DEF LaunchFrame
  <2> HIDE DEF frame, operation
  <2>4. InOrder(operation, frame)
    BY <1>0, <2>1, <2>2, <2>3 DEF InOrder, Held, OperationOf
  <2> QED BY <2>1, <2>4, OneInOrder
<1>2. ASSUME DropTransaction(p), UNCHANGED launch PROVE ServingInOrder'
  <2> DEFINE operation == Idle(call[p].mode, "blocked")
  <2>1. Continue(p, operation) /\ operation.op = "none"
    BY <1>2 DEF DropTransaction, Return, Idle
  <2> HIDE DEF operation
  <2>2. InOrder(operation, launch[p])
    BY <1>0, <2>1 DEF InOrder
  <2> QED BY <1>2, <2>1, <2>2, OperationInOrder
<1>3. ASSUME NEW identity \in Identity, BindRequest(p, identity) PROVE ServingInOrder'
  <2> DEFINE frame == [launch[p] EXCEPT !.identity = identity, !.bound = TRUE]
  <2>1. \/ DropTransaction(p) /\ UNCHANGED launch
        \/ Goto(p, frame) /\ UNCHANGED call
    BY <1>3 DEF BindRequest, vars
  <2>2. launch[p].phase = "serving"
    BY <1>3 DEF BindRequest, MustBind
  <2>3. /\ frame.phase = launch[p].phase /\ frame.client = launch[p].client
        /\ frame.identity = identity /\ identity # None
        /\ frame.conversation = launch[p].conversation /\ frame.sent = launch[p].sent
    BY <1>0, KnownFacts DEF LaunchFrame, Known, LaunchAssumption
  <2> HIDE DEF frame
  <2>4. InOrder(call[p], frame)
    BY <1>0, <2>2, <2>3 DEF InOrder, Held
  <2> QED BY <1>2, <2>1, <2>4, LaunchInOrder
<1>4. CASE RefuseIdentity(p)
  BY <1>2, <1>4 DEF RefuseIdentity
<1> QED BY <1>1, <1>3, <1>4 DEF Exchange

\* Whatever is committed while a launch serves belongs to a bound conversation.
LEMMA CommittedIsHeld ==
    ASSUME TypeOK, BindingInvariant, ServingInOrder, NEW p \in Process, ~MustBind(p),
           call[p].op = "transaction", call[p].at = "save"
    PROVE  Held(launch[p])
<1>1. /\ launch[p] \in LaunchFrame /\ InOrder(call[p], launch[p]) /\ call[p] \in Frame
      /\ Client \subseteq {"codex", "claude"}
  BY KnownFacts DEF BindingInvariant, LaunchTypeOK, ServingInOrder, TypeOK, Known, LaunchAssumption
<1>2. launch[p].phase = "serving"
  BY <1>1 DEF InOrder, OperationOf, LaunchFrame, Phase
<1>3. CASE launch[p].client = "claude"
  BY <1>1, <1>2, <1>3 DEF InOrder, Held
<1>4. CASE call[p].direction = "to_local"
  BY <1>1, <1>4 DEF InOrder
<1>5. CASE launch[p].client = "codex" /\ call[p].direction = "to_provider"
  BY <1>1, <1>2, <1>5 DEF InOrder, MustBind, At
<1> QED BY <1>1, <1>3, <1>4, <1>5 DEF LaunchFrame, Frame, Direction

LEMMA ProceedInOrder ==
    ASSUME TypeOK, BindingInvariant, ServingInOrder, NEW p \in Process, Proceed(p)
    PROVE  ServingInOrder'
<1>0. launch[p] \in LaunchFrame /\ InOrder(call[p], launch[p])
  BY DEF BindingInvariant, LaunchTypeOK, ServingInOrder
<1>1. PICK operation : Continue(p, operation) /\ Follows(call[p], operation)
  BY AdvanceFollows DEF Proceed
<1>2. call'[p] = operation /\ call[p].op # "none"
  BY <1>1, AdvanceFollows DEF Proceed, TypeOK, Continue
<1> DEFINE sent == launch[p].sent \/ operation.result = "committed"
           frame == [launch[p] EXCEPT !.sent = sent]
<1>3. Goto(p, frame)
  BY <1>2 DEF Proceed
<1>4. /\ frame.phase = launch[p].phase /\ frame.client = launch[p].client
      /\ frame.identity = launch[p].identity /\ frame.resumed = launch[p].resumed
      /\ frame.conversation = launch[p].conversation /\ frame.bound = launch[p].bound
      /\ frame.sent = sent
  BY <1>0 DEF LaunchFrame
<1>5. operation.result = "committed" => Held(launch[p])
  BY <1>0, <1>1, <1>2, CommittedIsHeld DEF Follows, InOrder, Proceed
<1> HIDE DEF frame
<1>6. InOrder(operation, frame)
  <2>1. Held(frame) <=> Held(launch[p])
    BY <1>4 DEF Held
  <2> QED BY <1>0, <1>1, <1>2, <1>4, <1>5, <2>1 DEF InOrder, Follows
<1> QED BY <1>1, <1>3, <1>6, OneInOrder

LEMMA StepInOrder ==
    ASSUME TypeOK, BindingInvariant, ServingInOrder, [LaunchNext]_launchVars
    PROVE  ServingInOrder'
<1>1. CASE Tick /\ UNCHANGED <<launch, bindings>>
  BY <1>1 DEF Tick, ServingInOrder
<1>2. CASE UNCHANGED launchVars
  BY <1>2 DEF launchVars, vars, ServingInOrder
<1>3. ASSUME NEW p \in Process, Exit(p) PROVE ServingInOrder'
  BY <1>3, EndQuietInOrder DEF Exit, vars
<1>4. ASSUME NEW p \in Process, Interrupt(p) PROVE ServingInOrder'
  <2>1. CASE Crash(p)
    <3>1. /\ Continue(p, Idle(call[p].mode, "none")) /\ End(p)
          /\ call'[p] = Idle(call[p].mode, "none")
      BY <1>4, <2>1 DEF Interrupt, Crash, Return, Continue, TypeOK
    <3> QED BY <3>1, EndInOrder DEF Idle
  <2>2. CASE call[p].op = "none" /\ UNCHANGED vars
    BY <1>4, <2>2, EndQuietInOrder DEF Interrupt, vars
  <2> QED BY <1>4, <2>1, <2>2 DEF Interrupt
<1> QED
  BY <1>1, <1>2, <1>3, <1>4, StartInOrder, PrepareInOrder, ExchangeInOrder, ProceedInOrder
     DEF LaunchNext

\* A binding is never taken back or changed.
LEMMA BindKeeps ==
    ASSUME BindingInvariant, NEW client, NEW identity, NEW c, NEW r, Bind(client, identity, c, r)
    PROVE  \A key \in Client \X Identity : bindings[key] # None => bindings'[key] = bindings[key]
BY DEF Bind, BindingInvariant, LaunchTypeOK

LEMMA BindingsKept ==
    ASSUME BindingInvariant, [LaunchNext]_launchVars
    PROVE  \A key \in Client \X Identity : bindings[key] # None => bindings'[key] = bindings[key]
<1>1. \/ UNCHANGED bindings
      \/ \E p \in Process : BindNew(p) \/ \E identity \in Identity : BindRequest(p, identity)
  BY DEF LaunchNext, launchVars, Start, StartNew, StartResume, Prepare, CreateNew, LoadBound,
         CleanAfterResume, AcceptBypass, Serve, Fail, Exchange, ServeBody, RefuseIdentity,
         Proceed, Exit, Interrupt
<1>2. ASSUME NEW p \in Process, BindNew(p)
      PROVE  \E client, identity, c, r : Bind(client, identity, c, r)
  BY <1>2 DEF BindNew
<1>3. ASSUME NEW p \in Process, NEW identity \in Identity, BindRequest(p, identity)
      PROVE  UNCHANGED bindings \/ \E client, i, c, r : Bind(client, i, c, r)
  BY <1>3 DEF BindRequest
<1> QED BY <1>1, <1>2, <1>3, BindKeeps

\* Only an operation that proceeds lets anything out.
LEMMA OnlyProceedExchanges ==
    ASSUME [LaunchNext]_launchVars
    PROVE  exchanged' = exchanged \/ \E p \in Process : Proceed(p)
<1>1. ASSUME NEW p \in Process, Start(p) PROVE exchanged' = exchanged
  BY <1>1 DEF Start, StartNew, StartResume, BeginCleanup, Begin, NothingLeaves, vars
<1>2. ASSUME NEW p \in Process, Prepare(p) PROVE exchanged' = exchanged
  BY <1>2 DEF Prepare, CreateNew, LoadBound, CleanAfterResume, AcceptBypass, BindNew, Serve, Fail,
              BeginCreate, BeginResume, BeginCleanup, BeginAcceptBypass, Begin, NothingLeaves, vars
<1>3. ASSUME NEW p \in Process, Exchange(p) PROVE exchanged' = exchanged
  BY <1>3 DEF Exchange, ServeBody, BindRequest, RefuseIdentity, BeginTransaction, Begin,
              DropTransaction, NothingLeaves, vars
<1>4. ASSUME NEW p \in Process, Exit(p) \/ Interrupt(p) PROVE exchanged' = exchanged
  BY <1>4 DEF Exit, Interrupt, Crash, NothingLeaves, vars
<1> QED BY <1>1, <1>2, <1>3, <1>4 DEF LaunchNext, launchVars, vars, Tick, NothingLeaves

LEMMA StepReachable ==
    ASSUME InductiveInvariant, BindingInvariant, ServingInOrder, ExchangedIsReachable,
           [LaunchNext]_launchVars
    PROVE  ExchangedIsReachable'
<1>0. TypeOK /\ FramesOK /\ exchanged \subseteq Substitution
  BY DEF InductiveInvariant, TypeOK
<1> SUFFICES ASSUME NEW e \in exchanged'
             PROVE  \E key \in Client \X Identity : bindings'[key] = e.conversation
  BY DEF ExchangedIsReachable
<1>1. CASE e \in exchanged
  <2>1. PICK key \in Client \X Identity : bindings[key] = e.conversation
    BY <1>1 DEF ExchangedIsReachable
  <2>2. e.conversation # None
    BY <1>0, <1>1, KnownFacts DEF Known, Substitution
  <2> QED BY <2>1, <2>2, BindingsKept
<1>2. CASE e \notin exchanged
  <2>1. PICK p \in Process : Proceed(p)
    BY <1>2, OnlyProceedExchanges
  <2>2. /\ call[p].at = "save" /\ call[p].op \in Transforming
        /\ e.conversation = call[p].conversation
    BY <1>0, <1>2, <2>1, AdvanceExchanges DEF Proceed
  <2>3. /\ InOrder(call[p], launch[p]) /\ LaunchOK(launch[p])
        /\ launch[p] \in LaunchFrame
    BY DEF BindingInvariant, LaunchTypeOK, ServingInOrder
  <2>4. call[p].op = "transaction"
    BY <2>2, <2>3 DEF InOrder, OperationOf, LaunchFrame, Phase, Transforming
  <2>5. Held(launch[p])
    BY <1>0, <2>1, <2>2, <2>4, CommittedIsHeld DEF Proceed
  <2>6. /\ <<launch[p].client, launch[p].identity>> \in Client \X Identity
        /\ bindings[<<launch[p].client, launch[p].identity>>] = e.conversation
    BY <2>2, <2>3, <2>4, <2>5 DEF LaunchOK, Held, LaunchFrame, InOrder
  <2> QED BY <2>1, <2>6 DEF Proceed
<1> QED BY <1>1, <1>2

LEMMA InitInOrder == LaunchInit => ServingInOrder /\ ExchangedIsReachable
BY DEF LaunchInit, Init, ServingInOrder, InOrder, NewLaunch, Idle, OperationOf,
       ExchangedIsReachable

\* Whatever left for the provider belongs to a conversation that a native
\* resume can find, wherever launches stop.
THEOREM ExchangedStaysReachable == LaunchSpec => []ExchangedIsReachable
<1> DEFINE Reach == ServingInOrder /\ ExchangedIsReachable
<1>1. /\ InductiveInvariant /\ BindingInvariant /\ Reach /\ [LaunchNext]_launchVars
      => Reach'
  BY StepInOrder, StepReachable DEF InductiveInvariant
<1>2. LaunchInit => Reach
  BY InitInOrder
<1>3. LaunchSpec => []Reach
  BY <1>1, <1>2, LaunchKeepsLifecycle, BindingInvariantHolds, PTL DEF LaunchSpec
<1> QED BY <1>3, PTL
-----------------------------------------------------------------------------
(***************************************************************************)
(* A launch writes to vaults of its own mode only.                         *)
(***************************************************************************)
\* The mode of a vault that is there was there before, or is the creator's.
LEMMA VaultModes ==
    ASSUME InductiveInvariant, [Next]_vars, NEW c \in Conversation, vault'[c] # None
    PROVE  \/ vault[c] # None /\ vault'[c].mode = vault[c].mode
           \/ \E q \in Process : /\ call[q].op = "create" /\ call[q].conversation = c
                                /\ vault'[c].mode = call[q].mode
<1>1. Typed /\ Shared
  BY InductiveParts
<1>2. CASE vault'[c] = vault[c]
  BY <1>2
<1>3. CASE vault'[c] # vault[c]
  <2>1. \E q \in Process : WriteNew(q) \/ SaveState(q)
    BY <1>1, <1>3, VaultSteps DEF Exists
  <2>2. ASSUME NEW q \in Process, WriteNew(q)
        PROVE  /\ call[q].op = "create" /\ call[q].conversation = c
               /\ vault'[c].mode = call[q].mode
    <3>1. /\ call[q].op = "create" /\ call[q].conversation = c
          /\ vault'[c] = NewState(call[q].mode, call[q].now)
      BY <1>1, <1>3, <2>2, WriteNewEffect
    <3> QED BY <3>1 DEF NewState
  <2>3. ASSUME NEW q \in Process, SaveState(q)
        PROVE  vault[c] # None /\ vault'[c].mode = vault[c].mode
    BY <1>1, <1>3, <2>3, SaveStateEffect, UpdatedFacts DEF Exists
  <2> QED BY <2>1, <2>2, <2>3
<1> QED BY <1>2, <1>3

\* The phases in which a launch has a conversation of its mode.
Agreed(phase) == phase \notin {"off", "cleaning", "loading"}

\* How a step of p changes what InItsMode says of it.
Moves(p) ==
    /\ \A q \in Process \ {p} : launch'[q] = launch[q] /\ call'[q] = call[q]
    /\ call'[p].mode = call[p].mode
    /\ call'[p].op \in {"create", "resume", "accept_bypass"} =>
          call'[p].conversation = launch'[p].conversation
    /\ launch'[p].phase = "creating" => ~launch'[p].resumed
    /\ Agreed(launch'[p].phase) =>
          \/ /\ Agreed(launch[p].phase)
             /\ launch'[p].conversation = launch[p].conversation
          \/ /\ UNCHANGED vault
             /\ vault[launch'[p].conversation] # None =>
                   vault[launch'[p].conversation].mode = call[p].mode

\* A step of p alone, from the frames that it leaves.
LEMMA StepMoves ==
    ASSUME TypeOK, BindingInvariant, NEW p \in Process, NEW operation, NEW frame,
           Continue(p, operation), Goto(p, frame),
           operation.mode = call[p].mode,
           operation.op \in {"create", "resume", "accept_bypass"} =>
              operation.conversation = frame.conversation,
           frame.phase = "creating" => ~frame.resumed,
           Agreed(frame.phase) =>
              \/ Agreed(launch[p].phase) /\ frame.conversation = launch[p].conversation
              \/ /\ UNCHANGED vault
                 /\ vault[frame.conversation] # None =>
                       vault[frame.conversation].mode = call[p].mode
    PROVE  Moves(p)
<1>1. /\ call'[p] = operation /\ launch'[p] = frame
      /\ \A q \in Process \ {p} : call'[q] = call[q] /\ launch'[q] = launch[q]
  BY DEF TypeOK, BindingInvariant, LaunchTypeOK, Continue, Goto
<1> QED BY <1>1 DEF Moves

LEMMA MovesKeepModes ==
    ASSUME InductiveInvariant, [Next]_vars, BindingInvariant, ServingInOrder, ModesAgree,
           NEW p \in Process, Moves(p)
    PROVE  ModesAgree'
<1>1. ASSUME NEW r \in Process, Agreed(launch[r].phase),
             vault'[launch[r].conversation] # None
      PROVE  vault'[launch[r].conversation].mode = call[r].mode
  <2> DEFINE c == launch[r].conversation
  <2>1. c \in Conversation
    BY <1>1 DEF BindingInvariant, LaunchTypeOK, LaunchOK, LaunchFrame, Agreed
  <2>2. vault[c] # None => vault[c].mode = call[r].mode
    BY <1>1 DEF ModesAgree, InItsMode, Agreed
  <2>3. ASSUME NEW q \in Process, call[q].op = "create", call[q].conversation = c
        PROVE  q = r
    <3>1. launch[q].phase = "creating"
      BY <2>3 DEF ServingInOrder, InOrder, OperationOf, BindingInvariant, LaunchTypeOK,
                  LaunchFrame, Phase
    <3>2. launch[q].conversation = c /\ ~launch[q].resumed
      BY <2>3, <3>1 DEF ModesAgree, InItsMode
    <3>3. ~Held(launch[q])
      BY <3>1, <3>2 DEF Held
    <3>4. c # None
      BY <2>1, KnownFacts DEF Known
    <3> QED BY <3>2, <3>3, <3>4 DEF BindingInvariant, Exclusive
  <2>4. \/ vault[c] # None /\ vault'[c].mode = vault[c].mode
        \/ \E q \in Process : /\ call[q].op = "create" /\ call[q].conversation = c
                             /\ vault'[c].mode = call[q].mode
    BY <1>1, <2>1, VaultModes
  <2> QED BY <2>2, <2>3, <2>4
<1>2. ASSUME NEW r \in Process \ {p} PROVE InItsMode(r)'
  <2>1. launch'[r] = launch[r] /\ call'[r] = call[r]
    BY DEF Moves
  <2> QED BY <1>1, <2>1 DEF ModesAgree, InItsMode, Agreed
<1>3. InItsMode(p)'
  <2>1. ASSUME Agreed(launch'[p].phase), vault'[launch'[p].conversation] # None
        PROVE  vault'[launch'[p].conversation].mode = call'[p].mode
    BY <1>1, <2>1 DEF Moves
  <2> QED BY <2>1 DEF Moves, InItsMode, Agreed
<1> QED BY <1>2, <1>3 DEF ModesAgree


\* An operation that begins in a launch that goes on to frame.
LEMMA BeginMoves ==
    ASSUME TypeOK, BindingInvariant, NEW p \in Process, NEW frame, Goto(p, frame),
           NEW op, NEW step, NEW c, NEW direction, Begin(p, op, step, c, direction),
           op \in {"create", "resume", "accept_bypass"} => c = frame.conversation,
           frame.phase = "creating" => ~frame.resumed,
           Agreed(frame.phase) =>
              \/ Agreed(launch[p].phase) /\ frame.conversation = launch[p].conversation
              \/ vault[frame.conversation] # None =>
                    vault[frame.conversation].mode = call[p].mode
    PROVE  Moves(p)
<1> DEFINE operation == [Idle(call[p].mode, "none") EXCEPT
                           !.op = op, !.at = step, !.conversation = c,
                           !.direction = direction, !.now = clock]
<1>1. Continue(p, operation) /\ UNCHANGED vault
  BY DEF Begin
<1>2. operation.op = op /\ operation.conversation = c /\ operation.mode = call[p].mode
  BY DEF Idle
<1> HIDE DEF operation
<1> QED BY <1>1, <1>2, StepMoves

\* A launch that moves while its operation stays, or has none.
LEMMA QuietMoves ==
    ASSUME TypeOK, BindingInvariant, NEW p \in Process, UNCHANGED call,
           NEW frame, Goto(p, frame),
           call[p].op \in {"create", "resume", "accept_bypass"} =>
              call[p].conversation = frame.conversation,
           frame.phase = "creating" => ~frame.resumed,
           Agreed(frame.phase) =>
              Agreed(launch[p].phase) /\ frame.conversation = launch[p].conversation
    PROVE  Moves(p)
<1>1. Continue(p, call[p])
  BY DEF TypeOK, Continue
<1> QED BY <1>1, StepMoves

\* A launch that ends.
LEMMA EndMoves ==
    ASSUME TypeOK, BindingInvariant, NEW p \in Process, End(p),
           NEW operation, Continue(p, operation), operation.op = "none",
           operation.mode = call[p].mode
    PROVE  Moves(p)
<1>1. NewLaunch(launch[p].client).phase = "off"
  BY DEF NewLaunch
<1> QED BY <1>1, StepMoves DEF End, Agreed

LEMMA EndQuietMoves ==
    ASSUME TypeOK, BindingInvariant, NEW p \in Process, End(p), UNCHANGED call,
           call[p].op = "none"
    PROVE  Moves(p)
<1>1. Continue(p, call[p])
  BY DEF TypeOK, Continue
<1> QED BY <1>1, EndMoves

LEMMA StartMoves ==
    ASSUME TypeOK, BindingInvariant, ServingInOrder, NEW p \in Process, Start(p)
    PROVE  Moves(p)
<1>1. ASSUME NEW client \in Client, NEW bypass \in BOOLEAN, StartNew(p, client, bypass)
      PROVE  Moves(p)
  <2>1. PICK identity \in IF client = "claude" THEN {i \in Identity : Fresh(i)} ELSE {None} :
          Goto(p, [NewLaunch(client) EXCEPT !.phase = "cleaning", !.bypass = bypass,
                                            !.identity = identity])
    BY <1>1 DEF StartNew
  <2> DEFINE frame == [NewLaunch(client) EXCEPT !.phase = "cleaning", !.bypass = bypass,
                                                !.identity = identity]
  <2>2. frame.phase = "cleaning"
    BY DEF NewLaunch
  <2>3. Begin(p, "cleanup", "list", None, "to_provider") /\ Goto(p, frame)
    BY <1>1, <2>1 DEF StartNew, BeginCleanup
  <2> HIDE DEF frame
  <2> QED BY <2>2, <2>3, BeginMoves DEF Agreed
<1>2. ASSUME NEW client \in Client, NEW bypass \in BOOLEAN, NEW identity \in Identity,
             StartResume(p, client, identity, bypass)
      PROVE  Moves(p)
  <2> DEFINE frame == [NewLaunch(client) EXCEPT !.phase = "loading", !.bypass = bypass,
                         !.resumed = TRUE, !.identity = identity,
                         !.conversation = bindings[<<client, identity>>]]
  <2>1. frame.phase = "loading"
    BY DEF NewLaunch
  <2>2. Goto(p, frame) /\ UNCHANGED call /\ launch[p].phase = "off"
    BY <1>2 DEF StartResume, vars
  <2> HIDE DEF frame
  <2>3. call[p].op = "none"
    BY <2>2 DEF ServingInOrder, InOrder, OperationOf
  <2> QED BY <2>1, <2>2, <2>3, QuietMoves DEF Agreed
<1> QED BY <1>1, <1>2 DEF Start

\* A launch that has been prepared and goes on to serve.
LEMMA ServesMoves ==
    ASSUME TypeOK, BindingInvariant, NEW p \in Process, UNCHANGED call,
           NEW bypassed \in BOOLEAN, Prepared(p, bypassed),
           Goto(p, [launch[p] EXCEPT !.phase = "serving", !.bypassed = bypassed])
    PROVE  Moves(p)
<1> DEFINE frame == [launch[p] EXCEPT !.phase = "serving", !.bypassed = bypassed]
<1>1. frame.phase = "serving" /\ frame.conversation = launch[p].conversation
  BY DEF BindingInvariant, LaunchTypeOK, LaunchFrame
<1>2. call[p].op = "none" /\ Agreed(launch[p].phase)
  BY DEF Prepared, Ready, Returned, Agreed
<1> HIDE DEF frame
<1> QED BY <1>1, <1>2, QuietMoves DEF frame

LEMMA PrepareMoves ==
    ASSUME InductiveInvariant, BindingInvariant, ServingInOrder, ModesAgree,
           NEW p \in Process, Prepare(p)
    PROVE  Moves(p)
<1>0. TypeOK /\ KnownAreUsed /\ launch[p] \in LaunchFrame
  BY DEF InductiveInvariant, BindingInvariant, LaunchTypeOK
<1>1. ASSUME NEW c \in Conversation, CreateNew(p, c) PROVE Moves(p)
  <2> DEFINE frame == [launch[p] EXCEPT !.phase = "creating", !.conversation = c]
  <2>1. /\ Begin(p, "create", "write", c, "to_provider") /\ Goto(p, frame)
        /\ launch[p].phase = "cleaning" /\ c \notin used
    BY <1>1 DEF CreateNew, BeginCreate, Returned
  <2>2. frame.conversation = c /\ frame.resumed = launch[p].resumed
    BY <1>0 DEF LaunchFrame
  <2>3. ~launch[p].resumed
    BY <2>1 DEF BindingInvariant, LaunchOK
  <2>4. vault[c] = None
    BY <1>0, <2>1 DEF KnownAreUsed, Exists
  <2> HIDE DEF frame
  <2> QED BY <1>0, <2>1, <2>2, <2>3, <2>4, BeginMoves
<1>2. CASE LoadBound(p)
  <2> DEFINE frame == [launch[p] EXCEPT !.phase = "resuming"]
             c == launch[p].conversation
  <2>1. /\ launch[p].phase = "loading"
        /\ \/ End(p) /\ UNCHANGED call
           \/ /\ Goto(p, frame) /\ Begin(p, "resume", "load", c, "to_provider")
              /\ vault[c].mode = call[p].mode
    BY <1>2 DEF LoadBound, BeginResume, vars
  <2>2. frame.phase = "resuming" /\ frame.conversation = c
    BY <1>0 DEF LaunchFrame
  <2>3. call[p].op = "none"
    BY <2>1 DEF ServingInOrder, InOrder, OperationOf
  <2> HIDE DEF frame, c
  <2>4. CASE End(p) /\ UNCHANGED call
    BY <1>0, <2>3, <2>4, EndQuietMoves
  <2>5. CASE /\ Goto(p, frame) /\ Begin(p, "resume", "load", c, "to_provider")
             /\ vault[c].mode = call[p].mode
    BY <1>0, <2>2, <2>5, BeginMoves
  <2> QED BY <2>1, <2>4, <2>5
<1>3. CASE CleanAfterResume(p)
  <2>1. PICK bypassed \in BOOLEAN :
          Goto(p, [launch[p] EXCEPT !.phase = "sweeping", !.bypassed = bypassed])
    BY <1>3 DEF CleanAfterResume
  <2> DEFINE frame == [launch[p] EXCEPT !.phase = "sweeping", !.bypassed = bypassed]
  <2>2. /\ Begin(p, "cleanup", "list", None, "to_provider") /\ Goto(p, frame)
        /\ Agreed(launch[p].phase)
    BY <1>3, <2>1 DEF CleanAfterResume, BeginCleanup, Returned, Agreed
  <2>3. frame.phase = "sweeping" /\ frame.conversation = launch[p].conversation
    BY <1>0 DEF LaunchFrame
  <2> HIDE DEF frame
  <2> QED BY <1>0, <2>2, <2>3, BeginMoves
<1>4. CASE AcceptBypass(p)
  <2> DEFINE frame == [launch[p] EXCEPT !.phase = "accepting"]
             c == launch[p].conversation
  <2>1. /\ Begin(p, "accept_bypass", "load", c, "to_provider") /\ Goto(p, frame)
        /\ Agreed(launch[p].phase)
    BY <1>4 DEF AcceptBypass, BeginAcceptBypass, Ready, Returned, Agreed
  <2>2. frame.phase = "accepting" /\ frame.conversation = c
    BY <1>0 DEF LaunchFrame
  <2> HIDE DEF frame
  <2> QED BY <1>0, <2>1, <2>2, BeginMoves
<1>5. CASE BindNew(p)
  <2>1. PICK bypassed \in BOOLEAN :
          /\ Prepared(p, bypassed)
          /\ \/ Goto(p, [launch[p] EXCEPT !.phase = "serving", !.bypassed = bypassed])
             \/ End(p)
    BY <1>5 DEF BindNew
  <2>2. UNCHANGED call /\ call[p].op = "none"
    BY <1>5, <2>1 DEF BindNew, vars, Prepared, Ready, Returned
  <2> QED BY <1>0, <2>1, <2>2, ServesMoves, EndQuietMoves
<1>6. CASE Serve(p)
  BY <1>0, <1>6, ServesMoves DEF Serve, vars
<1>7. CASE Fail(p)
  BY <1>0, <1>7, EndQuietMoves DEF Fail, Returned, vars
<1> QED BY <1>1, <1>2, <1>3, <1>4, <1>5, <1>6, <1>7 DEF Prepare

LEMMA ExchangeMoves ==
    ASSUME TypeOK, BindingInvariant, ServingInOrder, NEW p \in Process, Exchange(p)
    PROVE  Moves(p)
<1>0. launch[p] \in LaunchFrame
  BY DEF BindingInvariant, LaunchTypeOK
<1>1. launch[p].phase = "serving"
  BY DEF Exchange, ServeBody, BindRequest, RefuseIdentity, MustBind
<1>2. ASSUME NEW direction \in Direction, ServeBody(p, direction) PROVE Moves(p)
  <2> DEFINE frame == [launch[p] EXCEPT !.bound = FALSE]
  <2>1. /\ Begin(p, "transaction", "load", launch[p].conversation, direction)
        /\ Goto(p, frame)
    BY <1>2 DEF ServeBody, BeginTransaction
  <2>2. frame.phase = "serving" /\ frame.conversation = launch[p].conversation
    BY <1>0, <1>1 DEF LaunchFrame
  <2> HIDE DEF frame
  <2> QED BY <1>1, <2>1, <2>2, BeginMoves DEF Agreed
<1>3. ASSUME DropTransaction(p), UNCHANGED launch PROVE Moves(p)
  <2> DEFINE operation == Idle(call[p].mode, "blocked")
  <2>1. Continue(p, operation) /\ operation.op = "none" /\ operation.mode = call[p].mode
    BY <1>3 DEF DropTransaction, Return, Idle
  <2>2. Goto(p, launch[p])
    BY <1>3 DEF BindingInvariant, LaunchTypeOK, Goto
  <2> HIDE DEF operation
  <2> QED BY <1>1, <2>1, <2>2, StepMoves DEF Agreed
<1>4. ASSUME NEW identity \in Identity, BindRequest(p, identity) PROVE Moves(p)
  <2> DEFINE frame == [launch[p] EXCEPT !.identity = identity, !.bound = TRUE]
  <2>1. \/ DropTransaction(p) /\ UNCHANGED launch
        \/ Goto(p, frame) /\ UNCHANGED call
    BY <1>4 DEF BindRequest, vars
  <2>2. frame.phase = "serving" /\ frame.conversation = launch[p].conversation
    BY <1>0, <1>1 DEF LaunchFrame
  <2>3. call[p].op = "transaction"
    BY <1>4 DEF BindRequest, MustBind, At
  <2> HIDE DEF frame
  <2> QED BY <1>1, <1>3, <2>1, <2>2, <2>3, QuietMoves DEF Agreed
<1>5. CASE RefuseIdentity(p)
  BY <1>3, <1>5 DEF RefuseIdentity
<1> QED BY <1>2, <1>4, <1>5 DEF Exchange

LEMMA ProceedMoves ==
    ASSUME TypeOK, BindingInvariant, ModesAgree, NEW p \in Process, Proceed(p)
    PROVE  Moves(p)
<1>0. launch[p] \in LaunchFrame /\ InItsMode(p)
  BY DEF BindingInvariant, LaunchTypeOK, ModesAgree
<1>1. PICK operation : Continue(p, operation) /\ Follows(call[p], operation)
  BY AdvanceFollows DEF Proceed
<1> DEFINE sent == launch[p].sent \/ call'[p].result = "committed"
           frame == [launch[p] EXCEPT !.sent = sent]
<1>2. Goto(p, frame)
  BY DEF Proceed
<1>3. /\ frame.phase = launch[p].phase /\ frame.conversation = launch[p].conversation
      /\ frame.resumed = launch[p].resumed
  BY <1>0 DEF LaunchFrame
<1> HIDE DEF frame
<1>4. /\ operation.mode = call[p].mode
      /\ operation.op \in {"create", "resume", "accept_bypass"} =>
            operation.conversation = frame.conversation
  BY <1>0, <1>1, <1>3 DEF Follows, InItsMode
<1>5. frame.phase = "creating" => ~frame.resumed
  BY <1>0, <1>3 DEF InItsMode
<1> QED BY <1>1, <1>2, <1>3, <1>4, <1>5, StepMoves

LEMMA StepModes ==
    ASSUME InductiveInvariant, BindingInvariant, ServingInOrder, ModesAgree,
           [LaunchNext]_launchVars
    PROVE  ModesAgree'
<1>0. TypeOK /\ [Next]_vars
  BY StepImplements DEF InductiveInvariant
<1>1. CASE UNCHANGED <<vault, call, launch>>
  BY <1>1 DEF ModesAgree, InItsMode
<1>2. CASE Tick /\ UNCHANGED <<launch, bindings>>
  BY <1>1, <1>2 DEF Tick
<1>3. CASE UNCHANGED launchVars
  BY <1>1, <1>3 DEF launchVars, vars
<1>4. ASSUME NEW p \in Process, Start(p) \/ Prepare(p) \/ Exchange(p) \/ Proceed(p)
      PROVE  ModesAgree'
  BY <1>0, <1>4, StartMoves, PrepareMoves, ExchangeMoves, ProceedMoves, MovesKeepModes
<1>5. ASSUME NEW p \in Process, Exit(p) PROVE ModesAgree'
  <2>1. End(p) /\ UNCHANGED call /\ call[p].op = "none"
    BY <1>5 DEF Exit, vars
  <2> QED BY <1>0, <2>1, EndQuietMoves, MovesKeepModes
<1>6. ASSUME NEW p \in Process, Interrupt(p) PROVE ModesAgree'
  <2>1. CASE Crash(p)
    <3> DEFINE operation == Idle(call[p].mode, "none")
    <3>1. Continue(p, operation) /\ operation.op = "none" /\ operation.mode = call[p].mode
      BY <2>1 DEF Crash, Return, Idle
    <3>2. End(p)
      BY <1>6 DEF Interrupt
    <3> HIDE DEF operation
    <3> QED BY <1>0, <3>1, <3>2, EndMoves, MovesKeepModes
  <2>2. CASE call[p].op = "none" /\ UNCHANGED vars
    BY <1>0, <1>6, <2>2, EndQuietMoves, MovesKeepModes DEF Interrupt, vars
  <2> QED BY <1>6, <2>1, <2>2 DEF Interrupt
<1> QED BY <1>2, <1>3, <1>4, <1>5, <1>6 DEF LaunchNext

\* The step in which p saves c is the end of one of its operations.
LEMMA SavesIsSaveState ==
    ASSUME TypeOK, [Next]_vars, NEW p \in Process, NEW c \in Conversation, Saves(p, c)
    PROVE  SaveState(p)
<1>1. /\ call[p].at = "save" /\ call'[p] # call[p] /\ vault'[c] # vault[c]
  BY DEF Saves
<1>2. ASSUME NEW q \in Process, q # p, NEW f, Continue(q, f) PROVE FALSE
  BY <1>1, <1>2 DEF TypeOK, Continue
<1>3. ASSUME NEW q \in Process, BeginOperation(q) PROVE FALSE
  BY <1>1, <1>3 DEF BeginOperation, BeginCleanup, BeginCreate, BeginResume, BeginAcceptBypass,
     BeginProcess, BeginTransaction, Begin
<1>4. ASSUME NEW q \in Process, Crash(q) PROVE FALSE
  BY <1>1, <1>4 DEF Crash
<1>5. PICK q \in Process : Advance(q)
  BY <1>1, <1>3, <1>4 DEF Next, Tick, vars
<1>6. q = p
  BY <1>2, <1>5, AdvanceFollows
<1>7. Advance(p)
  BY <1>5, <1>6
<1> QED
  BY <1>1, <1>7 DEF Advance, WriteNew, LoadVault, CheckExpiry, Expire, Reload, Transform,
     RefuseText, DropTransaction, Stamp, ListVaults, Sweep, EndCleanup, At

\* A save finds a vault, and the vault has the mode of its launch.
LEMMA SaveInMode ==
    ASSUME InductiveInvariant, BindingInvariant, ServingInOrder, ModesAgree,
           [LaunchNext]_launchVars, NEW p \in Process, NEW c \in Conversation, Saves(p, c)
    PROVE  vault[c].mode = call[p].mode
<1>0. TypeOK /\ [Next]_vars /\ Typed /\ Shared
  BY StepImplements, InductiveParts DEF InductiveInvariant
<1>1. SaveState(p)
  BY <1>0, SavesIsSaveState
<1>2. /\ call[p].op \in Loading /\ call[p].conversation = c /\ Exists(c)
  BY <1>0, <1>1, SaveStateEffect DEF Saves
<1>3. /\ launch[p].conversation = c
      /\ launch[p].phase \in {"resuming", "accepting", "serving"}
  <2>1. /\ InOrder(call[p], launch[p]) /\ InItsMode(p) /\ launch[p].phase \in Phase
    BY DEF ServingInOrder, ModesAgree, BindingInvariant, LaunchTypeOK, LaunchFrame
  <2>2. call[p].op \in {"resume", "accept_bypass", "transaction"}
    BY <1>2, <2>1 DEF InOrder, OperationOf, Loading, Phase
  <2>3. launch[p].conversation = call[p].conversation
    BY <2>1, <2>2 DEF InOrder, InItsMode
  <2> QED BY <1>2, <2>1, <2>2, <2>3 DEF InOrder, OperationOf, Phase
<1> QED BY <1>2, <1>3 DEF ModesAgree, InItsMode, Exists

\* No launch writes to a conversation of another mode: what LoadBound has looked
\* at stays true until the launch ends, whatever other processes do.
THEOREM WritesStayInMode == LaunchSpec => WritesInItsMode
<1> DEFINE Agreement == ServingInOrder /\ ModesAgree
<1>1. LaunchInit => Agreement
  BY InitInOrder DEF LaunchInit, Init, ModesAgree, InItsMode, NewLaunch, Idle
<1>2. /\ InductiveInvariant /\ BindingInvariant /\ Agreement /\ [LaunchNext]_launchVars
      => Agreement'
  BY StepInOrder, StepModes DEF InductiveInvariant
<1>3. InductiveInvariant /\ BindingInvariant /\ Agreement /\ [LaunchNext]_launchVars =>
        [\A p \in Process, c \in Conversation :
            Saves(p, c) => vault[c].mode = call[p].mode]_launchVars
  BY SaveInMode
<1>4. LaunchSpec => []Agreement
  BY <1>1, <1>2, LaunchKeepsLifecycle, BindingInvariantHolds, PTL DEF LaunchSpec
<1> QED
  BY <1>3, <1>4, LaunchKeepsLifecycle, BindingInvariantHolds, PTL DEF LaunchSpec, WritesInItsMode
=============================================================================
