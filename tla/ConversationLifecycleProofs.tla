---------------------- MODULE ConversationLifecycleProofs ----------------------
(***************************************************************************)
(* What ConversationLifecycle promises, for every number of processes,     *)
(* conversations, values and aliases, and without the bounds of the runs   *)
(* mattering to any step.                                                  *)
(***************************************************************************)
EXTENDS ConversationLifecycle, TLAPS

(***************************************************************************)
(* Type correctness.                                                       *)
(***************************************************************************)
LEMMA IdleType ==
    ASSUME NEW mode \in Mode, NEW result \in Status
    PROVE  Idle(mode, result) \in Frame
BY DEF Idle, Frame, Operation, Step, Direction, NoMappings, Table

LEMMA NewStateType ==
    ASSUME NEW mode \in Mode, NEW now \in Nat
    PROVE  NewState(mode, now) \in ConversationState
BY DEF NewState, ConversationState, Table

LEMMA NextRevisionType ==
    ASSUME NEW state \in ConversationState, NEW table \in Table,
           NEW bypassed \in BOOLEAN, NEW now \in Nat
    PROVE  NextRevision(state, table, bypassed, now) \in ConversationState
BY DEF NextRevision, ConversationState

\* A step that gives p a new frame keeps the type of call.
LEMMA ContinueType ==
    ASSUME TypeOK, NEW p \in Process, NEW frame \in Frame, Continue(p, frame)
    PROVE  call' \in [Process -> Frame]
BY DEF TypeOK, Continue

LEMMA ReturnType ==
    ASSUME TypeOK, NEW p \in Process, NEW status \in Status, Return(p, status)
    PROVE  call' \in [Process -> Frame]
<1>1. call[p].mode \in Mode
  BY DEF TypeOK, Frame
<1>2. Idle(call[p].mode, status) \in Frame
  BY <1>1, IdleType
<1> QED BY <1>2, ContinueType DEF Return

LEMMA FrameUpdateTypes ==
    ASSUME NEW frame \in Frame
    PROVE  /\ \A seen \in ConversationState, at \in Step :
                [frame EXCEPT !.seen = seen, !.at = at] \in Frame
           /\ \A now \in Nat, at \in Step : [frame EXCEPT !.now = now, !.at = at] \in Frame
           /\ \A at \in Step : [frame EXCEPT !.at = at] \in Frame
           /\ \A table \in Table, values \in SUBSET Original, at \in Step :
                [frame EXCEPT !.mappings = table, !.touched = values, !.at = at] \in Frame
           /\ \A ids \in SUBSET Conversation, at \in Step :
                [frame EXCEPT !.pending = ids, !.at = at] \in Frame
           /\ \A ids \in SUBSET Conversation : [frame EXCEPT !.pending = ids] \in Frame
BY DEF Frame

\* What the repository's operations do to the type of the vaults.
LEMMA RepositoryTypes ==
    ASSUME TypeOK, NEW c \in Conversation, NEW state \in ConversationState,
           NEW expected, NEW now, NEW r
    PROVE  /\ Create(c, state, r) => vault' \in [Conversation -> ConversationState \cup {None}]
           /\ Load(c, r) => vault' = vault
           /\ Save(c, state, expected, r) =>
                vault' \in [Conversation -> ConversationState \cup {None}]
BY DEF TypeOK, Create, Load, Save, Replace, Unavailable

LEMMA DeleteType ==
    ASSUME TypeOK, NEW c \in Conversation, NEW now, NEW r, DeleteIfInactive(c, now, r)
    PROVE  vault' \in [Conversation -> ConversationState \cup {None}]
BY DEF TypeOK, DeleteIfInactive, Unavailable

-----------------------------------------------------------------------------
(***************************************************************************)
(* Frames.  Typed says that every variable has its type and that every     *)
(* frame holds what the step it has reached relies on.                     *)
(***************************************************************************)
Typed == TypeOK /\ FramesOK /\ TablesInjective

LEMMA IdleFrame ==
    ASSUME NEW mode, NEW result
    PROVE  FrameOK(Idle(mode, result)) /\ Idle(mode, result).op = "none"
                                      /\ Idle(mode, result).seen = None
BY DEF FrameOK, Idle, Loading, Transforming

\* A step that replaces one frame and leaves the vaults typed keeps Typed.
LEMMA ContinueTyped ==
    ASSUME Typed, NEW p \in Process, NEW frame \in Frame, FrameOK(frame),
           Continue(p, frame), clock' \in Nat,
           vault' \in [Conversation -> ConversationState \cup {None}], TablesInjective',
           used' \subseteq Conversation, exchanged' \subseteq Substitution,
           rawPassed' \subseteq Conversation
    PROVE  Typed'
<1>1. TypeOK'
  BY ContinueType DEF Typed, TypeOK
<1>2. FramesOK'
  BY DEF Typed, TypeOK, FramesOK, Continue
<1> QED BY <1>1, <1>2 DEF Typed

LEMMA ReturnTyped ==
    ASSUME Typed, NEW p \in Process, NEW status \in Status, Return(p, status),
           clock' \in Nat,
           vault' \in [Conversation -> ConversationState \cup {None}], TablesInjective',
           used' \subseteq Conversation, exchanged' \subseteq Substitution,
           rawPassed' \subseteq Conversation
    PROVE  Typed'
<1>1. call[p].mode \in Mode
  BY DEF Typed, TypeOK, Frame
<1> QED BY <1>1, IdleType, IdleFrame, ContinueTyped DEF Return

\* The same for the steps that touch no vault and let nothing out.
LEMMA QuietTyped ==
    ASSUME Typed, NEW p \in Process, UNCHANGED <<vault, clock, used>>, NothingLeaves
    PROVE  /\ \A frame \in Frame : FrameOK(frame) /\ Continue(p, frame) => Typed'
           /\ \A status \in Status : Return(p, status) => Typed'
<1>1. TablesInjective'
  BY DEF Typed, TablesInjective, Exists
<1>2. /\ vault' \in [Conversation -> ConversationState \cup {None}] /\ clock' \in Nat
      /\ used' \subseteq Conversation /\ exchanged' \subseteq Substitution
      /\ rawPassed' \subseteq Conversation
  BY DEF Typed, TypeOK, NothingLeaves
<1> QED BY <1>1, <1>2, ContinueTyped, ReturnTyped

\* What the repository's operations do to the tables of the vaults.
LEMMA RepositoryTables ==
    ASSUME Typed, NEW c \in Conversation, NEW state \in ConversationState,
           Injective(state.mappings), NEW expected, NEW now, NEW r
    PROVE  Create(c, state, r) \/ Save(c, state, expected, r) => TablesInjective'
BY DEF Typed, TypeOK, TablesInjective, Exists, Create, Save, Replace, Unavailable

LEMMA DeleteTables ==
    ASSUME Typed, NEW c \in Conversation, NEW now, NEW r, DeleteIfInactive(c, now, r)
    PROVE  TablesInjective'
BY DEF Typed, TypeOK, TablesInjective, Exists, DeleteIfInactive, Unavailable

LEMMA BeginTyped ==
    ASSUME Typed, NEW p \in Process, NEW op \in Operation \ {"none"}, NEW step \in Step,
           NEW c \in Conversation \cup {None}, NEW direction \in Direction,
           op # "cleanup" => c \in Conversation,
           op \in Loading => step = "load",
           used' \subseteq Conversation, Begin(p, op, step, c, direction)
    PROVE  Typed'
<1> DEFINE f == [Idle(call[p].mode, "none") EXCEPT
                    !.op = op, !.at = step, !.conversation = c,
                    !.direction = direction, !.now = clock]
<1>1. call[p].mode \in Mode /\ clock \in Nat
  BY DEF Typed, TypeOK, Frame
<1>2. Idle(call[p].mode, "none") \in Frame
  BY <1>1, IdleType DEF Status
<1>3. f \in Frame
  BY <1>1, <1>2 DEF Frame
<1>4. /\ f.op = op /\ f.at = step /\ f.conversation = c /\ f.seen = None /\ f.touched = {}
  BY DEF Idle
<1>5. FrameOK(f)
  <2> HIDE DEF f
  <2> QED BY <1>4 DEF FrameOK, Loading, Operation, Transforming
<1>6. TablesInjective' /\ clock' \in Nat
  BY DEF Typed, TablesInjective, Exists, Begin, TypeOK
<1> QED
  <2>1. Continue(p, f) BY DEF Begin
  <2> HIDE DEF f
  <2> QED BY <2>1, <1>3, <1>5, <1>6, ContinueTyped DEF Typed, TypeOK, Begin, NothingLeaves

LEMMA LoadThenTyped ==
    ASSUME Typed, NEW p \in Process, NEW step \in Step \ {"load"},
           call[p].op \in Loading,
           call[p].op \in Transforming => step \notin {"stamp", "save"},
           LoadThen(p, step), UNCHANGED <<clock, used>>, NothingLeaves
    PROVE  Typed'
<1>1. PICK r \in {"ok", "vault-missing", "failed"} :
        /\ Load(call[p].conversation, r)
        /\ \/ /\ r = "ok"
              /\ Continue(p, [call[p] EXCEPT !.seen = vault[call[p].conversation], !.at = step])
           \/ r # "ok" /\ Return(p, IF r = "vault-missing" /\ call[p].op # "transaction"
                                     THEN "missing" ELSE "blocked")
  BY DEF LoadThen
<1>2. vault' = vault
  BY <1>1 DEF Load, Unavailable
<1>3. call[p] \in Frame /\ FrameOK(call[p]) /\ call[p].conversation \in Conversation
  BY DEF Typed, TypeOK, FramesOK, FrameOK
<1>4. CASE r = "ok"
  <2> DEFINE f == [call[p] EXCEPT !.seen = vault[call[p].conversation], !.at = step]
  <2>1. /\ vault[call[p].conversation] \in ConversationState
        /\ Injective(vault[call[p].conversation].mappings)
    BY <1>1, <1>3, <1>4 DEF Load, Unavailable, Exists, Typed, TypeOK, TablesInjective
  <2>2. f \in Frame
    BY <2>1, <1>3, FrameUpdateTypes
  <2>3. /\ f.op = call[p].op /\ f.at = step /\ f.conversation = call[p].conversation
        /\ f.seen = vault[call[p].conversation] /\ f.touched = call[p].touched
    BY <1>3 DEF Frame
  <2>4. FrameOK(f)
    <3> HIDE DEF f
    <3> QED BY <1>3, <2>1, <2>3, NoneIsNoState DEF FrameOK
  <2>5. Continue(p, f)
    BY <1>1, <1>4
  <2> HIDE DEF f
  <2> QED BY <1>2, <2>2, <2>4, <2>5, QuietTyped
<1>5. CASE r # "ok"
  BY <1>1, <1>2, <1>5, QuietTyped DEF Status
<1> QED BY <1>4, <1>5

-----------------------------------------------------------------------------
LEMMA WriteNewTyped ==
    ASSUME Typed, NEW p \in Process, WriteNew(p)
    PROVE  Typed'
<1> DEFINE s == NewState(call[p].mode, call[p].now)
<1>1. PICK r \in {"ok", "failed"} :
        /\ Create(call[p].conversation, s, r)
        /\ Return(p, IF r = "ok" THEN "protected" ELSE "blocked")
  BY DEF WriteNew
<1>2. /\ call[p] \in Frame /\ FrameOK(call[p]) /\ call[p].conversation \in Conversation
      /\ call[p].mode \in Mode /\ call[p].now \in Nat
  BY DEF WriteNew, At, Typed, TypeOK, FramesOK, FrameOK, Frame
<1>3. s \in ConversationState
  BY <1>2, NewStateType
<1>4. Injective(s.mappings)
  BY DEF NewState, Injective
<1>5. vault' \in [Conversation -> ConversationState \cup {None}] /\ TablesInjective'
  <2> HIDE DEF s
  <2> QED BY <1>1, <1>2, <1>3, <1>4, RepositoryTypes, RepositoryTables DEF Typed
<1> QED
  BY <1>1, <1>5, ReturnTyped DEF WriteNew, NothingLeaves, Typed, TypeOK, Status

LEMMA AfterLoadStep ==
    ASSUME NEW op \in Loading
    PROVE  /\ AfterLoad(op) \in Step \ {"load"}
           /\ op \in Transforming => AfterLoad(op) = "transform"
           /\ op = "resume" => AfterLoad(op) = "save"
           /\ op = "accept_bypass" => AfterLoad(op) = "stamp"
BY DEF AfterLoad, Loading, Transforming, Step

\* A step that only reads the clock or moves on keeps what its frame holds.
LEMMA MoveFrame ==
    ASSUME NEW frame \in Frame, FrameOK(frame), frame.op \in Loading, frame.seen # None,
           NEW now \in Nat, NEW at \in Step \ {"load"},
           frame.op \in Transforming => at \notin {"stamp", "save"}
    PROVE  /\ [frame EXCEPT !.now = now, !.at = at] \in Frame
           /\ FrameOK([frame EXCEPT !.now = now, !.at = at])
           /\ [frame EXCEPT !.at = at] \in Frame
           /\ FrameOK([frame EXCEPT !.at = at])
<1> DEFINE f == [frame EXCEPT !.now = now, !.at = at]
           g == [frame EXCEPT !.at = at]
<1>1. f \in Frame /\ g \in Frame
  BY FrameUpdateTypes
<1>2. /\ f.op = frame.op /\ f.at = at /\ f.conversation = frame.conversation
      /\ f.seen = frame.seen /\ f.touched = frame.touched
  BY DEF Frame
<1>3. /\ g.op = frame.op /\ g.at = at /\ g.conversation = frame.conversation
      /\ g.seen = frame.seen /\ g.touched = frame.touched
  BY DEF Frame
<1>4. FrameOK(f) /\ FrameOK(g)
  <2> HIDE DEF f, g
  <2> QED BY <1>2, <1>3 DEF FrameOK
<1> QED BY <1>1, <1>4

LEMMA CheckExpiryTyped ==
    ASSUME Typed, NEW p \in Process, CheckExpiry(p)
    PROVE  Typed'
<1>1. /\ call[p] \in Frame /\ FrameOK(call[p]) /\ call[p].op \in Loading
      /\ call[p].seen # None /\ clock \in Nat
  BY DEF CheckExpiry, At, Typed, TypeOK, FramesOK, FrameOK
<1>2. AfterLoad(call[p].op) \in Step \ {"load"}
      /\ (call[p].op \in Transforming => AfterLoad(call[p].op) = "transform")
  BY <1>1, AfterLoadStep
<1>3. CASE Continue(p, [call[p] EXCEPT !.now = clock, !.at = AfterLoad(call[p].op)])
  BY <1>1, <1>2, <1>3, MoveFrame, QuietTyped DEF CheckExpiry
<1>4. CASE Continue(p, [call[p] EXCEPT !.now = clock, !.at = "expire"])
  <2>1. "expire" \in Step \ {"load"} BY DEF Step
  <2> QED BY <1>1, <1>4, <2>1, MoveFrame, QuietTyped DEF CheckExpiry
<1>5. CASE Return(p, "blocked")
  BY <1>5, QuietTyped DEF CheckExpiry, Status
<1> QED BY <1>3, <1>4, <1>5 DEF CheckExpiry

LEMMA ExpireTyped ==
    ASSUME Typed, NEW p \in Process, Expire(p)
    PROVE  Typed'
<1>1. PICK r \in {"deleted", "kept", "failed"} :
        /\ DeleteIfInactive(call[p].conversation, call[p].now, r)
        /\ \/ r = "deleted" /\ Return(p, "expired")
           \/ r = "kept" /\ Continue(p, [call[p] EXCEPT !.at = "reload"])
           \/ r = "failed" /\ Return(p, IF call[p].op = "resume" THEN "raised" ELSE "blocked")
  BY DEF Expire
<1>2. /\ call[p] \in Frame /\ FrameOK(call[p]) /\ call[p].op \in Loading
      /\ call[p].seen # None /\ call[p].conversation \in Conversation /\ call[p].now \in Nat
  BY DEF Expire, At, Typed, TypeOK, FramesOK, FrameOK, Frame
<1>3. /\ vault' \in [Conversation -> ConversationState \cup {None}] /\ TablesInjective'
      /\ clock' \in Nat /\ used' \subseteq Conversation
      /\ exchanged' \subseteq Substitution /\ rawPassed' \subseteq Conversation
  BY <1>1, <1>2, DeleteType, DeleteTables DEF Typed, Expire, NothingLeaves, TypeOK
<1>4. CASE r = "kept"
  <2>1. "reload" \in Step \ {"load"} /\ "reload" \notin {"stamp", "save"} BY DEF Step
  <2>2. /\ [call[p] EXCEPT !.at = "reload"] \in Frame
        /\ FrameOK([call[p] EXCEPT !.at = "reload"])
    BY <1>2, <2>1, MoveFrame
  <2> QED BY <1>1, <1>3, <1>4, <2>2, ContinueTyped
<1>5. CASE r # "kept"
  <2>1. \E status \in {"expired", "raised", "blocked"} : Return(p, status)
    BY <1>1, <1>5
  <2> QED BY <1>3, <2>1, ReturnTyped DEF Status
<1> QED BY <1>4, <1>5

LEMMA LoadsTyped ==
    ASSUME Typed, NEW p \in Process
    PROVE  (LoadVault(p) => Typed') /\ (Reload(p) => Typed')
<1>1. ASSUME LoadVault(p) PROVE Typed'
  BY <1>1, LoadThenTyped DEF LoadVault, At, Step
<1>2. ASSUME Reload(p) PROVE Typed'
  <2>1. call[p].op \in Loading /\ LoadThen(p, AfterLoad(call[p].op))
    BY <1>2 DEF Reload, At
  <2>2. /\ AfterLoad(call[p].op) \in Step \ {"load"}
        /\ call[p].op \in Transforming => AfterLoad(call[p].op) = "transform"
    BY <2>1, AfterLoadStep
  <2> QED BY <1>2, <2>1, <2>2, LoadThenTyped DEF Reload
<1> QED BY <1>1, <1>2

LEMMA StageTyped ==
    ASSUME Typed, NEW p \in Process, At(p, Transforming, "transform"),
           NEW table \in Table, NEW values \in SUBSET Original,
           Extends(call[p].seen.mappings, table), Injective(table),
           \A o \in values : table[o] # None,
           Stage(p, table, values), UNCHANGED <<vault, clock, used>>, NothingLeaves
    PROVE  Typed'
<1> DEFINE f == [call[p] EXCEPT !.mappings = table, !.touched = values,
                               !.at = AfterTransform(call[p].op)]
<1>1. /\ call[p] \in Frame /\ FrameOK(call[p]) /\ call[p].op \in Transforming
      /\ call[p].seen # None /\ call[p].op \in Loading
  BY DEF At, Typed, TypeOK, FramesOK, FrameOK, Loading, Transforming
<1>2. AfterTransform(call[p].op) \in {"stamp", "save"}
  BY DEF AfterTransform
<1>3. f \in Frame
  BY <1>1, <1>2, FrameUpdateTypes DEF Step
<1>4. /\ f.op = call[p].op /\ f.at = AfterTransform(call[p].op)
      /\ f.conversation = call[p].conversation /\ f.seen = call[p].seen
      /\ f.touched = values /\ f.mappings = table
  BY <1>1 DEF Frame
<1>5. FrameOK(f)
  <2> HIDE DEF f
  <2> QED BY <1>1, <1>2, <1>4 DEF FrameOK
<1>6. Continue(p, f)
  BY DEF Stage
<1> HIDE DEF f
<1> QED BY <1>3, <1>5, <1>6, QuietTyped

\* A table extends itself, and what allocation leaves extends what it was given.
LEMMA AllocationFacts ==
    ASSUME NEW table \in Table, NEW text \in SUBSET Original,
           NEW larger \in Allocations(table, text)
    PROVE  /\ larger \in Table /\ Injective(larger) /\ Extends(table, larger)
           /\ \A o \in text : larger[o] # None
           /\ Extends(table, table)
BY DEF Allocations, Extends

LEMMA TransformTyped ==
    ASSUME Typed, NEW p \in Process, Transform(p)
    PROVE  Typed'
<1> DEFINE seen == call[p].seen
           known == {o \in Original : seen.mappings[o] # None}
<1>1. /\ At(p, Transforming, "transform") /\ UNCHANGED <<vault, clock, used>> /\ NothingLeaves
  BY DEF Transform
<1>2. seen \in ConversationState /\ Injective(seen.mappings)
  BY <1>1 DEF At, Typed, TypeOK, FramesOK, FrameOK, Frame, Loading, Transforming
<1>3. seen.mappings \in Table /\ Extends(seen.mappings, seen.mappings)
  BY <1>2 DEF ConversationState, Extends
<1>4. CASE Stage(p, seen.mappings, {})
  BY <1>1, <1>2, <1>3, <1>4, StageTyped
<1>5. CASE \E text \in SUBSET Original :
             \E table \in Allocations(seen.mappings, text) : Stage(p, table, text)
  <2>1. PICK text \in SUBSET Original :
          \E table \in Allocations(seen.mappings, text) : Stage(p, table, text)
    BY <1>5
  <2>2. PICK table \in Allocations(seen.mappings, text) : Stage(p, table, text)
    BY <2>1
  <2>3. /\ table \in Table /\ Injective(table) /\ Extends(seen.mappings, table)
        /\ \A o \in text : table[o] # None
    BY <1>3, AllocationFacts
  <2> QED BY <1>1, <2>2, <2>3, StageTyped
<1>6. CASE \E values \in SUBSET known : Stage(p, seen.mappings, values)
  <2>1. PICK values \in SUBSET known : Stage(p, seen.mappings, values)
    BY <1>6
  <2>2. values \in SUBSET Original /\ \A o \in values : seen.mappings[o] # None
    OBVIOUS
  <2> QED BY <1>1, <1>2, <1>3, <2>1, <2>2, StageTyped
<1> QED BY <1>4, <1>5, <1>6 DEF Transform

LEMMA StampTyped ==
    ASSUME Typed, NEW p \in Process, Stamp(p)
    PROVE  Typed'
<1> DEFINE f == [call[p] EXCEPT !.now = clock, !.at = "save"]
<1>1. /\ call[p] \in Frame /\ FrameOK(call[p]) /\ call[p].at = "stamp" /\ clock \in Nat
      /\ call[p].op \in Loading
  BY DEF Stamp, At, Typed, TypeOK, FramesOK, Loading
<1>2. f \in Frame
  BY <1>1, FrameUpdateTypes DEF Step
<1>3. /\ f.op = call[p].op /\ f.at = "save" /\ f.conversation = call[p].conversation
      /\ f.seen = call[p].seen /\ f.touched = call[p].touched /\ f.mappings = call[p].mappings
  BY <1>1 DEF Frame
<1>4. FrameOK(f)
  <2> HIDE DEF f
  <2> QED BY <1>1, <1>3 DEF FrameOK
<1>5. Continue(p, f)
  BY DEF Stamp
<1> HIDE DEF f
<1> QED BY <1>2, <1>4, <1>5, QuietTyped DEF Stamp

\* What an operation saves is a state that extends what it has seen.
LEMMA UpdatedFacts ==
    ASSUME NEW frame \in Frame, FrameOK(frame), frame.op \in Loading, frame.at = "save"
    PROVE  /\ frame.seen \in ConversationState
           /\ Updated(frame) \in ConversationState
           /\ Updated(frame).revision = frame.seen.revision + 1
           /\ Updated(frame).last_activity = frame.now
           /\ Updated(frame).mode = frame.seen.mode
           /\ frame.seen.bypassed => Updated(frame).bypassed
           /\ Injective(Updated(frame).mappings)
           /\ Extends(frame.seen.mappings, Updated(frame).mappings)
           /\ frame.op \in Transforming => Updated(frame).mappings = frame.mappings
<1>1. frame.seen \in ConversationState
  BY DEF FrameOK, Frame
<1> DEFINE table == IF frame.op \in Transforming THEN frame.mappings ELSE frame.seen.mappings
<1>2. table \in Table /\ Injective(table) /\ Extends(frame.seen.mappings, table)
  BY <1>1 DEF FrameOK, Frame, ConversationState, Extends
<1>3. Updated(frame) \in ConversationState
  BY <1>1, <1>2, NextRevisionType DEF Updated, Frame, ConversationState
<1>4. Updated(frame).mappings = table
  BY DEF Updated, NextRevision
<1> QED BY <1>1, <1>2, <1>3, <1>4 DEF Updated, NextRevision

LEMMA SubstitutionsType ==
    ASSUME NEW frame \in Frame, FrameOK(frame), frame.op \in Loading, frame.at = "save"
    PROVE  Substitutions(frame) \subseteq Substitution
<1>1. SUFFICES ASSUME NEW o \in frame.touched
               PROVE  [conversation |-> frame.conversation, original |-> o,
                       alias |-> frame.mappings[o]] \in Substitution
  BY DEF Substitutions
<1>2. frame.conversation \in Conversation /\ o \in Original /\ frame.mappings[o] \in Alias
  BY DEF FrameOK, Frame, Table
<1> QED BY <1>2 DEF Substitution

LEMMA SaveStateTyped ==
    ASSUME Typed, NEW p \in Process, SaveState(p)
    PROVE  Typed'
<1> DEFINE frame == call[p]
<1>1. PICK r \in {"ok", "vault-missing", "failed"} :
        /\ Save(frame.conversation, Updated(frame), frame.seen.revision, r)
        /\ \/ /\ r = "ok"
              /\ Return(p, SavedStatus(frame))
              /\ exchanged' = exchanged \cup Substitutions(frame)
              /\ rawPassed' = IF frame.op \in Transforming /\ frame.seen.bypassed
                              THEN rawPassed \cup {frame.conversation}
                              ELSE rawPassed
           \/ r # "ok" /\ Return(p, "blocked") /\ NothingLeaves
  BY DEF SaveState
<1>2. /\ frame \in Frame /\ FrameOK(frame) /\ frame.op \in Loading /\ frame.at = "save"
      /\ frame.conversation \in Conversation
      /\ exchanged \subseteq Substitution /\ rawPassed \subseteq Conversation
  BY DEF SaveState, At, Typed, TypeOK, FramesOK, FrameOK
<1>3. Updated(frame) \in ConversationState /\ Injective(Updated(frame).mappings)
  BY <1>2, UpdatedFacts
<1>4. vault' \in [Conversation -> ConversationState \cup {None}] /\ TablesInjective'
  <2> HIDE DEF frame
  <2> QED BY <1>1, <1>2, <1>3, RepositoryTypes, RepositoryTables DEF Typed
<1>5. /\ exchanged' \subseteq Substitution /\ rawPassed' \subseteq Conversation
      /\ clock' \in Nat /\ used' \subseteq Conversation
  BY <1>1, <1>2, SubstitutionsType DEF NothingLeaves, SaveState, Typed, TypeOK
<1>6. \E status \in Status : Return(p, status)
  BY <1>1 DEF SavedStatus, Status
<1> QED BY <1>4, <1>5, <1>6, ReturnTyped

LEMMA CleanupTyped ==
    ASSUME Typed, NEW p \in Process
    PROVE  /\ ListVaults(p) => Typed'
           /\ Sweep(p) => Typed'
           /\ EndCleanup(p) => Typed'
<1>1. ASSUME ListVaults(p) PROVE Typed'
  <2>1. /\ call[p] \in Frame /\ FrameOK(call[p]) /\ call[p].op = "cleanup"
    BY <1>1 DEF ListVaults, At, Typed, TypeOK, FramesOK
  <2>2. PICK ids \in SUBSET Conversation, r \in {"ok", "failed"} :
          /\ ConversationIds(ids, r)
          /\ \/ r = "ok" /\ Continue(p, [call[p] EXCEPT !.pending = ids, !.at = "sweep"])
             \/ r = "failed" /\ Return(p, "raised")
    BY <1>1 DEF ListVaults
  <2>3. vault' = vault
    BY <2>2 DEF ConversationIds, Unavailable
  <2> DEFINE f == [call[p] EXCEPT !.pending = ids, !.at = "sweep"]
  <2>4. f \in Frame
    BY <2>1, FrameUpdateTypes DEF Step
  <2>5. f.op = call[p].op /\ f.seen = call[p].seen /\ f.touched = call[p].touched
    BY <2>1 DEF Frame
  <2>6. FrameOK(f)
    <3> HIDE DEF f
    <3> QED BY <2>1, <2>5 DEF FrameOK, Loading, Transforming
  <2>7. Continue(p, f) \/ Return(p, "raised")
    BY <2>2
  <2> HIDE DEF f
  <2> QED BY <1>1, <2>3, <2>4, <2>6, <2>7, QuietTyped DEF ListVaults, Status
<1>2. ASSUME Sweep(p) PROVE Typed'
  <2>1. /\ call[p] \in Frame /\ FrameOK(call[p]) /\ call[p].op = "cleanup"
    BY <1>2 DEF Sweep, At, Typed, TypeOK, FramesOK
  <2>2. PICK c \in call[p].pending, r \in {"deleted", "kept", "failed"} :
          /\ DeleteIfInactive(c, call[p].now, r)
          /\ \/ r # "failed" /\ Continue(p, [call[p] EXCEPT !.pending = @ \ {c}])
             \/ r = "failed" /\ Return(p, "raised")
    BY <1>2 DEF Sweep
  <2> DEFINE ids == call[p].pending \ {c}
             f == [call[p] EXCEPT !.pending = ids]
  <2>3. c \in Conversation /\ ids \in SUBSET Conversation /\ f \in Frame
    BY <2>1, FrameUpdateTypes DEF Frame
  <2>4. f.op = call[p].op /\ f.seen = call[p].seen /\ f.touched = call[p].touched
    BY <2>1 DEF Frame
  <2>5. FrameOK(f)
    <3> HIDE DEF f
    <3> QED BY <2>1, <2>4 DEF FrameOK, Loading, Transforming
  <2>6. /\ vault' \in [Conversation -> ConversationState \cup {None}] /\ TablesInjective'
        /\ clock' \in Nat /\ used' \subseteq Conversation
        /\ exchanged' \subseteq Substitution /\ rawPassed' \subseteq Conversation
    BY <1>2, <2>2, <2>3, DeleteType, DeleteTables DEF Typed, Sweep, NothingLeaves, TypeOK
  <2>7. Continue(p, f) \/ Return(p, "raised")
    BY <2>2
  <2> HIDE DEF f
  <2> QED BY <2>3, <2>5, <2>6, <2>7, ContinueTyped, ReturnTyped DEF Status
<1>3. ASSUME EndCleanup(p) PROVE Typed'
  BY <1>3, QuietTyped DEF EndCleanup, Status
<1> QED BY <1>1, <1>2, <1>3

LEMMA BeginOperationTyped ==
    ASSUME Typed, NEW p \in Process, BeginOperation(p)
    PROVE  Typed'
<1>1. CASE BeginCleanup(p)
  BY <1>1, BeginTyped DEF BeginCleanup, Typed, TypeOK, Operation, Step, Direction, Loading
<1>2. ASSUME NEW c \in Conversation, BeginCreate(p, c)
      PROVE  Typed'
  BY <1>2, BeginTyped DEF BeginCreate, Typed, TypeOK, Operation, Step, Direction, Loading
<1>3. ASSUME NEW c \in Conversation, BeginResume(p, c)
      PROVE  Typed'
  BY <1>3, BeginTyped DEF BeginResume, Typed, TypeOK, Operation, Step, Direction
<1>4. ASSUME NEW c \in Conversation, NEW accepted \in BOOLEAN, BeginAcceptBypass(p, c, accepted)
      PROVE  Typed'
  <2>1. CASE Begin(p, "accept_bypass", "load", c, "to_provider")
    BY <1>4, <2>1, BeginTyped
       DEF BeginAcceptBypass, Typed, TypeOK, Operation, Step, Direction
  <2>2. CASE Return(p, "blocked") /\ UNCHANGED <<vault, clock>> /\ NothingLeaves
    BY <1>4, <2>2, QuietTyped DEF BeginAcceptBypass, Status
  <2> QED BY <1>4, <2>1, <2>2 DEF BeginAcceptBypass
<1>5. ASSUME NEW c \in Conversation, NEW direction \in Direction,
             BeginProcess(p, c, direction) \/ BeginTransaction(p, c, direction)
      PROVE  Typed'
  BY <1>5, BeginTyped DEF BeginProcess, BeginTransaction, Typed, TypeOK, Operation, Step
<1> QED BY <1>1, <1>2, <1>3, <1>4, <1>5 DEF BeginOperation

LEMMA NextTyped == Typed /\ [Next]_vars => Typed'
<1> SUFFICES ASSUME Typed, [Next]_vars PROVE Typed'
  OBVIOUS
<1>1. ASSUME NEW p \in Process, BeginOperation(p) PROVE Typed'
  BY <1>1, BeginOperationTyped
<1>2. ASSUME NEW p \in Process, Advance(p) PROVE Typed'
  <2>1. RefuseText(p) \/ DropTransaction(p) => Typed'
    BY QuietTyped DEF RefuseText, DropTransaction, Status
  <2> QED
    BY <1>2, <2>1, WriteNewTyped, LoadsTyped, CheckExpiryTyped, ExpireTyped, TransformTyped,
       StampTyped, SaveStateTyped, CleanupTyped DEF Advance
<1>3. ASSUME NEW p \in Process, Crash(p) PROVE Typed'
  BY <1>3, QuietTyped DEF Crash, Status
<1>4. CASE Tick
  BY <1>4 DEF Tick, NothingLeaves, Typed, TypeOK, FramesOK, TablesInjective, Exists
<1>5. CASE UNCHANGED vars
  BY <1>5 DEF vars, Typed, TypeOK, FramesOK, TablesInjective, Exists
<1> QED BY <1>1, <1>2, <1>3, <1>4, <1>5 DEF Next

LEMMA InitTyped == Init => Typed
<1> SUFFICES ASSUME Init PROVE Typed
  OBVIOUS
<1>1. call \in [Process -> Frame] /\ FramesOK
  BY IdleType, IdleFrame DEF Init, Status, FramesOK
<1>2. TablesInjective
  BY DEF Init, TablesInjective, Exists
<1> QED BY <1>1, <1>2 DEF Init, Typed, TypeOK

\* Type correctness: in every reachable state every variable has its type
\* and every process's frame holds what its step relies on.
THEOREM TypeCorrect == Spec => []TypeOK
<1>1. Spec => []Typed
  BY InitTyped, NextTyped, PTL DEF Spec
<1>2. Typed => TypeOK
  BY DEF Typed
<1> QED BY <1>1, <1>2, PTL

-----------------------------------------------------------------------------
(***************************************************************************)
(* The inductive invariant.  Its heart is SnapshotsAreCurrent: revisions   *)
(* only grow while a vault exists, and CreatedIsFresh keeps a snapshot     *)
(* from outliving its vault into a new one of the same identifier.  So the *)
(* revision that save compares stands for the whole state, and what the    *)
(* operation adds is added to what the vault holds.                        *)
(***************************************************************************)
Shared ==
    /\ KnownAreUsed
    /\ CreatedIsFresh
    /\ SnapshotsAreCurrent
    /\ ExchangedIsRestorable
    /\ AliasDenotesOneOriginal
    /\ RawOnlyUnderRecordedBypass

LEMMA InductiveParts == InductiveInvariant <=> Typed /\ Shared
BY DEF InductiveInvariant, Typed, Shared

\* Steps that at most delete vaults and let nothing out: the new frame of p
\* keeps its snapshot, drops it, or has just loaded the vault.
LEMMA PlainStep ==
    ASSUME Typed, Typed', Shared, NEW p \in Process, NEW frame, Continue(p, frame),
           frame.op # "create",
           \/ frame.seen = None
           \/ frame.seen = call[p].seen /\ frame.conversation = call[p].conversation
           \/ /\ frame.conversation \in Conversation
              /\ Exists(frame.conversation)
              /\ frame.seen = vault[frame.conversation]
              /\ vault' = vault,
           \A c \in Conversation : vault'[c] = vault[c] \/ vault'[c] = None,
           UNCHANGED used, NothingLeaves
    PROVE  Shared'
<1>1. /\ call \in [Process -> Frame] /\ vault \in [Conversation -> ConversationState \cup {None}]
      /\ exchanged \subseteq Substitution /\ rawPassed \subseteq Conversation
  BY DEF Typed, TypeOK
<1>2. call'[p] = frame /\ \A q \in Process : q # p => call'[q] = call[q]
  BY <1>1 DEF Continue
<1>3. frame \in Frame /\ FrameOK(frame)
  BY <1>2 DEF Typed, TypeOK, FramesOK
<1>4. exchanged' = exchanged /\ rawPassed' = rawPassed
  BY DEF NothingLeaves
<1>5. \A c \in Conversation : Exists(c)' => Exists(c) /\ vault'[c] = vault[c]
  BY DEF Exists
<1>6. KnownAreUsed'
  BY <1>1, <1>2, <1>4, <1>5 DEF Shared, KnownAreUsed
<1>7. CreatedIsFresh'
  <2>1. ASSUME NEW q \in Process, call'[q].op = "create"
        PROVE  /\ NothingUnder(call[q].conversation)'
               /\ \A o \in Process : call'[o].conversation = call'[q].conversation =>
                    call'[o].seen = None /\ (o # q => call'[o].op # "create")
    <3>1. q # p /\ call'[q] = call[q] /\ call[q].op = "create"
      BY <1>2, <2>1
    <3>2. call[q].conversation \in Conversation
      BY <3>1 DEF Typed, FramesOK, FrameOK
    <3>3. NothingUnder(call[q].conversation)
      BY <3>1 DEF Shared, CreatedIsFresh
    <3>4. NothingUnder(call[q].conversation)'
      BY <1>4, <1>5, <3>1, <3>2, <3>3 DEF NothingUnder
    <3>5. ASSUME NEW o \in Process, call'[o].conversation = call[q].conversation
          PROVE  call'[o].seen = None /\ (o # q => call'[o].op # "create")
      <4>1. CASE o = p
        BY <1>2, <3>1, <3>2, <3>3, <3>5, <4>1 DEF Shared, CreatedIsFresh, NothingUnder
      <4>2. CASE o # p
        BY <1>2, <3>1, <3>5, <4>2 DEF Shared, CreatedIsFresh
      <4> QED BY <4>1, <4>2
    <3> QED BY <3>1, <3>4, <3>5
  <2> QED BY <2>1 DEF CreatedIsFresh
<1>8. SnapshotsAreCurrent'
  <2>1. ASSUME NEW q \in Process, call'[q].seen # None, Exists(call[q].conversation)'
        PROVE  IsCurrent(call'[q].seen, vault'[call'[q].conversation])
    <3>1. call'[q].conversation \in Conversation
      BY <1>2, <2>1 DEF Typed, FramesOK, FrameOK
    <3>2. /\ Exists(call'[q].conversation)
          /\ vault'[call'[q].conversation] = vault[call'[q].conversation]
      BY <1>5, <2>1, <3>1
    <3>3. CASE call'[q].seen = call[q].seen /\ call'[q].conversation = call[q].conversation
      BY <2>1, <3>2, <3>3 DEF Shared, SnapshotsAreCurrent
    <3>4. CASE q = p /\ frame.seen = vault[frame.conversation]
      <4>1. vault[frame.conversation] \in ConversationState
        BY <1>1, <1>2, <3>1, <3>2, <3>4 DEF Exists
      <4> QED BY <1>2, <3>2, <3>4, <4>1 DEF ConversationState, IsCurrent
    <3> QED BY <1>2, <2>1, <3>3, <3>4
  <2> QED BY <2>1 DEF SnapshotsAreCurrent
<1>9. ExchangedIsRestorable' /\ AliasDenotesOneOriginal' /\ RawOnlyUnderRecordedBypass'
  BY <1>1, <1>4, <1>5
     DEF Shared, ExchangedIsRestorable, AliasDenotesOneOriginal, RawOnlyUnderRecordedBypass,
         Substitution
<1> QED BY <1>6, <1>7, <1>8, <1>9 DEF Shared

LEMMA PlainReturn ==
    ASSUME Typed, Typed', Shared, NEW p \in Process, NEW status, Return(p, status),
           \A c \in Conversation : vault'[c] = vault[c] \/ vault'[c] = None,
           UNCHANGED used, NothingLeaves
    PROVE  Shared'
BY IdleFrame, PlainStep DEF Return

LEMMA DeleteOnly ==
    ASSUME Typed, NEW c \in Conversation, NEW now, NEW r, DeleteIfInactive(c, now, r)
    PROVE  \A d \in Conversation : vault'[d] = vault[d] \/ vault'[d] = None
BY DEF Typed, TypeOK, DeleteIfInactive, Unavailable

LEMMA BeginPlain ==
    ASSUME Typed, Typed', Shared, NEW p \in Process, NEW op \in Operation \ {"none", "create"},
           NEW step, NEW c, NEW direction, Begin(p, op, step, c, direction), UNCHANGED used
    PROVE  Shared'
<1> DEFINE f == [Idle(call[p].mode, "none") EXCEPT
                    !.op = op, !.at = step, !.conversation = c,
                    !.direction = direction, !.now = clock]
<1>1. f.op = op /\ f.seen = None
  BY DEF Idle
<1>2. Continue(p, f) /\ vault' = vault /\ NothingLeaves
  BY DEF Begin
<1> HIDE DEF f
<1> QED BY <1>1, <1>2, PlainStep

LEMMA LoadThenPlain ==
    ASSUME Typed, Typed', Shared, NEW p \in Process, NEW step, call[p].op \in Loading,
           LoadThen(p, step), UNCHANGED used, NothingLeaves
    PROVE  Shared'
<1>1. PICK r \in {"ok", "vault-missing", "failed"} :
        /\ Load(call[p].conversation, r)
        /\ \/ /\ r = "ok"
              /\ Continue(p, [call[p] EXCEPT !.seen = vault[call[p].conversation], !.at = step])
           \/ r # "ok" /\ Return(p, IF r = "vault-missing" /\ call[p].op # "transaction"
                                     THEN "missing" ELSE "blocked")
  BY DEF LoadThen
<1>2. vault' = vault
  BY <1>1 DEF Load, Unavailable
<1>3. CASE r = "ok"
  <2> DEFINE f == [call[p] EXCEPT !.seen = vault[call[p].conversation], !.at = step]
  <2>1. Exists(call[p].conversation)
    BY <1>1, <1>3 DEF Load, Unavailable
  <2>2. call[p] \in Frame /\ call[p].conversation \in Conversation
    BY DEF Typed, TypeOK, FramesOK, FrameOK
  <2>3. /\ f.op = call[p].op /\ f.conversation = call[p].conversation
        /\ f.seen = vault[call[p].conversation]
    BY <2>2 DEF Frame
  <2>4. Continue(p, f)
    BY <1>1, <1>3
  <2>5. f.op # "create"
    BY <2>3 DEF Loading
  <2> HIDE DEF f
  <2> QED BY <1>2, <2>1, <2>2, <2>3, <2>4, <2>5, PlainStep
<1>4. CASE r # "ok"
  BY <1>1, <1>2, <1>4, PlainReturn
<1> QED BY <1>3, <1>4

\* Steps that change a frame and nothing else keep the snapshot.
LEMMA LocalSteps ==
    ASSUME Typed, Typed', Shared, NEW p \in Process
    PROVE  /\ CheckExpiry(p) => Shared'
           /\ Transform(p) => Shared'
           /\ Stamp(p) => Shared'
           /\ ListVaults(p) => Shared'
<1>1. call[p] \in Frame
  BY DEF Typed, TypeOK
<1>2. ASSUME CheckExpiry(p) PROVE Shared'
  <2>1. vault' = vault /\ used' = used /\ NothingLeaves /\ call[p].op # "create"
    BY <1>2 DEF CheckExpiry, At, Loading
  <2>2. ASSUME NEW at, Continue(p, [call[p] EXCEPT !.now = clock, !.at = at]) PROVE Shared'
    <3> DEFINE f == [call[p] EXCEPT !.now = clock, !.at = at]
    <3>1. f.op = call[p].op /\ f.conversation = call[p].conversation /\ f.seen = call[p].seen
      BY <1>1 DEF Frame
    <3>2. Continue(p, f)
      BY <2>2
    <3> HIDE DEF f
    <3> QED BY <2>1, <3>1, <3>2, PlainStep
  <2> QED BY <1>2, <2>1, <2>2, PlainReturn DEF CheckExpiry
<1>3. ASSUME Transform(p) PROVE Shared'
  <2>1. vault' = vault /\ used' = used /\ NothingLeaves /\ call[p].op # "create"
    BY <1>3 DEF Transform, At, Transforming
  <2>2. ASSUME NEW table, NEW values, Stage(p, table, values) PROVE Shared'
    <3> DEFINE f == [call[p] EXCEPT !.mappings = table, !.touched = values,
                                   !.at = AfterTransform(call[p].op)]
    <3>1. f.op = call[p].op /\ f.conversation = call[p].conversation /\ f.seen = call[p].seen
      BY <1>1 DEF Frame
    <3>2. Continue(p, f)
      BY <2>2 DEF Stage
    <3> HIDE DEF f
    <3> QED BY <2>1, <3>1, <3>2, PlainStep
  <2> QED BY <1>3, <2>2 DEF Transform
<1>4. ASSUME Stamp(p) PROVE Shared'
  <2> DEFINE f == [call[p] EXCEPT !.now = clock, !.at = "save"]
  <2>1. vault' = vault /\ used' = used /\ NothingLeaves /\ call[p].op # "create"
    BY <1>4 DEF Stamp, At
  <2>2. f.op = call[p].op /\ f.conversation = call[p].conversation /\ f.seen = call[p].seen
    BY <1>1 DEF Frame
  <2>3. Continue(p, f)
    BY <1>4 DEF Stamp
  <2> HIDE DEF f
  <2> QED BY <2>1, <2>2, <2>3, PlainStep
<1>5. ASSUME ListVaults(p) PROVE Shared'
  <2>1. PICK ids \in SUBSET Conversation, r \in {"ok", "failed"} :
          /\ ConversationIds(ids, r)
          /\ \/ r = "ok" /\ Continue(p, [call[p] EXCEPT !.pending = ids, !.at = "sweep"])
             \/ r = "failed" /\ Return(p, "raised")
    BY <1>5 DEF ListVaults
  <2> DEFINE f == [call[p] EXCEPT !.pending = ids, !.at = "sweep"]
  <2>2. vault' = vault /\ used' = used /\ NothingLeaves /\ call[p].op # "create"
    BY <1>5, <2>1 DEF ListVaults, At, ConversationIds, Unavailable
  <2>3. f.op = call[p].op /\ f.conversation = call[p].conversation /\ f.seen = call[p].seen
    BY <1>1 DEF Frame
  <2>4. Continue(p, f) \/ Return(p, "raised")
    BY <2>1
  <2> HIDE DEF f
  <2> QED BY <2>2, <2>3, <2>4, PlainStep, PlainReturn
<1> QED BY <1>2, <1>3, <1>4, <1>5

\* An identifier that was never used has no vault, no snapshot and no creator.
LEMMA BeginCreateShared ==
    ASSUME Typed, Typed', Shared, NEW p \in Process, NEW c \in Conversation, BeginCreate(p, c)
    PROVE  Shared'
<1> DEFINE f == [Idle(call[p].mode, "none") EXCEPT
                    !.op = "create", !.at = "write", !.conversation = c,
                    !.direction = "to_provider", !.now = clock]
<1>1. f.op = "create" /\ f.conversation = c /\ f.seen = None
  BY DEF Idle
<1>2. /\ call' = [call EXCEPT ![p] = f] /\ vault' = vault /\ used' = used \cup {c}
      /\ c \notin used /\ exchanged' = exchanged /\ rawPassed' = rawPassed
      /\ call[p].op = "none"
  BY DEF BeginCreate, Begin, Continue, NothingLeaves
<1> HIDE DEF f
<1>3. /\ call \in [Process -> Frame] /\ vault \in [Conversation -> ConversationState \cup {None}]
      /\ exchanged \subseteq Substitution /\ rawPassed \subseteq Conversation
  BY DEF Typed, TypeOK
<1>4. call'[p] = f /\ \A q \in Process : q # p => call'[q] = call[q]
  BY <1>2, <1>3
<1>5. \A d : Exists(d)' <=> Exists(d)
  BY <1>2 DEF Exists
<1>6. KnownAreUsed'
  BY <1>1, <1>2, <1>4, <1>5 DEF Shared, KnownAreUsed
<1>7. NothingUnder(c) /\ \A q \in Process : call[q].conversation = c =>
                            call[q].seen = None /\ call[q].op # "create"
  BY <1>2 DEF Shared, KnownAreUsed, NothingUnder
<1>8. CreatedIsFresh'
  <2>1. ASSUME NEW q \in Process, call'[q].op = "create"
        PROVE  /\ NothingUnder(call[q].conversation)'
               /\ \A o \in Process : call'[o].conversation = call'[q].conversation =>
                    call'[o].seen = None /\ (o # q => call'[o].op # "create")
    <3>1. CASE q = p
      BY <1>1, <1>2, <1>4, <1>5, <1>7, <3>1 DEF NothingUnder
    <3>2. CASE q # p
      <4>1. call[q].op = "create" /\ call[q].conversation # c
        BY <1>4, <1>7, <2>1, <3>2
      <4>2. NothingUnder(call[q].conversation)'
        BY <1>2, <1>4, <1>5, <3>2, <4>1 DEF Shared, CreatedIsFresh, NothingUnder
      <4> QED BY <1>1, <1>4, <3>2, <4>1, <4>2 DEF Shared, CreatedIsFresh
    <3> QED BY <3>1, <3>2
  <2> QED BY <2>1 DEF CreatedIsFresh
<1>9. SnapshotsAreCurrent'
  BY <1>1, <1>2, <1>4, <1>5 DEF Shared, SnapshotsAreCurrent
<1>10. ExchangedIsRestorable' /\ AliasDenotesOneOriginal' /\ RawOnlyUnderRecordedBypass'
  BY <1>2, <1>5
     DEF Shared, ExchangedIsRestorable, AliasDenotesOneOriginal, RawOnlyUnderRecordedBypass
<1> QED BY <1>6, <1>8, <1>9, <1>10 DEF Shared

\* The vault that create writes is new to everyone.
LEMMA WriteNewShared ==
    ASSUME Typed, Typed', Shared, NEW p \in Process, WriteNew(p)
    PROVE  Shared'
<1> DEFINE c == call[p].conversation
           s == NewState(call[p].mode, call[p].now)
<1>1. PICK r \in {"ok", "failed"} :
        Create(c, s, r) /\ Return(p, IF r = "ok" THEN "protected" ELSE "blocked")
  BY DEF WriteNew
<1>2. /\ call \in [Process -> Frame] /\ vault \in [Conversation -> ConversationState \cup {None}]
      /\ exchanged \subseteq Substitution /\ rawPassed \subseteq Conversation
  BY DEF Typed, TypeOK
<1>3. /\ call[p].op = "create" /\ c \in Conversation /\ used' = used
      /\ exchanged' = exchanged /\ rawPassed' = rawPassed
  BY DEF WriteNew, At, Typed, FramesOK, FrameOK, NothingLeaves
<1>4. c \in used /\ NothingUnder(c) /\ \A q \in Process : call[q].conversation = c =>
                            call[q].seen = None /\ (q # p => call[q].op # "create")
  BY <1>3 DEF Shared, KnownAreUsed, CreatedIsFresh
<1>5. CASE vault' = vault
  BY <1>1, <1>3, <1>5, PlainReturn DEF WriteNew
<1>6. CASE vault' = [vault EXCEPT ![c] = s]
  <2>1. /\ call'[p].op = "none" /\ call'[p].seen = None
        /\ \A q \in Process : q # p => call'[q] = call[q]
    BY <1>1, <1>2, IdleFrame DEF Return, Continue
  <2>2. \A d \in Conversation : d # c => vault'[d] = vault[d]
    BY <1>2, <1>6
  <2>3. KnownAreUsed'
    BY <1>3, <1>4, <2>1, <2>2 DEF Shared, KnownAreUsed, Exists
  <2>4. \A q \in Process : call'[q].seen # None => call'[q].conversation # c
    BY <1>4, <2>1
  <2>5. SnapshotsAreCurrent'
    <3>1. ASSUME NEW q \in Process, call'[q].seen # None, Exists(call[q].conversation)'
          PROVE  IsCurrent(call'[q].seen, vault'[call'[q].conversation])
      <4>1. q # p /\ call'[q] = call[q] /\ call[q].conversation # c
        BY <2>1, <2>4, <3>1
      <4>2. call[q].conversation \in Conversation
        BY <3>1, <4>1 DEF Typed, FramesOK, FrameOK
      <4> QED BY <2>2, <3>1, <4>1, <4>2 DEF Shared, SnapshotsAreCurrent, Exists
    <3> QED BY <3>1 DEF SnapshotsAreCurrent
  <2>6. CreatedIsFresh'
    <3>1. ASSUME NEW q \in Process, call'[q].op = "create"
          PROVE  /\ NothingUnder(call[q].conversation)'
                 /\ \A o \in Process : call'[o].conversation = call'[q].conversation =>
                      call'[o].seen = None /\ (o # q => call'[o].op # "create")
      <4>1. q # p /\ call'[q] = call[q] /\ call[q].op = "create"
        BY <2>1, <3>1
      <4>2. call[q].conversation # c /\ call[q].conversation \in Conversation
        BY <1>4, <4>1 DEF Typed, FramesOK, FrameOK
      <4>3. NothingUnder(call[q].conversation)'
        BY <1>3, <2>2, <4>1, <4>2 DEF Shared, CreatedIsFresh, NothingUnder, Exists
      <4> QED BY <2>1, <4>1, <4>3 DEF Shared, CreatedIsFresh
    <3> QED BY <3>1 DEF CreatedIsFresh
  <2>7. ExchangedIsRestorable' /\ AliasDenotesOneOriginal' /\ RawOnlyUnderRecordedBypass'
    BY <1>2, <1>3, <1>4, <2>2
       DEF Shared, ExchangedIsRestorable, AliasDenotesOneOriginal, RawOnlyUnderRecordedBypass,
           NothingUnder, Exists, Substitution
  <2> QED BY <2>3, <2>5, <2>6, <2>7 DEF Shared
<1>7. vault' = vault \/ vault' = [vault EXCEPT ![c] = s]
  BY <1>1 DEF Create, Replace, Unavailable
<1> QED BY <1>5, <1>6, <1>7

\* A save that takes effect replaces exactly what the operation has seen.
LEMMA SaveEffect ==
    ASSUME Typed, Shared, NEW p \in Process, SaveState(p)
    PROVE  LET frame == call[p]
               c == frame.conversation
           IN  /\ frame \in Frame /\ FrameOK(frame) /\ frame.op \in Loading /\ frame.at = "save"
               /\ frame.seen # None /\ c \in Conversation /\ used' = used
               /\ \/ vault' = vault /\ NothingLeaves
                  \/ /\ Exists(c) /\ vault[c] = frame.seen
                     /\ vault' = [vault EXCEPT ![c] = Updated(frame)]
                     /\ \/ NothingLeaves
                        \/ /\ exchanged' = exchanged \cup Substitutions(frame)
                           /\ rawPassed' = IF frame.op \in Transforming /\ frame.seen.bypassed
                                           THEN rawPassed \cup {c} ELSE rawPassed
               /\ \E status \in Status : Return(p, status)
<1> DEFINE frame == call[p]
           c == frame.conversation
<1>1. PICK r \in {"ok", "vault-missing", "failed"} :
        /\ Save(c, Updated(frame), frame.seen.revision, r)
        /\ \/ /\ r = "ok"
              /\ Return(p, SavedStatus(frame))
              /\ exchanged' = exchanged \cup Substitutions(frame)
              /\ rawPassed' = IF frame.op \in Transforming /\ frame.seen.bypassed
                              THEN rawPassed \cup {c}
                              ELSE rawPassed
           \/ r # "ok" /\ Return(p, "blocked") /\ NothingLeaves
  BY DEF SaveState
<1>2. /\ frame \in Frame /\ FrameOK(frame) /\ frame.op \in Loading /\ frame.at = "save"
      /\ frame.seen # None /\ c \in Conversation /\ used' = used
  BY DEF SaveState, At, Typed, TypeOK, FramesOK, FrameOK
<1>3. \E status \in Status : Return(p, status)
  BY <1>1 DEF SavedStatus, Status
<1>4. CASE vault' = vault /\ r # "ok"
  BY <1>1, <1>2, <1>3, <1>4
<1>5. CASE /\ Exists(c) /\ vault[c].revision = frame.seen.revision
           /\ vault' = [vault EXCEPT ![c] = Updated(frame)]
  <2>1. vault[c] = frame.seen
    BY <1>2, <1>5 DEF Shared, SnapshotsAreCurrent, IsCurrent
  <2> QED BY <1>1, <1>2, <1>3, <1>5, <2>1
<1> QED BY <1>1, <1>4, <1>5 DEF Save, Replace, Unavailable

LEMMA SaveStateShared ==
    ASSUME Typed, Typed', Shared, NEW p \in Process, SaveState(p)
    PROVE  Shared'
<1> DEFINE frame == call[p]
           c == frame.conversation
           new == Updated(frame)
<1>1. /\ frame \in Frame /\ FrameOK(frame) /\ frame.op \in Loading /\ frame.at = "save"
      /\ frame.seen # None /\ c \in Conversation /\ used' = used
      /\ \/ vault' = vault /\ NothingLeaves
         \/ /\ Exists(c) /\ vault[c] = frame.seen
            /\ vault' = [vault EXCEPT ![c] = new]
            /\ \/ NothingLeaves
               \/ /\ exchanged' = exchanged \cup Substitutions(frame)
                  /\ rawPassed' = IF frame.op \in Transforming /\ frame.seen.bypassed
                                  THEN rawPassed \cup {c} ELSE rawPassed
  BY SaveEffect
<1>2. PICK status \in Status : Return(p, status)
  BY SaveEffect
<1>3. CASE vault' = vault /\ NothingLeaves
  BY <1>1, <1>2, <1>3, PlainReturn
<1>4. CASE /\ Exists(c) /\ vault[c] = frame.seen
           /\ vault' = [vault EXCEPT ![c] = new]
           /\ \/ NothingLeaves
              \/ /\ exchanged' = exchanged \cup Substitutions(frame)
                 /\ rawPassed' = IF frame.op \in Transforming /\ frame.seen.bypassed
                                 THEN rawPassed \cup {c} ELSE rawPassed
  <2>1. /\ call \in [Process -> Frame] /\ vault \in [Conversation -> ConversationState \cup {None}]
        /\ exchanged \subseteq Substitution /\ rawPassed \subseteq Conversation
        /\ exchanged' \subseteq Substitution
    BY DEF Typed, TypeOK
  <2>2. /\ call'[p].op = "none" /\ call'[p].seen = None
        /\ \A q \in Process : q # p => call'[q] = call[q]
    BY <1>2, <2>1, IdleFrame DEF Return, Continue
  <2>3. /\ new \in ConversationState /\ new.revision = frame.seen.revision + 1
        /\ (frame.seen.bypassed => new.bypassed)
        /\ Injective(new.mappings) /\ Extends(frame.seen.mappings, new.mappings)
        /\ (frame.op \in Transforming => new.mappings = frame.mappings)
        /\ frame.seen \in ConversationState
    BY <1>1, UpdatedFacts
  <2>4. /\ vault'[c] = new /\ \A d \in Conversation : d # c => vault'[d] = vault[d]
    BY <1>1, <1>4, <2>1
  <2>5. \A d \in Conversation : Exists(d)' <=> Exists(d)
    BY <1>4, <2>1, <2>3, <2>4, NoneIsNoState DEF Exists
  <2>6. c \in used
    BY <1>1, <1>4 DEF Shared, KnownAreUsed
  <2>7. /\ \A e \in exchanged' : e \in exchanged \/ (e.conversation = c /\ e \in Substitutions(frame))
        /\ \A d \in rawPassed' : d \in rawPassed \/ (d = c /\ frame.seen.bypassed)
    BY <1>4 DEF NothingLeaves, Substitutions
  <2> HIDE DEF new
  <2>8. KnownAreUsed'
    BY <1>1, <2>1, <2>2, <2>5, <2>6, <2>7 DEF Shared, KnownAreUsed
  <2>9. CreatedIsFresh'
    <3>1. ASSUME NEW q \in Process, call'[q].op = "create"
          PROVE  /\ NothingUnder(call[q].conversation)'
                 /\ \A o \in Process : call'[o].conversation = call'[q].conversation =>
                      call'[o].seen = None /\ (o # q => call'[o].op # "create")
      <4>1. q # p /\ call'[q] = call[q] /\ call[q].op = "create"
        BY <2>2, <3>1
      <4>2. call[q].conversation \in Conversation /\ NothingUnder(call[q].conversation)
        BY <4>1 DEF Typed, FramesOK, FrameOK, Shared, CreatedIsFresh
      <4>3. call[q].conversation # c
        BY <1>4, <4>2 DEF NothingUnder
      <4>4. NothingUnder(call[q].conversation)'
        BY <2>5, <2>7, <4>1, <4>2, <4>3 DEF NothingUnder
      <4> QED BY <2>2, <4>1, <4>4 DEF Shared, CreatedIsFresh
    <3> QED BY <3>1 DEF CreatedIsFresh
  <2>10. SnapshotsAreCurrent'
    <3>1. ASSUME NEW q \in Process, call'[q].seen # None, Exists(call[q].conversation)'
          PROVE  IsCurrent(call'[q].seen, vault'[call'[q].conversation])
      <4>1. /\ q # p /\ call'[q] = call[q] /\ call[q].conversation \in Conversation
            /\ call[q].seen \in ConversationState
        BY <2>1, <2>2, <3>1 DEF Typed, FramesOK, FrameOK, Frame
      <4>2. IsCurrent(call[q].seen, vault[call[q].conversation])
        BY <2>5, <3>1, <4>1 DEF Shared, SnapshotsAreCurrent
      <4>3. CASE call[q].conversation = c
        <5>1. call[q].seen.revision <= frame.seen.revision
          BY <1>4, <4>2, <4>3 DEF IsCurrent
        <5>2. call[q].seen.revision \in Nat /\ frame.seen.revision \in Nat
          BY <2>3, <4>1 DEF ConversationState
        <5>3. call[q].seen.revision < new.revision
          BY <2>3, <5>1, <5>2
        <5> QED BY <2>3, <2>4, <4>1, <4>3, <5>2, <5>3 DEF IsCurrent
      <4>4. CASE call[q].conversation # c
        BY <2>4, <4>1, <4>2, <4>4
      <4> QED BY <4>3, <4>4
    <3> QED BY <3>1 DEF SnapshotsAreCurrent
  <2>11. ASSUME NEW e \in exchanged', e.conversation = c
         PROVE  e.original \in Original /\ new.mappings[e.original] = e.alias /\ e.alias # None
    <3>1. e.original \in Original /\ e.alias \in Alias /\ e.alias # None
      BY <2>1, RepositoryAssumption DEF Substitution
    <3>2. CASE e \in exchanged
      BY <1>4, <2>3, <2>11, <3>1, <3>2 DEF Shared, ExchangedIsRestorable, Extends
    <3>3. CASE e \in Substitutions(frame)
      BY <1>1, <2>3, <3>1, <3>3 DEF Substitutions, FrameOK
    <3> QED BY <2>7, <3>1, <3>2, <3>3
  <2>12. ExchangedIsRestorable'
    BY <2>1, <2>4, <2>5, <2>7, <2>11 DEF Shared, ExchangedIsRestorable, Substitution
  <2>13. AliasDenotesOneOriginal'
    BY <2>3, <2>7, <2>11 DEF Shared, AliasDenotesOneOriginal, Injective
  <2>14. RawOnlyUnderRecordedBypass'
    BY <1>4, <2>1, <2>3, <2>4, <2>5, <2>7 DEF Shared, RawOnlyUnderRecordedBypass
  <2> QED BY <2>8, <2>9, <2>10, <2>12, <2>13, <2>14 DEF Shared
<1> QED BY <1>1, <1>3, <1>4

LEMMA NextShared == Typed /\ Typed' /\ Shared /\ [Next]_vars => Shared'
<1> SUFFICES ASSUME Typed, Typed', Shared, [Next]_vars PROVE Shared'
  OBVIOUS
<1>1. ASSUME NEW p \in Process, BeginOperation(p) PROVE Shared'
  <2>1. CASE BeginCleanup(p)
    BY <2>1, BeginPlain DEF BeginCleanup, Operation
  <2>2. CASE \E c \in Conversation : BeginCreate(p, c)
    BY <2>2, BeginCreateShared
  <2>3. CASE \E c \in Conversation : BeginResume(p, c)
    BY <2>3, BeginPlain DEF BeginResume, Operation
  <2>4. CASE \E c \in Conversation : \E accepted \in BOOLEAN : BeginAcceptBypass(p, c, accepted)
    <3>1. PICK c \in Conversation : \E accepted \in BOOLEAN : BeginAcceptBypass(p, c, accepted)
      BY <2>4
    <3>2. CASE Begin(p, "accept_bypass", "load", c, "to_provider") /\ used' = used
      BY <3>2, BeginPlain DEF Operation
    <3>3. CASE Return(p, "blocked") /\ vault' = vault /\ used' = used /\ NothingLeaves
      BY <3>3, PlainReturn
    <3> QED BY <3>1, <3>2, <3>3 DEF BeginAcceptBypass
  <2>5. CASE \E c \in Conversation : \E direction \in Direction :
               BeginProcess(p, c, direction) \/ BeginTransaction(p, c, direction)
    BY <2>5, BeginPlain DEF BeginProcess, BeginTransaction, Operation
  <2> QED BY <1>1, <2>1, <2>2, <2>3, <2>4, <2>5 DEF BeginOperation
<1>2. ASSUME NEW p \in Process, Advance(p) PROVE Shared'
  <2>1. LoadVault(p) \/ Reload(p) => Shared'
    BY LoadThenPlain DEF LoadVault, Reload, At
  <2>2. RefuseText(p) \/ DropTransaction(p) \/ EndCleanup(p) => Shared'
    BY PlainReturn DEF RefuseText, DropTransaction, EndCleanup
  <2>3. ASSUME Expire(p) PROVE Shared'
    <3>1. PICK r \in {"deleted", "kept", "failed"} :
            /\ DeleteIfInactive(call[p].conversation, call[p].now, r)
            /\ \/ r = "deleted" /\ Return(p, "expired")
               \/ r = "kept" /\ Continue(p, [call[p] EXCEPT !.at = "reload"])
               \/ r = "failed" /\ Return(p, IF call[p].op = "resume" THEN "raised" ELSE "blocked")
      BY <2>3 DEF Expire
    <3> DEFINE f == [call[p] EXCEPT !.at = "reload"]
    <3>2. /\ f.op = call[p].op /\ f.conversation = call[p].conversation /\ f.seen = call[p].seen
          /\ call[p].op # "create" /\ call[p].conversation \in Conversation
          /\ used' = used /\ NothingLeaves
      BY <2>3 DEF Expire, At, Loading, Typed, TypeOK, FramesOK, FrameOK, Frame
    <3>3. \A d \in Conversation : vault'[d] = vault[d] \/ vault'[d] = None
      BY <3>1, <3>2, DeleteOnly
    <3>4. Continue(p, f) \/ \E status : Return(p, status)
      BY <3>1
    <3> HIDE DEF f
    <3> QED BY <3>2, <3>3, <3>4, PlainStep, PlainReturn
  <2>4. ASSUME Sweep(p) PROVE Shared'
    <3>1. PICK c \in call[p].pending, r \in {"deleted", "kept", "failed"} :
            /\ DeleteIfInactive(c, call[p].now, r)
            /\ \/ r # "failed" /\ Continue(p, [call[p] EXCEPT !.pending = @ \ {c}])
               \/ r = "failed" /\ Return(p, "raised")
      BY <2>4 DEF Sweep
    <3> DEFINE f == [call[p] EXCEPT !.pending = @ \ {c}]
    <3>2. /\ f.op = call[p].op /\ f.conversation = call[p].conversation /\ f.seen = call[p].seen
          /\ call[p].op # "create" /\ c \in Conversation
          /\ used' = used /\ NothingLeaves
      BY <2>4 DEF Sweep, At, Typed, TypeOK, Frame
    <3>3. \A d \in Conversation : vault'[d] = vault[d] \/ vault'[d] = None
      BY <3>1, <3>2, DeleteOnly
    <3>4. Continue(p, f) \/ \E status : Return(p, status)
      BY <3>1
    <3> HIDE DEF f
    <3> QED BY <3>2, <3>3, <3>4, PlainStep, PlainReturn
  <2> QED BY <1>2, <2>1, <2>2, <2>3, <2>4, LocalSteps, WriteNewShared, SaveStateShared DEF Advance
<1>3. ASSUME NEW p \in Process, Crash(p) PROVE Shared'
  BY <1>3, PlainReturn DEF Crash
<1>4. CASE Tick \/ UNCHANGED vars
  <2>1. UNCHANGED <<vault, used, call, exchanged, rawPassed>>
    BY <1>4 DEF Tick, vars, NothingLeaves
  <2> QED
    BY <2>1 DEF Shared, KnownAreUsed, CreatedIsFresh, SnapshotsAreCurrent, ExchangedIsRestorable,
                AliasDenotesOneOriginal, RawOnlyUnderRecordedBypass, NothingUnder, Exists
<1> QED BY <1>1, <1>2, <1>3, <1>4 DEF Next

LEMMA InitShared == Init => Shared
<1> SUFFICES ASSUME Init PROVE Shared
  OBVIOUS
<1>1. \A p \in Process : call[p].op = "none" /\ call[p].seen = None
  BY IdleFrame DEF Init
<1>2. \A c \in Conversation : ~Exists(c)
  BY DEF Init, Exists
<1> QED
  BY <1>1, <1>2
     DEF Init, Shared, KnownAreUsed, CreatedIsFresh, SnapshotsAreCurrent, ExchangedIsRestorable,
         AliasDenotesOneOriginal, RawOnlyUnderRecordedBypass

\* The invariant that all the others follow from.
THEOREM InvariantHolds == Spec => []InductiveInvariant
<1>1. Init => InductiveInvariant
  BY InitTyped, InitShared, InductiveParts
<1>2. InductiveInvariant /\ [Next]_vars => InductiveInvariant'
  BY NextTyped, NextShared DEF InductiveInvariant, Typed, Shared
<1> QED BY <1>1, <1>2, PTL DEF Spec

\* One alias never stands for two originals of a conversation.
THEOREM AliasesUnambiguous == Spec => []AliasDenotesOneOriginal
<1>1. InductiveInvariant => AliasDenotesOneOriginal
  BY DEF InductiveInvariant
<1> QED BY <1>1, InvariantHolds, PTL

\* What left a committed operation is in the vault for as long as there is one.
THEOREM ExchangedStaysRestorable == Spec => []ExchangedIsRestorable
<1>1. InductiveInvariant => ExchangedIsRestorable
  BY DEF InductiveInvariant
<1> QED BY <1>1, InvariantHolds, PTL

\* Text passes raw only in conversations whose vault records a bypass.
THEOREM RawNeedsRecordedBypass == Spec => []RawOnlyUnderRecordedBypass
<1>1. InductiveInvariant => RawOnlyUnderRecordedBypass
  BY DEF InductiveInvariant
<1> QED BY <1>1, InvariantHolds, PTL


-----------------------------------------------------------------------------
(***************************************************************************)
(* What a step may do to a vault.                                          *)
(***************************************************************************)
Deletes(c) ==
    \E p \in Process :
        /\ Inactive(vault[c], call[p].now)
        /\ \A d \in Conversation : d # c => vault'[d] = vault[d]

\* A vault changes by a creation, a save, or the deletion of an inactive vault.
LEMMA VaultSteps ==
    ASSUME Typed, Shared, [Next]_vars, NEW c \in Conversation, vault'[c] # vault[c]
    PROVE  \/ \E p \in Process : WriteNew(p)
           \/ \E p \in Process : SaveState(p)
           \/ Exists(c) /\ ~Exists(c)' /\ Deletes(c)
<1>1. ASSUME NEW p \in Process, NEW d \in Conversation, NEW r,
             DeleteIfInactive(d, call[p].now, r)
      PROVE  Exists(c) /\ ~Exists(c)' /\ Deletes(c)
  BY <1>1 DEF DeleteIfInactive, Unavailable, Typed, TypeOK, Exists, Deletes
<1>2. ASSUME NEW p \in Process, BeginOperation(p) PROVE FALSE
  BY <1>2 DEF BeginOperation, BeginCleanup, BeginCreate, BeginResume, BeginAcceptBypass,
              BeginProcess, BeginTransaction, Begin
<1>3. ASSUME NEW p \in Process, Advance(p), ~WriteNew(p), ~SaveState(p)
      PROVE  Exists(c) /\ ~Exists(c)' /\ Deletes(c)
  <2>1. CASE LoadVault(p) \/ Reload(p)
    BY <2>1 DEF LoadVault, Reload, LoadThen, Load, Unavailable
  <2>2. CASE CheckExpiry(p) \/ Transform(p) \/ RefuseText(p) \/ DropTransaction(p)
                \/ Stamp(p) \/ EndCleanup(p)
    BY <2>2 DEF CheckExpiry, Transform, RefuseText, DropTransaction, Stamp, EndCleanup
  <2>3. CASE ListVaults(p)
    BY <2>3 DEF ListVaults, ConversationIds, Unavailable
  <2>4. CASE Expire(p)
    <3>1. call[p].conversation \in Conversation
      BY <2>4 DEF Expire, At, Typed, FramesOK, FrameOK
    <3> QED BY <1>1, <2>4, <3>1 DEF Expire
  <2>5. CASE Sweep(p)
    <3>1. call[p].pending \subseteq Conversation
      BY DEF Typed, TypeOK, Frame
    <3> QED BY <1>1, <2>5, <3>1 DEF Sweep
  <2> QED BY <1>3, <2>1, <2>2, <2>3, <2>4, <2>5 DEF Advance
<1>4. ASSUME NEW p \in Process, Crash(p) PROVE FALSE
  BY <1>4 DEF Crash
<1>5. Tick \/ UNCHANGED vars => FALSE
  BY DEF Tick, vars
<1> QED BY <1>2, <1>3, <1>4, <1>5 DEF Next

LEMMA WriteNewEffect ==
    ASSUME Typed, Shared, NEW p \in Process, WriteNew(p),
           NEW c \in Conversation, vault'[c] # vault[c]
    PROVE  /\ ~Exists(c) /\ c = call[p].conversation /\ call[p].op = "create"
           /\ vault'[c] = NewState(call[p].mode, call[p].now)
BY DEF WriteNew, At, Create, Replace, Unavailable, Typed, TypeOK, FramesOK, FrameOK, Exists

LEMMA SaveStateEffect ==
    ASSUME Typed, Shared, NEW p \in Process, SaveState(p),
           NEW c \in Conversation, vault'[c] # vault[c]
    PROVE  /\ c = call[p].conversation /\ Exists(c) /\ vault[c] = call[p].seen
           /\ vault'[c] = Updated(call[p])
           /\ call[p] \in Frame /\ FrameOK(call[p])
           /\ call[p].op \in Loading /\ call[p].at = "save"
BY SaveEffect DEF Typed, TypeOK, Exists

\* No save by an operation with an older view of the vault undoes what another
\* operation recorded.
THEOREM UpdatesAreKept == Spec => NoLostUpdate
<1>1. ASSUME InductiveInvariant, [Next]_vars, NEW c \in Conversation,
             Exists(c), Exists(c)', vault'[c] # vault[c]
      PROVE  /\ vault'[c].revision = vault[c].revision + 1
             /\ Extends(vault[c].mappings, vault'[c].mappings)
             /\ vault[c].bypassed => vault'[c].bypassed
             /\ vault'[c].mode = vault[c].mode
  <2>1. Typed /\ Shared
    BY <1>1, InductiveParts
  <2>2. PICK p \in Process : SaveState(p)
    BY <1>1, <2>1, VaultSteps, WriteNewEffect
  <2> QED BY <1>1, <2>1, <2>2, SaveStateEffect, UpdatedFacts
<1>2. InductiveInvariant /\ [Next]_vars =>
        [\A c \in Conversation :
            Exists(c) /\ Exists(c)' /\ vault'[c] # vault[c] =>
                /\ vault'[c].revision = vault[c].revision + 1
                /\ Extends(vault[c].mappings, vault'[c].mappings)
                /\ vault[c].bypassed => vault'[c].bypassed
                /\ vault'[c].mode = vault[c].mode]_vars
  BY <1>1
<1> QED BY <1>2, InvariantHolds, PTL DEF Spec, NoLostUpdate

\* An identifier whose vault is gone never gets a vault again.
THEOREM NoRevival == Spec => NeverRecreated
<1>1. ASSUME InductiveInvariant, [Next]_vars, NEW c \in Conversation, ~Exists(c), Exists(c)'
      PROVE  /\ vault'[c].revision = 0
             /\ NothingUnder(c)
             /\ \A p \in Process : call[p].conversation = c => call[p].seen = None
  <2>1. Typed /\ Shared /\ vault'[c] # vault[c]
    BY <1>1, InductiveParts DEF Exists
  <2>2. PICK p \in Process : WriteNew(p)
    BY <1>1, <2>1, VaultSteps, SaveStateEffect
  <2>3. /\ c = call[p].conversation /\ call[p].op = "create"
        /\ vault'[c] = NewState(call[p].mode, call[p].now)
    BY <2>1, <2>2, WriteNewEffect
  <2>4. vault'[c].revision = 0
    BY <2>3 DEF NewState
  <2> QED BY <2>1, <2>3, <2>4 DEF Shared, CreatedIsFresh
<1>2. InductiveInvariant /\ [Next]_vars =>
        [\A c \in Conversation :
            ~Exists(c) /\ Exists(c)' =>
                /\ vault'[c].revision = 0
                /\ NothingUnder(c)
                /\ \A p \in Process : call[p].conversation = c => call[p].seen = None]_vars
  BY <1>1
<1> QED BY <1>2, InvariantHolds, PTL DEF Spec, NeverRecreated

-----------------------------------------------------------------------------
(***************************************************************************)
(* Time.                                                                   *)
(***************************************************************************)
FrameInTime(frame, time) ==
    /\ frame.now <= time
    /\ frame.seen # None => frame.seen.last_activity <= time
    /\ frame.op = "transaction" => frame.at \notin {"expire", "reload"}
    /\ frame.op = "transaction" /\ frame.at \in {"transform", "save"} =>
         /\ frame.seen.last_activity <= frame.now
         /\ frame.now < frame.seen.last_activity + Retention

VaultsInTime == \A c \in Conversation : Exists(c) => vault[c].last_activity <= clock

LEMMA TimesParts ==
    TimesInOrder <=> VaultsInTime /\ \A p \in Process : FrameInTime(call[p], clock)
BY DEF TimesInOrder, VaultsInTime, FrameInTime

LEMMA IdleInTime ==
    ASSUME Typed, NEW mode, NEW result
    PROVE  FrameInTime(Idle(mode, result), clock)
BY DEF FrameInTime, Idle, Typed, TypeOK

\* The new frame of the process that steps.
LEMMA FrameTime ==
    ASSUME Typed, Shared, TimesInOrder, NEW p \in Process,
           BeginOperation(p) \/ Advance(p) \/ Crash(p)
    PROVE  /\ clock' = clock
           /\ FrameInTime(call'[p], clock)
           /\ \A q \in Process : q # p => call'[q] = call[q]
<1>1. /\ call \in [Process -> Frame] /\ call[p] \in Frame /\ FrameOK(call[p]) /\ clock \in Nat
      /\ FrameInTime(call[p], clock)
      /\ vault \in [Conversation -> ConversationState \cup {None}]
  BY TimesParts DEF Typed, TypeOK, FramesOK
<1>2. ASSUME NEW frame, Continue(p, frame)
      PROVE  call'[p] = frame /\ \A q \in Process : q # p => call'[q] = call[q]
  BY <1>1, <1>2 DEF Continue
<1>3. ASSUME NEW status, Return(p, status)
      PROVE  /\ FrameInTime(call'[p], clock)
             /\ \A q \in Process : q # p => call'[q] = call[q]
  BY <1>2, <1>3, IdleInTime DEF Return
<1>4. ASSUME NEW op, NEW step, NEW c, NEW direction, Begin(p, op, step, c, direction),
             op = "transaction" => step = "load"
      PROVE  /\ FrameInTime(call'[p], clock) /\ clock' = clock
             /\ \A q \in Process : q # p => call'[q] = call[q]
  <2> DEFINE f == [Idle(call[p].mode, "none") EXCEPT
                      !.op = op, !.at = step, !.conversation = c,
                      !.direction = direction, !.now = clock]
  <2>1. Continue(p, f) /\ clock' = clock
    BY <1>4 DEF Begin
  <2>2. f.op = op /\ f.at = step /\ f.seen = None /\ f.now = clock
    BY DEF Idle
  <2> HIDE DEF f
  <2>3. FrameInTime(f, clock)
    BY <1>1, <1>4, <2>2 DEF FrameInTime
  <2> QED BY <1>2, <2>1, <2>3
<1>5. CASE BeginOperation(p)
  BY <1>3, <1>4, <1>5
     DEF BeginOperation, BeginCleanup, BeginCreate, BeginResume, BeginAcceptBypass,
         BeginProcess, BeginTransaction
<1>6. ASSUME NEW step, LoadThen(p, step), call[p].op \in Loading, VaultsInTime,
             call[p].op = "transaction" => step = "clock"
      PROVE  /\ FrameInTime(call'[p], clock)
             /\ \A q \in Process : q # p => call'[q] = call[q]
  <2>1. PICK r \in {"ok", "vault-missing", "failed"} :
          /\ Load(call[p].conversation, r)
          /\ \/ /\ r = "ok"
                /\ Continue(p, [call[p] EXCEPT !.seen = vault[call[p].conversation], !.at = step])
             \/ r # "ok" /\ Return(p, IF r = "vault-missing" /\ call[p].op # "transaction"
                                       THEN "missing" ELSE "blocked")
    BY <1>6 DEF LoadThen
  <2>2. CASE r = "ok"
    <3> DEFINE f == [call[p] EXCEPT !.seen = vault[call[p].conversation], !.at = step]
    <3>1. Continue(p, f)
      BY <2>1, <2>2
    <3>2. /\ f.op = call[p].op /\ f.at = step /\ f.now = call[p].now
          /\ f.seen = vault[call[p].conversation]
      BY <1>1 DEF Frame
    <3>3. f.seen.last_activity <= clock
      BY <1>1, <1>6, <2>1, <2>2, <3>2 DEF Load, Unavailable, FrameOK, VaultsInTime
    <3> HIDE DEF f
    <3>4. FrameInTime(f, clock)
      BY <1>1, <1>6, <3>2, <3>3 DEF FrameInTime
    <3> QED BY <1>2, <3>1, <3>4
  <2>3. CASE r # "ok"
    BY <1>3, <2>1, <2>3
  <2> QED BY <2>2, <2>3
<1>7. VaultsInTime
  BY TimesParts
<1>8. CASE LoadVault(p) \/ Reload(p)
  BY <1>1, <1>6, <1>7, <1>8, AfterLoadStep DEF LoadVault, Reload, At, FrameInTime
<1>9. CASE CheckExpiry(p)
  <2>1. /\ call[p].op \in Loading /\ call[p].at = "clock" /\ call[p].seen # None
        /\ call[p].seen \in ConversationState /\ clock' = clock
    BY <1>1, <1>9 DEF CheckExpiry, At, FrameOK, Frame
  <2>2. ASSUME NEW at, Continue(p, [call[p] EXCEPT !.now = clock, !.at = at]),
               call[p].op = "transaction" => at = "transform" /\ ~Inactive(call[p].seen, clock)
        PROVE  /\ FrameInTime(call'[p], clock)
               /\ \A q \in Process : q # p => call'[q] = call[q]
    <3> DEFINE f == [call[p] EXCEPT !.now = clock, !.at = at]
    <3>1. Continue(p, f)
      BY <2>2
    <3>2. f.op = call[p].op /\ f.at = at /\ f.now = clock /\ f.seen = call[p].seen
      BY <1>1 DEF Frame
    <3> HIDE DEF f
    <3>3. FrameInTime(f, clock)
      BY <1>1, <2>1, <2>2, <3>2, RepositoryAssumption
         DEF FrameInTime, Inactive, ConversationState
    <3> QED BY <1>2, <3>1, <3>3
  <2>3. call[p].op = "transaction" => AfterLoad(call[p].op) = "transform"
    BY <2>1, AfterLoadStep DEF Transforming
  <2> QED BY <1>3, <1>9, <2>1, <2>2, <2>3 DEF CheckExpiry
<1>10. CASE Transform(p)
  <2>1. /\ call[p].op \in Transforming /\ call[p].at = "transform" /\ clock' = clock
    BY <1>10 DEF Transform, At
  <2>2. ASSUME NEW table, NEW values, Stage(p, table, values)
        PROVE  /\ FrameInTime(call'[p], clock)
               /\ \A q \in Process : q # p => call'[q] = call[q]
    <3> DEFINE f == [call[p] EXCEPT !.mappings = table, !.touched = values,
                                   !.at = AfterTransform(call[p].op)]
    <3>1. Continue(p, f)
      BY <2>2 DEF Stage
    <3>2. /\ f.op = call[p].op /\ f.at = AfterTransform(call[p].op)
          /\ f.now = call[p].now /\ f.seen = call[p].seen
      BY <1>1 DEF Frame
    <3> HIDE DEF f
    <3>3. FrameInTime(f, clock)
      BY <1>1, <2>1, <3>2 DEF FrameInTime, AfterTransform
    <3> QED BY <1>2, <3>1, <3>3
  <2> QED BY <1>10, <2>1, <2>2 DEF Transform
<1>11. CASE Stamp(p)
  <2> DEFINE f == [call[p] EXCEPT !.now = clock, !.at = "save"]
  <2>1. Continue(p, f) /\ clock' = clock /\ call[p].op # "transaction"
    BY <1>11 DEF Stamp, At
  <2>2. f.op = call[p].op /\ f.at = "save" /\ f.now = clock /\ f.seen = call[p].seen
    BY <1>1 DEF Frame
  <2> HIDE DEF f
  <2>3. FrameInTime(f, clock)
    BY <1>1, <2>1, <2>2 DEF FrameInTime
  <2> QED BY <1>2, <2>1, <2>3
<1>12. CASE Expire(p)
  <2> DEFINE f == [call[p] EXCEPT !.at = "reload"]
  <2>1. clock' = clock /\ (Continue(p, f) \/ \E status : Return(p, status))
    BY <1>12 DEF Expire
  <2>2. f.op = call[p].op /\ f.at = "reload" /\ f.now = call[p].now /\ f.seen = call[p].seen
    BY <1>1 DEF Frame
  <2>3. call[p].op # "transaction"
    BY <1>1, <1>12 DEF Expire, At, FrameInTime
  <2> HIDE DEF f
  <2>4. FrameInTime(f, clock)
    BY <1>1, <2>2, <2>3 DEF FrameInTime
  <2> QED BY <1>2, <1>3, <2>1, <2>4
<1>13. CASE ListVaults(p) \/ Sweep(p)
  <2>1. ASSUME NEW f, Continue(p, f), f.op = "cleanup", f.now = call[p].now, f.seen = call[p].seen
        PROVE  /\ FrameInTime(call'[p], clock)
               /\ \A q \in Process : q # p => call'[q] = call[q]
    BY <1>1, <1>2, <2>1 DEF FrameInTime
  <2>2. /\ clock' = clock /\ call[p].op = "cleanup"
        /\ \/ \E status : Return(p, status)
           \/ \E ids : Continue(p, [call[p] EXCEPT !.pending = ids, !.at = "sweep"])
           \/ \E ids : Continue(p, [call[p] EXCEPT !.pending = ids])
    BY <1>13 DEF ListVaults, Sweep, At
  <2>3. ASSUME NEW ids
        PROVE  /\ [call[p] EXCEPT !.pending = ids, !.at = "sweep"].op = call[p].op
               /\ [call[p] EXCEPT !.pending = ids, !.at = "sweep"].now = call[p].now
               /\ [call[p] EXCEPT !.pending = ids, !.at = "sweep"].seen = call[p].seen
               /\ [call[p] EXCEPT !.pending = ids].op = call[p].op
               /\ [call[p] EXCEPT !.pending = ids].now = call[p].now
               /\ [call[p] EXCEPT !.pending = ids].seen = call[p].seen
    BY <1>1 DEF Frame
  <2> QED BY <1>3, <2>1, <2>2, <2>3
<1>14. CASE WriteNew(p) \/ RefuseText(p) \/ DropTransaction(p) \/ EndCleanup(p) \/ Crash(p)
  BY <1>3, <1>14 DEF WriteNew, RefuseText, DropTransaction, EndCleanup, Crash
<1>15. CASE SaveState(p)
  <2>1. clock' = clock /\ \E status : Return(p, status)
    BY <1>15, SaveEffect DEF SaveState
  <2> QED BY <1>3, <2>1
<1> QED
  BY <1>5, <1>8, <1>9, <1>10, <1>11, <1>12, <1>13, <1>14, <1>15 DEF Advance, LoadVault, Reload

LEMMA VaultTime ==
    ASSUME Typed, Shared, TimesInOrder, [Next]_vars, clock' = clock
    PROVE  VaultsInTime'
<1>1. /\ VaultsInTime /\ clock \in Nat
      /\ \A p \in Process : call[p].now <= clock
  BY TimesParts DEF FrameInTime, Typed, TypeOK
<1>2. ASSUME NEW c \in Conversation, vault'[c] # vault[c], vault'[c] # None
      PROVE  vault'[c].last_activity <= clock
  <2>1. ASSUME NEW p \in Process, WriteNew(p)
        PROVE  vault'[c].last_activity <= clock
    <3>1. vault'[c] = NewState(call[p].mode, call[p].now)
      BY <1>2, <2>1, WriteNewEffect
    <3>2. vault'[c].last_activity = call[p].now
      BY <3>1 DEF NewState
    <3> QED BY <1>1, <3>2
  <2>2. CASE \E p \in Process : SaveState(p)
    BY <1>1, <1>2, <2>2, SaveStateEffect, UpdatedFacts
  <2> QED BY <1>2, <2>1, <2>2, VaultSteps DEF Exists
<1> QED BY <1>1, <1>2 DEF VaultsInTime, Exists

LEMMA LaterFrame ==
    ASSUME NEW frame \in Frame, NEW time \in Nat, FrameInTime(frame, time)
    PROVE  FrameInTime(frame, time + 1)
BY DEF FrameInTime, Frame, ConversationState

\* Whose step it is, for the actions that are not the clock's.
LEMMA ProcessSteps ==
    ASSUME Typed, [Next]_vars
    PROVE  \/ \E p \in Process : BeginOperation(p) \/ Advance(p) \/ Crash(p)
           \/ clock' \in {clock, clock + 1} /\ UNCHANGED <<vault, call>>
BY DEF Next, Tick, vars

LEMMA TimesPreserved ==
    ASSUME Typed, Shared, TimesInOrder, [Next]_vars
    PROVE  TimesInOrder'
<1>1. /\ VaultsInTime /\ clock \in Nat
      /\ \A p \in Process : FrameInTime(call[p], clock) /\ call[p] \in Frame
      /\ vault \in [Conversation -> ConversationState \cup {None}]
  BY TimesParts DEF Typed, TypeOK
<1>2. CASE \E p \in Process : BeginOperation(p) \/ Advance(p) \/ Crash(p)
  <2>1. PICK p \in Process : BeginOperation(p) \/ Advance(p) \/ Crash(p)
    BY <1>2
  <2>2. /\ clock' = clock
        /\ \A q \in Process : FrameInTime(call'[q], clock')
    BY <1>1, <2>1, FrameTime
  <2>3. VaultsInTime'
    BY <2>2, VaultTime
  <2> QED BY <2>2, <2>3 DEF TimesInOrder, VaultsInTime, FrameInTime
<1>3. CASE clock' \in {clock, clock + 1} /\ UNCHANGED <<vault, call>>
  <2>1. \A q \in Process : FrameInTime(call'[q], clock')
    BY <1>1, <1>3, LaterFrame
  <2>2. VaultsInTime'
    BY <1>1, <1>3, NoneIsNoState DEF VaultsInTime, Exists, ConversationState
  <2> QED BY <2>1, <2>2 DEF TimesInOrder, VaultsInTime, FrameInTime
<1> QED BY <1>2, <1>3, ProcessSteps

\* No recorded activity and no reading of the clock is ahead of the clock.
THEOREM TimesHold == Spec => []TimesInOrder
<1>1. Init => TimesInOrder
  <2> SUFFICES ASSUME Init PROVE TimesInOrder
    OBVIOUS
  <2>1. VaultsInTime
    BY DEF Init, VaultsInTime, Exists
  <2>2. \A p \in Process : FrameInTime(call[p], clock)
    BY InitTyped, IdleInTime DEF Init
  <2> QED BY <2>1, <2>2, TimesParts
<1>2. InductiveInvariant /\ TimesInOrder /\ [Next]_vars => TimesInOrder'
  BY InductiveParts, TimesPreserved
<1> QED BY <1>1, <1>2, InvariantHolds, PTL DEF Spec

\* Only a vault whose last activity is a retention period ago is deleted,
\* however old the reading of the clock was that the deletion is based on.
THEOREM OnlyInactiveDeleted == Spec => DeletesOnlyInactive
<1>1. ASSUME InductiveInvariant, TimesInOrder, [Next]_vars, NEW c \in Conversation,
             Exists(c), ~Exists(c)'
      PROVE  Inactive(vault[c], clock)
  <2>1. Typed /\ Shared /\ vault'[c] # vault[c]
    BY <1>1, InductiveParts DEF Exists
  <2>2. vault[c] \in ConversationState /\ clock \in Nat
    BY <1>1, <2>1 DEF Typed, TypeOK, Exists
  <2>3. ~(\E p \in Process : WriteNew(p))
    BY <1>1, <2>1, WriteNewEffect
  <2>4. ~(\E p \in Process : SaveState(p))
    BY <1>1, <2>1, SaveStateEffect, UpdatedFacts, NoneIsNoState DEF Exists
  <2>5. PICK p \in Process : Inactive(vault[c], call[p].now)
    BY <1>1, <2>1, <2>3, <2>4, VaultSteps DEF Deletes
  <2>6. call[p].now <= clock /\ call[p].now \in Nat
    BY <1>1, <2>1 DEF TimesInOrder, Typed, TypeOK, Frame
  <2> QED BY <2>2, <2>5, <2>6, RepositoryAssumption DEF Inactive, ConversationState
<1>2. InductiveInvariant /\ TimesInOrder /\ [Next]_vars =>
        [\A c \in Conversation :
            Exists(c) /\ ~Exists(c)' => Inactive(vault[c], clock)]_vars
  BY <1>1
<1> QED BY <1>2, InvariantHolds, TimesHold, PTL DEF Spec, DeletesOnlyInactive

\* A committed transaction neither takes the last activity back nor refreshes
\* a conversation that had run out when the transaction began.
THEOREM CommitsRefresh == Spec => TransactionRefreshes
<1>1. ASSUME InductiveInvariant, TimesInOrder, [Next]_vars,
             NEW p \in Process, NEW c \in Conversation,
             call[p].op = "transaction", Saves(p, c)
      PROVE  /\ vault[c].last_activity <= vault'[c].last_activity
             /\ vault'[c].last_activity < vault[c].last_activity + Retention
  <2>1. /\ Typed /\ Shared /\ vault'[c] # vault[c] /\ call'[p] # call[p]
        /\ call[p].at = "save" /\ call[p].conversation = c
    BY <1>1, InductiveParts DEF Saves
  <2>2. PICK q \in Process : BeginOperation(q) \/ Advance(q) \/ Crash(q)
    BY <2>1, <1>1, ProcessSteps
  <2>3. q = p
    BY <1>1, <2>1, <2>2, FrameTime
  <2>4. SaveState(p)
    BY <1>1, <2>1, <2>2, <2>3
       DEF BeginOperation, BeginCleanup, BeginCreate, BeginResume, BeginAcceptBypass,
           BeginProcess, BeginTransaction, Begin, Advance, WriteNew, LoadVault, CheckExpiry,
           Expire, Reload, Transform, RefuseText, DropTransaction, Stamp, ListVaults, Sweep, EndCleanup,
           Crash, At
  <2>5. vault[c] = call[p].seen /\ vault'[c].last_activity = call[p].now
    BY <2>1, <2>4, SaveStateEffect, UpdatedFacts
  <2> QED BY <1>1, <2>1, <2>5 DEF TimesInOrder
<1>2. InductiveInvariant /\ TimesInOrder /\ [Next]_vars =>
        [\A p \in Process, c \in Conversation :
            call[p].op = "transaction" /\ Saves(p, c) =>
                /\ vault[c].last_activity <= vault'[c].last_activity
                /\ vault'[c].last_activity < vault[c].last_activity + Retention]_vars
  BY <1>1
<1> QED BY <1>2, InvariantHolds, TimesHold, PTL DEF Spec, TransactionRefreshes
=============================================================================
