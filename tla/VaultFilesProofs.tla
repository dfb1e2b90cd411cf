--------------------------- MODULE VaultFilesProofs ---------------------------
(***************************************************************************)
(* The promises of VaultFiles for any number of processes, vaults, keys    *)
(* and sessions: the locks exclude each other, the key that an operation   *)
(* has in hand is the one that the keyring holds when its vault appears,   *)
(* and what it read is still there when it puts something in its place.    *)
(***************************************************************************)
EXTENDS VaultFiles, TLAPS

KeySteps == {"setkey", "confirm"}

\* A file shows one of the things it may show, all of them written since its
\* last acknowledged change.
Surviving ==
    /\ \A f \in File : live[f] \in kept[f]
    /\ \A c \in Conversation : kept[c] \subseteq since[c]

Files ==
    /\ DOMAIN live = File /\ DOMAIN kept = File /\ DOMAIN since = File
    /\ \A f \in File :
          {live[f]} \cup kept[f] \cup since[f] \subseteq Whole(f) \cup {None, Torn}
    /\ keyring \in Key \cup {None}
    /\ generated \subseteq Key
    /\ Readable
    /\ Surviving

\* The state of the vault is what create, or save, started from.
Expects(frame) ==
    \/ live[frame.file] = None /\ \E mode \in Mode : frame.new.state = R!NewState(mode, 0)
    \/ /\ live[frame.file] \in Sealed
       /\ frame.at \in {"write", "replace"}
       /\ LET old == live[frame.file].state
          IN  frame.new.state = R!NextRevision(old, old.mappings, old.bypassed, 0)

\* What an operation knows at each of its steps.
FrameOK(frame) ==
    /\ frame.at \in {"key", "setkey", "confirm", "unlink", "directory"} =>
          frame.file \in Conversation
    /\ frame.at \in {"write", "replace"} => frame.file \in File
    /\ frame.at \in {"key", "setkey", "confirm"} =>
          frame.new \in [key : Key \cup {None}, state : R!ConversationState]
    /\ frame.at = "setkey" => keyring = None
    /\ frame.at = "confirm" => frame.new.key \in Key /\ keyring \in {None, frame.new.key}
    /\ frame.at \in {"write", "replace"} =>
          /\ frame.new \in Whole(frame.file)
          /\ frame.file # Registry => frame.new.key = keyring
    /\ frame.at = "replace" => frame.synced
    /\ frame.at = "unlink" => live[frame.file] \in Sealed
    /\ frame.at \in {"key", "setkey", "confirm", "write", "replace"} /\ frame.file # Registry
          => Expects(frame)

\* One operation at a time on each file, one at a time makes the key.
Exclusive ==
    \A p, q \in Process :
        /\ Running(p) /\ Running(q) /\ call[p].file = call[q].file => p = q
        /\ call[p].at \in KeySteps /\ call[q].at \in KeySteps => p = q

Calls ==
    /\ call \in [Process -> Frame]
    /\ \A p \in Process : FrameOK(call[p])
    /\ Exclusive

FilesInvariant == Files /\ Calls

-----------------------------------------------------------------------------
(***************************************************************************)
(* The states that operations write.                                       *)
(***************************************************************************)
LEMMA NewStateTyped ==
    ASSUME NEW mode \in Mode
    PROVE  R!NewState(mode, 0) \in R!ConversationState
BY DEF R!NewState, R!ConversationState, R!Table

LEMMA NextRevisionTyped ==
    ASSUME NEW old \in R!ConversationState
    PROVE  R!NextRevision(old, old.mappings, old.bypassed, 0) \in R!ConversationState
BY DEF R!NextRevision, R!ConversationState

\* A vault that shows is a sealed state, and opens with the key in the keyring.
LEMMA ShownVault ==
    ASSUME Files, NEW c \in Conversation, live[c] \notin {None, Torn}
    PROVE  live[c] \in Sealed /\ live[c].key = keyring
<1>1. c \in File /\ c # Registry
  BY FilesAssumption DEF File
<1> QED BY <1>1 DEF Files, Readable, Whole

\* Nothing is sealed before there is a key.
LEMMA NothingSealedYet ==
    ASSUME Files, keyring = None, NEW c \in Conversation
    PROVE  kept[c] \subseteq {None} /\ live[c] = None
<1>1. c \in File /\ c # Registry /\ Whole(c) = Sealed
  BY FilesAssumption DEF File, Whole
<1>2. ASSUME NEW content \in kept[c] \cup {live[c]} PROVE content = None
  <2>1. content # Torn /\ (content # None => content.key = None)
    BY <1>1 DEF Files, Readable
  <2>2. content \in Sealed \cup {None, Torn}
    BY <1>1 DEF Files
  <2> QED BY <2>1, <2>2, FilesAssumption DEF Sealed
<1> QED BY <1>2

-----------------------------------------------------------------------------
(***************************************************************************)
(* Steps that touch no file: an operation begins, goes on or stops.        *)
(***************************************************************************)
\* p's frame changes and nothing else does.
Moves(p) ==
    /\ UNCHANGED <<live, kept, since, keyring, generated>>
    /\ call' \in [Process -> Frame]
    /\ \A q \in Process \ {p} : call'[q] = call[q]

LEMMA QuietStep ==
    ASSUME FilesInvariant, NEW p \in Process, Moves(p), FrameOK(call'[p]),
           call'[p].at # "idle" =>
               \A q \in Process \ {p} : Running(q) => call[q].file # call'[p].file,
           call'[p].at \in KeySteps =>
               \A q \in Process \ {p} : call[q].at \notin KeySteps
    PROVE  FilesInvariant'
<1>1. Files'
  BY DEF FilesInvariant, Files, Moves, Readable, Surviving
<1>2. \A q \in Process : FrameOK(call'[q])
  BY DEF FilesInvariant, Calls, Moves
<1>3. \A q \in Process : FrameOK(call[q])'
  BY <1>2 DEF Moves, FrameOK, Expects
<1>4. Exclusive'
  BY DEF FilesInvariant, Calls, Exclusive, Moves, Running
<1> QED BY <1>1, <1>3, <1>4 DEF FilesInvariant, Calls, Moves

LEMMA BeginStep ==
    ASSUME FilesInvariant, NEW p \in Process, NEW f, NEW at, NEW new,
           Begin(p, f, at, new), at \notin KeySteps,
           [at |-> at, file |-> f, synced |-> FALSE, new |-> new] \in Frame,
           FrameOK([at |-> at, file |-> f, synced |-> FALSE, new |-> new])
    PROVE  FilesInvariant'
<1>1. /\ call \in [Process -> Frame]
      /\ call'[p] = [at |-> at, file |-> f, synced |-> FALSE, new |-> new]
  BY DEF FilesInvariant, Calls, Begin
<1>2. Moves(p)
  BY <1>1 DEF Begin, Moves
<1>3. \A q \in Process : Running(q) => call[q].file # f
  BY DEF Begin, Locked
<1> QED BY <1>1, <1>2, <1>3, QuietStep

LEMMA BeginCreateStep ==
    ASSUME FilesInvariant, NEW p \in Process, NEW c \in Conversation, NEW mode \in Mode,
           BeginCreate(p, c, mode)
    PROVE  FilesInvariant'
<1> DEFINE new == [key |-> None, state |-> R!NewState(mode, 0)]
<1> DEFINE frame == [at |-> "key", file |-> c, synced |-> FALSE, new |-> new]
<1>1. new \in [key : Key \cup {None}, state : R!ConversationState]
  BY NewStateTyped
<1>2. frame \in Frame
  BY <1>1 DEF Frame, Step, File
<1>3. FrameOK(frame)
  BY <1>1 DEF FrameOK, Expects, BeginCreate
<1>4. Begin(p, c, "key", new)
  BY DEF BeginCreate
<1> HIDE DEF new
<1> QED BY <1>2, <1>3, <1>4, BeginStep DEF KeySteps

LEMMA BeginSaveStep ==
    ASSUME FilesInvariant, NEW p \in Process, NEW c \in Conversation, NEW expected,
           BeginSave(p, c, expected)
    PROVE  FilesInvariant'
<1> DEFINE old == live[c].state
<1> DEFINE state == R!NextRevision(old, old.mappings, old.bypassed, 0)
<1> DEFINE new == [key |-> keyring, state |-> state]
<1> DEFINE frame == [at |-> "write", file |-> c, synced |-> FALSE, new |-> new]
<1>1. live[c] \in Sealed /\ live[c].key = keyring
  BY ShownVault DEF BeginSave, Opens, FilesInvariant
<1>2. state \in R!ConversationState
  BY <1>1, NextRevisionTyped DEF Sealed
<1>3. new \in Sealed
  BY <1>1, <1>2 DEF Sealed
<1>4. frame \in Frame
  <2>1. new \in [key : Key \cup {None}, state : R!ConversationState]
    BY <1>3 DEF Sealed
  <2> QED BY <2>1 DEF Frame, Step, File
<1>5. FrameOK(frame)
  BY <1>1, <1>3, FilesAssumption DEF FrameOK, Expects, Whole, File
<1>6. Begin(p, c, "write", new)
  BY DEF BeginSave
<1> HIDE DEF new
<1> QED BY <1>4, <1>5, <1>6, BeginStep DEF KeySteps

LEMMA BeginDeleteStep ==
    ASSUME FilesInvariant, NEW p \in Process, NEW c \in Conversation, BeginDelete(p, c)
    PROVE  FilesInvariant'
<1> DEFINE frame == [at |-> "unlink", file |-> c, synced |-> FALSE, new |-> None]
<1>1. live[c] \in Sealed
  BY ShownVault DEF BeginDelete, Opens, FilesInvariant
<1>2. frame \in Frame
  BY DEF Frame, Step, File
<1>3. FrameOK(frame)
  BY <1>1 DEF FrameOK
<1>4. Begin(p, c, "unlink", None)
  BY DEF BeginDelete
<1> QED BY <1>2, <1>3, <1>4, BeginStep DEF KeySteps

LEMMA BeginBindStep ==
    ASSUME FilesInvariant, NEW p \in Process, NEW i \in Identity, NEW c \in Conversation,
           BeginBind(p, i, c)
    PROVE  FilesInvariant'
<1> DEFINE new == [bound |-> Registered \cup {<<i, c>>}]
<1> DEFINE frame == [at |-> "write", file |-> Registry, synced |-> FALSE, new |-> new]
<1>1. live[Registry] \in Bindings \cup {None}
  BY DEF FilesInvariant, Files, File, Whole, BeginBind
<1>2. Registered \subseteq Identity \X Conversation
  BY <1>1 DEF Registered, Bindings
<1>3. new \in Bindings
  BY <1>2 DEF Bindings
<1>4. frame \in Frame
  BY <1>3 DEF Frame, Step, File
<1>5. FrameOK(frame)
  BY <1>3 DEF FrameOK, Whole, File
<1>6. Begin(p, Registry, "write", new)
  BY DEF BeginBind
<1> HIDE DEF new
<1> QED BY <1>4, <1>5, <1>6, BeginStep DEF KeySteps

LEMMA ReadKeyStep ==
    ASSUME FilesInvariant, NEW p \in Process, ReadKey(p)
    PROVE  FilesInvariant'
<1>1. /\ call \in [Process -> Frame] /\ FrameOK(call[p]) /\ Exclusive
      /\ call[p].at = "key" /\ keyring \in Key \cup {None}
  BY DEF ReadKey, FilesInvariant, Calls, Files
<1>2. /\ call[p].file \in Conversation /\ call[p].file # Registry
      /\ call[p].new \in [key : Key \cup {None}, state : R!ConversationState]
      /\ Expects(call[p])
  BY <1>1, FilesAssumption DEF FrameOK
<1>3. \A q \in Process \ {p} : Running(q) => call[q].file # call[p].file
  BY <1>1 DEF Exclusive, Running
<1>4. \A q \in Process : call[q].at \notin KeySteps
  BY DEF ReadKey, KeyLocked, KeySteps
<1>5. CASE keyring # None /\ call' = [call EXCEPT ![p].at = "write", ![p].new.key = keyring]
  <2>1. /\ call'[p].at = "write" /\ call'[p].file = call[p].file
        /\ call'[p].synced = call[p].synced
        /\ call'[p].new = [call[p].new EXCEPT !.key = keyring]
        /\ call'[p] = [call[p] EXCEPT !.at = "write", !.new = [call[p].new EXCEPT !.key = keyring]]
    BY <1>1, <1>2, <1>5 DEF Frame
  <2>2. call'[p].new \in Sealed /\ call'[p].new.key = keyring /\ call'[p].new.state = call[p].new.state
    BY <1>1, <1>2, <1>5, <2>1 DEF Sealed
  <2>3. call'[p] \in Frame
    <3>1. call[p] \in Frame
      BY <1>1
    <3>2. call'[p].new \in [key : Key \cup {None}, state : R!ConversationState]
      BY <2>2 DEF Sealed
    <3> QED BY <3>1, <3>2, <2>1 DEF Frame, Step
  <2>4. Moves(p)
    BY <1>1, <1>5, <2>3 DEF Moves, ReadKey
  <2>5. Expects(call'[p])
    BY <1>1, <1>2, <2>1, <2>2 DEF Expects
  <2>6. FrameOK(call'[p])
    BY <1>2, <2>1, <2>2, <2>5 DEF FrameOK, Whole, File
  <2> QED BY <1>3, <2>1, <2>4, <2>6, QuietStep DEF KeySteps
<1>6. CASE keyring = None /\ GoTo(p, "setkey")
  <2>1. call'[p] = [call[p] EXCEPT !.at = "setkey"]
    BY <1>1, <1>6 DEF GoTo
  <2>2. call'[p] \in Frame /\ call'[p].at = "setkey" /\ call'[p].file = call[p].file
        /\ call'[p].new = call[p].new
    BY <1>1, <2>1 DEF Frame, Step
  <2>3. Moves(p)
    BY <1>1, <1>6, <2>2 DEF Moves, ReadKey, GoTo
  <2>4. Expects(call'[p])
    BY <1>1, <1>2, <2>2 DEF Expects
  <2>5. FrameOK(call'[p])
    BY <1>2, <1>6, <2>2, <2>4 DEF FrameOK
  <2> QED BY <1>3, <1>4, <2>2, <2>3, <2>5, QuietStep
<1> QED BY <1>5, <1>6 DEF ReadKey
LEMMA SetKeyStep ==
    ASSUME FilesInvariant, NEW p \in Process, SetKey(p)
    PROVE  FilesInvariant'
<1>1. /\ call \in [Process -> Frame] /\ call[p] \in Frame /\ FrameOK(call[p]) /\ Exclusive
      /\ call[p].at = "setkey" /\ keyring = None /\ generated \subseteq Key
      /\ \A q \in Process : FrameOK(call[q])
  BY DEF SetKey, FilesInvariant, Calls, Files, FrameOK
<1>2. /\ call[p].file \in Conversation /\ call[p].file # Registry
      /\ call[p].new \in [key : Key \cup {None}, state : R!ConversationState]
      /\ Expects(call[p])
  BY <1>1, FilesAssumption DEF FrameOK
<1>3. PICK k \in Key \ generated :
        /\ generated' = generated \cup {k}
        /\ keyring' \in {k, keyring}
        /\ call' = [call EXCEPT ![p].at = "confirm", ![p].new.key = k]
  BY DEF SetKey
<1>4. call'[p] = [call[p] EXCEPT !.at = "confirm", !.new = [call[p].new EXCEPT !.key = k]]
  BY <1>1, <1>2, <1>3 DEF Frame
<1>5. /\ call'[p].at = "confirm" /\ call'[p].file = call[p].file
      /\ call'[p].new = [call[p].new EXCEPT !.key = k]
  BY <1>1, <1>4 DEF Frame
<1>6. /\ call'[p].new \in [key : Key \cup {None}, state : R!ConversationState]
      /\ call'[p].new.key = k /\ call'[p].new.state = call[p].new.state
  BY <1>2, <1>5
<1>7. call'[p] \in Frame
  BY <1>1, <1>4, <1>6 DEF Frame, Step
<1>8. Files'
  <2>1. \A c \in Conversation : kept[c] \subseteq {None} /\ live[c] = None
    BY <1>1, NothingSealedYet DEF FilesInvariant
  <2>2. Readable'
    BY <2>1 DEF Readable, SetKey, File, FilesInvariant, Files
  <2> QED BY <2>2, <1>1, <1>3 DEF FilesInvariant, Files, SetKey, Surviving
<1>9. ASSUME NEW q \in Process PROVE FrameOK(call[q])'
  <2>1. CASE q = p
    <3>1. Expects(call[p])'
      BY <1>1, <1>2, <1>5, <1>6 DEF Expects, SetKey
    <3> QED BY <1>1, <1>2, <1>3, <1>5, <1>6, <2>1, <3>1 DEF FrameOK
  <2>2. CASE q # p
    <3>1. call'[q] = call[q] /\ call[q].at \notin KeySteps
      BY <1>1, <1>3, <2>2 DEF Exclusive, KeySteps
    <3>2. ~(call[q].at \in {"write", "replace"} /\ call[q].file # Registry)
      <4>1. SUFFICES ASSUME call[q].at \in {"write", "replace"}, call[q].file # Registry
                     PROVE  FALSE
        OBVIOUS
      <4>2. call[q].new \in Sealed /\ call[q].new.key = None
        BY <1>1, <4>1 DEF FrameOK, Whole
      <4> QED BY <4>2, FilesAssumption DEF Sealed
    <3>3. Expects(call[q]) => Expects(call[q])'
      BY <3>1 DEF Expects, SetKey
    <3> QED BY <1>1, <3>1, <3>2, <3>3 DEF FrameOK, KeySteps, SetKey
  <2> QED BY <2>1, <2>2
<1>10. Calls'
  <2>1. call' \in [Process -> Frame] /\ \A q \in Process \ {p} : call'[q] = call[q]
    BY <1>1, <1>3, <1>7
  <2>2. Exclusive'
    BY <1>1, <1>5, <2>1 DEF Exclusive, Running, KeySteps
  <2> QED BY <1>9, <2>1, <2>2 DEF Calls
<1> QED BY <1>8, <1>10 DEF FilesInvariant

\* A step that changes only where p stands.
LEMMA GoToFrame ==
    ASSUME FilesInvariant, NEW p \in Process, NEW at \in Step, Running(p),
           call' = [call EXCEPT ![p].at = at]
    PROVE  /\ call' \in [Process -> Frame]
           /\ \A q \in Process \ {p} : call'[q] = call[q]
           /\ call'[p].at = at /\ call'[p].file = call[p].file /\ call'[p].new = call[p].new
           /\ call'[p].synced = call[p].synced
           /\ FrameOK(call[p]) /\ Exclusive
           /\ \A q \in Process \ {p} : Running(q) => call[q].file # call[p].file
<1>1. call \in [Process -> Frame] /\ FrameOK(call[p]) /\ Exclusive
  BY DEF FilesInvariant, Calls
<1>2. call'[p] = [call[p] EXCEPT !.at = at] /\ call[p] \in Frame
  BY <1>1
<1>3. /\ call'[p] \in Frame /\ call'[p].at = at /\ call'[p].file = call[p].file
      /\ call'[p].new = call[p].new /\ call'[p].synced = call[p].synced
  BY <1>2 DEF Frame
<1> QED BY <1>1, <1>3 DEF Exclusive

LEMMA ConfirmKeyStep ==
    ASSUME FilesInvariant, NEW p \in Process, ConfirmKey(p)
    PROVE  FilesInvariant'
<1>1. Running(p) /\ "write" \in Step /\ call' = [call EXCEPT ![p].at = "write"]
  BY DEF ConfirmKey, Running, Step, GoTo
<1>2. /\ call' \in [Process -> Frame]
      /\ \A q \in Process \ {p} : call'[q] = call[q]
      /\ call'[p].at = "write" /\ call'[p].file = call[p].file /\ call'[p].new = call[p].new
      /\ FrameOK(call[p])
      /\ \A q \in Process \ {p} : Running(q) => call[q].file # call[p].file
  BY <1>1, GoToFrame
<1>3. Moves(p)
  BY <1>2 DEF Moves, ConfirmKey
<1>4. /\ call[p].at = "confirm" /\ keyring = call[p].new.key
      /\ call[p].file \in Conversation /\ call[p].file # Registry /\ call[p].new.key \in Key
      /\ call[p].new \in [key : Key \cup {None}, state : R!ConversationState]
      /\ Expects(call[p])
  BY <1>2, FilesAssumption DEF ConfirmKey, FrameOK
<1>5. call[p].new \in Sealed
  BY <1>4 DEF Sealed
<1>6. Expects(call'[p])
  BY <1>2, <1>4 DEF Expects
<1>7. FrameOK(call'[p])
  BY <1>2, <1>4, <1>5, <1>6 DEF FrameOK, Whole, File
<1> QED BY <1>2, <1>3, <1>7, QuietStep DEF KeySteps

LEMMA WriteTemporaryStep ==
    ASSUME FilesInvariant, NEW p \in Process, WriteTemporary(p)
    PROVE  FilesInvariant'
<1>1. /\ call \in [Process -> Frame] /\ FrameOK(call[p]) /\ Exclusive /\ call[p].at = "write"
  BY DEF WriteTemporary, FilesInvariant, Calls
<1>2. call'[p] = [call[p] EXCEPT !.at = "replace", !.synced = TRUE]
  BY <1>1 DEF WriteTemporary
<1>3. /\ call'[p] \in Frame /\ call'[p].at = "replace" /\ call'[p].synced
      /\ call'[p].file = call[p].file /\ call'[p].new = call[p].new
  BY <1>1, <1>2 DEF Frame, Step
<1>4. Moves(p)
  BY <1>1, <1>3 DEF Moves, WriteTemporary
<1>5. call[p].file # Registry => Expects(call'[p])
  BY <1>1, <1>3 DEF FrameOK, Expects
<1>6. FrameOK(call'[p])
  BY <1>1, <1>3, <1>5 DEF FrameOK
<1>7. \A q \in Process \ {p} : Running(q) => call[q].file # call[p].file
  BY <1>1 DEF Exclusive, Running
<1> QED BY <1>3, <1>4, <1>6, <1>7, QuietStep DEF KeySteps

LEMMA IdleFrame == Idle \in Frame /\ Idle.at = "idle" /\ FrameOK(Idle)
BY DEF Idle, Frame, Step, FrameOK

LEMMA StopStep ==
    ASSUME FilesInvariant, NEW p \in Process, Stop(p)
    PROVE  FilesInvariant'
<1>1. call \in [Process -> Frame] /\ call'[p] = Idle
  BY DEF Stop, FilesInvariant, Calls
<1>2. Moves(p)
  BY <1>1, IdleFrame DEF Moves, Stop
<1> QED BY <1>1, <1>2, IdleFrame, QuietStep DEF KeySteps
-----------------------------------------------------------------------------
(***************************************************************************)
(* Steps that show something new.                                          *)
(***************************************************************************)
LEMMA ShowFiles ==
    ASSUME Files, NEW f \in File, NEW content \in Whole(f) \cup {None},
           f # Registry /\ content # None => content.key = keyring,
           Show(f, content, TRUE), UNCHANGED <<keyring, generated>>,
           DOMAIN since' = File, since'[f] \subseteq since[f] \cup {content},
           f # Registry => since[f] \cup {content} \subseteq since'[f],
           \A g \in File \ {f} : since'[g] = since[g]
    PROVE  Files'
<1>1. /\ DOMAIN live' = File /\ DOMAIN kept' = File /\ DOMAIN since' = File
      /\ live'[f] = content /\ kept'[f] = kept[f] \cup {content}
      /\ \A g \in File \ {f} : live'[g] = live[g] /\ kept'[g] = kept[g] /\ since'[g] = since[g]
  BY DEF Files, Show
<1>2. content # Torn
  BY FilesAssumption DEF Whole
<1>3. \A g \in File : {live'[g]} \cup kept'[g] \cup since'[g] \subseteq Whole(g) \cup {None, Torn}
  BY <1>1 DEF Files
<1>4. Readable'
  BY <1>1, <1>2 DEF Files, Readable
<1>5. Surviving'
  <2>1. \A g \in File : live'[g] \in kept'[g]
    BY <1>1 DEF Files, Surviving
  <2>2. \A c \in Conversation : kept'[c] \subseteq since'[c]
    BY <1>1, FilesAssumption DEF Files, Surviving, File
  <2> QED BY <2>1, <2>2 DEF Surviving
<1> QED BY <1>1, <1>3, <1>4, <1>5 DEF Files

\* What the other operations know does not depend on the file of p.
LEMMA OthersKnow ==
    ASSUME FilesInvariant, NEW p \in Process, Running(p),
           call' \in [Process -> Frame], \A q \in Process \ {p} : call'[q] = call[q],
           call'[p].at = "idle" \/ call'[p].file = call[p].file,
           call'[p].at \notin KeySteps,
           \A g \in File \ {call[p].file} : live'[g] = live[g], UNCHANGED keyring,
           FrameOK(call[p])'
    PROVE  Calls'
<1>1. \A q \in Process \ {p} : Running(q) => call[q].file # call[p].file
  BY DEF FilesInvariant, Calls, Exclusive
<1>2. ASSUME NEW q \in Process \ {p} PROVE FrameOK(call[q])'
  <2>1. FrameOK(call[q]) /\ call'[q] = call[q]
    BY DEF FilesInvariant, Calls
  <2>2. CASE call[q].at = "idle"
    BY <2>1, <2>2 DEF FrameOK
  <2>3. CASE call[q].at # "idle"
    <3>1. call[q].file # call[p].file
      BY <1>1, <2>3 DEF Running
    <3>2. call[q].at # "idle" /\ call[q].file \in File => live'[call[q].file] = live[call[q].file]
      BY <3>1
    <3>3. call[q].file \in File /\ Expects(call[q]) => Expects(call[q])'
      BY <2>1, <2>3, <3>2 DEF Expects
    <3>4. call[q].file \in Conversation => call[q].file \in File
      BY DEF File
    <3> QED BY <2>1, <2>3, <3>2, <3>3, <3>4 DEF FrameOK
  <2> QED BY <2>2, <2>3
<1>3. Exclusive'
  BY DEF FilesInvariant, Calls, Exclusive, Running
<1> QED BY <1>2, <1>3 DEF Calls

LEMMA ReplaceVaultStep ==
    ASSUME FilesInvariant, NEW p \in Process, ReplaceVault(p)
    PROVE  FilesInvariant'
<1> DEFINE f == call[p].file
<1>1. /\ Running(p) /\ "directory" \in Step /\ call' = [call EXCEPT ![p].at = "directory"]
      /\ FrameOK(call[p])
  BY DEF ReplaceVault, Running, Step, GoTo, FilesInvariant, Calls
<1>2. /\ f \in Conversation /\ f \in File /\ f # Registry /\ call[p].synced
      /\ call[p].new \in Whole(f) /\ call[p].new.key = keyring
  BY <1>1 DEF ReplaceVault, FrameOK, File
<1>3. Show(f, call[p].new, TRUE)
  BY <1>2 DEF ReplaceVault, Show
<1>4. Files'
  <2>1. Files /\ UNCHANGED <<keyring, generated>>
    BY DEF ReplaceVault, FilesInvariant
  <2>2. /\ DOMAIN since' = File /\ since'[f] = since[f] \cup {call[p].new}
        /\ \A g \in File \ {f} : since'[g] = since[g]
    BY <1>2, <2>1 DEF ReplaceVault, Files
  <2> QED BY <1>2, <1>3, <2>1, <2>2, ShowFiles
<1>5. /\ call' \in [Process -> Frame] /\ \A q \in Process \ {p} : call'[q] = call[q]
      /\ call'[p].at = "directory" /\ call'[p].file = f
  BY <1>1, GoToFrame
<1>6. FrameOK(call[p])'
  BY <1>2, <1>5 DEF FrameOK
<1>7. \A g \in File \ {f} : live'[g] = live[g]
  BY <1>3 DEF Show, FilesInvariant, Files
<1>8. Calls'
  BY <1>1, <1>5, <1>6, <1>7, OthersKnow DEF ReplaceVault, KeySteps
<1> QED BY <1>4, <1>8 DEF FilesInvariant

LEMMA ReplaceRegistryStep ==
    ASSUME FilesInvariant, NEW p \in Process, ReplaceRegistry(p)
    PROVE  FilesInvariant'
<1>1. /\ Running(p) /\ FrameOK(call[p]) /\ call \in [Process -> Frame] /\ call'[p] = Idle
      /\ call[p].file = Registry
  BY DEF ReplaceRegistry, Running, FilesInvariant, Calls
<1>2. Registry \in File /\ call[p].synced /\ call[p].new \in Whole(Registry)
  BY <1>1 DEF ReplaceRegistry, FrameOK, File
<1>3. Show(Registry, call[p].new, TRUE)
  BY <1>2 DEF ReplaceRegistry, Show
<1>4. Files'
  <2>1. Files /\ UNCHANGED <<keyring, generated>>
    BY DEF ReplaceRegistry, FilesInvariant
  <2>2. /\ DOMAIN since' = File /\ since'[Registry] = {call[p].new}
        /\ \A g \in File \ {Registry} : since'[g] = since[g]
    BY <1>2, <2>1 DEF ReplaceRegistry, Files
  <2> QED BY <1>2, <1>3, <2>1, <2>2, ShowFiles
<1>5. call' \in [Process -> Frame] /\ \A q \in Process \ {p} : call'[q] = call[q]
  BY <1>1, IdleFrame DEF ReplaceRegistry
<1>6. FrameOK(call[p])'
  BY <1>1 DEF FrameOK, Idle
<1>7. \A g \in File \ {Registry} : live'[g] = live[g]
  BY <1>3 DEF Show, FilesInvariant, Files
<1>8. Calls'
  BY <1>1, <1>5, <1>6, <1>7, IdleFrame, OthersKnow DEF ReplaceRegistry, KeySteps
<1> QED BY <1>4, <1>8 DEF FilesInvariant

LEMMA UnlinkStep ==
    ASSUME FilesInvariant, NEW p \in Process, Unlink(p)
    PROVE  FilesInvariant'
<1> DEFINE f == call[p].file
<1>1. /\ Running(p) /\ "directory" \in Step /\ call' = [call EXCEPT ![p].at = "directory"]
      /\ FrameOK(call[p])
  BY DEF Unlink, Running, Step, GoTo, FilesInvariant, Calls
<1>2. f \in Conversation /\ f \in File
  BY <1>1 DEF Unlink, FrameOK, File
<1>3. Show(f, None, TRUE)
  BY DEF Unlink
<1>4. Files'
  <2>1. Files /\ UNCHANGED <<keyring, generated>>
    BY DEF Unlink, FilesInvariant
  <2>2. /\ DOMAIN since' = File /\ since'[f] = since[f] \cup {None}
        /\ \A g \in File \ {f} : since'[g] = since[g]
    BY <1>2, <2>1 DEF Unlink, Files
  <2> QED BY <1>2, <1>3, <2>1, <2>2, ShowFiles
<1>5. /\ call' \in [Process -> Frame] /\ \A q \in Process \ {p} : call'[q] = call[q]
      /\ call'[p].at = "directory" /\ call'[p].file = f
  BY <1>1, GoToFrame
<1>6. FrameOK(call[p])'
  BY <1>2, <1>5 DEF FrameOK
<1>7. \A g \in File \ {f} : live'[g] = live[g]
  BY <1>3 DEF Show, FilesInvariant, Files
<1>8. Calls'
  BY <1>1, <1>5, <1>6, <1>7, OthersKnow DEF Unlink, KeySteps
<1> QED BY <1>4, <1>8 DEF FilesInvariant

LEMMA SyncDirectoryStep ==
    ASSUME FilesInvariant, NEW p \in Process, SyncDirectory(p)
    PROVE  FilesInvariant'
<1> DEFINE f == call[p].file
<1>1. /\ Running(p) /\ FrameOK(call[p]) /\ call \in [Process -> Frame] /\ call'[p] = Idle
      /\ f \in Conversation /\ f \in File
  BY DEF SyncDirectory, Running, FilesInvariant, Calls, FrameOK, File
<1>2. \A g \in File : Torn \notin kept[g] /\ live[g] \in kept[g]
  BY DEF FilesInvariant, Files, Readable, Surviving
<1>3. /\ DOMAIN live' = File /\ DOMAIN kept' = File /\ DOMAIN since' = File
      /\ live' = live /\ keyring' = keyring /\ generated' = generated
      /\ \A g \in File : kept'[g] = {live[g]}
      /\ since'[f] = {live[f]}
      /\ \A g \in File \ {f} : since'[g] = since[g]
  BY <1>1, <1>2 DEF SyncDirectory, FilesInvariant, Files
<1>4. \A g \in File : {live'[g]} \cup kept'[g] \cup since'[g] \subseteq Whole(g) \cup {None, Torn}
  BY <1>3 DEF FilesInvariant, Files
<1>5. Readable'
  BY <1>3 DEF FilesInvariant, Files, Readable
<1>6. Surviving'
  BY <1>2, <1>3 DEF FilesInvariant, Files, Surviving, File
<1>7. Files'
  BY <1>3, <1>4, <1>5, <1>6 DEF FilesInvariant, Files
<1>8. call' \in [Process -> Frame] /\ \A q \in Process \ {p} : call'[q] = call[q]
  BY <1>1, IdleFrame DEF SyncDirectory
<1>9. FrameOK(call[p])'
  BY <1>1 DEF FrameOK, Idle
<1>10. Calls'
  BY <1>1, <1>3, <1>8, <1>9, IdleFrame, OthersKnow DEF KeySteps
<1> QED BY <1>7, <1>10 DEF FilesInvariant

LEMMA PowerLossStep ==
    ASSUME FilesInvariant, PowerLoss
    PROVE  FilesInvariant'
<1>1. /\ DOMAIN live' = File /\ DOMAIN kept' = File /\ DOMAIN since' = File
      /\ since' = since /\ keyring' = keyring /\ generated' = generated
      /\ \A f \in File : live'[f] \in kept[f] /\ kept'[f] = {live'[f]}
  BY DEF PowerLoss, FilesInvariant, Files
<1>2. \A f \in File : {live'[f]} \cup kept'[f] \cup since'[f] \subseteq Whole(f) \cup {None, Torn}
  BY <1>1 DEF FilesInvariant, Files
<1>3. Readable'
  BY <1>1 DEF FilesInvariant, Files, Readable
<1>4. Surviving'
  BY <1>1 DEF FilesInvariant, Files, Surviving, File
<1>5. Files'
  BY <1>1, <1>2, <1>3, <1>4 DEF FilesInvariant, Files
<1>6. call' \in [Process -> Frame] /\ \A q \in Process : call'[q].at = "idle"
  BY IdleFrame DEF PowerLoss
<1>7. \A q \in Process : FrameOK(call[q])'
  BY <1>6 DEF FrameOK
<1>8. Exclusive'
  BY <1>6 DEF Exclusive, Running, KeySteps
<1> QED BY <1>5, <1>6, <1>7, <1>8 DEF FilesInvariant, Calls

-----------------------------------------------------------------------------
LEMMA InitHolds == Init => FilesInvariant
<1> SUFFICES ASSUME Init PROVE FilesInvariant
  OBVIOUS
<1>1. Files
  BY FilesAssumption DEF Init, Files, Readable, Surviving, File
<1>2. call \in [Process -> Frame] /\ \A p \in Process : call[p].at = "idle"
  BY IdleFrame DEF Init
<1>3. \A p \in Process : FrameOK(call[p])
  BY <1>2 DEF FrameOK
<1>4. Exclusive
  BY <1>2 DEF Exclusive, Running, KeySteps
<1> QED BY <1>1, <1>2, <1>3, <1>4 DEF FilesInvariant, Calls

LEMMA NextHolds ==
    ASSUME FilesInvariant, [Next]_vars
    PROVE  FilesInvariant'
<1>1. CASE PowerLoss
  BY <1>1, PowerLossStep
<1>2. CASE \E p \in Process : Operate(p)
  <2>1. PICK p \in Process : Operate(p)
    BY <1>2
  <2>2. CASE \E c \in Conversation :
               \/ \E mode \in Mode : BeginCreate(p, c, mode)
               \/ \E expected \in 0 .. MaxRevision : BeginSave(p, c, expected)
               \/ BeginDelete(p, c)
               \/ \E i \in Identity : BeginBind(p, i, c)
    BY <2>2, BeginCreateStep, BeginSaveStep, BeginDeleteStep, BeginBindStep
  <2>3. CASE ReadKey(p) \/ SetKey(p) \/ ConfirmKey(p)
    BY <2>3, ReadKeyStep, SetKeyStep, ConfirmKeyStep
  <2>4. CASE WriteTemporary(p) \/ Stop(p)
    BY <2>4, WriteTemporaryStep, StopStep
  <2>5. CASE ReplaceVault(p) \/ ReplaceRegistry(p) \/ Unlink(p) \/ SyncDirectory(p)
    BY <2>5, ReplaceVaultStep, ReplaceRegistryStep, UnlinkStep, SyncDirectoryStep
  <2> QED BY <2>1, <2>2, <2>3, <2>4, <2>5 DEF Operate
<1>3. CASE UNCHANGED vars
  <2>1. Files'
    BY <1>3 DEF vars, FilesInvariant, Files, Readable, Surviving
  <2>2. \A q \in Process : FrameOK(call[q])'
    BY <1>3 DEF vars, FilesInvariant, Calls, FrameOK, Expects
  <2>3. Exclusive'
    BY <1>3 DEF vars, FilesInvariant, Calls, Exclusive, Running
  <2> QED BY <1>3, <2>1, <2>2, <2>3 DEF vars, FilesInvariant, Calls
<1> QED BY <1>1, <1>2, <1>3 DEF Next

\* The invariant that the promises rest on: the files' and the operations' part.
THEOREM FilesInvariantHolds == Spec => []FilesInvariant
BY InitHolds, NextHolds, PTL DEF Spec

\* Files, keys and frames keep their types, for any number of each.
THEOREM FilesTypeCorrect == Spec => []FilesTypeOK
<1>1. FilesInvariant => FilesTypeOK
  BY DEF FilesInvariant, Files, Calls, FilesTypeOK
<1> QED BY <1>1, FilesInvariantHolds, PTL

\* Whatever a name shows or may show after a power loss is whole and opens
\* under the master key (write_unlocked, get_or_create).
THEOREM VaultsStayReadable == Spec => []Readable
<1>1. FilesInvariant => Readable
  BY DEF FilesInvariant, Files
<1> QED BY <1>1, FilesInvariantHolds, PTL
-----------------------------------------------------------------------------
(***************************************************************************)
(* The promises of DurableFiles, with what each name showed since its last *)
(* acknowledged change as what may survive.                                *)
(***************************************************************************)
Shown == [c \in Conversation |-> live[c]]
Survivors == [c \in Conversation |-> since[c]]

\* A vault is replaced or unlinked.
LEMMA ChangeRefines ==
    ASSUME Files, NEW c \in Conversation, NEW content \in Sealed \cup {None},
           Show(c, content, TRUE), since' = [since EXCEPT ![c] = @ \cup {content}]
    PROVE  Durable!Change(c)
<1>1. Conversation \subseteq File /\ DOMAIN live = File /\ DOMAIN since = File
  BY DEF Files, File
<1>2. live' = [live EXCEPT ![c] = content]
  BY DEF Show
<1>3. Shown' = [Shown EXCEPT ![c] = content]
  BY <1>1, <1>2 DEF Shown
<1>4. Survivors' = [Survivors EXCEPT ![c] = @ \cup {content}]
  BY <1>1 DEF Survivors
<1>5. Shown'[c] = content
  BY <1>3 DEF Shown
<1> QED BY <1>3, <1>4, <1>5 DEF Durable!Change, Shown, Survivors

LEMMA StepRefines ==
    ASSUME FilesInvariant, [Next]_vars
    PROVE  [Durable!FilesNext]_(Durable!filesVars)
<1>1. CASE UNCHANGED <<live, since>>
  BY <1>1 DEF Durable!filesVars
<1>2. CASE PowerLoss
  <2>1. \A c \in Conversation : live'[c] \in since[c]
    BY <1>2 DEF PowerLoss, FilesInvariant, Files, Surviving, File
  <2>2. Shown' \in [Conversation -> UNION {since[c] : c \in Conversation}] /\ DOMAIN Shown' = Conversation
    BY <2>1 DEF Shown
  <2>3. \A c \in Conversation : Shown'[c] \in Survivors[c]
    BY <2>1 DEF Shown, Survivors
  <2>4. UNCHANGED Survivors
    BY <1>2 DEF PowerLoss, Survivors
  <2>5. Durable!LosePower
    BY <2>2, <2>3, <2>4 DEF Durable!LosePower, Shown, Survivors
  <2> QED BY <2>5 DEF Durable!FilesNext
<1>3. ASSUME NEW p \in Process, ReplaceVault(p) PROVE Durable!FilesNext
  <2>1. /\ call[p].file \in Conversation /\ call[p].synced /\ call[p].new \in Sealed
    BY <1>3 DEF ReplaceVault, FilesInvariant, Calls, FrameOK, File, Whole
  <2>2. PICK c \in Conversation : c = call[p].file
    BY <2>1
  <2>3. PICK content \in Sealed : content = call[p].new
    BY <2>1
  <2>4. Show(c, content, TRUE) /\ since' = [since EXCEPT ![c] = @ \cup {content}]
    BY <1>3, <2>1, <2>2, <2>3 DEF ReplaceVault, Show
  <2>5. Durable!Change(c)
    BY <2>4, ChangeRefines DEF FilesInvariant
  <2> QED BY <2>5 DEF Durable!FilesNext
<1>4. ASSUME NEW p \in Process, Unlink(p) PROVE Durable!FilesNext
  <2>1. PICK c \in Conversation : c = call[p].file
    BY <1>4 DEF Unlink, FilesInvariant, Calls, FrameOK
  <2>2. Show(c, None, TRUE) /\ since' = [since EXCEPT ![c] = @ \cup {None}]
    BY <1>4, <2>1 DEF Unlink
  <2>3. Durable!Change(c)
    BY <2>2, ChangeRefines DEF FilesInvariant
  <2> QED BY <2>3 DEF Durable!FilesNext
<1>5. ASSUME NEW p \in Process, SyncDirectory(p) PROVE Durable!FilesNext
  <2>1. PICK c \in Conversation : c = call[p].file
    BY <1>5 DEF SyncDirectory, FilesInvariant, Calls, FrameOK
  <2>2. Conversation \subseteq File /\ DOMAIN since = File
    BY DEF FilesInvariant, Files, File
  <2>3. Survivors' = [Survivors EXCEPT ![c] = {Shown[c]}]
    BY <1>5, <2>1, <2>2 DEF SyncDirectory, Survivors, Shown
  <2>4. UNCHANGED Shown
    BY <1>5 DEF SyncDirectory, Shown
  <2>5. Durable!Acknowledge(c)
    BY <2>3, <2>4 DEF Durable!Acknowledge, Shown, Survivors
  <2> QED BY <2>1, <2>5 DEF Durable!FilesNext
<1>6. ASSUME NEW p \in Process, ReplaceRegistry(p) PROVE UNCHANGED <<Shown, Survivors>>
  <2>1. Conversation \subseteq File \ {Registry} /\ DOMAIN live = File /\ DOMAIN since = File
    BY FilesAssumption DEF FilesInvariant, Files, File
  <2>2. live' = [live EXCEPT ![Registry] = call[p].new] /\ since' = [since EXCEPT ![Registry] = {call[p].new}]
    BY <1>6 DEF ReplaceRegistry, Show
  <2> QED BY <2>1, <2>2 DEF Shown, Survivors
<1>7. ASSUME NEW p \in Process, Operate(p)
      PROVE  \/ UNCHANGED <<live, since>>
             \/ ReplaceVault(p) \/ Unlink(p) \/ SyncDirectory(p) \/ ReplaceRegistry(p)
  BY <1>7 DEF Operate, BeginCreate, BeginSave, BeginDelete, BeginBind, Begin, ReadKey, SetKey,
              ConfirmKey, WriteTemporary, Stop
<1>8. CASE UNCHANGED vars
  BY <1>8 DEF vars, Durable!filesVars
<1>9. CASE \E p \in Process : Operate(p)
  <2>1. PICK p \in Process : Operate(p)
    BY <1>9
  <2>2. CASE ReplaceRegistry(p)
    BY <1>6, <2>2 DEF Durable!filesVars, Shown, Survivors
  <2> QED BY <1>1, <1>3, <1>4, <1>5, <1>7, <2>1, <2>2
<1> QED BY <1>2, <1>8, <1>9 DEF Next

\* Every vault is durable from the moment its operation returns, and shows
\* nothing else than its old or its new contents before (_sync_directory).
THEOREM VaultsEndure == Spec => DurableVaults
<1>1. Init => Durable!FilesInit
  <2> SUFFICES ASSUME Init PROVE Durable!FilesInit
    OBVIOUS
  <2>1. Conversation \subseteq File
    BY DEF File
  <2>2. Shown = [c \in Conversation |-> None] /\ Survivors = [c \in Conversation |-> {None}]
    BY <2>1 DEF Init, Shown, Survivors
  <2> QED BY <2>2 DEF Durable!FilesInit, Shown, Survivors
<1>2. FilesInvariant /\ [Next]_vars => [Durable!FilesNext]_(Durable!filesVars)
  BY StepRefines
<1> QED BY <1>1, <1>2, FilesInvariantHolds, PTL DEF Spec, DurableVaults, Durable!FilesSpec
-----------------------------------------------------------------------------
(***************************************************************************)
(* The operations of VaultRepository.                                      *)
(***************************************************************************)
Vaults == [c \in Conversation |-> IF live[c] \in {None, Torn} THEN None ELSE live[c].state]

\* What a repository sees when one vault shows something else.
LEMMA VaultsChange ==
    ASSUME Files, NEW c \in Conversation, NEW content, Show(c, content, TRUE)
    PROVE  /\ content \in Sealed => Vaults' = [Vaults EXCEPT ![c] = content.state]
           /\ content = None => Vaults' = [Vaults EXCEPT ![c] = None]
<1>1. Conversation \subseteq File /\ DOMAIN live = File
  BY DEF Files, File
<1>2. live' = [live EXCEPT ![c] = content]
  BY DEF Show
<1>3. content \in Sealed => content \notin {None, Torn}
  BY FilesAssumption
<1> QED BY <1>1, <1>2, <1>3 DEF Vaults

LEMMA ReplaceIsRepositoryStep ==
    ASSUME FilesInvariant, NEW p \in Process, ReplaceVault(p)
    PROVE  RepositoryStep
<1> DEFINE new == call[p].new
<1>0. /\ call[p].file \in Conversation /\ call[p].synced /\ new \in Sealed /\ Expects(call[p])
  BY DEF ReplaceVault, FilesInvariant, Calls, FrameOK, File, Whole
<1>1. PICK c \in Conversation : c = call[p].file
  BY <1>0
<1>2. Show(c, new, TRUE)
  BY <1>0, <1>1 DEF ReplaceVault, Show
<1>3. Vaults' = [Vaults EXCEPT ![c] = new.state]
  BY <1>0, <1>2, VaultsChange DEF FilesInvariant
<1>4. CASE live[c] = None /\ \E mode \in Mode : new.state = R!NewState(mode, 0)
  <2>1. PICK mode \in Mode : new.state = R!NewState(mode, 0)
    BY <1>4
  <2>2. Vaults[c] = None
    BY <1>1, <1>4 DEF Vaults
  <2>3. R!Create(c, R!NewState(mode, 0), "ok")
    BY <1>3, <2>1, <2>2 DEF R!Create, R!Exists, R!Replace, Vaults
  <2> QED BY <2>3 DEF RepositoryStep
<1>5. CASE live[c] \in Sealed /\ new.state = R!NextRevision(live[c].state, live[c].state.mappings, live[c].state.bypassed, 0)
  <2> DEFINE old == live[c].state
  <2>1. live[c] \notin {None, Torn} /\ Vaults[c] = old
    BY <1>1, <1>5, FilesAssumption DEF Vaults
  <2>2. old \in R!ConversationState /\ old # None
    BY <1>5, FilesAssumption DEF Sealed
  <2>3. R!Save(c, R!NextRevision(old, old.mappings, old.bypassed, 0), old.revision, "ok")
    BY <1>3, <1>5, <2>1, <2>2 DEF R!Save, R!Exists, R!Replace, Vaults
  <2> QED BY <2>1, <2>3 DEF RepositoryStep
<1> QED BY <1>0, <1>1, <1>4, <1>5 DEF Expects

LEMMA UnlinkIsRepositoryStep ==
    ASSUME FilesInvariant, NEW p \in Process, Unlink(p)
    PROVE  RepositoryStep
<1>1. PICK c \in Conversation : c = call[p].file /\ live[c] \in Sealed
  BY DEF Unlink, FilesInvariant, Calls, FrameOK
<1> DEFINE old == live[c].state
<1>2. Vaults' = [Vaults EXCEPT ![c] = None]
  BY <1>1, VaultsChange DEF Unlink, FilesInvariant
<1>3. live[c] \notin {None, Torn} /\ Vaults[c] = old
  BY <1>1, FilesAssumption DEF Vaults
<1>4. old \in R!ConversationState /\ old # None /\ old.last_activity \in Nat
  BY <1>1, FilesAssumption DEF Sealed, R!ConversationState
<1>5. R!Inactive(old, old.last_activity + Retention)
  BY <1>4, FilesAssumption DEF R!Inactive
<1>6. R!DeleteIfInactive(c, old.last_activity + Retention, "deleted")
  BY <1>2, <1>3, <1>4, <1>5 DEF R!DeleteIfInactive, R!Exists, Vaults
<1> QED BY <1>1, <1>3, <1>6 DEF RepositoryStep

\* Whatever runs at the same time, each vault changes by whole operations of
\* the repository, on the state that the operation has read (AtomicVaultStore.lock).
THEOREM RepositoryStepsHold == Spec => RepositorySteps
<1>1. FilesInvariant /\ [Next]_vars =>
        [PowerLoss \/ RepositoryStep \/ \A c \in Conversation : live'[c] = live[c]]_vars
  <2> SUFFICES ASSUME FilesInvariant, Next
               PROVE  PowerLoss \/ RepositoryStep \/ \A c \in Conversation : live'[c] = live[c]
    OBVIOUS
  <2>1. CASE \E p \in Process : Operate(p)
    <3>1. PICK p \in Process : Operate(p)
      BY <2>1
    <3>2. CASE ReplaceVault(p) \/ Unlink(p)
      BY <3>2, ReplaceIsRepositoryStep, UnlinkIsRepositoryStep
    <3>3. CASE ReplaceRegistry(p)
      BY <3>3, FilesAssumption DEF ReplaceRegistry, Show, FilesInvariant, Files, File
    <3>4. \/ UNCHANGED live
          \/ ReplaceVault(p) \/ Unlink(p) \/ ReplaceRegistry(p)
      BY <3>1 DEF Operate, BeginCreate, BeginSave, BeginDelete, BeginBind, Begin, ReadKey,
                  SetKey, ConfirmKey, WriteTemporary, SyncDirectory, Stop
    <3> QED BY <3>2, <3>3, <3>4
  <2> QED BY <2>1 DEF Next
<1> QED BY <1>1, FilesInvariantHolds, PTL DEF Spec, RepositorySteps
=============================================================================
