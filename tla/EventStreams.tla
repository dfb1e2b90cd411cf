----------------------------- MODULE EventStreams -----------------------------
(***************************************************************************)
(* The restoration of a provider's event stream: transform_sse_bytes for   *)
(* Anthropic Messages (protocols/messages/sse.py) and for OpenAI Responses *)
(* (protocols/responses/sse.py).                                           *)
(*                                                                         *)
(* Both read the frames of a stream in order and hold back the deltas of   *)
(* every text until it is complete: a content block until it stops, the    *)
(* deltas of an item until its done event, which repeats the whole text.   *)
(* The whole restored text then takes the place of the first delta, and    *)
(* the others become empty.                                                *)
(*                                                                         *)
(* The code has the whole payload before it looks at the first frame; here *)
(* the provider chooses each frame when the scan reaches it.               *)
(***************************************************************************)
EXTENDS StreamText

CONSTANTS
    None,
    Event,              \* protocol -> the frames that a provider may send
    Restore(_),         \* restore_text: the restored text, or None
    RestoreJson(_),     \* the same for tool input: None unless it is an object
    MaxFrames,          \* bound: protocol -> the frames of a stream
    MaxDeltas,          \* bound: deltas that are held back of one text
    MaxPlain,           \* bound: frames outside every text
    MaxGood             \* bound: frames before one that is refused

VARIABLES
    protocol,           \* the handler of the stream
    frames,             \* the stream, as the provider sent it
    out,                \* the stream, as it is being rewritten
    pending,            \* texts that are not complete, with the frames of their deltas
    outcome             \* "open", "delivered" or "refused"

vars == <<protocol, frames, out, pending, outcome>>

Type == {"start", "delta", "stop", "done", "direct", "opaque", "malformed"}

\* A text is a sequence of pieces, which an alias may be cut into.
Texts == Seq(STRING)

\* Only Messages has blocks, only Responses repeats a text; and each frame that
\* is looked at by itself is known to have a text for the client or not.
ASSUME EventAssumption ==
    /\ DOMAIN Event = {"messages", "responses"}
    /\ None \notin {"text", "tool", "other"} /\ None \notin Texts
    /\ \A p \in DOMAIN Event : \A f \in Event[p] :
          /\ f \in [type : Type, name : {f.name}, kind : {"text", "tool", "other"}, text : Texts]
          /\ f.type \notin (IF p = "messages" THEN {"done"} ELSE {"start", "stop"})
          /\ f.type \in {"stop", "opaque"} => f.kind = "other"
          /\ f.type = "direct" => f.kind # "other"

\* The blocks of a Messages stream are told apart by their index, the deltas of
\* a Responses stream by their type and item.
Key(f) == IF protocol = "messages" THEN <<"block", f.name>> ELSE <<f.kind, f.name>>

\* Held back are deltas only, each by one text.
StreamTypeOK ==
    /\ outcome \in {"open", "delivered", "refused"}
    /\ \A f \in Range(frames) : f \in Event[protocol]
    /\ \A key \in DOMAIN pending : \A n \in Range(pending[key].at) :
         /\ frames[n].type = "delta" /\ Key(frames[n]) = key
         /\ out[n] = frames[n]

Init ==
    /\ protocol \in DOMAIN Event
    /\ frames = <<>> /\ out = <<>>
    /\ pending = <<>>
    /\ outcome = "open"

-----------------------------------------------------------------------------
Restored(kind, text) ==
    CASE kind = "text" -> Restore(text)
      [] kind = "tool" -> RestoreJson(text)
      [] OTHER -> text

\* Restoring a text gives a text, or fails.
RestoresText(text) == {Restore(text), RestoreJson(text)} \subseteq Texts \cup {None}

PendingKind(key) == IF key \in DOMAIN pending THEN pending[key].kind ELSE None
Held(key) == IF key \in DOMAIN pending THEN pending[key].at ELSE <<>>
Combined(at) == Flat(out, at)

\* Seeded fault: every delta is restored by itself.
Rewritten_OneByOne(at, text) ==
    [n \in DOMAIN out |-> IF n \in Range(at) /\ Restore(out[n].text) # None
                          THEN [out[n] EXCEPT !.text = Restore(out[n].text)]
                          ELSE out[n]]

\* The first of the deltas carries the whole text.
Rewritten(at, text) ==
    [n \in DOMAIN out |->
        IF n \notin Range(at) THEN out[n]
        ELSE [out[n] EXCEPT !.text = IF n = at[1] THEN text ELSE <<>>]]

\* Seeded fault: the deltas of a complete text are held back for the next one.
Release_Keeps(key) == UNCHANGED pending

Release(key) == pending' = [k \in DOMAIN pending \ {key} |-> pending[k]]

Hold(key, kind, at) ==
    pending' = [k \in DOMAIN pending \cup {key} |->
                    IF k = key THEN [kind |-> kind, at |-> at] ELSE pending[k]]

\* The next frame of the stream.
Take(f) ==
    /\ outcome = "open" /\ Len(frames) < MaxFrames[protocol]
    /\ f.type # "malformed"
    /\ frames' = Append(frames, f)
    /\ UNCHANGED <<protocol, outcome>>

-----------------------------------------------------------------------------
(***************************************************************************)
(* Messages: content blocks that start, grow and stop.                     *)
(***************************************************************************)
BadStart(f) == f.type = "start" /\ Key(f) \in DOMAIN pending

OpenBlock(f) ==
    /\ Take(f) /\ f.type = "start" /\ ~BadStart(f)
    /\ Hold(Key(f), f.kind, <<>>)
    /\ out' = Append(out, f)

BadBlockDelta(f) ==
    /\ protocol = "messages" /\ f.type = "delta"
    /\ PendingKind(Key(f)) \notin {"other", f.kind}

\* The deltas of other blocks are not looked at.
BlockDelta(f) ==
    /\ Take(f) /\ protocol = "messages" /\ f.type = "delta" /\ ~BadBlockDelta(f)
    /\ Len(Held(Key(f))) < MaxDeltas
    /\ IF PendingKind(Key(f)) = "other" THEN UNCHANGED pending
       ELSE Hold(Key(f), f.kind, Append(Held(Key(f)), Len(out) + 1))
    /\ out' = Append(out, f)

BadStop(f) ==
    /\ f.type = "stop"
    /\ \/ PendingKind(Key(f)) = None
       \/ PendingKind(Key(f)) # "other" /\ Held(Key(f)) = <<>>
       \/ Restored(PendingKind(Key(f)), Combined(Held(Key(f)))) = None

StopBlock(f) ==
    /\ Take(f) /\ f.type = "stop" /\ ~BadStop(f)
    /\ LET at == Held(Key(f))
           text == Restored(PendingKind(Key(f)), Combined(at))
       IN  out' = Append(Rewritten(at, text), f)
    /\ Release(Key(f))

-----------------------------------------------------------------------------
(***************************************************************************)
(* Responses: deltas and the done event that repeats them.                 *)
(***************************************************************************)
GroupDelta(f) ==
    /\ Take(f) /\ protocol = "responses" /\ f.type = "delta"
    /\ Len(Held(Key(f))) < MaxDeltas
    /\ Hold(Key(f), f.kind, Append(Held(Key(f)), Len(out) + 1))
    /\ out' = Append(out, f)

BadDone(f) ==
    /\ f.type = "done"
    /\ \/ Held(Key(f)) # <<>> /\ Combined(Held(Key(f))) # f.text
       \/ Restored(f.kind, f.text) = None

Done(f) ==
    /\ Take(f) /\ f.type = "done" /\ ~BadDone(f)
    /\ LET text == Restored(f.kind, f.text)
       IN  out' = Append(Rewritten(Held(Key(f)), text), [f EXCEPT !.text = text])
    /\ Release(Key(f))

-----------------------------------------------------------------------------
(***************************************************************************)
(* Frames that are looked at by themselves, and the end of the stream.     *)
(***************************************************************************)
\* Unknown events and comments keep their bytes, other declared events their
\* place until the end.
Pass(f) ==
    /\ Take(f) /\ f.type \in {"direct", "opaque"}
    /\ Cardinality({n \in DOMAIN frames : frames[n].type \in {"direct", "opaque"}}) < MaxPlain
    /\ out' = Append(out, f)
    /\ UNCHANGED pending

\* A frame that cannot be parsed, or is out of order, ends the restoration.
Refuse(f) ==
    /\ outcome = "open" /\ Len(frames) <= MaxGood
    /\ f.type = "malformed" \/ BadStart(f) \/ BadBlockDelta(f) \/ BadStop(f) \/ BadDone(f)
    /\ frames' = Append(frames, f)
    /\ outcome' = "refused"
    /\ UNCHANGED <<protocol, out, pending>>

\* transform_event_document, for the events that it is called for at the end.
Direct(f) ==
    IF f.type = "direct" \/ (f.type = "start" /\ f.kind # "other") THEN Restore(f.text)
    ELSE f.text

\* Seeded fault: a text that is not complete leaves as it is.
EndStream_Incomplete ==
    /\ outcome = "open" /\ frames # <<>>
    /\ IF \E n \in DOMAIN out : Direct(out[n]) = None
       THEN outcome' = "refused" /\ UNCHANGED out
       ELSE /\ outcome' = "delivered"
            /\ out' = [n \in DOMAIN out |-> [out[n] EXCEPT !.text = Direct(out[n])]]
    /\ UNCHANGED <<protocol, frames, pending>>

EndStream ==
    /\ outcome = "open" /\ frames # <<>>
    /\ IF DOMAIN pending # {} \/ \E n \in DOMAIN out : Direct(out[n]) = None
       THEN outcome' = "refused" /\ UNCHANGED out
       ELSE /\ outcome' = "delivered"
            /\ out' = [n \in DOMAIN out |-> [out[n] EXCEPT !.text = Direct(out[n])]]
    /\ UNCHANGED <<protocol, frames, pending>>

Next ==
    \/ \E f \in Event[protocol] :
         \/ OpenBlock(f) \/ BlockDelta(f) \/ StopBlock(f)
         \/ GroupDelta(f) \/ Done(f)
         \/ Pass(f) \/ Refuse(f)
    \/ EndStream

Spec == Init /\ [][Next]_vars

-----------------------------------------------------------------------------
(***************************************************************************)
(* The texts of a stream, from its frames alone.                           *)
(***************************************************************************)
\* The events of a text that end its deltas before a frame, or begin them.
Boundary == IF protocol = "messages" THEN "start" ELSE "done"

Before(n, type) == {m \in 1..(n - 1) : frames[m].type = type /\ Key(frames[m]) = Key(frames[n])}

\* The block that is open when frame n arrives.
OpenAt(n) ==
    {m \in Before(n, "start") : \A k \in Before(n, "stop") : k < m}

\* The text that a frame is a part of.
GroupOf(n) ==
    IF frames[n].type = "delta" THEN <<Key(frames[n]), Cardinality(Before(n, Boundary))>>
    ELSE <<<<"frame", None>>, n>>

DeltasOf(n) ==
    {m \in DOMAIN frames :
        /\ frames[m].type = "delta" /\ Key(frames[m]) = Key(frames[n])
        /\ GroupOf(m)[2] = Cardinality(Before(n, Boundary)) +
                           (IF protocol = "messages" THEN 1 ELSE 0)}

TextKind(n) ==
    IF protocol = "messages" /\ frames[n].type = "delta"
    THEN IF OpenAt(n) = {} THEN "other" ELSE frames[CHOOSE m \in OpenAt(n) : TRUE].kind
    ELSE IF frames[n].type \in {"start", "direct"}
         THEN IF frames[n].kind = "other" THEN "other" ELSE "text"
         ELSE frames[n].kind

Parts(stream) ==
    [n \in DOMAIN stream |-> [group |-> GroupOf(n), kind |-> TextKind(n), text |-> stream[n].text]]

\* The client puts the parts of a text together.
Reads ==
    IF outcome # "delivered" THEN <<>>
    ELSE [group \in {GroupOf(n) : n \in DOMAIN out} |->
             TextAt(out, {n \in DOMAIN out : GroupOf(n) = group})]

Abstract == INSTANCE RestoredStream WITH
    written <- Parts(frames), read <- Reads

\* However a text is cut into deltas, and whatever other texts they interleave
\* with, the client reads it restored as a whole, or reads nothing at all.
ReadsRestored == Abstract!Spec

Whole(ns) == TextAt(frames, ns)

WellFormed(n) ==
    LET f == frames[n]
    IN  CASE f.type = "start" ->
                /\ OpenAt(n) = {}
                /\ \E m \in DOMAIN frames :
                     m > n /\ frames[m].type = "stop" /\ Key(frames[m]) = Key(f)
                /\ f.kind # "other" =>
                     /\ DeltasOf(n) # {}
                     /\ Restored(f.kind, Whole(DeltasOf(n))) # None
                     /\ Restore(f.text) # None
          [] f.type = "delta" /\ protocol = "messages" ->
                OpenAt(n) # {} /\ TextKind(n) \in {"other", f.kind}
          [] f.type = "delta" /\ protocol = "responses" ->
                \E m \in DOMAIN frames :
                     m > n /\ frames[m].type = "done" /\ Key(frames[m]) = Key(f)
          [] f.type = "stop" -> OpenAt(n) # {}
          [] f.type = "done" ->
                /\ DeltasOf(n) # {} => Whole(DeltasOf(n)) = f.text
                /\ Restored(f.kind, f.text) # None
          [] f.type = "direct" -> Restore(f.text) # None
          [] OTHER -> f.type = "opaque"

\* A stream is delivered if every one of its texts is whole and restorable, and
\* refused otherwise: one bad frame is never dropped or sent with the others.
DeliversWellFormed ==
    outcome # "open" => (outcome = "delivered" <=> \A n \in DOMAIN frames : WellFormed(n))
=============================================================================
