---------------------------- MODULE HermesStream ----------------------------
(***************************************************************************)
(* The two readers of a stream of Hermes (api/sessions.py).  A durable run *)
(* drains it (_submit_agent_run_stream), shows its client what lies        *)
(* outside the envelopes and settles on a content; a chat passes its       *)
(* frames on and tells its client of new report files between them         *)
(* (_relay_hermes_sse_with_artifacts in session_chat_stream).              *)
(*                                                                         *)
(* A frame is sent in three parts, the line of its event, its data and the *)
(* blank line that ends it; what arrives at once ends anywhere between     *)
(* them.  A line that is cut is one that did not arrive.                   *)
(*                                                                         *)
(* An operator marked as a mutant is a faulty form of the definition after *)
(* it; no definition uses it.                                              *)
(***************************************************************************)
EXTENDS PrivateText

CONSTANTS Pieces,    \* the pieces of text that a model streams
          Finals,    \* final texts with which Hermes replaces the streamed one
          MaxText,   \* bound on the length of a text
          MaxFrames, \* bound on the frames of a chat
          MaxFiles,  \* bound on the report files of a session
          MaxFaults  \* bound on failed lookups of the report files

ASSUME HermesStreamAssumption ==
    /\ Pieces \cup Finals \subseteq Text \ {<<>>}
    /\ {MaxText, MaxFrames, MaxFiles, MaxFaults} \subseteq Nat

VARIABLES
    reader,    \* "run" or "chat"
    stage,     \* what the reader is doing
    open,      \* Hermes may send more
    sent,      \* the parts of frames that Hermes sent to a chat
    flow,      \* the parts that have not arrived
    buffer,    \* the parts of an incomplete frame
    answer,    \* a run: what it has read of the answer
    filter,    \* a run: the filter, with what the client was shown
    frames,    \* a chat: frames to pass on
    files,     \* the report files of the session
    existing,  \* a chat: the files before the turn
    told,      \* a chat: emitted_artifact_ids
    out,       \* a chat: what the client received
    faults,    \* lookups that failed
    missed     \* the last lookup failed

wireVars == <<open, sent, flow>>
runVars  == <<answer, filter>>
fileVars == <<files, existing>>
lookVars == <<told, faults, missed>>
vars     == <<reader, stage, wireVars, buffer, runVars, frames, fileVars, out, lookVars>>

-----------------------------------------------------------------------------
(* Frames. *)

(* A frame that is sent to a chat is told apart by what was sent before it.*)
Frame(kind, text) == [before |-> sent, kind |-> kind, text |-> text]

Parts(f) == [p \in 1..3 |-> [frame |-> f, part |-> p]]

(* What is at hand of a frame, or all of it, tells its event, and its data *)
(* unless they are missing.                                                *)
Read(parts) == IF Len(parts) >= 2 THEN parts[1].frame
               ELSE [parts[1].frame EXCEPT !.text = <<>>]

Exported(parts) == Len(parts) >= 2 /\ parts[1].frame.kind = "exported"

(* _split_complete_sse_events. *)
Unsplit(parts) == [frames |-> IF parts = <<>> THEN <<>> ELSE <<parts>>, rest |-> <<>>] (* mutant *)

Takes(split, x) ==
    IF x.part = 3
    THEN [frames |-> Append(split.frames, Append(split.rest, x)), rest |-> <<>>]
    ELSE [split EXCEPT !.rest = Append(@, x)]

Split(parts) ==
    LET upTo[n \in 0..Len(parts)] ==
            IF n = 0 THEN [frames |-> <<>>, rest |-> <<>>] ELSE Takes(upTo[n - 1], parts[n])
    IN  upTo[Len(parts)]

-----------------------------------------------------------------------------
(* Hermes and the network. *)

Send(f) ==
    /\ open
    /\ flow' = flow \o Parts(f)
    /\ sent' = IF reader = "chat" THEN sent + 3 ELSE sent
    /\ UNCHANGED <<open, reader, stage, buffer, runVars, frames, fileVars, out, lookVars>>

(* What was streamed and is on its way, and the frames of its end. *)
Sends ==
    \/ /\ reader = "run" /\ flow = <<>> /\ ~answer.done /\ ~answer.failed
       /\ \/ \E p \in Pieces : /\ Len(answer.text) + Len(p) <= MaxText
                               /\ buffer = <<>> /\ Send(Frame("delta", p))
          \/ \E t \in Finals : answer.content # t /\ Send(Frame("content", t))
          \/ \E t \in Finals \cup {<<>>} : Send(Frame("completed", t))
          \/ Send(Frame("error", <<>>))
    \/ /\ reader = "chat" /\ sent < 3 * MaxFrames
       /\ \E k \in {"text", "exported"} : Send(Frame(k, <<>>))

(* The connection is closed, also in the middle of a frame: what is on its *)
(* way may be lost from there on, and counts as not sent.                  *)
Hangs ==
    /\ open
    /\ open' = FALSE
    /\ \E n \in 0..Len(flow) :
          /\ flow' = SubSeq(flow, 1, n)
          /\ sent' = IF reader = "chat" THEN sent - (Len(flow) - n) ELSE sent
    /\ UNCHANGED <<reader, stage, buffer, runVars, frames, fileVars, out, lookVars>>

FileAppears(n) ==
    /\ stage \notin {"ended", "left"}
    /\ files[n] = "none" /\ \A m \in 1..(n - 1) : files[m] # "none"
    /\ files' = [files EXCEPT ![n] = "there"]
    /\ UNCHANGED <<reader, stage, wireVars, buffer, runVars, frames, existing, out, lookVars>>

FileGoes(n) ==
    /\ stage \notin {"ended", "left"}
    /\ files[n] = "there"
    /\ files' = [files EXCEPT ![n] = "gone"]
    /\ UNCHANGED <<reader, stage, wireVars, buffer, runVars, frames, existing, out, lookVars>>

-----------------------------------------------------------------------------
(* A run. *)

NoAnswer == [text |-> <<>>,    \* all that was streamed
             content |-> <<>>, done |-> FALSE, failed |-> FALSE, result |-> "none"]

(* process_frame: a reader that met an error reads no further. *)
Process(h, parts) ==
    LET f == Read(parts)
    IN  IF h.answer.failed THEN h
        ELSE CASE f.kind = "delta" ->
                    [answer |-> [h.answer EXCEPT !.text = @ \o f.text, !.content = @ \o f.text],
                     filter |-> Feed(h.filter, f.text)]
               [] f.kind = "content" ->
                    IF f.text = <<>> THEN h ELSE [h EXCEPT !.answer.content = f.text]
               [] f.kind = "completed" ->
                    [h EXCEPT !.answer.done = TRUE,
                              !.answer.content = IF f.text = <<>> THEN @ ELSE f.text]
               [] f.kind = "error" -> [h EXCEPT !.answer.failed = TRUE]

Drained(list) ==
    LET upTo[n \in 0..Len(list)] ==
            IF n = 0 THEN [answer |-> answer, filter |-> filter]
            ELSE Process(upTo[n - 1], list[n])
    IN  upTo[Len(list)]

(* The content asks a question if it holds the envelope of one, well-formed*)
(* or not.                                                                 *)
MayAsk(content) ==
    \E b \in Blocks : Starts(content, b.opening) # {} /\ Starts(content, b.closing) # {}

EvenUnconfirmed(h) == ~h.failed /\ Visible(h.content) # <<>>     (* mutant *)

Acceptable(h) == ~h.failed /\ h.done /\ Visible(h.content) # <<>>

Arrives ==
    /\ reader = "run" /\ stage = "reading" /\ ~answer.failed
    /\ \E n \in 1..Len(flow) :
          LET split == Split(buffer \o SubSeq(flow, 1, n))
              h     == Drained(split.frames)
          IN  /\ answer' = h.answer /\ filter' = h.filter
              /\ buffer' = split.rest
              /\ flow' = SubSeq(flow, n + 1, Len(flow))
    /\ UNCHANGED <<reader, stage, open, sent, frames, fileVars, out, lookVars>>

(* At the end of the stream its last frame counts without its blank line.  *)
(* A question has no visible answer.                                       *)
Settles ==
    /\ reader = "run" /\ stage = "reading"
    /\ ~answer.failed => ~open /\ flow = <<>>
    /\ LET h == Drained(IF buffer = <<>> THEN <<>> ELSE <<buffer>>)
           asks == ~h.answer.failed /\ h.answer.done /\ MayAsk(h.answer.content)
       IN  /\ answer' \in {[h.answer EXCEPT !.result = r] : r \in
                  {IF Acceptable(h.answer) THEN "accepted" ELSE "refused"}
                  \cup (IF asks THEN {"question"} ELSE {})}
           /\ filter' = [h.filter EXCEPT !.held = <<>>, !.until = Outside]
    /\ stage' = "ended"
    /\ UNCHANGED <<reader, wireVars, buffer, frames, fileVars, out, lookVars>>

(* A timeout or an error of the connection: nobody knows the outcome. *)
Breaks ==
    /\ reader = "run" /\ stage = "reading" /\ ~answer.failed
    /\ stage' = "ended"
    /\ answer' = [answer EXCEPT !.result = "refused"]
    /\ UNCHANGED <<reader, wireVars, buffer, filter, frames, fileVars, out, lookVars>>

-----------------------------------------------------------------------------
(* A chat. *)

Receives ==
    /\ reader = "chat" /\ stage = "reading"
    /\ \E n \in 1..Len(flow) :
          LET split == Split(buffer \o SubSeq(flow, 1, n))
          IN  /\ frames' = split.frames
              /\ buffer' = split.rest
              /\ flow' = SubSeq(flow, n + 1, Len(flow))
              /\ stage' = IF split.frames = <<>> THEN "reading" ELSE "passing"
    /\ UNCHANGED <<reader, open, sent, runVars, fileVars, out, lookVars>>

(* The end of the stream: what is left is passed on as it is. *)
ReachesEnd ==
    /\ reader = "chat" /\ stage = "reading" /\ ~open /\ flow = <<>>
    /\ frames' = IF buffer = <<>> THEN <<>> ELSE <<buffer>>
    /\ buffer' = <<>>
    /\ stage' = IF buffer = <<>> THEN "relayed" ELSE "passing"
    /\ UNCHANGED <<reader, wireVars, runVars, fileVars, out, lookVars>>

AfterFrame(left) == IF left = <<>> THEN "reading" ELSE "passing"

PassesOn ==
    /\ reader = "chat" /\ stage = "passing"
    /\ out' = out \o Head(frames)
    /\ frames' = Tail(frames)
    /\ stage' = IF Exported(Head(frames)) THEN "looking" ELSE AfterFrame(Tail(frames))
    /\ UNCHANGED <<reader, wireVars, buffer, runVars, fileVars, lookVars>>

(* _new_artifact_ready_events. *)
Forgets(found) == told' = told                                   (* mutant *)

Remembers(found) == told' = told \cup found

New == {n \in 1..MaxFiles : files[n] = "there"} \ (existing \cup told)

File(n) == [file |-> n]

Looks ==
    \/ /\ Remembers(New)
       /\ out' = out \o [i \in 1..Cardinality(New) |-> File(SetToSeq(New)[i])]
       /\ missed' = FALSE /\ faults' = faults
    \/ /\ faults < MaxFaults /\ faults' = faults + 1
       /\ missed' = TRUE
       /\ UNCHANGED <<told, out>>

(* After an export, at the end of the relay, and when the response ends. *)
LooksForFiles ==
    /\ reader = "chat"
    /\ \/ stage = "looking" /\ stage' = AfterFrame(frames)
       \/ stage = "relayed" /\ stage' = "closing"
       \/ stage = "closing" /\ stage' = "ended"
    /\ Looks
    /\ UNCHANGED <<reader, wireVars, buffer, runVars, frames, fileVars>>

Notice == [notice |-> "error"]

(* Hermes refuses the turn, or the connection fails. *)
Fails ==
    /\ reader = "chat" /\ stage = "reading"
    /\ open \/ flow # <<>> \/ buffer # <<>>
    /\ out' = Append(out, Notice)
    /\ buffer' = <<>>
    /\ stage' = "closing"
    /\ UNCHANGED <<reader, wireVars, runVars, frames, fileVars, lookVars>>

ClientLeaves ==
    /\ reader = "chat" /\ stage \notin {"ended", "left"}
    /\ stage' = "left"
    /\ UNCHANGED <<reader, wireVars, buffer, runVars, frames, fileVars, out, lookVars>>

-----------------------------------------------------------------------------
Init ==
    /\ reader \in {"run", "chat"}
    /\ stage = "reading" /\ open = TRUE
    /\ sent = 0 /\ flow = <<>> /\ buffer = <<>>
    /\ answer = NoAnswer /\ filter = Fresh
    /\ frames = <<>> /\ out = <<>> /\ told = {}
    /\ faults = 0 /\ missed = FALSE
    /\ existing \in (IF reader = "chat" THEN {{}, {1}} ELSE {{}})
    /\ files = [n \in 1..MaxFiles |-> IF n \in existing THEN "there" ELSE "none"]

RunStep  == Arrives \/ Settles \/ Breaks
ChatStep == Receives \/ ReachesEnd \/ PassesOn \/ LooksForFiles \/ Fails \/ ClientLeaves

Next ==
    \/ Sends \/ Hangs
    \/ reader = "chat" /\ \E n \in 1..MaxFiles : FileAppears(n) \/ FileGoes(n)
    \/ RunStep \/ ChatStep

Spec == Init /\ [][Next]_vars

-----------------------------------------------------------------------------
(* Properties. *)

(* However the text was cut into pieces, the client of a run was shown     *)
(* just what lies outside the envelopes, and no more is held back of it    *)
(* than may still become an opening marker ("without delaying normal       *)
(* prose", _PrivateProtocolDeltaFilter).                                   *)
ShownIsPublic ==
    reader = "run" /\ stage = "reading" =>
        /\ filter.shown \o (IF filter.until = Outside THEN filter.held ELSE <<>>)
               = Public(answer.text)
        /\ filter.until = Outside =>
               filter.held = <<>> \/ \E m \in Openings : Len(filter.held) < Len(m)

(* A run is given an answer only if Hermes confirmed the end of the turn,  *)
(* and unless Hermes replaced the text the client was shown all of it:     *)
(* nothing is to be replayed, and nothing shown is taken back.             *)
AnswerIsConfirmed ==
    answer.result # "none" /\ answer.result # "refused" =>
        /\ answer.done /\ ~answer.failed
        /\ answer.result = "accepted" => Visible(answer.content) # <<>>
        /\ answer.content = answer.text => filter.shown = Visible(answer.content)

FilesTold == {out[i].file : i \in {j \in DOMAIN out : "file" \in DOMAIN out[j]}}

(* A report file is told once, if it is of this turn, and when the stream  *)
(* has ended every file of the turn that is still there was told, whatever *)
(* events Hermes sent of it, unless the last lookup failed.                *)
FilesAreTold ==
    /\ \A i, j \in DOMAIN out :
          "file" \in DOMAIN out[i] /\ out[i] = out[j] => i = j /\ out[i].file \notin existing
    /\ stage = "ended" /\ reader = "chat" /\ ~missed =>
          \A n \in 1..MaxFiles : files[n] = "there" => n \in existing \cup FilesTold

IsPart(x) == "part" \in DOMAIN x

(* A part's place among all that Hermes sent, and those among the first n  *)
(* events of a client.                                                     *)
Place(x) == x.frame.before + x.part

Passed(o, n) == {Place(o[j]) : j \in {m \in 1..n : IsPart(o[m])}}

(* What a chat's client received before a part of a frame is all that      *)
(* Hermes sent before it: no part is dropped, repeated or overtaken.  A    *)
(* frame that began goes on before anything else is told, unless the       *)
(* stream ended within it: _relay_hermes_sse_with_artifacts ("Forward only *)
(* complete upstream frames before inserting local events") passes such an *)
(* end on as it is.  A relay that was not told of a failure has passed on  *)
(* all that Hermes sent.                                                   *)
FramesPassedOn ==
    /\ \A i \in DOMAIN out : IsPart(out[i]) =>
          /\ Passed(out, i - 1) = 1..(Place(out[i]) - 1)
          /\ i < Len(out) /\ out[i].part < 3 =>
                \/ out[i + 1] = [out[i] EXCEPT !.part = @ + 1]
                \/ ~open /\ Place(out[i]) = sent
    /\ reader = "chat" /\ stage \in {"closing", "ended"} =>
          (\E i \in DOMAIN out : out[i] = Notice) \/ Passed(out, Len(out)) = 1..sent
=============================================================================
