---------------------------- MODULE Conversations ----------------------------
(***************************************************************************)
(* Two ways to hold one attempt's conversation with a remote agent: a      *)
(* stream of server-sent events (targets/http_stream.py over streaming.py) *)
(* and a scripted session of several requests (targets/http_session.py).   *)
(*                                                                         *)
(* A stream is read in chunks the network cuts anywhere. It is a sequence  *)
(* of tokens of one unit each: "n" is a newline; a line is known by its    *)
(* first token, "final" and "note" for the event of a frame, "json" and    *)
(* "text" for its data, "colon" for a comment, "junk" for anything else,   *)
(* and "more" continues it. The remote agent answers, fails, or is lost    *)
(* before or after it has done what was asked.                             *)
(***************************************************************************)
EXTENDS Integers, Sequences, FiniteSets

CONSTANTS
    Tokens,          \* the tokens of streams
    MaxReceived,     \* bound on the length of a stream
    MaxChunk,        \* bound on the length of a chunk
    MaxFrameBytes,   \* max_frame_bytes of the parser
    MaxFrames,       \* max_frames of the parser
    Scripts          \* the scripts of sessions

ASSUME ConversationsAssumption ==
    /\ {MaxReceived, MaxChunk, MaxFrameBytes, MaxFrames} \subseteq Nat
    /\ "n" \in Tokens

VARIABLES
    received,   \* the tokens of the stream so far
    parser,     \* SSEParser: what it holds, how many frames it has made
    final,      \* the data of the last final frame
    stream,     \* the outcome of the streaming attempt, or "unused"
    script,     \* the steps of the session that are still to be done
    remote,     \* the session at the remote end
    talk        \* the session attempt: its step (or "unused"), its outcome, what it was told

conversationsVars == <<received, parser, final, stream, script, remote, talk>>

NoParser == [buffer |-> <<>>, fields |-> <<>>, frames |-> 0, refused |-> FALSE, out |-> <<>>]

ConversationsInit ==
    /\ received = <<>> /\ parser = NoParser /\ final = "none"
    /\ remote = [state |-> "none", prompts |-> FALSE, heard |-> 0, unasked |-> FALSE]
    /\ \E at \in {"init", "unused"} :
        /\ talk = [at |-> at, outcome |-> "none", prompted |-> FALSE, waiting |-> FALSE,
                   sent |-> 0, closable |-> TRUE, released |-> FALSE]
        /\ stream = IF at = "init" THEN "unused" ELSE "open"
        /\ script \in IF at = "init" THEN Scripts ELSE {<<>>}

-----------------------------------------------------------------------------
(***************************************************************************)
(* SSEParser                                                               *)
(***************************************************************************)
Heads == {"final", "note", "json", "text"}

\* event is the first one named, "message" for none; data are all data lines.
Frame(fields) ==
    LET events == {i \in DOMAIN fields : fields[i] \in {"final", "note"}} IN
    [event |-> IF events = {} THEN "message"
               ELSE fields[CHOOSE i \in events : \A j \in events : i <= j],
     data |-> [i \in {j \in DOMAIN fields : fields[j] \in {"json", "text"}} |-> fields[i]]]

Refuse(p) == [p EXCEPT !.refused = TRUE]

\* _finish. A blank line after another is no frame.
BlankLine(p) ==
    IF p.fields = <<>> THEN p
    ELSE IF p.frames = MaxFrames THEN Refuse(p)
    ELSE [p EXCEPT !.frames = @ + 1, !.fields = <<>>, !.out = Append(@, Frame(p.fields))]

TakeLine(p, line) ==
    IF line = <<>> THEN BlankLine(p)
    ELSE IF line[1] = "colon" THEN p
    ELSE IF line[1] \in Heads THEN [p EXCEPT !.fields = Append(@, line[1])]
    ELSE Refuse(p)

Newline(s) == CHOOSE i \in DOMAIN s : s[i] = "n" /\ \A j \in 1..(i - 1) : s[j] # "n"
HasNewline(s) == \E i \in DOMAIN s : s[i] = "n"

TakeNext(p) ==
    IF p.refused \/ ~HasNewline(p.buffer) THEN p
    ELSE LET k == Newline(p.buffer) IN
         TakeLine([p EXCEPT !.buffer = SubSeq(@, k + 1, Len(@))], SubSeq(p.buffer, 1, k - 1))

\* As long as there is a line: there are no more of them than tokens.
Drain(p) ==
    LET after[n \in 0..Len(p.buffer)] == IF n = 0 THEN p ELSE TakeNext(after[n - 1])
    IN after[Len(p.buffer)]

\* Mutant of Feed: what is held of an unfinished line goes when a chunk comes.
FeedForgetsRest(p, chunk) ==
    LET held == [p EXCEPT !.buffer = chunk, !.out = <<>>] IN
    IF Len(chunk) > MaxFrameBytes THEN Refuse(held) ELSE Drain(held)

\* feed: the limit is on what is held when a chunk comes in. A call that
\* raises returns none of its frames.
Feed(p, chunk) ==
    LET held == [p EXCEPT !.buffer = @ \o chunk, !.out = <<>>]
        fed == Drain(held) IN
    IF Len(held.buffer) > MaxFrameBytes THEN Refuse(held) ELSE fed

-----------------------------------------------------------------------------
(***************************************************************************)
(* HttpStreamAdapter.invoke                                                *)
(***************************************************************************)
StreamOnly == UNCHANGED <<script, remote, talk>>

\* What the frames of one chunk make of the answer: the last final frame
\* counts, and one that is not JSON ends the attempt.
NotJson(f) ==
    f.event = "final" /\ ~\E i \in DOMAIN f.data : DOMAIN f.data = {i} /\ f.data[i] = "json"
AnswerOf(frames) ==
    IF \E i \in DOMAIN frames : NotJson(frames[i]) THEN "not_json"
    ELSE IF \E i \in DOMAIN frames : frames[i].event = "final" THEN "json"
    ELSE final

\* max_frames counts frames; a stream that ended is not read.
Receive(chunk) ==
    /\ stream = "open" /\ Len(received) + Len(chunk) <= MaxReceived
    /\ received' = received \o chunk
    /\ LET p == Feed(parser, chunk)
           answer == IF p.refused THEN final ELSE AnswerOf(p.out) IN
       /\ parser' = [p EXCEPT !.out = <<>>]
       /\ final' = answer
       /\ stream' = IF p.refused \/ answer = "not_json" THEN "stream_protocol_error" ELSE "open"
    /\ StreamOnly

\* finish: a frame that was not ended is an error.
StreamEnds ==
    /\ stream = "open"
    /\ stream' = IF parser.buffer # <<>> \/ parser.fields # <<>> THEN "stream_protocol_error"
                 ELSE IF final = "none" THEN "incomplete_stream" ELSE "ok"
    /\ UNCHANGED <<received, parser, final>> /\ StreamOnly

\* Cancelled before the next chunk, refused at the start, or broken off.
StreamFails ==
    /\ stream = "open"
    /\ stream' \in {"cancelled", "protocol_error", "stream_protocol_error"}
    /\ stream' = "protocol_error" => received = <<>>
    /\ UNCHANGED <<received, parser, final>> /\ StreamOnly

-----------------------------------------------------------------------------
(***************************************************************************)
(* HttpSessionAdapter.invoke                                               *)
(***************************************************************************)
SessionOnly == UNCHANGED <<received, parser, final, stream>>

\* Steps are "wait" and "answer" of an interaction script, or "turn"s.
TalkTo(at) == talk' = [talk EXCEPT !.at = at]
Finished(outcome) == talk' = [talk EXCEPT !.at = "finally", !.outcome = outcome]

\* No script, or an endpoint that the policy rejects.
RefuseTalk ==
    /\ talk.at = "init"
    /\ talk' = [talk EXCEPT !.at = "over", !.outcome = IF script = <<>> THEN "script_required"
                                                       ELSE "policy_rejected"]
    /\ UNCHANGED <<script, remote>> /\ SessionOnly

\* The answer names the session and may ask for input; or it is refused and
\* names a session all the same, or none, or it is lost; or it names one by
\* something that is no string, which is refused whatever else it says.
OpenSession ==
    /\ talk.at = "init" /\ script # <<>>
    /\ \E closable, asks \in BOOLEAN :
        \/ /\ remote' = [remote EXCEPT !.state = "open", !.prompts = asks]
           /\ talk' = [talk EXCEPT !.at = "step", !.closable = closable, !.prompted = asks]
        \/ /\ \E state \in {"none", "unknown", "misnamed", "open"} : remote' = [remote EXCEPT !.state = state]
           /\ talk' = [talk EXCEPT !.at = "finally", !.closable = closable,
                                  !.outcome = IF remote'.state = "unknown" THEN "transport_error"
                                              ELSE "protocol_error"]
    /\ UNCHANGED script /\ SessionOnly

\* should_cancel is asked before every step, not before the session is closed.
CancelTalk ==
    /\ talk.at = "step" /\ script # <<>> /\ Finished("cancelled")
    /\ UNCHANGED <<script, remote>> /\ SessionOnly

\* wait_for_input: the last answer asked for it, and nothing is pending.
Wait ==
    /\ talk.at = "step" /\ script # <<>> /\ Head(script) = "wait"
    /\ IF talk.waiting \/ ~talk.prompted THEN Finished("approval_not_requested") /\ UNCHANGED script
       ELSE talk' = [talk EXCEPT !.waiting = TRUE] /\ script' = Tail(script)
    /\ UNCHANGED remote /\ SessionOnly

\* What the remote end makes of a turn it hears.
Hear(asks) ==
    [remote EXCEPT !.heard = @ + 1, !.prompts = asks,
                   !.unasked = @ \/ (Head(script) = "answer" /\ ~remote.prompts)]

\* A turn is answered, refused, or lost before or after it was heard.
SendTurn ==
    \E asks \in BOOLEAN :
        \/ /\ remote' = Hear(asks)
           /\ talk' = [talk EXCEPT !.sent = @ + 1, !.prompted = asks, !.waiting = FALSE]
           /\ script' = Tail(script)
        \/ /\ remote' \in {remote, Hear(asks)}
           /\ \E outcome \in {"protocol_error", "transport_error"} : Finished(outcome)
           /\ UNCHANGED script

\* Mutant of Answerable: an answer needs no question.
AnswerableAlways == TRUE

\* user_response after a wait; plain turns need none.
Answerable == Head(script) = "turn" \/ talk.waiting

Answer ==
    /\ talk.at = "step" /\ script # <<>> /\ Head(script) # "wait"
    /\ IF Answerable THEN SendTurn ELSE Finished("script_invalid") /\ UNCHANGED <<script, remote>>
    /\ SessionOnly

EndScript ==
    /\ talk.at = "step" /\ script = <<>>
    /\ IF talk.waiting THEN Finished("script_invalid")
       ELSE IF talk.closable THEN TalkTo("close") ELSE Finished("ok")
    /\ UNCHANGED <<script, remote>> /\ SessionOnly

\* close_session: an answer of any kind counts as sent and is not asked again;
\* a lost one may have closed the session.
Close(answered, refused, lost) ==
    \/ /\ remote' = [remote EXCEPT !.state = "closed"]
       /\ talk' = answered
    \/ /\ UNCHANGED remote
       /\ talk' = refused
    \/ /\ remote' \in {remote, [remote EXCEPT !.state = "closed"]}
       /\ talk' = lost

CloseTalk ==
    /\ talk.at = "close"
    /\ Close([talk EXCEPT !.at = "finally", !.outcome = "ok", !.released = TRUE],
             [talk EXCEPT !.at = "finally", !.outcome = "cleanup_failed", !.released = TRUE],
             [talk EXCEPT !.at = "finally", !.outcome = "cleanup_failed"])
    /\ UNCHANGED script /\ SessionOnly

Unclosed == ~talk.released /\ talk.closable

\* finally: the session is closed whatever happened, once it is known. A name
\* that is no string cannot be quoted into the address: nothing is sent, and
\* the TypeError replaces the result.
EndTalk ==
    /\ talk.at = "finally"
    /\ \/ /\ ~Unclosed \/ remote.state \in {"none", "unknown"}
          /\ talk' = [talk EXCEPT !.at = "over"] /\ UNCHANGED remote
       \/ /\ Unclosed /\ remote.state = "misnamed"
          /\ talk' = [talk EXCEPT !.at = "over", !.outcome = "raised"] /\ UNCHANGED remote
       \/ /\ Unclosed /\ remote.state \in {"open", "closed"}
          /\ LET over == [talk EXCEPT !.at = "over", !.released = TRUE] IN Close(over, over, over)
    /\ UNCHANGED script /\ SessionOnly

ConversationsNext ==
    \/ \E k \in 1..MaxChunk : \E chunk \in [1..k -> Tokens] : Receive(chunk)
    \/ StreamEnds \/ StreamFails
    \/ RefuseTalk \/ OpenSession \/ CancelTalk \/ Wait \/ Answer \/ EndScript \/ CloseTalk
    \/ EndTalk

-----------------------------------------------------------------------------
(***************************************************************************)
(* What is promised                                                        *)
(***************************************************************************)
\* A stream s read as a whole: where its lines start, where a blank line ends
\* what came before, and the fields of the frame that ends at b.
StartsLine(s, i) == i = 1 \/ s[i - 1] = "n"
FieldLines(s) == {i \in DOMAIN s : StartsLine(s, i) /\ s[i] \in Heads}
BlankLines(s) == {i \in DOMAIN s : StartsLine(s, i) /\ s[i] = "n"}
FieldsOf(s, b) == {i \in FieldLines(s) : i < b /\ \A c \in BlankLines(s) : c > i => c >= b}
IsFinal(s, b) == \E i \in FieldsOf(s, b) :
                    /\ s[i] = "final"
                    /\ \A j \in FieldsOf(s, b) : s[j] = "note" => j > i
HoldsJson(s, b) == \E i \in FieldsOf(s, b) :
                      /\ s[i] = "json"
                      /\ \A j \in FieldsOf(s, b) : s[j] \in {"json", "text"} => j = i

\* However the network cuts a stream, it is accepted only if, read as a whole,
\* it ends with its last line and frame, its frames are within the limit, some
\* frame is final, and every final one is JSON (SSEParser.feed and finish,
\* HttpStreamAdapter.invoke).
AcceptedStreamIsWhole ==
    stream = "ok" =>
        LET blanks == BlankLines(received)
            finals == {b \in blanks : IsFinal(received, b)} IN
        /\ received[Len(received)] = "n"
        /\ \A i \in FieldLines(received) : \E b \in blanks : b > i
        /\ Cardinality({b \in blanks : FieldsOf(received, b) # {}}) <= MaxFrames
        /\ finals # {} /\ \A b \in finals : HoldsJson(received, b)

\* A session is reported ok only when the agent heard every turn of the script
\* once; it never hears an answer to a question it did not ask; and when the
\* attempt is over a session it could close and knows by a string was closed, or
\* the request to close it failed (HttpSessionAdapter.invoke with its finally).
TalkIsComplete ==
    /\ talk.outcome = "ok" => script = <<>> /\ remote.heard = talk.sent
    /\ ~remote.unasked
    /\ talk.at = "over" /\ remote.state = "open" /\ talk.closable => talk.released

\* Whatever becomes of an attempt after the session was opened, the session is
\* released if the target says how (the comment on the finally of invoke). The
\* code violates it (README.md, 4) where the answer names the session by something
\* other than a string.
SessionIsReleased ==
    talk.at = "over" /\ remote.state \in {"open", "misnamed"} /\ talk.closable => talk.released

\* What an adapter reports of a conversation is what took place
\* (targets/http_stream.py, targets/http_session.py).
ConversationsAreWhole == AcceptedStreamIsWhole /\ TalkIsComplete

ConversationsSpec == ConversationsInit /\ [][ConversationsNext]_conversationsVars
=============================================================================
