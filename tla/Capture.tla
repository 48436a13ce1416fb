------------------------------- MODULE Capture -------------------------------
(***************************************************************************)
(* The trace of one attempt: written by TraceCapture in the agent, read    *)
(* when the agent has ended by the command runner (runner.py) or the local *)
(* adapter, which rebinds it, joined with the proxy's records and ingested *)
(* by the engine. The wall clock may be set at any time; children of the   *)
(* agent may be killed in the middle of a write. Capture contexts follow   *)
(* one another.                                                            *)
(***************************************************************************)
EXTENDS Integers, Sequences, FiniteSets, SequencesExt

CONSTANTS
    MaxClock,     \* the wall clock shows 0..MaxClock
    MaxLines,     \* lines an agent writes
    MaxTrace,     \* lines the runner's byte cap admits
    EventCap      \* MAX_EVENTS_PER_ATTEMPT

ASSUME CaptureAssumption == {MaxClock, MaxLines, MaxTrace, EventCap} \subseteq Nat

VARIABLES
    target,     \* "command" | "local"
    wall,       \* the wall clock
    capture,    \* the open context: its entry time, elapsed time and sequence
    traceFile,       \* trace.jsonl
    wire,       \* the records the proxy has captured
    outcome,    \* "running", then the status of the attempt
    kept        \* the events the engine ingested

captureVars == <<target, wall, capture, traceFile, wire, outcome, kept>>

NoCapture == [entry |-> -1, elapsed |-> -1, seq |-> 0]

\* A line is an event, or text that no event can be read from. A large line is
\* longer than the tail that _last_trace_timestamp reads.
Line(text, ts, seq, large) == [text |-> text, ts |-> ts, seq |-> seq, large |-> large]
Torn == Line("torn", 0, 0, FALSE)        \* no newline yet
Garbled == Line("garbled", 0, 0, FALSE)
Readable(l) == l.text \in {"event", "foreign", "unmarked"}

CaptureInit ==
    /\ target \in {"command", "local"}
    /\ wall = MaxClock
    /\ capture = NoCapture
    /\ traceFile = <<>> /\ wire = <<>> /\ kept = <<>>
    /\ outcome = "running"

-----------------------------------------------------------------------------
SetClock(w) == outcome = "running" /\ w # wall /\ wall' = w
               /\ UNCHANGED <<target, capture, traceFile, wire, outcome, kept>>

\* Mutant of LastStamp: an existing trace is not consulted.
LastStampIgnored(lines) == -1

\* The last timestamp in the tail of the file, -1 for none.
LastStamp(lines) ==
    LET tail == {i \in DOMAIN lines : \A j \in i..Len(lines) : ~lines[j].large}
        read == {i \in tail : Readable(lines[i])}
    IN IF read = {} THEN -1 ELSE lines[Max(read)].ts

EnterCapture ==
    /\ outcome = "running" /\ capture = NoCapture
    /\ LET last == LastStamp(traceFile) IN
       capture' = [NoCapture EXCEPT !.entry = IF wall <= last THEN last + 1 ELSE wall]
    /\ UNCHANGED <<target, wall, traceFile, wire, outcome, kept>>

ExitCapture ==
    /\ outcome = "running" /\ capture # NoCapture
    /\ capture' = NoCapture
    /\ UNCHANGED <<target, wall, traceFile, wire, outcome, kept>>

\* Appended text continues a torn line, and neither can be read.
Appended(lines, line) ==
    IF lines # <<>> /\ Last(lines) = Torn THEN Append(Front(lines), Garbled) ELSE Append(lines, line)

\* The elapsed time moves on by a millisecond at least. "foreign" claims the
\* identity of another attempt and "unmarked" has no redaction_state: events the
\* agent writes without the client.
Emit(text, step, large) ==
    /\ outcome = "running" /\ capture # NoCapture /\ Len(traceFile) < MaxLines
    /\ capture' = [capture EXCEPT !.elapsed = @ + step, !.seq = @ + 1]
    /\ traceFile' = Appended(traceFile, Line(text, capture.entry + capture.elapsed + step, capture.seq, large))
    /\ UNCHANGED <<target, wall, wire, outcome, kept>>

\* The process that writes is killed.
Tear ==
    /\ outcome = "running" /\ capture # NoCapture /\ Len(traceFile) < MaxLines
    /\ traceFile' = Appended(traceFile, Torn)
    /\ capture' = NoCapture
    /\ UNCHANGED <<target, wall, wire, outcome, kept>>

\* The recording proxy captures an exchange.
ProxyRecords ==
    /\ outcome = "running" /\ target = "local" /\ wire = <<>>
    /\ wire' = Append(wire, wall)
    /\ UNCHANGED <<target, wall, capture, traceFile, outcome, kept>>

-----------------------------------------------------------------------------
(***************************************************************************)
(* The attempt ends: by its deadline, a cancellation, or the agent's exit  *)
(* with a code and what it left in result.json.                            *)
(***************************************************************************)
Ends == {"spawn_failed", "timed_out", "cancelled", "nonzero"}
Results == {"absent", "unparsable", "not_an_object", "completed", "error", "unreachable", "other"}

\* Mutant of TraceReadable: unreadable lines are skipped.
TraceReadableOrSkipped(lines) == TRUE

TraceReadable(lines) == \A i \in DOMAIN lines : Readable(lines[i])

\* The runner's decision table.
RunnerStatus(end) ==
    IF end = "timed_out" THEN "timed_out"
    ELSE IF end \notin {"completed", "unreachable"} THEN "invocation_failed"
    ELSE IF end = "unreachable" THEN "provider_unreachable"
    ELSE IF Len(traceFile) > MaxTrace \/ ~TraceReadable(traceFile) THEN "invocation_failed"
    ELSE IF traceFile = <<>> THEN "no_trace"
    ELSE "completed"

\* The local adapter's outcome, as the engine maps it: result.json may be any
\* object, and an empty trace is one.
AdapterStatus(end) ==
    IF end \in {"timed_out", "cancelled"} THEN end
    ELSE IF end \in Ends \cup {"absent", "unparsable", "not_an_object"} THEN "invocation_failed"
    ELSE IF ~TraceReadable(traceFile) THEN "invocation_failed"
    ELSE "completed"

\* Events are written again with the attempt's identity, in the file's order, each
\* stamped with what the wall clock shows when it is its turn.
Rebind(lines, stamps) ==
    [i \in DOMAIN lines |-> Line("event", stamps[i], i - 1, lines[i].large)]

Stampings(end) ==
    IF target = "local" /\ AdapterStatus(end) = "completed"
    THEN [DOMAIN traceFile -> 0..MaxClock] ELSE {<<>>}

AgentEvents(status, stamps) ==
    IF status # "completed" THEN <<>>
    ELSE IF target = "local" THEN Rebind(traceFile, stamps)
    ELSE traceFile

ProxyEvents(offset) ==
    [i \in DOMAIN wire |-> Line("wire", wire[i], offset + i - 1, FALSE)]

\* A failed attempt keeps what the proxy recorded, and only that.
Evidence(status, stamps) ==
    LET agents == AgentEvents(status, stamps) IN agents \o ProxyEvents(Len(agents))

Acceptable(events) == \A i \in DOMAIN events : events[i].text \notin {"foreign", "unmarked"}

Ingested(events) == IF Len(events) > EventCap THEN SubSeq(events, 1, EventCap) ELSE events

AttemptStatusOf(status) ==
    IF status \in {"invocation_failed", "provider_unreachable"} THEN "errored"
    ELSE IF status = "no_trace" THEN "completed" ELSE status

EndAttempt(end, stamps) ==
    /\ outcome = "running"
    /\ end = "spawn_failed" => traceFile = <<>> /\ wire = <<>> /\ capture = NoCapture
    /\ end = "cancelled" => target = "local"
    /\ LET status == IF target = "command" THEN RunnerStatus(end) ELSE AdapterStatus(end)
           events == Evidence(status, stamps)
       IN /\ outcome' = IF Acceptable(events) THEN AttemptStatusOf(status) ELSE "errored"
          /\ kept' = IF Acceptable(events) THEN Ingested(events) ELSE <<>>
    /\ capture' = NoCapture
    /\ UNCHANGED <<target, wall, traceFile, wire>>

\* The adapter raises instead of returning a result. The attempt is errored and
\* has no evidence, what the proxy recorded included.
AttemptRaises ==
    /\ outcome = "running" /\ outcome' = "raised"
    /\ capture' = NoCapture
    /\ UNCHANGED <<target, wall, traceFile, wire, kept>>

CaptureNext ==
    \/ \E w \in 0..MaxClock : SetClock(w)
    \/ EnterCapture \/ ExitCapture \/ Tear \/ ProxyRecords
    \/ \E step \in 1..2, large \in BOOLEAN : Emit("event", step, large)
    \/ \E text \in {"foreign", "unmarked"} : Emit(text, 1, FALSE)
    \/ \E end \in Ends \cup Results : \E stamps \in Stampings(end) : EndAttempt(end, stamps)
    \/ AttemptRaises

CaptureSpec == CaptureInit /\ [][CaptureNext]_captureVars

-----------------------------------------------------------------------------
KeyLess(a, b) == a.ts < b.ts \/ (a.ts = b.ts /\ a.seq < b.seq)
AgentPlaces == {i \in DOMAIN kept : kept[i].text # "wire"}
WirePlaces == DOMAIN kept \ AgentPlaces

\* The (timestamp, sequence) keys of the agent's events follow the order it
\* emitted them in, whatever the wall clock did while it ran and however many
\* contexts wrote them; only an event longer than 8 KiB at the end of a context
\* hides where the clock had been (capture.py:97-118, 172-183, 318-328). A local
\* target's events are stamped anew, and two of them change places only where the
\* clock was set back in the middle of that (targets/local.py:198).
KeysFollowEmission ==
    \A i, j \in AgentPlaces : i < j /\ ~KeyLess(kept[i], kept[j]) =>
        IF target = "command" THEN \E k \in i..(j - 1) : kept[k].large
                              ELSE kept[j].ts < kept[i].ts

\* The order that trace rules use is the order of emission regardless of
\* adjustments of the wall clock (the docstring of capture.py), large events
\* aside. The stamps of the local adapter (targets/local.py:198) violate it
\* (README.md, 4).
OrderIsEmission ==
    \A i, j \in AgentPlaces : i < j /\ ~KeyLess(kept[i], kept[j]) =>
        \E k \in i..(j - 1) : kept[k].large

\* An attempt that completed has as evidence every event that was written, in
\* the file's order and up to the cap, and no line that is not a whole event;
\* one that did not has none of them; what the proxy recorded survives either
\* way, so long as the agent's events leave it room under the cap and the adapter
\* returned at all (engine.py:907-930, 1199-1240).
EvidenceIsWhole ==
    /\ outcome = "completed" =>
         /\ AgentPlaces = 1..(IF Len(traceFile) > EventCap THEN EventCap ELSE Len(traceFile))
         /\ \A i \in AgentPlaces :
               /\ kept[i].text = "event" /\ kept[i].large = traceFile[i].large
               /\ target = "command" => kept[i] = traceFile[i]
    /\ outcome \notin {"running", "completed"} => AgentPlaces = {}
    /\ outcome \notin {"running", "raised"} /\ Len(traceFile) + Len(wire) <= EventCap =>
         Cardinality(WirePlaces) = Len(wire)
=============================================================================
