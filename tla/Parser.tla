------------------------------- MODULE Parser -------------------------------
(***************************************************************************)
(* sentinel-parser (services/parser): reads raw events from stdin line by  *)
(* line, enriches each and writes it to stdout, a pipe to the next stage.  *)
(* Lines it cannot decode or date are counted and dropped; a line that is  *)
(* not UTF-8 or a write that fails ends the process.                       *)
(***************************************************************************)
EXTENDS Enrich, Events, Sequences, FiniteSets

CONSTANTS Lines,       \* the lines stdin may deliver
          PipeCap,     \* lines that fit into the pipe
          MaxLines     \* bound: lines that stdin delivers

ASSUME ParserAssumption == /\ PipeCap \in Nat \ {0}
                           /\ MaxLines \in Nat

VARIABLES pc,          \* "read", "write", "ended" or "killed"
          code,        \* exit status
          input,       \* the lines read so far
          total,       \* the counters of main
          errors,
          out,         \* lines written: [line, event, whole]
          taken,       \* how many of them the next stage has read
          reader       \* the next stage is alive

vars == <<pc, code, input, total, errors, out, taken, reader>>

\* A line is "blank", "garbled" (not UTF-8) or "text".  has: the string fields
\* of a raw event that it holds, none if it is no JSON object.  raw: the fields
\* of its payload, none if that is no object.
Kinds == {"blank", "garbled", "text"}

Required == {"event_id", "tenant_id", "source", "received_at", "ingest_node_id", "raw"}

Decodes(l) == l.kind = "text" /\ Required \subseteq l.has

-----------------------------------------------------------------------------
(* Plausible mistakes in the code; nothing below uses them.                *)

\* A line that cannot be decoded is skipped like a blank one.
HandleUncounted(l) ==
    /\ l.kind # "garbled"
    /\ pc' = IF Decodes(l) /\ Get(l.raw, "@timestamp").atom \in Timestamps
             THEN "write" ELSE "read"
    /\ UNCHANGED <<code, errors>>

\* A failed write is ignored.
WriteFailsIgnored ==
    /\ pc = "write"
    /\ ~reader
    /\ pc' = "read"
    /\ UNCHANGED <<code, input, total, errors, out, taken, reader>>

-----------------------------------------------------------------------------
(* What sentinel-generator --dry-run prints, to be piped into the parser.  *)

\* The events leave out what only ingest can add.
DryRunLine(e) ==
    [kind |-> "text", has |-> {"event_id", "tenant_id", "source", "transport", "raw"},
     source |-> e.source, received |-> "", raw |-> e.raw]

DryRunLines == {DryRunLine(e) : e \in RandomEvents}

-----------------------------------------------------------------------------
(* main.rs                                                                 *)

Running == pc \in {"read", "write"}

Current == input[Len(input)]

Init ==
    /\ pc = "read"
    /\ code = 0
    /\ input = <<>>
    /\ total = 0
    /\ errors = 0
    /\ out = <<>>
    /\ taken = 0
    /\ reader = TRUE

\* What one line leads to before anything is written.
Handle(l) ==
    \/ /\ l.kind = "garbled"
       /\ pc' = "ended" /\ code' = 1
       /\ UNCHANGED errors
    \/ /\ l.kind = "blank"
       /\ UNCHANGED <<pc, code, errors>>
    \/ /\ l.kind = "text"
       /\ ~Decodes(l) \/ ~Dated(l)
       /\ errors' = errors + 1
       /\ UNCHANGED <<pc, code>>
    \/ /\ Decodes(l) /\ Dated(l)
       /\ pc' = "write"
       /\ UNCHANGED <<code, errors>>

ReadLine ==
    /\ pc = "read"
    /\ Len(input) < MaxLines
    /\ \E l \in Lines : input' = Append(input, l) /\ Handle(l)
    /\ UNCHANGED <<total, out, taken, reader>>

\* stdin is at its end; or cannot be read, which main returns as an error.
EndOfInput ==
    /\ pc = "read"
    /\ pc' = "ended"
    /\ code' \in {0, 1}
    /\ UNCHANGED <<input, total, errors, out, taken, reader>>

Enriched(whole) == [line |-> Len(input), event |-> Enrich(Current), whole |-> whole]

\* stdout.write_all of the record and of its newline.
WriteLine ==
    /\ pc = "write"
    /\ reader
    /\ Len(out) - taken < PipeCap
    /\ out' = Append(out, Enriched(TRUE))
    /\ total' = total + 1
    /\ pc' = "read"
    /\ UNCHANGED <<code, input, errors, taken, reader>>

\* The next stage is gone: Rust ignores SIGPIPE, the write returns an error and
\* main returns it.
WriteFails ==
    /\ pc = "write"
    /\ ~reader
    /\ pc' = "ended"
    /\ code' = 1
    /\ UNCHANGED <<input, total, errors, out, taken, reader>>

\* A signal.  The two write_alls of a long record may be torn apart by it.
Kill ==
    /\ Running
    /\ pc' = "killed"
    /\ \/ UNCHANGED out
       \/ /\ pc = "write" /\ reader /\ Len(out) - taken < PipeCap
          /\ out' = Append(out, Enriched(FALSE))
    /\ UNCHANGED <<code, input, total, errors, taken, reader>>

\* The next stage.
TakeLine ==
    /\ reader
    /\ taken < Len(out)
    /\ taken' = taken + 1
    /\ UNCHANGED <<pc, code, input, total, errors, out, reader>>

ReaderDies ==
    /\ reader
    /\ reader' = FALSE
    /\ UNCHANGED <<pc, code, input, total, errors, out, taken>>

Next == \/ ReadLine \/ EndOfInput \/ WriteLine \/ WriteFails \/ Kill
        \/ TakeLine \/ ReaderDies

Spec == Init /\ [][Next]_vars

-----------------------------------------------------------------------------
(* Properties.                                                             *)

\* Types; what the parser writes has the classes, severities and ports that
\* event.enriched.schema.json allows, and the pipe holds no more than it can.
EnrichedType(e) ==
    /\ e["event_class"].str /\ e["event_class"].atom \in Classes
    /\ e["severity"].str /\ e["severity"].atom \in Severities
    /\ e["ts"].str /\ e["ts"].atom \in {Utc[t] : t \in Timestamps}
    /\ \A f \in StringFields : e[f] = Null \/ e[f].str
    /\ \A f \in PortFields : e[f] = Null \/ (~e[f].str /\ e[f].num \in U16)

TypeOK ==
    /\ pc \in {"read", "write", "ended", "killed"}
    /\ code \in {0, 1}
    /\ input \in Seq(Lines)
    /\ total \in Nat /\ errors \in Nat
    /\ \A k \in 1..Len(out) : out[k].line \in 1..Len(input) /\ EnrichedType(out[k].event)
    /\ taken \in 0..Len(out) /\ Len(out) - taken =< PipeCap
    /\ reader \in BOOLEAN

Acceptable(l) == Decodes(l) /\ Dated(l)

Pending == IF pc = "write" THEN {Len(input)} ELSE {}

\* No line goes missing without a trace.  The parser counts as errors exactly
\* the lines of text it cannot decode or date; and unless it was killed or a
\* write failed, every line that is not blank was enriched, counted as an error,
\* is being written, or was the last one the parser read.
EveryLineAccounted ==
    LET texts == {i \in 1..Len(input) : input[i].kind = "text"}
    IN  /\ errors = Cardinality({i \in texts : ~Acceptable(input[i])})
        /\ Running \/ (pc = "ended" /\ (code = 0 \/ reader)) =>
              Cardinality(texts) = total + errors + Cardinality(Pending)

\* The output is the acceptable lines in their order, each once; only the line
\* being written may be missing, or lost with a process that did not end well.
OutputFollowsInput ==
    LET lines == {i \in 1..Len(input) : Acceptable(input[i])}
    IN  /\ \A j, k \in 1..Len(out) : j < k => out[j].line < out[k].line
        /\ \A k \in 1..Len(out) : out[k].line \in lines
        /\ \A i \in lines : \/ \E k \in 1..Len(out) : out[k].line = i
                            \/ i = Len(input) /\ pc # "read" /\ ~(pc = "ended" /\ code = 0)
        /\ \A k \in 1..Len(out) : ~out[k].whole => k = Len(out) /\ pc = "killed"

\* A value in an enriched event is the value of the raw event or null: nothing
\* is cut, wrapped or made up.
NothingMadeUp ==
    \A k \in 1..Len(out) : \A f \in StringFields \cup PortFields :
        out[k].event[f] \in {Null, Get(input[out[k].line].raw, f)}

-----------------------------------------------------------------------------
(* What the documentation says.                                            *)

\* services/parser/README.md: the generator can be piped into the parser.  When
\* such a run ends well, every event of the generator has been enriched; but
\* the lines lack fields that RawEvent requires.
DryRunIsEnriched ==
    (/\ pc = "ended" /\ code = 0
     /\ \A i \in 1..Len(input) : input[i] \in DryRunLines) => total = Len(input)
============================================================================
