-------------------------------- MODULE Feed --------------------------------
(***************************************************************************)
(* The front of the pipe: clients, sentinel-ingest and sentinel-parser     *)
(* behind it, each the one of its own module.  The parser reads what       *)
(* ingest writes to its stdout, the events and the lines of the logger,    *)
(* sees the end of its input when ingest has ended and the pipe is empty,  *)
(* and takes ingest with it when it dies and ingest writes on.  The stage  *)
(* behind the parser may stall or die.                                     *)
(*                                                                         *)
(* Ingest takes more for JSON than the parser does: it passes on a payload *)
(* that serde rejects (1e999, half a surrogate pair, deep nesting) or that *)
(* is not UTF-8, so an acknowledged event may be an error to the parser,   *)
(* or its end.                                                             *)
(***************************************************************************)
EXTENDS Values, Sequences, FiniteSets

CONSTANTS Clients, PerClient,             \* see Ingest
          Lowercase, Utc, Mentions,       \* see Parser
          Minted,         \* what event.Mint may have written for a request
          LogRecord,      \* a line of the logger
          PipeCap         \* lines that fit into the pipe

VARIABLES server, phase, mutex, status, stdout, iOut, iTaken, faults, count,
          posted, waiting, sent, failed, acked,
          pPc, pCode, pInput, total, errors, pOut, pTaken, pReader

ingestVars == <<server, phase, mutex, status, stdout, iOut, faults, count,
                posted, waiting, sent, failed, acked>>
parserVars == <<pPc, pCode, pInput, total, errors, pOut, pTaken, pReader>>
vars == <<ingestVars, iTaken, parserVars>>

\* All that ingest can write: two lines for a request, three of its own.
MaxLines == 2 * PerClient * Cardinality(Clients) + 3

P == INSTANCE Parser WITH
        Lines <- Minted \cup {LogRecord},
        pc <- pPc, code <- pCode, input <- pInput, out <- pOut, taken <- pTaken, reader <- pReader

I == INSTANCE Ingest WITH
        Deployments <- {"pipe"}, MaxFaults <- 0,
        out <- iOut, taken <- iTaken, reader <- P!Running

\* Mint sets received_at itself: what decodes has an instant.  A line of the
\* logger lacks the fields of an event.
ASSUME FeedAssumption == /\ PerClient \in Nat /\ IsFiniteSet(Clients)
                         /\ PipeCap \in Nat \ {0}
                         /\ \A t \in DOMAIN Utc : Utc[t] \in DOMAIN Utc /\ Utc[Utc[t]] = Utc[t]
                         /\ \A m \in Minted : /\ m.kind \in {"text", "garbled"}
                                              /\ P!Decodes(m) => P!Acceptable(m)
                         /\ LogRecord.kind = "text" /\ ~P!Decodes(LogRecord)

Init == P!Init /\ I!Init

-----------------------------------------------------------------------------
(* Plausible mistakes; nothing below uses them.                            *)

\* The parser stops reading as soon as ingest has ended.
ParserSeesEndEarly ==
    /\ ~I!Alive
    /\ pPc = "read"
    /\ pPc' = "ended"
    /\ UNCHANGED <<ingestVars, iTaken, pCode, pInput, total, errors, pOut, pTaken, pReader>>

-----------------------------------------------------------------------------

\* Clients, handlers and the process of ingest.
IngestWorks ==
    /\ UNCHANGED <<iTaken, parserVars>>
    /\ \/ \E c \in Clients : I!Post(c) \/ I!GivesUp(c)
       \/ \E r \in I!Requests : I!Decode(r) \/ I!Lock(r) \/ I!Write(r) \/ I!Count(r)
                                    \/ I!Log(r) \/ I!Reply(r)
       \/ I!Signal \/ I!Shutdown \/ I!Drained \/ I!Dies \/ I!BrokenPipe

\* The parser reads what ingest wrote.  A line that is not UTF-8 ends it: all
\* that ingest sees of that is that its reader is gone.
ParserReads ==
    /\ iTaken < Len(iOut)
    /\ \E record \in IF iOut[iTaken + 1].what = "event" THEN Minted ELSE {LogRecord} :
          pInput' = Append(pInput, record)
    /\ P!ReadLine
    /\ iTaken' = IF P!Running' THEN iTaken + 1 ELSE iTaken
    /\ UNCHANGED ingestVars

ParserSeesEnd ==
    /\ ~I!Alive
    /\ iTaken = Len(iOut)
    /\ P!EndOfInput
    /\ UNCHANGED <<ingestVars, iTaken>>

\* The record is written or the write fails; stdin cannot be read; a signal.
ParserWorks ==
    /\ P!WriteLine \/ P!WriteFails \/ (P!EndOfInput /\ pCode' = 1) \/ P!Kill
    /\ UNCHANGED <<ingestVars, iTaken>>

Behind ==
    /\ P!TakeLine \/ P!ReaderDies
    /\ UNCHANGED <<ingestVars, iTaken>>

Next == IngestWorks \/ ParserReads \/ ParserSeesEnd \/ ParserWorks \/ Behind

Spec == Init /\ [][Next]_vars

-----------------------------------------------------------------------------
(* Properties.                                                             *)

\* The request behind a record of the parser.
RequestOf(k) == iOut[pOut[k].line].req

CleanEnd == pPc = "ended" /\ pCode = 0

EventLines == {i \in 1..Len(pInput) : iOut[i].what = "event"}

LogLines == {i \in 1..Len(iOut) : iOut[i].what = "log"}

\* The lines of events that the parser does not take for events.
Rejected == {i \in EventLines : ~P!Acceptable(pInput[i])}

RejectedRequests == {iOut[i].req : i \in Rejected}

\* An event that its client counts as sent comes out of the parser, once, and
\* in the order in which the client posted it, whether ingest was shut down,
\* timed out or was killed meanwhile; unless the parser itself failed, or cannot
\* decode the event, and then it does not come out at all.
AcknowledgedIsEnriched ==
    CleanEnd =>
        /\ \A r \in acked : Cardinality({k \in 1..Len(pOut) : RequestOf(k) = r})
                               = IF r \in RejectedRequests THEN 0 ELSE 1
        /\ \A j, k \in 1..Len(pOut) :
              LET r == RequestOf(j)  s == RequestOf(k)
              IN  (r \in acked /\ r[1] = s[1] /\ r[2] < s[2]) => j < k

\* What the two services say when they end fits together: the parser has
\* enriched or rejected what ingest counted as published, and at most one event
\* more that a killed ingest had no time to count; what the parser counts as
\* errors is what the logger wrote and the events it rejects; and it enriched at
\* least what the clients count as sent and it does not reject.
CountersAgree ==
    CleanEnd =>
        LET events == total + Cardinality(Rejected) IN
        /\ events \in count..count + 1
        /\ events = count \/ server = "dead"
        /\ total + errors = Len(iOut)
        /\ errors = Cardinality(LogLines) + Cardinality(Rejected)
        /\ total >= Cardinality(acked \ RejectedRequests)
============================================================================
