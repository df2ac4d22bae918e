-------------------------------- MODULE Pipe --------------------------------
(***************************************************************************)
(* The Unix pipe of the README: sentinel-parser | sentinel-detector |      *)
(* sentinel-sink.  Each stage is the one of its own module; what is added  *)
(* here is that one stage's stdout is the next one's stdin: a stage reads  *)
(* what the stage before it wrote, sees the end of its input when that     *)
(* stage has ended and the pipe is empty, and finds its own reader gone    *)
(* once the stage behind it has ended.                                     *)
(***************************************************************************)
EXTENDS Values, Sequences, FiniteSets

CONSTANTS Lines, Lowercase, Utc, Mentions,              \* see Parser
          Related, OddWords, Directories, UseAnomaly,   \* see Detector
          Corpora, Threshold, BufCap,
          BatchSize, ChanCap,                           \* see Sink
          PipeCap,        \* lines that fit into either pipe
          Decision,       \* Decision[l]: what the forest says of line l, enriched
          MaxLines,       \* bound: lines that reach the parser
          MaxAlerts       \* bound: alerts that reach the sink

VARIABLES pPc, pCode, pInput, total, errors, pOut, pTaken,
          rules, corpus, dPc, dCode, dInput, turn, buffer, dOut, dTaken,
          sInput, sReader, sent, received, tick, sPc, buffers, todo, posts

parserVars == <<pPc, pCode, pInput, total, errors, pOut>>
detectorVars == <<rules, corpus, dPc, dCode, dInput, turn, buffer, dOut>>
sinkVars == <<sInput, sReader, sent, received, tick, sPc, buffers, todo, posts>>
vars == <<parserVars, pTaken, detectorVars, dTaken, sinkVars>>

S == INSTANCE Sink WITH
        MaxLines <- MaxAlerts, Stdin <- Seq({"alert"}), input <- sInput, reader <- sReader, pc <- sPc

NoFields == [f \in {} |-> Null]

DetectorLine(kind, top, df) ==
    [kind |-> kind, id |-> kind = "object", top |-> top, raw |-> NoFields,
     df |-> df, ports |-> TRUE]

P == INSTANCE Parser WITH
        pc <- pPc, code <- pCode, input <- pInput, out <- pOut, taken <- pTaken,
        reader <- dPc \notin {"ended", "killed"}

\* A record of the parser as the detector finds it: all fields at the top and
\* no payload; a part of a record is no JSON.
AsRead(l, whole) == IF whole THEN DetectorLine("object", P!Enrich(l), Decision[l])
                    ELSE DetectorLine("junk", NoFields, 0)

EnrichedLines == {AsRead(l, w) : l \in {m \in Lines : P!Acceptable(m)}, w \in BOOLEAN}

DetectorLines(directory) == EnrichedLines

\* What the detector may find where the parser wrote.  A parser that is killed
\* meanwhile has left a part of the record, or all of it but the newline, and that
\* is an event like any other.
Readings(l, whole) == {AsRead(l, w) : w \in IF whole THEN {TRUE} ELSE BOOLEAN}

D == INSTANCE Detector WITH
        Lines <- DetectorLines, pc <- dPc, code <- dCode, input <- dInput,
        out <- dOut, taken <- dTaken, reader <- S!Running

ASSUME PipeAssumption ==
    /\ \A t \in DOMAIN Utc : Utc[t] \in DOMAIN Utc /\ Utc[Utc[t]] = Utc[t]
    /\ \A l \in Lines : P!Acceptable(l) => Decision[l] \in Int
    /\ \A d \in Directories : Len(d) \in Nat /\ \A i \in 1..Len(d) : D!IsRule(d[i])
    /\ UseAnomaly \in BOOLEAN
    /\ Corpora \subseteq D!Trained \cup {D!EmptyCorpus}
    /\ Threshold \in Int /\ BatchSize \in Int
    /\ BufCap \in Nat \ {0} /\ PipeCap \in Nat \ {0} /\ ChanCap \in Nat \ {0}
    /\ MaxLines \in Nat /\ MaxAlerts \in Nat

Init == S!Init /\ D!Init /\ P!Init

-----------------------------------------------------------------------------
(* Plausible mistakes; nothing below uses them.                            *)

\* The detector never sees the end of the parser's pipe if it dies by a signal.
DetectorSeesEndOfEnded ==
    /\ UNCHANGED <<parserVars, pTaken, dTaken, sinkVars>>
    /\ pPc = "ended"
    /\ pTaken = Len(pOut)
    /\ D!EndOfInput

\* The detector stops reading as soon as the parser has ended.
DetectorSeesEndEarly ==
    /\ UNCHANGED <<parserVars, pTaken, dTaken, sinkVars>>
    /\ ~P!Running
    /\ D!EndOfInput

\* All that is in the pipe is read at once, and one line of it looked at.
DetectorReadsChunk ==
    /\ pTaken < Len(pOut)
    /\ UNCHANGED <<parserVars, dTaken, sinkVars>>
    /\ pTaken' = Len(pOut)
    /\ LET p == pOut[pTaken + 1] IN
       \E line \in Readings(pInput[p.line], p.whole) : dInput' = Append(dInput, line)
    /\ D!ReadLine

\* The sink stops reading as soon as the detector has ended.
SinkSeesEndEarly ==
    /\ ~D!Running
    /\ S!ScanEnds
    /\ UNCHANGED <<parserVars, pTaken, detectorVars, dTaken>>

-----------------------------------------------------------------------------
(* The parser reads from a file or from an ingest service.                 *)

ParserStep ==
    /\ UNCHANGED <<detectorVars, dTaken, sinkVars>>
    /\ P!ReadLine \/ P!EndOfInput \/ P!WriteLine \/ P!WriteFails \/ P!Kill

(* The detector reads from the parser.                                     *)

DetectorReads ==
    /\ pTaken < Len(pOut)
    /\ UNCHANGED <<parserVars, dTaken, sinkVars>>
    /\ pTaken' = pTaken + 1
    /\ LET p == pOut[pTaken + 1] IN
       \E line \in Readings(pInput[p.line], p.whole) : dInput' = Append(dInput, line)
    /\ D!ReadLine

\* A part of a record may end within a character, which is no UTF-8.
DetectorCannotDecode ==
    /\ UNCHANGED <<parserVars, pTaken, dTaken, sinkVars>>
    /\ pTaken < Len(pOut)
    /\ ~pOut[pTaken + 1].whole
    /\ D!ReadFails

DetectorSeesEnd ==
    /\ UNCHANGED <<parserVars, pTaken, dTaken, sinkVars>>
    /\ ~P!Running
    /\ pTaken = Len(pOut)
    /\ D!EndOfInput

DetectorWorks ==
    /\ UNCHANGED <<parserVars, pTaken, dTaken, sinkVars>>
    /\ \/ D!Load \/ D!MatchRule \/ D!Score \/ D!StartFlush
       \/ D!Drain \/ D!Flushed \/ D!BrokenPipe \/ D!Exit

DetectorKilled == UNCHANGED <<parserVars, pTaken, dTaken, sinkVars>> /\ D!Kill

(* The sink reads from the detector, and so reads alerts only.             *)

SinkReads ==
    /\ dTaken < Len(dOut)
    /\ sInput' = Append(sInput, "alert")
    /\ S!Scan
    /\ dTaken' = dTaken + 1
    /\ UNCHANGED <<parserVars, pTaken, detectorVars>>

SinkSeesEnd ==
    /\ ~D!Running
    /\ dTaken = Len(dOut)
    /\ S!ScanEnds
    /\ UNCHANGED <<parserVars, pTaken, detectorVars, dTaken>>

SinkWorks ==
    /\ \/ S!SendLine \/ S!TickFires \/ S!ReceiveLine \/ S!ReceiveTick \/ S!ReceiveClosed
       \/ \E t \in S!Tables : S!Flush(t)
       \/ \E p \in 1..Len(posts) : S!ServerInserts(p)
       \/ S!ReplyOK \/ S!ReplyError \/ S!PostFails \/ S!Exit
    /\ UNCHANGED <<parserVars, pTaken, detectorVars, dTaken>>

SinkKilled == S!Kill /\ UNCHANGED <<parserVars, pTaken, detectorVars, dTaken>>

Next ==
    \/ ParserStep
    \/ DetectorReads \/ DetectorCannotDecode \/ DetectorSeesEnd
    \/ DetectorWorks \/ DetectorKilled
    \/ SinkReads \/ SinkSeesEnd \/ SinkWorks \/ SinkKilled

Spec == Init /\ [][Next]_vars

\* The stages run, the operating system moves what is in the pipes, and an
\* insert is answered or given up on; a ready case of the sink's select is
\* taken in the end.  Kills are never assumed, nor is anything of stdin.
Fairness ==
    /\ WF_vars(DetectorReads) /\ WF_vars(DetectorSeesEnd) /\ WF_vars(DetectorWorks)
    /\ WF_vars(SinkReads) /\ WF_vars(SinkSeesEnd)
    /\ WF_vars(S!SendLine /\ UNCHANGED <<parserVars, pTaken, detectorVars, dTaken>>)
    /\ SF_vars(S!ReceiveLine /\ UNCHANGED <<parserVars, pTaken, detectorVars, dTaken>>)
    /\ SF_vars(S!ReceiveClosed /\ UNCHANGED <<parserVars, pTaken, detectorVars, dTaken>>)
    /\ \A t \in S!Tables :
          WF_vars(S!Flush(t) /\ UNCHANGED <<parserVars, pTaken, detectorVars, dTaken>>)
    /\ WF_vars((S!ReplyOK \/ S!ReplyError \/ S!PostFails)
                  /\ UNCHANGED <<parserVars, pTaken, detectorVars, dTaken>>)
    /\ WF_vars(S!Exit /\ UNCHANGED <<parserVars, pTaken, detectorVars, dTaken>>)

FairSpec == Spec /\ Fairness

-----------------------------------------------------------------------------
(* Properties.                                                             *)

\* Coupling the stages gives none of them a step it does not have alone: what
\* is shown of each module holds of the stage in the pipe.
StagesAsSpecified == P!Spec /\ D!Spec /\ S!Spec

\* The sink has put the alert into a finished insert, once.
Inserted(a) ==
    LET places == {x \in (1..Len(posts)) \X (1..Len(sInput)) :
                      x[2] \in 1..Len(posts[x[1]].rows) /\ dOut[posts[x[1]].rows[x[2]]] = a}
    IN  Cardinality(places) = 1 /\ \A x \in places : posts[x[1]].reply # "none"

\* Nothing is lost at the seams.  When the sink has ended by itself and the
\* detector was not killed, every alert the detector wrote, were it in the
\* middle of an event when it failed, has gone into exactly one insert.
AlertsCrossThePipe ==
    (sPc = "exited" /\ dPc = "ended") =>
        \A k \in 1..Len(D!Written) : Inserted(D!Written[k])

\* Who asks for an alert about line l.
AskedBy ==
    [d \in Directories |-> [c \in Corpora |-> [l \in Lines |->
        IF P!Acceptable(l)
        THEN {by \in 1..Len(d) : D!Means(d[by], AsRead(l, TRUE))}
             \cup (IF UseAnomaly /\ D!StandsOut(c, Decision[l], Threshold)
                   THEN {Len(d) + 1} ELSE {})
        ELSE {}]]]

CleanEnd ==
    /\ pPc = "ended" /\ pCode = 0
    /\ dPc = "ended" /\ dCode = 0
    /\ sPc = "exited"

AlertFor(i, by) == \E a \in {dOut[k] : k \in 1..Len(dOut)} :
                      pOut[a.event].line = i /\ a.by = by /\ Inserted(a)

\* After a run in which all three stages ended without an error, every line of
\* the parser's input that decodes and has a timestamp has been judged by every
\* rule: the alerts its enriched form asks for are in finished inserts.
CleanRunIsComplete ==
    CleanEnd =>
        \A i \in 1..Len(pInput) :
            \A by \in AskedBy[rules][corpus][pInput[i]] : AlertFor(i, by)

\* When the parser ends, however it does, the stages behind it end one after
\* the other: no stage waits for ever on a pipe nobody will write to or read.
PipeRunsDry == ~P!Running ~> (~D!Running /\ ~S!Running)

-----------------------------------------------------------------------------
(* The pipe implements Alerting: an event is a line of the parser's input, *)
(* a line that is dropped asks for nothing.                                *)

Judges == UNION {1..Len(d) + 1 : d \in Directories}

AlertAbout(a) == <<pOut[a.event].line, a.by>>

\* The rows of all inserts that ClickHouse has applied.
AppliedRows ==
    {x \in (1..Len(posts)) \X (1..Len(sInput)) :
        posts[x[1]].applied /\ x[2] \in 1..Len(posts[x[1]].rows)}

AlertIn(x) == AlertAbout(dOut[posts[x[1]].rows[x[2]]])

Applied ==
    [a \in {AlertIn(x) : x \in AppliedRows} |-> Cardinality({x \in AppliedRows : AlertIn(x) = a})]

Promise == INSTANCE Alerting WITH
    demand <- [i \in 1..Len(pInput) |-> AskedBy[rules][corpus][pInput[i]]],
    raised <- [k \in 1..Len(D!Written) |-> AlertAbout(D!Written[k])],
    stored <- Applied

\* Whatever is killed, fails, stalls or answers late, the three stages together
\* do no more and no less than raise the alerts that were asked for, in order
\* and without a gap, and put each into its table at most once.
ImplementsAlerting == Promise!Spec

-----------------------------------------------------------------------------
(* What the documentation says.                                            *)

\* examples/README.md: the shipped rules fire for the example payloads.  They
\* look at fields of the payload, which the parser does not pass on.
PayloadRulesFire ==
    CleanEnd =>
        \A i \in 1..Len(pInput), by \in 1..Len(rules) :
            (/\ P!Acceptable(pInput[i])
             /\ D!Means(rules[by], [top |-> P!Enrich(pInput[i]), raw |-> pInput[i].raw]))
                => AlertFor(i, by)
============================================================================
