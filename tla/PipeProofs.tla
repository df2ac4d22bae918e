----------------------------- MODULE PipeProofs -----------------------------
(***************************************************************************)
(* The pipe of the three stages, for any lines, rules, sizes and failures:  *)
(* every step of the pipe is a step of each stage or leaves it alone, so    *)
(* that each keeps what its own proofs say of it; and what the three have   *)
(* to do with each other: nothing is lost at the seams, a run without an    *)
(* error raises every alert it should, and the three together implement     *)
(* Alerting.                                                                *)
(***************************************************************************)
EXTENDS Pipe, FiniteSetTheorems, FunctionTheorems, TLAPS

PP == INSTANCE ParserProofs WITH
        pc <- pPc, code <- pCode, input <- pInput, out <- pOut, taken <- pTaken,
        reader <- dPc \notin {"ended", "killed"}

DP == INSTANCE DetectorProofs WITH
        Lines <- DetectorLines, pc <- dPc, code <- dCode, input <- dInput,
        out <- dOut, taken <- dTaken, reader <- S!Running

SP == INSTANCE SinkProofs WITH
        MaxLines <- MaxAlerts, Stdin <- Seq({"alert"}), input <- sInput, reader <- sReader, pc <- sPc

-----------------------------------------------------------------------------
(* What Pipe says of a stage is what the proofs about the stage say.        *)

\* The parser.
LEMMA SameParser ==
    /\ P!Init => PP!Init
    /\ P!Running <=> PP!Running
    /\ P!ReadLine => PP!ReadLine
    /\ P!EndOfInput => PP!EndOfInput
    /\ P!WriteLine => PP!WriteLine
    /\ P!WriteFails => PP!WriteFails
    /\ P!Kill => PP!Kill
    /\ P!TakeLine => PP!TakeLine
    /\ P!ReaderDies => PP!ReaderDies
    /\ \A l : P!Decodes(l) <=> PP!Decodes(l)
    /\ \A l : P!Acceptable(l) <=> PP!Acceptable(l)
  <1> USE DEF P!Running, PP!Running, P!Current, PP!Current, P!Enriched, PP!Enriched
  <1> USE DEF P!Value, PP!Value, P!Null, PP!Null, P!Text, PP!Text, P!Get, PP!Get,
              P!Timestamps, PP!Timestamps
  <1>1. \A l : P!Enrich(l) = PP!Enrich(l)
    <2> SUFFICES ASSUME NEW l
                 PROVE  P!Enrich(l) = PP!Enrich(l)
      OBVIOUS
    <2>1. P!Ts(l) = PP!Ts(l)
      BY DEF P!Ts, PP!Ts
    <2>2. \A words : P!MentionsOneOf(l.source, words) <=> PP!MentionsOneOf(l.source, words)
      BY DEF P!MentionsOneOf, PP!MentionsOneOf, P!Lower, PP!Lower
    <2>3. P!Text(P!Classify(l)) = PP!Text(PP!Classify(l))
      <3>1. /\ P!Get(l.raw, "event_class") = PP!Get(l.raw, "event_class")
            /\ \A w : P!Lower(w) = PP!Lower(w)
            /\ P!Classes = PP!Classes
        BY DEF P!Lower, PP!Lower, P!Classes, PP!Classes
      <3>2. \A a : P!Text(a) = PP!Text(a)
        OBVIOUS
      <3> HIDE DEF P!Get, PP!Get, P!Text, PP!Text
      <3>3. P!Classify(l) = PP!Classify(l)
        BY <2>2, <3>1, SMT DEF P!Classify, PP!Classify
      <3> QED
        BY <3>2, <3>3
    <2>4. P!Text(P!Severity(l.raw)) = PP!Text(PP!Severity(l.raw))
      BY DEF P!Severity, PP!Severity, P!Severities, PP!Severities, P!Aliases, PP!Aliases,
             P!Lower, PP!Lower
    <2>5. \A f : P!StringField(l.raw, f) = PP!StringField(l.raw, f)
      BY DEF P!StringField, PP!StringField
    <2>6. \A f : P!U16Field(l.raw, f) = PP!U16Field(l.raw, f)
      BY DEF P!U16Field, PP!U16Field, P!U16, PP!U16
    <2>7. P!Geo(l.raw) = PP!Geo(l.raw)
      BY <2>5 DEF P!Geo, PP!Geo
    <2> HIDE DEF P!Text, PP!Text
    <2> QED
      BY <2>1, <2>3, <2>4, <2>5, <2>6, <2>7
         DEF P!Enrich, PP!Enrich, P!StringFields, PP!StringFields, P!PortFields, PP!PortFields
  <1>2. \A l : P!Decodes(l) <=> PP!Decodes(l)
    BY DEF P!Decodes, PP!Decodes, P!Required, PP!Required
  <1>3. \A l : P!Dated(l) <=> PP!Dated(l)
    BY DEF P!Dated, PP!Dated, P!Timestamps, PP!Timestamps
  <1>4. \A l : P!Handle(l) => PP!Handle(l)
    BY <1>2, <1>3 DEF P!Handle, PP!Handle
  <1>5. P!ReadLine => PP!ReadLine
    BY <1>4 DEF P!ReadLine, PP!ReadLine
  <1>6. P!EndOfInput => PP!EndOfInput
    BY DEF P!EndOfInput, PP!EndOfInput
  <1>7. P!WriteLine => PP!WriteLine
    BY <1>1 DEF P!WriteLine, PP!WriteLine
  <1>8. P!WriteFails => PP!WriteFails
    BY DEF P!WriteFails, PP!WriteFails
  <1>9. P!Kill => PP!Kill
    BY <1>1 DEF P!Kill, PP!Kill
  <1>10. P!TakeLine => PP!TakeLine
    BY DEF P!TakeLine, PP!TakeLine
  <1>11. P!ReaderDies => PP!ReaderDies
    BY DEF P!ReaderDies, PP!ReaderDies
  <1>12. P!Init => PP!Init
    BY DEF P!Init, PP!Init
  <1>13. \A l : P!Acceptable(l) <=> PP!Acceptable(l)
    BY <1>2, <1>3 DEF P!Acceptable, PP!Acceptable
  <1> QED
    BY <1>2, <1>5, <1>6, <1>7, <1>8, <1>9, <1>10, <1>11, <1>12, <1>13

\* The verdicts of the rules and of the model.
LEMMA SameVerdicts ==
    /\ \A rule : D!IsRule(rule) <=> DP!IsRule(rule)
    /\ \A rule, event : D!Match(rule, event) = DP!Match(rule, event)
    /\ \A rule, event : D!Means(rule, event) <=> DP!Means(rule, event)
    /\ \A fit, df, percent :
          /\ D!IsAnomaly(fit, df, percent) <=> DP!IsAnomaly(fit, df, percent)
          /\ D!StandsOut(fit, df, percent) <=> DP!StandsOut(fit, df, percent)
  <1>1. \A rule : D!IsRule(rule) <=> DP!IsRule(rule)
    BY DEF D!IsRule, DP!IsRule
  <1>2. \A rule : D!Tokens(rule) = DP!Tokens(rule)
    BY DEF D!Tokens, DP!Tokens, D!Token, DP!Token,
           D!Ands, DP!Ands, D!Ors, DP!Ors, D!Nots, DP!Nots
  <1>3. \A event, field : D!Lookup(event, field) = DP!Lookup(event, field)
    BY DEF D!Lookup, DP!Lookup, D!Get, DP!Get, D!Null, DP!Null, D!Value, DP!Value
  <1>4. \A actual, modifier, expected :
           D!Compare(actual, modifier, expected) = DP!Compare(actual, modifier, expected)
    BY DEF D!Compare, DP!Compare, D!Bool, DP!Bool, D!TextModifiers, DP!TextModifiers, D!Null, DP!Null,
           D!Value, DP!Value
  <1>5. \A outcomes, neutral : D!Until(outcomes, neutral) = DP!Until(outcomes, neutral)
    BY DEF D!Until, DP!Until, D!SelectInSeq, DP!SelectInSeq, D!Min, DP!Min
  <1>6. \A selection, event : D!SelectionMatches(selection, event) = DP!SelectionMatches(selection, event)
    BY <1>3, <1>4, <1>5
       DEF D!SelectionMatches, DP!SelectionMatches, D!FieldMatches, DP!FieldMatches, D!AnyOf, DP!AnyOf
  <1>7. \A tokens, sels : D!Terms(tokens, sels) = DP!Terms(tokens, sels)
    BY DEF D!Terms, DP!Terms, D!Fault, DP!Fault, D!Negated, DP!Negated, D!Operators, DP!Operators
  <1>8. \A tokens, sels : D!Rests(tokens, sels) = DP!Rests(tokens, sels)
    BY DEF D!Rests, DP!Rests, D!Terms, DP!Terms, D!Fault, DP!Fault, D!Negated, DP!Negated,
           D!Operators, DP!Operators, D!Bool, DP!Bool, D!Combine, DP!Combine
  <1>9. \A tokens, sels : D!EvalCondition(tokens, sels) = DP!EvalCondition(tokens, sels)
    BY <1>7, <1>8 DEF D!EvalCondition, DP!EvalCondition
  <1>10. \A rule, event : D!Match(rule, event) = DP!Match(rule, event)
    BY <1>2, <1>6, <1>9 DEF D!Match, DP!Match
  <1>11. \A rule, event : D!Means(rule, event) <=> DP!Means(rule, event)
    <2>1. \A rule : D!Names(rule) = DP!Names(rule)
      BY DEF D!Names, DP!Names, D!Operators, DP!Operators
    <2>2. \A t, k : D!NotsBefore(t, k) = DP!NotsBefore(t, k)
      BY DEF D!NotsBefore, DP!NotsBefore
    <2>3. \A set : D!Cardinality(set) = DP!Cardinality(set)
      BY DEF D!Cardinality, DP!Cardinality
    <2>4. \A selection, event : D!Selects(selection, event) <=> DP!Selects(selection, event)
      <3>1. \A actual, modifier, v : D!Fits(actual, modifier, v) <=> DP!Fits(actual, modifier, v)
        BY DEF D!Fits, DP!Fits, D!TextModifiers, DP!TextModifiers, D!Null, DP!Null,
               D!Value, DP!Value
      <3> QED
        BY <1>3, <3>1 DEF D!Selects, DP!Selects
    <2>5. \A rule, event, t, k :
             D!TermHolds(rule, event, t, k) <=> DP!TermHolds(rule, event, t, k)
      BY <2>2, <2>3, <2>4 DEF D!TermHolds, DP!TermHolds
    <2>6. \A t, k : D!OperatorBefore(t, k) = DP!OperatorBefore(t, k)
      BY <2>2, <2>3 DEF D!OperatorBefore, DP!OperatorBefore
    <2> QED
      BY <1>2, <2>1, <2>5, <2>6 DEF D!Means, DP!Means
  <1>12. \A fit, df, percent :
            /\ D!IsAnomaly(fit, df, percent) <=> DP!IsAnomaly(fit, df, percent)
            /\ D!StandsOut(fit, df, percent) <=> DP!StandsOut(fit, df, percent)
    BY DEF D!IsAnomaly, DP!IsAnomaly, D!StandsOut, DP!StandsOut, D!Span, DP!Span, D!Top, DP!Top,
           D!Bottom, DP!Bottom, D!One, DP!One, D!Norm, DP!Norm, D!Clamp, DP!Clamp
  <1> QED
    BY <1>1, <1>10, <1>11, <1>12

-----------------------------------------------------------------------------
(* The detector and the sink.                                               *)

\* A line of the detector, as half or the whole of a record.
LEMMA ReadForms ==
    /\ \A l : /\ AsRead(l, TRUE).kind = "object" /\ AsRead(l, TRUE).id /\ AsRead(l, TRUE).ports
              /\ AsRead(l, TRUE).df = Decision[l]
    /\ \A l : AsRead(l, FALSE).kind = "junk" /\ AsRead(l, FALSE).df = 0
  BY DEF AsRead, DetectorLine

\* The instances satisfy the assumptions of their modules.
LEMMA Sizes ==
    /\ \A t \in DOMAIN Utc : Utc[t] \in DOMAIN Utc /\ Utc[Utc[t]] = Utc[t]
    /\ PipeCap \in Nat \ {0} /\ MaxLines \in Nat
    /\ \A d \in Directories : /\ Len(d) \in Nat
                              /\ \A i \in 1..Len(d) : DP!IsRule(d[i])
                              /\ \A l \in DetectorLines(d) : l.df \in Int
    /\ UseAnomaly \in BOOLEAN
    /\ Corpora \subseteq DP!Trained \cup {DP!EmptyCorpus}
    /\ Threshold \in Int /\ BufCap \in Nat \ {0}
    /\ BatchSize \in Int /\ ChanCap \in Nat \ {0} /\ MaxAlerts \in Nat
  <1>1. ASSUME NEW d \in Directories, NEW l \in DetectorLines(d)
        PROVE  l.df \in Int
    <2>1. PICK m \in Lines, w \in BOOLEAN : l = AsRead(m, w) /\ P!Acceptable(m)
      BY <1>1 DEF DetectorLines, EnrichedLines
    <2>2. Decision[m] \in Int
      BY <2>1, PipeAssumption
    <2>3. CASE w = TRUE
      BY <2>1, <2>2, <2>3 DEF AsRead, DetectorLine
    <2>4. CASE w = FALSE
      BY <2>1, <2>4 DEF AsRead, DetectorLine
    <2> QED
      BY <2>3, <2>4
  <1>2. D!Trained = DP!Trained /\ D!EmptyCorpus = DP!EmptyCorpus
    BY DEF D!Trained, DP!Trained, D!EmptyCorpus, DP!EmptyCorpus
  <1>3. Corpora \subseteq DP!Trained \cup {DP!EmptyCorpus}
    BY <1>2, PipeAssumption
  <1>4. ASSUME NEW d \in Directories
        PROVE  Len(d) \in Nat /\ \A i \in 1..Len(d) : DP!IsRule(d[i])
    BY SameVerdicts, PipeAssumption
  <1> QED
    BY <1>1, <1>3, <1>4, PipeAssumption

\* The process of the detector.
LEMMA SameDetector ==
    /\ D!Init => DP!Init
    /\ D!Load => DP!Load
    /\ D!ReadLine => DP!ReadLine
    /\ D!EndOfInput => DP!EndOfInput
    /\ D!ReadFails => DP!ReadFails
    /\ D!MatchRule => DP!MatchRule
    /\ D!Score => DP!Score
    /\ D!StartFlush => DP!StartFlush
    /\ D!Drain => DP!Drain
    /\ D!Flushed => DP!Flushed
    /\ D!BrokenPipe => DP!BrokenPipe
    /\ D!Exit => DP!Exit
    /\ D!Kill => DP!Kill
    /\ D!TakeAlert => DP!TakeAlert
    /\ D!ReaderDies => DP!ReaderDies
    /\ D!Running <=> DP!Running
    /\ D!Written = DP!Written
    /\ \A l : D!Parses(l) <=> DP!Parses(l)
  <1>1. /\ D!Running <=> DP!Running
        /\ D!Written = DP!Written
        /\ \A l : D!Parses(l) <=> DP!Parses(l)
        /\ D!Current = DP!Current
        /\ D!Model = DP!Model
        /\ D!Raise => DP!Raise
        /\ D!MustDrain <=> DP!MustDrain
        /\ \A rule : D!Loads(rule) <=> DP!Loads(rule)
        /\ D!EmptyCorpus = DP!EmptyCorpus
        /\ \A by : D!Alert(by) = DP!Alert(by)
    BY DEF D!Running, DP!Running, D!Written, DP!Written, D!Parses, DP!Parses,
           D!Current, DP!Current, D!Model, DP!Model, D!Raise, DP!Raise, D!MustDrain, DP!MustDrain,
           D!Loads, DP!Loads, D!EmptyCorpus, DP!EmptyCorpus, D!Alert, DP!Alert
  <1>2. \A by, v : D!Emit(by, v) => DP!Emit(by, v)
    BY <1>1 DEF D!Emit, DP!Emit
  <1>3. D!Init => DP!Init
    BY DEF D!Init, DP!Init
  <1>4. D!Load => DP!Load
    BY <1>1 DEF D!Load, DP!Load
  <1>5. D!ReadLine => DP!ReadLine
    BY <1>1 DEF D!ReadLine, DP!ReadLine
  <1>6. (D!EndOfInput => DP!EndOfInput) /\ (D!ReadFails => DP!ReadFails)
    BY <1>1 DEF D!EndOfInput, DP!EndOfInput, D!ReadFails, DP!ReadFails
  <1>7. D!MatchRule => DP!MatchRule
    BY <1>1, <1>2, SameVerdicts DEF D!MatchRule, DP!MatchRule
  <1>8. D!Verdict(D!Current) = DP!Verdict(DP!Current)
    BY <1>1, SameVerdicts DEF D!Verdict, DP!Verdict, D!Bool, DP!Bool
  <1>9. D!Score => DP!Score
    BY <1>1, <1>2, <1>8 DEF D!Score, DP!Score
  <1>10. D!StartFlush => DP!StartFlush
    BY <1>1 DEF D!StartFlush, DP!StartFlush
  <1>11. D!Drain => DP!Drain
    BY <1>1 DEF D!Drain, DP!Drain
  <1>12. D!Flushed => DP!Flushed
    BY DEF D!Flushed, DP!Flushed
  <1>13. D!BrokenPipe => DP!BrokenPipe
    BY <1>1 DEF D!BrokenPipe, DP!BrokenPipe
  <1>14. (D!Exit => DP!Exit) /\ (D!Kill => DP!Kill)
    BY <1>1 DEF D!Exit, DP!Exit, D!Kill, DP!Kill
  <1>15. (D!TakeAlert => DP!TakeAlert) /\ (D!ReaderDies => DP!ReaderDies)
    BY DEF D!TakeAlert, DP!TakeAlert, D!ReaderDies, DP!ReaderDies
  <1> QED
    BY <1>1, <1>3, <1>4, <1>5, <1>6, <1>7, <1>9, <1>10, <1>11, <1>12, <1>13, <1>14, <1>15

\* The sink.
LEMMA SameSink ==
    /\ S!Init => SP!Init
    /\ S!Scan => SP!Scan
    /\ S!ScanEnds => SP!ScanEnds
    /\ S!SendLine => SP!SendLine
    /\ S!TickFires => SP!TickFires
    /\ S!ReceiveLine => SP!ReceiveLine
    /\ S!ReceiveTick => SP!ReceiveTick
    /\ S!ReceiveClosed => SP!ReceiveClosed
    /\ \A t : S!Flush(t) => SP!Flush(t)
    /\ \A p : S!ServerInserts(p) => SP!ServerInserts(p)
    /\ S!ReplyOK => SP!ReplyOK
    /\ S!ReplyError => SP!ReplyError
    /\ S!PostFails => SP!PostFails
    /\ S!Exit => SP!Exit
    /\ S!Kill => SP!Kill
    /\ S!Running <=> SP!Running
    /\ S!Tables = SP!Tables
  <1> USE DEF S!Running, SP!Running, S!InFlight, SP!InFlight, S!AtSelect, SP!AtSelect,
              S!Tables, SP!Tables
  <1>1. (S!Init => SP!Init) /\ (S!ScanEnds => SP!ScanEnds) /\ (S!SendLine => SP!SendLine)
    BY DEF S!Init, SP!Init, S!ScanEnds, SP!ScanEnds, S!SendLine, SP!SendLine
  <1>2. S!Scan => SP!Scan
    BY DEF S!Scan, SP!Scan, S!Kinds, SP!Kinds
  <1>3. (S!TickFires => SP!TickFires) /\ (S!Exit => SP!Exit) /\ (S!Kill => SP!Kill)
    BY DEF S!TickFires, SP!TickFires, S!Exit, SP!Exit, S!Kill, SP!Kill
  <1>4. S!ReceiveLine => SP!ReceiveLine
    BY DEF S!ReceiveLine, SP!ReceiveLine, S!Route, SP!Route, S!IsRow, SP!IsRow, S!Full, SP!Full
  <1>5. (S!ReceiveTick => SP!ReceiveTick) /\ (S!ReceiveClosed => SP!ReceiveClosed)
    BY DEF S!ReceiveTick, SP!ReceiveTick, S!ReceiveClosed, SP!ReceiveClosed,
           S!NonEmpty, SP!NonEmpty
  <1>6. \A t : S!Flush(t) => SP!Flush(t)
    BY DEF S!Flush, SP!Flush, S!Batch, SP!Batch
  <1>7. \A p : S!ServerInserts(p) => SP!ServerInserts(p)
    BY DEF S!ServerInserts, SP!ServerInserts, S!Accepts, SP!Accepts
  <1>8. (S!ReplyOK => SP!ReplyOK) /\ (S!ReplyError => SP!ReplyError) /\ (S!PostFails => SP!PostFails)
    BY DEF S!ReplyOK, SP!ReplyOK, S!ReplyError, SP!ReplyError, S!PostFails, SP!PostFails,
           S!Answer, SP!Answer
  <1> QED
    BY <1>1, <1>2, <1>3, <1>4, <1>5, <1>6, <1>7, <1>8

-----------------------------------------------------------------------------
(* Every step of the pipe, seen by each stage.                              *)

\* A step of the detector: the parser sees no more than its reader end.
LEMMA DetectorActs ==
    ASSUME UNCHANGED <<parserVars, pTaken, dTaken, sinkVars>>,
           \/ D!Load \/ D!EndOfInput \/ D!ReadFails \/ D!MatchRule \/ D!Score \/ D!StartFlush
           \/ D!Drain \/ D!Flushed \/ D!BrokenPipe \/ D!Exit \/ D!Kill
    PROVE  /\ P!ReaderDies \/ UNCHANGED P!vars
           /\ D!Next
           /\ UNCHANGED S!vars
  <1>1. UNCHANGED S!vars
    BY DEF sinkVars, S!vars
  <1>2. D!Next
    BY DEF D!Next
  <1>3. /\ UNCHANGED <<pPc, pCode, pInput, total, errors, pOut, pTaken>>
        /\ UNCHANGED P!vars <=> UNCHANGED (dPc \notin {"ended", "killed"})
    BY DEF parserVars, P!vars
  <1>4. CASE D!BrokenPipe \/ D!Exit \/ D!Kill
    <2>1. dPc \notin {"ended", "killed"} /\ dPc' \in {"ended", "killed"}
      BY <1>4 DEF D!BrokenPipe, D!Exit, D!Kill, D!MustDrain, D!Running
    <2> QED
      BY <1>1, <1>2, <1>3, <2>1 DEF P!ReaderDies
  <1>5. CASE \/ D!Load \/ D!EndOfInput \/ D!ReadFails \/ D!MatchRule \/ D!Score
             \/ D!StartFlush \/ D!Drain \/ D!Flushed
    <2>1. dPc' = dPc \/ (dPc \notin {"ended", "killed"} /\ dPc' \notin {"ended", "killed"})
      <3>1. CASE D!Load \/ D!EndOfInput \/ D!ReadFails \/ D!StartFlush \/ D!Drain \/ D!Flushed
        BY <3>1 DEF D!Load, D!EndOfInput, D!ReadFails, D!StartFlush, D!Drain, D!Flushed, D!Raise
      <3>2. ASSUME NEW by, NEW v, dPc = "match", D!Emit(by, v)
            PROVE  dPc' = dPc \/ (dPc \notin {"ended", "killed"} /\ dPc' \notin {"ended", "killed"})
        BY <3>2 DEF D!Emit, D!Raise
      <3>3. CASE D!MatchRule \/ D!Score
        BY <3>2, <3>3 DEF D!MatchRule, D!Score
      <3> QED
        BY <1>5, <3>1, <3>3
    <2> QED
      BY <1>1, <1>2, <1>3, <2>1
  <1> QED
    BY <1>4, <1>5

\* A step of the sink: the detector sees no more than its reader end.
LEMMA SinkActs ==
    ASSUME UNCHANGED <<parserVars, pTaken, detectorVars, dTaken>>,
           \/ S!ScanEnds \/ S!SendLine \/ S!TickFires \/ S!ReceiveLine \/ S!ReceiveTick
           \/ S!ReceiveClosed \/ (\E t \in S!Tables : S!Flush(t))
           \/ (\E p \in 1..Len(posts) : S!ServerInserts(p))
           \/ S!ReplyOK \/ S!ReplyError \/ S!PostFails \/ S!Exit \/ S!Kill
    PROVE  /\ UNCHANGED P!vars
           /\ D!ReaderDies \/ UNCHANGED D!vars
           /\ S!Next
  <1>1. S!Next
    BY DEF S!Next
  <1>2. UNCHANGED P!vars
    BY DEF P!vars, parserVars, detectorVars
  <1>3. /\ UNCHANGED <<rules, corpus, dPc, dCode, dInput, turn, buffer, dOut, dTaken>>
        /\ UNCHANGED D!vars <=> UNCHANGED S!Running
    BY DEF detectorVars, D!vars
  <1>4. CASE S!Exit \/ S!Kill
    <2>1. S!Running /\ ~S!Running'
      BY <1>4 DEF S!Exit, S!Kill, S!Running
    <2> QED
      <3>1. D!ReaderDies
        BY <1>3, <2>1, SMT DEF D!ReaderDies
      <3> QED
        BY <1>1, <1>2, <3>1
  <1>5. CASE \/ S!ScanEnds \/ S!SendLine \/ S!TickFires \/ S!ReceiveLine \/ S!ReceiveTick
             \/ S!ReceiveClosed \/ (\E t \in S!Tables : S!Flush(t))
             \/ (\E p \in 1..Len(posts) : S!ServerInserts(p))
             \/ S!ReplyOK \/ S!ReplyError \/ S!PostFails
    <2>1. sPc' = sPc \/ (sPc = "loop" /\ sPc' = "return")
      BY <1>5 DEF S!ScanEnds, S!SendLine, S!TickFires, S!ReceiveLine, S!ReceiveTick,
                  S!ReceiveClosed, S!Flush, S!ServerInserts, S!ReplyOK, S!ReplyError,
                  S!PostFails, S!Answer, S!AtSelect
    <2>2. UNCHANGED S!Running
      BY <2>1 DEF S!Running
    <2> QED
      BY <1>1, <1>2, <1>3, <2>2
  <1> QED
    BY <1>4, <1>5

\* Every step of the pipe is a step of each stage, or none.
LEMMA Steps ==
    ASSUME [Next]_vars
    PROVE  [P!Next]_(P!vars) /\ [D!Next]_(D!vars) /\ [S!Next]_(S!vars)
  <1>1. CASE ParserStep
    <2>1. P!Next
      BY <1>1 DEF ParserStep, P!Next
    <2>2. UNCHANGED D!vars /\ UNCHANGED S!vars
      BY <1>1 DEF ParserStep, detectorVars, sinkVars, D!vars, S!vars, S!Running
    <2> QED
      BY <2>1, <2>2
  <1>2. CASE DetectorReads
    <2>1. P!TakeLine
      <3>1. dPc = "read" /\ dPc' \in {"match", "read"} /\ pTaken < Len(pOut) /\ pTaken' = pTaken + 1
        BY <1>2 DEF DetectorReads, D!ReadLine
      <3> QED
        BY <1>2, <3>1 DEF DetectorReads, P!TakeLine, parserVars
    <2>2. D!Next /\ UNCHANGED S!vars
      BY <1>2 DEF DetectorReads, D!Next, S!vars, sinkVars
    <2> QED
      BY <2>1, <2>2 DEF P!Next
  <1>3. CASE DetectorCannotDecode \/ DetectorSeesEnd \/ DetectorWorks \/ DetectorKilled
    <2>1. (P!ReaderDies \/ UNCHANGED P!vars) /\ D!Next /\ UNCHANGED S!vars
      BY <1>3, DetectorActs DEF DetectorCannotDecode, DetectorSeesEnd, DetectorWorks, DetectorKilled
    <2> QED
      BY <2>1 DEF P!Next
  <1>4. CASE SinkReads
    <2>1. UNCHANGED P!vars
      BY <1>4 DEF SinkReads, P!vars, parserVars, detectorVars
    <2>2. D!TakeAlert
      <3>1. /\ dTaken < Len(dOut) /\ dTaken' = dTaken + 1
            /\ UNCHANGED <<rules, corpus, dPc, dCode, dInput, turn, buffer, dOut>>
            /\ S!Running /\ sPc' = sPc
        BY <1>4 DEF SinkReads, S!Scan, detectorVars
      <3>2. UNCHANGED S!Running
        BY <3>1 DEF S!Running
      <3> QED
        BY <3>1, <3>2 DEF D!TakeAlert
    <2> QED
      BY <1>4, <2>1, <2>2 DEF SinkReads, S!Next, D!Next
  <1>5. CASE SinkSeesEnd \/ SinkWorks \/ SinkKilled
    <2>1. UNCHANGED P!vars /\ (D!ReaderDies \/ UNCHANGED D!vars) /\ S!Next
      BY <1>5, SinkActs DEF SinkSeesEnd, SinkWorks, SinkKilled
    <2> QED
      BY <2>1 DEF D!Next
  <1>6. CASE UNCHANGED vars
    BY <1>6 DEF vars, parserVars, detectorVars, sinkVars, P!vars, D!vars, S!vars, S!Running
  <1> QED
    BY <1>1, <1>2, <1>3, <1>4, <1>5, <1>6 DEF Next

\* Coupling the stages gives none of them a step it does not have alone: the
\* pipe is a parser, a detector and a sink, each of them as its module has it.
THEOREM StagesKeepTheirSpecs == Spec => StagesAsSpecified
  <1>1. Init => P!Init /\ D!Init /\ S!Init
    BY DEF Init
  <1> QED
    BY <1>1, Steps, PTL DEF Spec, StagesAsSpecified, P!Spec, D!Spec, S!Spec

-----------------------------------------------------------------------------
(* What each stage keeps.                                                   *)

\* The proofs about a stage are about the stage of the pipe.
LEMMA StageSteps ==
    ASSUME [Next]_vars
    PROVE  [PP!Next]_(PP!vars) /\ [DP!Next]_(DP!vars) /\ [SP!Next]_(SP!vars)
  <1>1. P!Next => PP!Next
    BY SameParser DEF P!Next, PP!Next
  <1>2. D!Next => DP!Next
    BY SameDetector DEF D!Next, DP!Next
  <1>3. S!Next => SP!Next
    <2>1. \A t \in S!Tables : S!Flush(t) => \E u \in SP!Tables : SP!Flush(u)
      BY SameSink
    <2>2. \A p \in 1..Len(posts) : S!ServerInserts(p) => \E q \in 1..Len(posts) : SP!ServerInserts(q)
      BY SameSink
    <2> QED
      BY <2>1, <2>2, SameSink DEF S!Next, SP!Next
  <1>4. /\ UNCHANGED P!vars => UNCHANGED PP!vars
        /\ UNCHANGED D!vars => UNCHANGED DP!vars
        /\ UNCHANGED S!vars => UNCHANGED SP!vars
    BY DEF P!vars, PP!vars, D!vars, DP!vars, S!vars, SP!vars
  <1> QED
    BY <1>1, <1>2, <1>3, <1>4, Steps

\* What is known of the parser, of the detector and of the sink by their own
\* proofs.
ParserKeeps == PP!IInv /\ PP!Faithful /\ PP!Channel

DetectorKeeps == DP!IInv /\ DP!JInv

SinkKeeps == SP!RInv /\ SP!DrainedAtExit

Keep == ParserKeeps /\ DetectorKeeps /\ SinkKeeps

\* The stages in the pipe keep it.
LEMMA StagesKeep == Spec => []Keep
  <1>1. Init => PP!Init /\ DP!Init /\ SP!Init
    BY SameParser, SameDetector, SameSink DEF Init
  <1>2. PP!Spec => []ParserKeeps
    BY PP!RestInductive, Sizes DEF ParserKeeps
  <1>3. DP!Spec => []DetectorKeeps
    BY DP!JudgedAlways, Sizes DEF DetectorKeeps
  <1>4. SP!Spec => []SinkKeeps
    <2>1. SP!Init => SP!RInv
      BY SP!InitMaps, Sizes
    <2>2. SP!RInv /\ [SP!Next]_(SP!vars) => SP!RInv'
      BY SP!NextRInv, Sizes
    <2>3. SP!Spec => []SP!DrainedAtExit
      BY SP!ExitIsDrained, Sizes
    <2> QED
      BY <2>1, <2>2, <2>3, PTL DEF SP!Spec, SinkKeeps
  <1> QED
    BY <1>1, <1>2, <1>3, <1>4, StageSteps, PTL DEF Spec, PP!Spec, DP!Spec, SP!Spec, Keep

-----------------------------------------------------------------------------
(* The seams between the stages.                                            *)

\* The detector has read the records that it took from the pipe, in order.
Reading ==
    /\ pTaken = Len(dInput)
    /\ \A k \in 1..Len(dInput) : dInput[k] \in Readings(pInput[pOut[k].line], pOut[k].whole)

\* The sink has scanned the alerts that it took from the pipe.
Scanning ==
    /\ dTaken = Len(sInput)
    /\ \A k \in 1..Len(sInput) : sInput[k] = "alert"

\* An end of input means that the stage before is gone and its pipe is empty.
SinkAtEnd == sReader = "done" => ~D!Running /\ dTaken = Len(dOut)

DetectorAtEnd ==
    (dPc \in {"exit", "ended"} /\ dCode = 0) =>
        ~P!Running /\ pTaken = Len(pOut) /\ DP!AtRest

\* Only a sink that was killed keeps the detector from emptying its buffer.
BufferGone == dPc = "ended" => buffer = <<>> \/ sPc = "killed"

Linked == Reading /\ Scanning /\ SinkAtEnd /\ DetectorAtEnd /\ BufferGone

\* The types of what is in the pipes.
LEMMA Contents ==
    ASSUME Keep
    PROVE  /\ pInput \in Seq(Lines) /\ Len(pInput) \in Nat
           /\ pOut \in Seq(PP!Records) /\ Len(pOut) \in Nat
           /\ \A k \in 1..Len(pOut) : pOut[k].line \in 1..Len(pInput)
           /\ pTaken \in 0..Len(pOut)
           /\ rules \in Directories /\ Len(rules) \in Nat
           /\ dInput \in Seq(DetectorLines(rules)) /\ Len(dInput) \in Nat
           /\ dOut \in Seq(DP!Alerts) /\ Len(dOut) \in Nat
           /\ buffer \in Seq(DP!Alerts) /\ Len(buffer) \in Nat
           /\ dTaken \in 0..Len(dOut)
           /\ sInput \in Seq(SP!Kinds) /\ Len(sInput) \in Nat
  <1>1. /\ pInput \in Seq(Lines) /\ pOut \in Seq(PP!Records)
        /\ \A k \in 1..Len(pOut) : pOut[k].line \in 1..Len(pInput)
        /\ pTaken \in 0..Len(pOut)
    BY DEF Keep, ParserKeeps, PP!IInv, PP!Typed, PP!OutputFollowsInput, PP!Channel
  <1>2. /\ rules \in Directories /\ dInput \in Seq(DetectorLines(rules))
        /\ dOut \in Seq(DP!Alerts) /\ buffer \in Seq(DP!Alerts)
        /\ dTaken \in 0..Len(dOut)
    BY DEF Keep, DetectorKeeps, DP!IInv, DP!Typed, DP!JInv, DP!Flow
  <1>3. sInput \in Seq(SP!Kinds)
    BY DEF Keep, SinkKeeps, SP!RInv, SP!IInv, SP!TypeOK
  <1>4. Len(rules) \in Nat
    BY <1>2, Sizes
  <1> QED
    BY <1>1, <1>2, <1>3, <1>4

\* A step of the parser adds to what it has read and written.
LEMMA ParserAdds ==
    ASSUME Keep, ParserStep
    PROVE  /\ P!Running /\ UNCHANGED <<detectorVars, dTaken, sinkVars, pTaken>>
           /\ Len(pOut') \in Nat /\ Len(pOut') >= Len(pOut)
           /\ \A k \in 1..Len(pOut) : pOut'[k] = pOut[k]
           /\ Len(pInput') \in Nat /\ Len(pInput') >= Len(pInput)
           /\ \A i \in 1..Len(pInput) : pInput'[i] = pInput[i]
  <1>1. /\ pInput \in Seq(Lines) /\ Len(pInput) \in Nat
        /\ pOut \in Seq(PP!Records) /\ Len(pOut) \in Nat
    BY Contents
  <1>2. /\ P!Running /\ UNCHANGED <<detectorVars, dTaken, sinkVars, pTaken>>
        /\ pOut' = pOut \/ \E e : pOut' = Append(pOut, e)
        /\ pInput' = pInput \/ \E l \in Lines : pInput' = Append(pInput, l)
    BY DEF ParserStep, P!ReadLine, P!EndOfInput, P!WriteLine, P!WriteFails, P!Kill, P!Running
  <1>3. /\ Len(pOut') \in Nat /\ Len(pOut') >= Len(pOut)
        /\ \A k \in 1..Len(pOut) : pOut'[k] = pOut[k]
    BY <1>1, <1>2
  <1>4. /\ Len(pInput') \in Nat /\ Len(pInput') >= Len(pInput)
        /\ \A i \in 1..Len(pInput) : pInput'[i] = pInput[i]
    BY <1>1, <1>2
  <1> QED
    BY <1>2, <1>3, <1>4

\* A step of the detector that is no reading.
LEMMA DetectorRest ==
    ASSUME DetectorCannotDecode \/ DetectorSeesEnd \/ DetectorWorks \/ DetectorKilled
    PROVE  /\ UNCHANGED <<parserVars, pTaken, dTaken, sinkVars, rules, corpus, dInput>>
           /\ D!Running
  <1>1. CASE DetectorWorks
    <2>1. CASE D!MatchRule \/ D!Score
      BY <1>1, <2>1 DEF DetectorWorks, D!MatchRule, D!Score, D!Running
    <2>2. CASE D!Load \/ D!StartFlush \/ D!Drain \/ D!Flushed \/ D!BrokenPipe \/ D!Exit
      BY <1>1, <2>2 DEF DetectorWorks, D!Load, D!StartFlush, D!Drain, D!Flushed, D!BrokenPipe,
                        D!Exit, D!MustDrain, D!Running
    <2> QED
      BY <1>1, <2>1, <2>2 DEF DetectorWorks
  <1>2. CASE DetectorCannotDecode \/ DetectorSeesEnd \/ DetectorKilled
    BY <1>2 DEF DetectorCannotDecode, DetectorSeesEnd, DetectorKilled, D!EndOfInput, D!ReadFails,
                D!Kill, D!Running
  <1> QED
    BY <1>1, <1>2

\* A step of the sink that is no scanning.
LEMMA SinkRest ==
    ASSUME SinkSeesEnd \/ SinkWorks \/ SinkKilled
    PROVE  /\ UNCHANGED <<parserVars, pTaken, detectorVars, dTaken, sInput>>
           /\ sReader' = "done" => sReader = "done" \/ SinkSeesEnd
           /\ sPc = "killed" => sPc' = "killed"
  <1>1. CASE SinkWorks
    BY <1>1 DEF SinkWorks, S!SendLine, S!TickFires, S!ReceiveLine, S!ReceiveTick, S!ReceiveClosed,
                S!Flush, S!ServerInserts, S!ReplyOK, S!ReplyError, S!PostFails, S!Answer, S!Exit,
                S!AtSelect, S!Running
  <1>2. CASE SinkSeesEnd \/ SinkKilled
    BY <1>2 DEF SinkSeesEnd, SinkKilled, S!ScanEnds, S!Kill
  <1> QED
    BY <1>1, <1>2

\* The detector reads the next record.
LEMMA ReadsNext ==
    ASSUME Keep, DetectorReads
    PROVE  /\ UNCHANGED <<parserVars, dTaken, sinkVars, rules, corpus>>
           /\ pTaken < Len(pOut) /\ pTaken' = pTaken + 1
           /\ Len(dInput') = Len(dInput) + 1
           /\ \A k \in 1..Len(dInput) : dInput'[k] = dInput[k]
           /\ dInput'[Len(dInput) + 1] \in
                 Readings(pInput[pOut[pTaken + 1].line], pOut[pTaken + 1].whole)
           /\ dPc = "read" /\ dPc' \in {"match", "read"}
           /\ UNCHANGED <<dCode, buffer, dOut>>
  <1>1. dInput \in Seq(DetectorLines(rules)) /\ Len(dInput) \in Nat
    BY Contents
  <1>2. PICK l \in DetectorLines(rules) : dInput' = Append(dInput, l)
    BY DEF DetectorReads, D!ReadLine
  <1>3. PICK a \in Readings(pInput[pOut[pTaken + 1].line], pOut[pTaken + 1].whole) :
           dInput' = Append(dInput, a)
    BY DEF DetectorReads
  <1>4. /\ Len(dInput') = Len(dInput) + 1
        /\ \A k \in 1..Len(dInput) : dInput'[k] = dInput[k]
        /\ dInput'[Len(dInput) + 1] = l
    BY <1>1, <1>2
  <1>5. dInput'[Len(dInput) + 1] = a
    BY <1>1, <1>3
  <1> QED
    BY <1>3, <1>4, <1>5 DEF DetectorReads, D!ReadLine

\* The sink scans the next alert.
LEMMA ScansNext ==
    ASSUME Keep, SinkReads
    PROVE  /\ UNCHANGED <<parserVars, pTaken, detectorVars>>
           /\ dTaken < Len(dOut) /\ dTaken' = dTaken + 1
           /\ Len(sInput') = Len(sInput) + 1
           /\ \A k \in 1..Len(sInput) : sInput'[k] = sInput[k]
           /\ sInput'[Len(sInput) + 1] = "alert"
           /\ sReader = "scan" /\ sReader' = "send" /\ sPc' = sPc
  <1>1. sInput \in Seq(SP!Kinds) /\ Len(sInput) \in Nat
    BY Contents
  <1>2. sInput' = Append(sInput, "alert")
    BY DEF SinkReads
  <1> QED
    BY <1>1, <1>2 DEF SinkReads, S!Scan

\* Reading goes on.
LEMMA ReadingKept ==
    ASSUME Keep, Reading, [Next]_vars
    PROVE  Reading'
  <1>1. /\ pTaken \in 0..Len(pOut) /\ Len(pOut) \in Nat /\ Len(dInput) \in Nat
        /\ \A k \in 1..Len(pOut) : pOut[k].line \in 1..Len(pInput)
    BY Contents
  <1>2. CASE ParserStep
    <2>1. /\ UNCHANGED <<pTaken, dInput>>
          /\ \A k \in 1..Len(pOut) : pOut'[k] = pOut[k]
          /\ \A i \in 1..Len(pInput) : pInput'[i] = pInput[i]
      BY <1>2, ParserAdds DEF detectorVars
    <2>2. ASSUME NEW k \in 1..Len(dInput)
          PROVE  dInput'[k] \in Readings(pInput'[pOut'[k].line], pOut'[k].whole)
      <3>1. k \in 1..Len(pOut) /\ dInput[k] \in Readings(pInput[pOut[k].line], pOut[k].whole)
        BY <1>1, <2>2 DEF Reading
      <3>2. pOut'[k] = pOut[k] /\ pInput'[pOut[k].line] = pInput[pOut[k].line]
        BY <1>1, <2>1, <3>1
      <3> QED
        BY <2>1, <3>1, <3>2
    <2> QED
      BY <2>1, <2>2 DEF Reading
  <1>3. CASE DetectorReads
    <2>1. /\ UNCHANGED <<pInput, pOut>> /\ pTaken' = pTaken + 1
          /\ Len(dInput') = Len(dInput) + 1
          /\ \A k \in 1..Len(dInput) : dInput'[k] = dInput[k]
          /\ dInput'[Len(dInput) + 1] \in
                Readings(pInput[pOut[pTaken + 1].line], pOut[pTaken + 1].whole)
      BY <1>3, ReadsNext DEF parserVars
    <2>2. ASSUME NEW k \in 1..Len(dInput')
          PROVE  dInput'[k] \in Readings(pInput[pOut[k].line], pOut[k].whole)
      <3>1. CASE k \in 1..Len(dInput)
        BY <2>1, <3>1 DEF Reading
      <3>2. CASE k = Len(dInput) + 1
        BY <2>1, <3>2 DEF Reading
      <3> QED
        BY <1>1, <2>1, <3>1, <3>2
    <2> QED
      BY <2>1, <2>2 DEF Reading
  <1>4. CASE UNCHANGED <<pInput, pOut, pTaken, dInput>>
    BY <1>4 DEF Reading
  <1>5. CASE DetectorCannotDecode \/ DetectorSeesEnd \/ DetectorWorks \/ DetectorKilled
    BY <1>4, <1>5, DetectorRest DEF parserVars
  <1>6. CASE SinkReads \/ SinkSeesEnd \/ SinkWorks \/ SinkKilled
    BY <1>4, <1>6, ScansNext, SinkRest DEF parserVars, detectorVars
  <1>7. CASE UNCHANGED vars
    BY <1>4, <1>7 DEF vars, parserVars, detectorVars
  <1> QED
    BY <1>2, <1>3, <1>5, <1>6, <1>7 DEF Next

\* Scanning goes on.
LEMMA ScanningKept ==
    ASSUME Keep, Scanning, [Next]_vars
    PROVE  Scanning'
  <1>1. Len(sInput) \in Nat
    BY Contents
  <1>2. CASE SinkReads
    <2>1. /\ dTaken' = dTaken + 1 /\ Len(sInput') = Len(sInput) + 1
          /\ \A k \in 1..Len(sInput) : sInput'[k] = sInput[k]
          /\ sInput'[Len(sInput) + 1] = "alert"
      BY <1>2, ScansNext
    <2> QED
      BY <1>1, <2>1 DEF Scanning
  <1>3. CASE UNCHANGED <<dTaken, sInput>>
    BY <1>3 DEF Scanning
  <1>4. CASE ParserStep \/ DetectorReads
    BY <1>3, <1>4, ParserAdds, ReadsNext DEF sinkVars
  <1>5. CASE DetectorCannotDecode \/ DetectorSeesEnd \/ DetectorWorks \/ DetectorKilled \/ UNCHANGED vars
    BY <1>3, <1>5, DetectorRest DEF sinkVars, vars
  <1>6. CASE SinkSeesEnd \/ SinkWorks \/ SinkKilled
    BY <1>3, <1>6, SinkRest
  <1> QED
    BY <1>2, <1>4, <1>5, <1>6 DEF Next

\* A sink that has seen the end has seen all of it.
LEMMA SinkAtEndKept ==
    ASSUME Keep, SinkAtEnd, [Next]_vars
    PROVE  SinkAtEnd'
  <1>1. CASE UNCHANGED <<sReader, dPc, dTaken, dOut>>
    BY <1>1 DEF SinkAtEnd, D!Running
  <1>2. CASE ParserStep \/ UNCHANGED vars
    BY <1>1, <1>2, ParserAdds DEF detectorVars, sinkVars, vars
  <1>3. CASE DetectorReads \/ DetectorCannotDecode \/ DetectorSeesEnd \/ DetectorWorks \/ DetectorKilled
    <2>1. D!Running /\ UNCHANGED sReader
      BY <1>3, ReadsNext, DetectorRest DEF D!Running, sinkVars
    <2> QED
      BY <2>1 DEF SinkAtEnd
  <1>4. CASE SinkReads
    BY <1>4, ScansNext DEF SinkAtEnd
  <1>5. CASE SinkSeesEnd
    BY <1>5 DEF SinkSeesEnd, SinkAtEnd, detectorVars, D!Running
  <1>6. CASE SinkWorks \/ SinkKilled
    <2>1. UNCHANGED <<dPc, dTaken, dOut>> /\ (sReader' = "done" => sReader = "done")
      <3>1. CASE SinkKilled
        BY <3>1 DEF SinkKilled, S!Kill, detectorVars
      <3>2. CASE SinkWorks
        BY <3>2 DEF SinkWorks, S!SendLine, S!TickFires, S!ReceiveLine, S!ReceiveTick,
                    S!ReceiveClosed, S!Flush, S!ServerInserts, S!ReplyOK, S!ReplyError,
                    S!PostFails, S!Answer, S!Exit, S!AtSelect, detectorVars
      <3> QED
        BY <1>6, <3>1, <3>2
    <2> QED
      BY <2>1 DEF SinkAtEnd, D!Running
  <1> QED
    BY <1>2, <1>3, <1>4, <1>5, <1>6 DEF Next

\* A detector that ends without an error has read all that the parser wrote.
LEMMA DetectorAtEndKept ==
    ASSUME Keep, DetectorAtEnd, [Next]_vars
    PROVE  DetectorAtEnd'
  <1>1. dPc = "read" => DP!AtRest
    BY DEF Keep, DetectorKeeps, DP!JInv, DP!Position
  <1>2. ASSUME UNCHANGED <<rules, dInput, turn>> PROVE DP!AtRest' <=> DP!AtRest
    BY <1>2 DEF DP!AtRest, DP!Current, DP!Model, DP!Parses
  <1>3. ASSUME UNCHANGED <<pPc, pTaken, pOut, dCode, rules, dInput, turn>>,
               dPc' = dPc \/ (dPc = "exit" /\ dPc' = "ended")
        PROVE  DetectorAtEnd'
    BY <1>2, <1>3 DEF DetectorAtEnd, P!Running
  <1>4. ASSUME dCode' # 0 \/ dPc' \notin {"exit", "ended"} PROVE DetectorAtEnd'
    BY <1>4 DEF DetectorAtEnd
  <1>5. CASE ParserStep
    <2>1. P!Running /\ UNCHANGED <<dPc, dCode>>
      BY <1>5, ParserAdds DEF detectorVars
    <2> QED
      BY <1>4, <2>1 DEF DetectorAtEnd
  <1>6. CASE DetectorReads
    BY <1>4, <1>6, ReadsNext
  <1>12. CASE DetectorCannotDecode
    BY <1>4, <1>12 DEF DetectorCannotDecode, D!ReadFails, D!Raise
  <1>7. CASE DetectorSeesEnd
    <2>1. /\ UNCHANGED <<pPc, pTaken, pOut, rules, dInput, turn>>
          /\ dPc = "read" /\ ~P!Running /\ pTaken = Len(pOut)
      BY <1>7 DEF DetectorSeesEnd, D!EndOfInput, parserVars
    <2> QED
      BY <1>1, <1>2, <2>1 DEF DetectorAtEnd, P!Running
  <1>8. CASE DetectorKilled
    BY <1>4, <1>8 DEF DetectorKilled, D!Kill
  <1>9. CASE DetectorWorks
    <2>1. UNCHANGED <<pPc, pTaken, pOut>>
      BY <1>9 DEF DetectorWorks, parserVars
    <2>2. CASE D!Load \/ D!StartFlush \/ D!Flushed \/ D!BrokenPipe
      BY <1>4, <2>2 DEF D!Load, D!Raise, D!StartFlush, D!Flushed, D!BrokenPipe
    <2>3. CASE D!Drain \/ D!Exit
      BY <1>3, <2>1, <2>3 DEF D!Drain, D!Exit
    <2>4. CASE D!MatchRule \/ D!Score
      <3>1. ASSUME NEW by, NEW v, dPc = "match", D!Emit(by, v)
            PROVE  dCode' # 0 \/ dPc' \notin {"exit", "ended"}
        BY <3>1 DEF D!Emit, D!Raise
      <3> QED
        BY <1>4, <2>4, <3>1 DEF D!MatchRule, D!Score
    <2> QED
      BY <1>9, <2>2, <2>3, <2>4 DEF DetectorWorks
  <1>10. CASE SinkReads \/ SinkSeesEnd \/ SinkWorks \/ SinkKilled
    <2>1. UNCHANGED <<parserVars, pTaken, detectorVars>>
      BY <1>10, ScansNext, SinkRest
    <2> QED
      BY <1>3, <2>1 DEF parserVars, detectorVars
  <1>11. CASE UNCHANGED vars
    BY <1>3, <1>11 DEF vars, parserVars, detectorVars
  <1> QED
    BY <1>5, <1>6, <1>7, <1>8, <1>9, <1>10, <1>11, <1>12 DEF Next

\* A detector that has ended leaves alerts in its buffer only to a killed sink.
LEMMA BufferGoneKept ==
    ASSUME Keep, SinkAtEnd, BufferGone, [Next]_vars
    PROVE  BufferGone'
  <1>1. CASE UNCHANGED <<dPc, buffer>> /\ (sPc = "killed" => sPc' = "killed")
    BY <1>1 DEF BufferGone
  <1>2. ASSUME dPc' # "ended" PROVE BufferGone'
    BY <1>2 DEF BufferGone
  <1>3. CASE ParserStep \/ UNCHANGED vars
    BY <1>1, <1>3, ParserAdds DEF detectorVars, sinkVars, vars
  <1>4. CASE DetectorReads \/ DetectorCannotDecode \/ DetectorSeesEnd \/ DetectorKilled
    BY <1>2, <1>4, ReadsNext DEF DetectorCannotDecode, DetectorSeesEnd, DetectorKilled,
                                 D!EndOfInput, D!ReadFails, D!Raise, D!Kill
  <1>5. CASE DetectorWorks
    <2>1. CASE D!Load \/ D!StartFlush \/ D!Flushed
      BY <1>2, <2>1 DEF D!Load, D!Raise, D!StartFlush, D!Flushed
    <2>2. CASE D!Drain
      BY <1>2, <2>2 DEF D!Drain, D!MustDrain
    <2>3. CASE D!Exit
      BY <2>3 DEF D!Exit, BufferGone
    <2>4. CASE D!BrokenPipe
      <3>1. D!Running /\ ~S!Running
        BY <2>4 DEF D!BrokenPipe, D!MustDrain, D!Running
      <3>2. sReader # "done"
        BY <3>1 DEF SinkAtEnd
      <3>3. /\ sPc \in {"loop", "return", "exited", "killed"}
            /\ sPc = "exited" => sReader = "done"
        BY DEF Keep, SinkKeeps, SP!RInv, SP!IInv, SP!TypeOK, SP!Support
      <3>4. sPc = "killed" /\ sPc' = sPc
        BY <1>5, <3>1, <3>2, <3>3 DEF S!Running, DetectorWorks, sinkVars
      <3> QED
        BY <3>4 DEF BufferGone
    <2>5. CASE D!MatchRule \/ D!Score
      <3>1. ASSUME NEW by, NEW v, dPc = "match", D!Emit(by, v)
            PROVE  dPc' # "ended"
        BY <3>1 DEF D!Emit, D!Raise
      <3> QED
        BY <1>2, <2>5, <3>1 DEF D!MatchRule, D!Score
    <2> QED
      BY <1>5, <2>1, <2>2, <2>3, <2>4, <2>5 DEF DetectorWorks
  <1>6. CASE SinkReads \/ SinkSeesEnd \/ SinkWorks \/ SinkKilled
    BY <1>1, <1>6, ScansNext, SinkRest DEF detectorVars
  <1> QED
    BY <1>3, <1>4, <1>5, <1>6 DEF Next

\* The stages are always linked.
LEMMA AlwaysLinked == Spec => [](Keep /\ Linked)
  <1>1. Init => Linked
    <2> SUFFICES ASSUME Init PROVE Linked
      OBVIOUS
    <2>1. /\ pTaken = 0 /\ dInput = <<>> /\ dTaken = 0 /\ sInput = <<>>
          /\ sReader = "scan" /\ dPc = "load"
      BY DEF Init, P!Init, D!Init, S!Init
    <2> QED
      BY <2>1 DEF Linked, Reading, Scanning, SinkAtEnd, DetectorAtEnd, BufferGone
  <1>2. Keep /\ Linked /\ [Next]_vars => Linked'
    BY ReadingKept, ScanningKept, SinkAtEndKept, DetectorAtEndKept, BufferGoneKept DEF Linked
  <1> QED
    BY <1>1, <1>2, StagesKeep, PTL DEF Spec

-----------------------------------------------------------------------------
(* Nothing is lost at the seams.                                            *)

\* In an increasing sequence of positive numbers a place is not beyond what is
\* there.
LEMMA PlaceBelow ==
    ASSUME NEW s \in Seq(Nat), \A i, j \in 1..Len(s) : i < j => s[i] < s[j],
           \A i \in 1..Len(s) : s[i] > 0
    PROVE  \A i \in 1..Len(s) : i =< s[i]
  <1> DEFINE T == {n \in Nat : n \in 1..Len(s) => n =< s[n]}
  <1>1. ASSUME NEW n \in Nat, \A m \in 0..n-1 : m \in T
        PROVE  n \in T
    <2> SUFFICES ASSUME n \in 1..Len(s) PROVE n =< s[n]
      OBVIOUS
    <2>1. s[n] \in Nat /\ s[n] > 0
      OBVIOUS
    <2>2. CASE n = 1
      BY <2>1, <2>2
    <2>3. CASE n # 1
      <3>1. n - 1 \in 0..n-1 /\ n - 1 \in 1..Len(s) /\ n - 1 < n
        BY <2>3
      <3>2. n - 1 =< s[n - 1] /\ s[n - 1] < s[n] /\ s[n - 1] \in Nat
        BY <1>1, <3>1
      <3> QED
        BY <2>1, <3>2
    <2> QED
      BY <2>2, <2>3
  <1> HIDE DEF T
  <1>2. \A n \in Nat : n \in T
    BY <1>1, DP!SetInduction, Sizes
  <1> QED
    BY <1>2 DEF T

\* No two alerts are the same.
LEMMA AlertsDiffer ==
    ASSUME Keep
    PROVE  \A j, k \in 1..Len(dOut) : dOut[j] = dOut[k] => j = k
  <1>1. /\ dOut \in Seq(DP!Alerts) /\ Len(dOut) \in Nat
        /\ buffer \in Seq(DP!Alerts) /\ Len(buffer) \in Nat
    BY Contents
  <1>2. \A k \in 1..Len(dOut) : k \in 1..Len(DP!Written) /\ DP!Written[k] = dOut[k]
    BY <1>1 DEF DP!Written
  <1>3. \A k, m \in 1..Len(DP!Written) : k < m => DP!Before(DP!Written[k], DP!Written[m])
    BY DEF Keep, DetectorKeeps, DP!IInv, DP!InOrder
  <1>4. \A k \in 1..Len(dOut) : ~DP!Before(dOut[k], dOut[k])
    <2>1. \A k \in 1..Len(dOut) : dOut[k] \in DP!Alerts
      BY <1>1
    <2>2. \A k \in 1..Len(dOut) : dOut[k].event \in Nat /\ dOut[k].by \in Nat
      BY <2>1 DEF DP!Alerts
    <2> QED
      BY <2>2 DEF DP!Before
  <1>5. \A j, k \in 1..Len(dOut) : j < k => dOut[j] # dOut[k]
    BY <1>2, <1>3, <1>4
  <1> QED
    BY <1>1, <1>5

\* The rows of an insert: they were scanned, they come in order, and there are
\* no more of them than scanned lines.
LEMMA RowsScanned ==
    ASSUME Keep, NEW p \in 1..Len(posts)
    PROVE  /\ posts[p].rows \in Seq(Nat) /\ Len(posts[p].rows) \in Nat
           /\ \A i \in 1..Len(posts[p].rows) : /\ posts[p].rows[i] \in 1..Len(sInput)
                                               /\ i \in 1..Len(sInput)
           /\ \A i, j \in 1..Len(posts[p].rows) : posts[p].rows[i] = posts[p].rows[j] => i = j
  <1>1. SP!RInv
    BY DEF Keep, SinkKeeps
  <1>2. /\ posts[p] \in SP!Posts /\ SP!Increasing(posts[p].rows)
        /\ SP!FromStdin(posts[p].rows, posts[p].table)
    BY <1>1 DEF SP!RInv, SP!IInv, SP!TypeOK, SP!RowsInv, SP!OrderedOnce, SP!Support
  <1>3. received \in Nat /\ received =< Len(sInput) /\ Len(sInput) \in Nat
    BY <1>1, SP!ReceivedBound, Sizes
  <1> SUFFICES ASSUME NEW s, s = posts[p].rows
               PROVE  /\ s \in Seq(Nat) /\ Len(s) \in Nat
                      /\ \A i \in 1..Len(s) : s[i] \in 1..Len(sInput) /\ i \in 1..Len(sInput)
                      /\ \A i, j \in 1..Len(s) : s[i] = s[j] => i = j
    OBVIOUS
  <1>4. s \in Seq(Nat) /\ Len(s) \in Nat
    BY <1>2 DEF SP!Posts
  <1>5. \A i, j \in 1..Len(s) : i < j => s[i] < s[j]
    BY <1>2 DEF SP!Increasing
  <1>6. \A i \in 1..Len(s) : s[i] \in 1..received
    BY <1>2 DEF SP!FromStdin
  <1>7. \A i \in 1..Len(s) : s[i] > 0 /\ s[i] \in Nat /\ s[i] =< Len(sInput)
    BY <1>3, <1>6
  <1>8. \A i \in 1..Len(s) : i =< s[i]
    BY <1>4, <1>5, <1>7, PlaceBelow
  <1>9. \A i \in 1..Len(s) : s[i] \in 1..Len(sInput) /\ i \in 1..Len(sInput)
    BY <1>3, <1>4, <1>7, <1>8
  <1>10. \A i, j \in 1..Len(s) : s[i] = s[j] => i = j
    BY <1>4, <1>5, <1>7
  <1> QED
    BY <1>4, <1>9, <1>10

\* An alert in the pipe to a sink that has ended is in one insert, and that is
\* finished.
LEMMA CrossesThePipe ==
    ASSUME Keep, Linked, sPc = "exited", dPc = "ended", NEW k \in 1..Len(dOut)
    PROVE  Inserted(dOut[k])
  <1>1. SP!RInv
    BY DEF Keep, SinkKeeps
  <1>2. sReader = "done"
    BY <1>1 DEF SP!RInv, SP!IInv, SP!Support
  <1>3. Len(sInput) = Len(dOut) /\ sInput[k] = "alert" /\ k \in 1..Len(sInput)
    BY <1>2 DEF Linked, SinkAtEnd, Scanning
  <1>4. PICK p \in 1..Len(posts) : SP!InPost(k, p) /\ posts[p].reply # "none"
    BY <1>3 DEF Keep, SinkKeeps, SP!DrainedAtExit, SP!IsRow
  <1>5. PICK i \in 1..Len(posts[p].rows) : posts[p].rows[i] = k
    BY <1>4 DEF SP!InPost, SP!Holds, SP!In
  <1>6. \A q \in 1..Len(posts) : \A j \in 1..Len(posts[q].rows) :
           dOut[posts[q].rows[j]] = dOut[k] => q = p /\ j = i
    <2> SUFFICES ASSUME NEW q \in 1..Len(posts), NEW j \in 1..Len(posts[q].rows),
                        dOut[posts[q].rows[j]] = dOut[k]
                 PROVE  q = p /\ j = i
      OBVIOUS
    <2>1. posts[q].rows[j] = k
      BY <1>3, RowsScanned, AlertsDiffer
    <2>2. SP!Holds(q, k) /\ SP!Holds(p, k)
      BY <1>5, <2>1 DEF SP!Holds, SP!In
    <2>3. q = p
      BY <1>1, <2>2, SP!OneRequest, Sizes
    <2> QED
      BY <1>5, <2>1, <2>3, RowsScanned
  <1> DEFINE places == {x \in (1..Len(posts)) \X (1..Len(sInput)) :
                          x[2] \in 1..Len(posts[x[1]].rows) /\ dOut[posts[x[1]].rows[x[2]]] = dOut[k]}
  <1>7. places = {<<p, i>>}
    <2>1. <<p, i>> \in places
      BY <1>4, <1>5, RowsScanned
    <2>2. ASSUME NEW x \in places PROVE x = <<p, i>>
      BY <1>6
    <2> QED
      BY <2>1, <2>2
  <1> HIDE DEF places
  <1>8. Cardinality(places) = 1 /\ \A x \in places : posts[x[1]].reply # "none"
    <2>1. Cardinality(places) = 1
      BY <1>7, FS_Singleton
    <2>2. ASSUME NEW x \in places PROVE posts[x[1]].reply # "none"
      <3>1. x = <<p, i>> /\ x[1] = p
        BY <1>7
      <3> QED
        BY <1>4, <3>1
    <2> QED
      BY <2>1, <2>2
  <1>9. Inserted(dOut[k]) <=> Cardinality(places) = 1 /\ \A x \in places : posts[x[1]].reply # "none"
    BY DEF Inserted, places
  <1> QED
    BY <1>8, <1>9

\* What the detector has written is in the pipe once it has ended.
LEMMA AllDelivered ==
    ASSUME Keep, Linked, sPc = "exited", dPc = "ended"
    PROVE  D!Written = dOut /\ DP!Written = dOut
  <1>1. buffer = <<>>
    BY DEF Linked, BufferGone
  <1>2. dOut \in Seq(DP!Alerts)
    BY Contents
  <1> QED
    BY <1>1, <1>2 DEF D!Written, DP!Written

\* Whatever fails or stalls, short of a signal to the detector: when the sink
\* has ended by itself every alert that the detector wrote, buffered ones
\* included, has gone into exactly one insert, and that is finished.
THEOREM AlertsAreInserted == Spec => []AlertsCrossThePipe
  <1>1. Keep /\ Linked => AlertsCrossThePipe
    BY AllDelivered, CrossesThePipe DEF AlertsCrossThePipe
  <1> QED
    BY <1>1, AlwaysLinked, PTL

-----------------------------------------------------------------------------
(* What is asked for, and what the detector finds.                          *)

Askers(l) == AskedBy[rules][corpus][l]

\* The line that a record came from.
Source(k) == pInput[pOut[k].line]

\* Where a record comes from.
LEMMA Sources ==
    ASSUME Keep, NEW k \in 1..Len(pOut)
    PROVE  /\ pOut[k].line \in 1..Len(pInput) /\ Source(k) \in Lines
           /\ P!Acceptable(Source(k)) /\ pOut[k].whole \in BOOLEAN
  <1>1. /\ pInput \in Seq(Lines) /\ Len(pInput) \in Nat
        /\ pOut \in Seq(PP!Records) /\ pOut[k].line \in 1..Len(pInput)
    BY Contents
  <1>2. pOut[k] \in PP!Records
    BY <1>1
  <1>3. pOut[k].whole \in BOOLEAN
    BY <1>2 DEF PP!Records
  <1>4. PP!Acceptable(pInput[pOut[k].line])
    BY DEF Keep, ParserKeeps, PP!IInv, PP!OutputFollowsInput
  <1> QED
    BY <1>1, <1>3, <1>4, SameParser DEF Source

\* Who asks for an alert about a line that the parser accepts.
LEMMA AskedAbout ==
    ASSUME Keep, NEW l \in Lines
    PROVE  /\ ~P!Acceptable(l) => Askers(l) = {}
           /\ Askers(l) \subseteq 1..Len(rules) + 1
           /\ P!Acceptable(l) => /\ \A by \in 1..Len(rules) :
                                       by \in Askers(l) <=> D!Means(rules[by], AsRead(l, TRUE))
                                 /\ Len(rules) + 1 \in Askers(l) <=>
                                       UseAnomaly /\ D!StandsOut(corpus, Decision[l], Threshold)
  <1>1. rules \in Directories /\ corpus \in Corpora /\ Len(rules) \in Nat
    BY Contents DEF Keep, DetectorKeeps, DP!JInv, DP!Position
  <1> DEFINE R == {by \in 1..Len(rules) : D!Means(rules[by], AsRead(l, TRUE))}
             A == IF UseAnomaly /\ D!StandsOut(corpus, Decision[l], Threshold)
                  THEN {Len(rules) + 1} ELSE {}
  <1>2. Askers(l) = IF P!Acceptable(l) THEN R \cup A ELSE {}
    BY <1>1 DEF Askers, AskedBy
  <1>3. /\ R \subseteq 1..Len(rules) /\ A \subseteq {Len(rules) + 1}
        /\ \A by \in 1..Len(rules) : by \in R <=> D!Means(rules[by], AsRead(l, TRUE))
        /\ Len(rules) + 1 \in A <=> UseAnomaly /\ D!StandsOut(corpus, Decision[l], Threshold)
    OBVIOUS
  <1> HIDE DEF R, A
  <1> SUFFICES ASSUME NEW n \in Nat, n = Len(rules),
                      NEW J, J = Askers(l)
               PROVE  /\ ~P!Acceptable(l) => J = {}
                      /\ J \subseteq 1..n + 1
                      /\ P!Acceptable(l) =>
                            /\ \A by \in 1..n : by \in J <=> D!Means(rules[by], AsRead(l, TRUE))
                            /\ n + 1 \in J <=>
                                  UseAnomaly /\ D!StandsOut(corpus, Decision[l], Threshold)
    BY <1>1
  <1>4. CASE ~P!Acceptable(l)
    BY <1>2, <1>4
  <1>5. CASE P!Acceptable(l)
    <2>1. J = R \cup A
      BY <1>2, <1>5
    <2>2. \A by \in 1..n : by \in J <=> by \in R
      BY <1>3, <2>1
    <2>3. n + 1 \in J <=> n + 1 \in A
      BY <1>3, <2>1
    <2>4. J \subseteq 1..n + 1
      BY <1>3, <2>1
    <2> QED
      BY <1>3, <1>5, <2>2, <2>3, <2>4
  <1> QED
    BY <1>4, <1>5

\* An alert is deserved if the record is read as an event and its line asks for
\* it; a record that was written as a whole is read as an event.
LEMMA DeservedIsAsked ==
    ASSUME Keep, Linked, NEW k \in 1..Len(dInput), NEW by \in 1..Len(rules) + 1
    PROVE  /\ k \in 1..Len(pOut)
           /\ pOut[k].whole => DP!Parses(dInput[k])
           /\ DP!Deserves(k, by) <=> DP!Parses(dInput[k]) /\ by \in Askers(Source(k))
  <1>1. k \in 1..Len(pOut)
    BY Contents DEF Linked, Reading
  <1>2. dInput[k] \in Readings(Source(k), pOut[k].whole)
    BY DEF Linked, Reading, Source
  <1>3. Source(k) \in Lines /\ P!Acceptable(Source(k)) /\ pOut[k].whole \in BOOLEAN
    BY <1>1, Sources
  <1>6. \/ dInput[k] = AsRead(Source(k), TRUE)
        \/ dInput[k] = AsRead(Source(k), FALSE) /\ ~pOut[k].whole
    <2>1. CASE pOut[k].whole
      BY <1>2, <2>1 DEF Readings
    <2>2. CASE ~pOut[k].whole
      BY <1>2, <2>2 DEF Readings
    <2> QED
      BY <2>1, <2>2
  <1>4. CASE dInput[k] = AsRead(Source(k), FALSE) /\ ~pOut[k].whole
    <2>1. dInput[k].kind = "junk"
      BY <1>4 DEF AsRead, DetectorLine
    <2> QED
      BY <1>1, <1>4, <2>1 DEF DP!Deserves, DP!Parses
  <1>5. CASE dInput[k] = AsRead(Source(k), TRUE)
    <2>1. /\ dInput[k] = AsRead(Source(k), TRUE)
          /\ dInput[k].kind = "object" /\ dInput[k].df = Decision[Source(k)]
      BY <1>5 DEF AsRead, DetectorLine
    <2>4. DP!Parses(dInput[k])
      BY <2>1 DEF DP!Parses
    <2>2. CASE by = Len(rules) + 1
      <3>1. DP!Deserves(k, by) <=> UseAnomaly /\ DP!StandsOut(corpus, Decision[Source(k)], Threshold)
        BY <2>1, <2>2 DEF DP!Deserves, DP!Parses, DP!Model
      <3> QED
        BY <1>1, <1>3, <2>2, <2>4, <3>1, AskedAbout, SameVerdicts
    <2>3. CASE by # Len(rules) + 1
      <3>1. by \in 1..Len(rules)
        BY <2>3, Contents
      <3>2. DP!Deserves(k, by) <=> DP!Means(rules[by], AsRead(Source(k), TRUE))
        BY <2>1, <2>3 DEF DP!Deserves, DP!Parses, DP!Model
      <3> QED
        BY <1>1, <1>3, <2>4, <3>1, <3>2, AskedAbout, SameVerdicts
    <2> QED
      BY <2>2, <2>3
  <1> QED
    BY <1>4, <1>5, <1>6

\* After a run in which the three stages ended without an error, every line
\* that the parser accepts has been judged by every rule and by the model, and
\* the alerts it asks for are in finished inserts.
THEOREM CleanRunsComplete == Spec => []CleanRunIsComplete
  <1>1. ASSUME Keep, Linked PROVE CleanRunIsComplete
    <2> SUFFICES ASSUME CleanEnd, NEW i \in 1..Len(pInput), NEW by \in Askers(pInput[i])
                 PROVE  AlertFor(i, by)
      BY DEF CleanRunIsComplete, Askers
    <2>1. /\ pPc = "ended" /\ pCode = 0 /\ dPc = "ended" /\ dCode = 0 /\ sPc = "exited"
      BY DEF CleanEnd
    <2>2. pInput[i] \in Lines
      BY <1>1, Contents
    <2>3. P!Acceptable(pInput[i]) /\ by \in 1..Len(rules) + 1
      BY <1>1, <2>2, AskedAbout
    <2>4. PICK k \in 1..Len(pOut) : pOut[k].line = i /\ pOut[k].whole
      <3>1. PP!OutputFollowsInput /\ PP!Acceptable(pInput[i])
        BY <1>1, <2>3, SameParser DEF Keep, ParserKeeps, PP!IInv
      <3>2. \E k \in 1..Len(pOut) : pOut[k].line = i
        BY <2>1, <3>1 DEF PP!OutputFollowsInput
      <3>3. \A k \in 1..Len(pOut) : pOut[k].whole
        BY <2>1, <3>1 DEF PP!OutputFollowsInput
      <3> QED
        BY <3>2, <3>3
    <2>5. k \in 1..Len(dInput) /\ DP!AtRest /\ Len(dInput) \in Nat
      BY <1>1, <2>1, Contents DEF Linked, Reading, DetectorAtEnd
    <2>6. DP!Deserves(k, by)
      BY <1>1, <2>3, <2>4, <2>5, DeservedIsAsked DEF Source
    <2>7. k < Len(dInput) \/ by < turn
      <3>1. CASE k = Len(dInput)
        <4>1. DP!Parses(DP!Current) /\ dInput # <<>>
          BY <2>5, <2>6, <3>1 DEF DP!Deserves, DP!Current
        <4>2. turn > Len(rules) + 1 /\ turn \in Nat
          BY <1>1, <2>5, <4>1 DEF DP!AtRest, DP!Model, Keep, DetectorKeeps, DP!IInv, DP!Typed
        <4> QED
          BY <1>1, <2>3, <4>2, Contents
      <3> QED
        BY <2>5, <3>1
    <2>8. PICK m \in 1..Len(DP!Written) : DP!Written[m] = [event |-> k, by |-> by]
      BY <1>1, <2>3, <2>5, <2>6, <2>7 DEF Keep, DetectorKeeps, DP!JInv, DP!Complete, DP!Model
    <2>9. m \in 1..Len(dOut) /\ dOut[m] = [event |-> k, by |-> by]
      BY <1>1, <2>1, <2>8, AllDelivered
    <2>10. Inserted(dOut[m])
      BY <1>1, <2>1, <2>9, CrossesThePipe
    <2> QED
      BY <2>4, <2>9, <2>10 DEF AlertFor
  <1> QED
    BY <1>1, AlwaysLinked, PTL

-----------------------------------------------------------------------------
(* The pipe implements Alerting.                                            *)

PInv == Keep /\ Linked

Demand == [i \in 1..Len(pInput) |-> Askers(pInput[i])]

RaisedSoFar == [k \in 1..Len(D!Written) |-> AlertAbout(D!Written[k])]

RowsOf(p) == {posts[p].rows[i] : i \in 1..Len(posts[p].rows)}

AppliedPosts == {p \in 1..Len(posts) : posts[p].applied}

StoredRows == UNION {RowsOf(p) : p \in AppliedPosts}

AboutRow(r) == AlertAbout(dOut[r])

StoredAlerts == {AboutRow(r) : r \in StoredRows}

OnceEach == Applied = [a \in StoredAlerts |-> 1]

\* The lines behind the records come in order.
LEMMA SourcesInOrder ==
    ASSUME Keep
    PROVE  \A j, k \in 1..Len(pOut) : j < k => pOut[j].line < pOut[k].line
  BY DEF Keep, ParserKeeps, PP!IInv, PP!OutputFollowsInput

\* What the detector has written is about records that it has read.
LEMMA WrittenAlerts ==
    ASSUME PInv
    PROVE  /\ D!Written \in Seq(DP!Alerts) /\ Len(D!Written) \in Nat
           /\ D!Written = DP!Written
           /\ \A k \in 1..Len(D!Written) : /\ D!Written[k].event \in 1..Len(dInput)
                                           /\ D!Written[k].event \in 1..Len(pOut)
                                           /\ D!Written[k].by \in 1..Len(rules) + 1
           /\ \A k \in 1..Len(dOut) : k \in 1..Len(D!Written) /\ D!Written[k] = dOut[k]
  <1>1. /\ dOut \in Seq(DP!Alerts) /\ buffer \in Seq(DP!Alerts)
        /\ Len(dOut) \in Nat /\ Len(buffer) \in Nat
        /\ Len(dInput) \in Nat /\ pTaken \in 0..Len(pOut) /\ Len(pOut) \in Nat
        /\ pTaken = Len(dInput)
    BY Contents DEF PInv, Linked, Reading
  <1>2. D!Written = DP!Written
    BY SameDetector
  <1>3. /\ D!Written \in Seq(DP!Alerts) /\ Len(D!Written) \in Nat
        /\ \A k \in 1..Len(dOut) : k \in 1..Len(D!Written) /\ D!Written[k] = dOut[k]
    BY <1>1 DEF D!Written
  <1>4. \A k \in 1..Len(DP!Written) :
           DP!Written[k] \in [event : 1..Len(dInput), by : 1..Len(rules) + 1]
    BY DEF PInv, Keep, DetectorKeeps, DP!JInv, DP!Judged, DP!Model
  <1>5. \A k \in 1..Len(DP!Written) : /\ DP!Written[k].event \in 1..Len(dInput)
                                      /\ DP!Written[k].by \in 1..Len(rules) + 1
    BY <1>4
  <1>6. \A e \in 1..Len(dInput) : e \in 1..Len(pOut)
    BY <1>1
  <1> QED
    BY <1>2, <1>3, <1>5, <1>6

\* Whoever is asked about a line is a judge.
LEMMA AskersAreJudges ==
    ASSUME Keep, NEW l \in Lines
    PROVE  Askers(l) \in SUBSET Judges
  <1>1. Askers(l) \subseteq 1..Len(rules) + 1 /\ rules \in Directories
    BY AskedAbout, Contents
  <1>2. 1..Len(rules) + 1 \subseteq Judges
    BY <1>1 DEF Judges
  <1> QED
    BY <1>1, <1>2

\* A sequence of images that grows by one.
LEMMA ImageGrows ==
    ASSUME NEW n \in Nat, NEW T, NEW f \in [1..n+1 -> T], NEW g \in [1..n -> T],
           \A i \in 1..n : f[i] = g[i]
    PROVE  f = Append(g, f[n + 1])
  <1> DEFINE e == f[n + 1]
             a == Append(g, e)
  <1>1. g \in Seq(T) /\ Len(g) = n /\ e \in T
    OBVIOUS
  <1>2. e = f[n + 1]
    OBVIOUS
  <1> HIDE DEF e
  <1>3. /\ a \in Seq(T) /\ Len(a) = n + 1
        /\ \A i \in 1..n : a[i] = g[i]
        /\ a[n + 1] = e
    BY <1>1
  <1> HIDE DEF a
  <1>4. \A s \in Seq(T) : s = [i \in 1..Len(s) |-> s[i]]
    OBVIOUS
  <1>5. a = [i \in 1..n+1 |-> a[i]]
    BY <1>3, <1>4
  <1>6. \A i \in 1..n+1 : i \in 1..n \/ i = n + 1
    OBVIOUS
  <1>7. \A i \in 1..n+1 : f[i] = a[i]
    BY <1>2, <1>3, <1>6
  <1>8. f = a
    BY <1>5, <1>7
  <1> QED
    BY <1>8 DEF a, e

\* A line that is read brings its demand, and nothing else changes that.
LEMMA DemandGrows ==
    ASSUME Keep, NEW l \in Lines, pInput' = Append(pInput, l), UNCHANGED <<rules, corpus>>
    PROVE  Demand' = Append(Demand, Askers(l))
  <1>1. pInput \in Seq(Lines) /\ Len(pInput) \in Nat
    BY Contents
  <1> SUFFICES ASSUME NEW n \in Nat, n = Len(pInput)
               PROVE  Demand' = Append(Demand, Askers(l))
    BY <1>1
  <1>2. /\ Len(pInput') = n + 1 /\ pInput'[n + 1] = l
        /\ \A i \in 1..n : pInput'[i] = pInput[i]
    BY <1>1
  <1> DEFINE f == [i \in 1..n+1 |-> Askers(pInput'[i])]
             g == [i \in 1..n |-> Askers(pInput[i])]
  <1>3. Demand' = f /\ Demand = g
    BY <1>2 DEF Demand, Askers
  <1>4. /\ f \in [1..n+1 -> {f[i] : i \in 1..n+1}] /\ g \in [1..n -> {f[i] : i \in 1..n+1}]
        /\ \A i \in 1..n : f[i] = g[i]
        /\ f[n + 1] = Askers(l)
    BY <1>2
  <1> HIDE DEF f, g
  <1>5. f = Append(g, f[n + 1])
    BY <1>4, ImageGrows
  <1> QED
    BY <1>3, <1>4, <1>5

\* So does an alert that is raised.
LEMMA RaisedGrows ==
    ASSUME PInv, NEW a \in DP!Alerts, D!Written' = Append(D!Written, a), UNCHANGED pOut
    PROVE  RaisedSoFar' = Append(RaisedSoFar, AlertAbout(a))
  <1>1. D!Written \in Seq(DP!Alerts) /\ Len(D!Written) \in Nat
    BY WrittenAlerts
  <1> SUFFICES ASSUME NEW w \in Seq(DP!Alerts), w = D!Written, NEW n \in Nat, n = Len(w),
                      NEW v, v = D!Written'
               PROVE  RaisedSoFar' = Append(RaisedSoFar, AlertAbout(a))
    BY <1>1
  <1>2. Len(v) = n + 1 /\ v[n + 1] = a /\ \A i \in 1..n : v[i] = w[i]
    OBVIOUS
  <1> DEFINE f == [i \in 1..n+1 |-> AlertAbout(v[i])]
             g == [i \in 1..n |-> AlertAbout(w[i])]
  <1>3. RaisedSoFar' = f /\ RaisedSoFar = g
    BY <1>2 DEF RaisedSoFar, AlertAbout
  <1>4. /\ f \in [1..n+1 -> {f[i] : i \in 1..n+1}] /\ g \in [1..n -> {f[i] : i \in 1..n+1}]
        /\ \A i \in 1..n : f[i] = g[i]
        /\ f[n + 1] = AlertAbout(a)
    BY <1>2
  <1> HIDE DEF f, g
  <1>5. f = Append(g, f[n + 1])
    BY <1>4, ImageGrows
  <1> QED
    BY <1>3, <1>4, <1>5

\* What has been raised stays, if the alerts and the records behind them do.
LEMMA RaisedStays ==
    ASSUME PInv, D!Written' = D!Written, \A k \in 1..Len(pOut) : pOut'[k] = pOut[k]
    PROVE  RaisedSoFar' = RaisedSoFar
  <1>1. \A k \in 1..Len(D!Written) : D!Written[k].event \in 1..Len(pOut)
    BY WrittenAlerts
  <1> SUFFICES ASSUME NEW w, w = D!Written
               PROVE  RaisedSoFar' = RaisedSoFar
    OBVIOUS
  <1>2. /\ RaisedSoFar = [k \in 1..Len(w) |-> <<pOut[w[k].event].line, w[k].by>>]
        /\ RaisedSoFar' = [k \in 1..Len(w) |-> <<pOut'[w[k].event].line, w[k].by>>]
    BY DEF RaisedSoFar, AlertAbout
  <1>3. \A k \in 1..Len(w) : pOut'[w[k].event] = pOut[w[k].event]
    BY <1>1
  <1> QED
    BY <1>2, <1>3

-----------------------------------------------------------------------------
(* The next alert is the first one that is missing.                         *)

AskedNow == {a \in (1..Len(Demand)) \X Judges : a[2] \in Demand[a[1]]}

RaisedNow == {RaisedSoFar[k] : k \in 1..Len(RaisedSoFar)}

\* The two, said of one alert.
LEMMA AskedAndRaised ==
    ASSUME PInv
    PROVE  /\ \A i, by : <<i, by>> \in AskedNow <=> i \in 1..Len(pInput) /\ by \in Askers(pInput[i])
           /\ \A a \in AskedNow : a = <<a[1], a[2]>>
           /\ \A a : a \in RaisedNow <=> \E k \in 1..Len(D!Written) : a = AlertAbout(D!Written[k])
  <1>1. Len(pInput) \in Nat /\ \A i \in 1..Len(pInput) : Askers(pInput[i]) \in SUBSET Judges
    BY Contents, AskersAreJudges DEF PInv
  <1>2. Len(Demand) = Len(pInput) /\ \A i \in 1..Len(pInput) : Demand[i] = Askers(pInput[i])
    BY <1>1 DEF Demand
  <1>3. Len(D!Written) \in Nat
    BY WrittenAlerts
  <1>4. /\ Len(RaisedSoFar) = Len(D!Written)
        /\ \A k \in 1..Len(D!Written) : RaisedSoFar[k] = AlertAbout(D!Written[k])
    BY <1>3 DEF RaisedSoFar
  <1>5. \A i, by : <<i, by>> \in AskedNow <=> i \in 1..Len(pInput) /\ by \in Askers(pInput[i])
    BY <1>1, <1>2 DEF AskedNow
  <1>6. \A a \in AskedNow : a = <<a[1], a[2]>>
    BY DEF AskedNow
  <1>7. \A a : a \in RaisedNow <=> \E k \in 1..Len(D!Written) : a = AlertAbout(D!Written[k])
    BY <1>4 DEF RaisedNow
  <1> QED
    BY <1>5, <1>6, <1>7

\* A rule or the model either leaves the alerts alone or adds the next one, and
\* that is deserved.
LEMMA NextAlert ==
    ASSUME PInv, D!MatchRule \/ D!Score
    PROVE  \/ D!Written' = D!Written
           \/ /\ Len(dInput) \in 1..Len(dInput) /\ turn \in 1..Len(rules) + 1
              /\ DP!Deserves(Len(dInput), turn)
              /\ D!Written' = Append(D!Written, [event |-> Len(dInput), by |-> turn])
  <1>1. /\ DP!Typed /\ DP!Position /\ Len(dInput) \in Nat /\ Len(rules) \in Nat
        /\ dOut \in Seq(DP!Alerts) /\ buffer \in Seq(DP!Alerts) /\ turn \in Nat \ {0}
    BY Contents DEF PInv, Keep, DetectorKeeps, DP!IInv, DP!JInv, DP!Typed
  <1>2. (DP!MatchRule \/ DP!Score) /\ UNCHANGED dOut
    BY SameDetector DEF D!MatchRule, D!Score
  <1>3. PICK v : DP!Judges(v) /\ DP!Emit(turn, v)
    <2>1. CASE DP!MatchRule
      <3>1. dPc = "match" /\ turn =< Len(rules)
        BY <2>1 DEF DP!MatchRule
      <3> DEFINE v == IF DP!Current.kind = "object" THEN DP!Match(rules[turn], DP!Current) ELSE "raise"
      <3>2. DP!Judges(v)
        BY <1>1, <3>1, DP!RuleJudges, Sizes
      <3>3. DP!Emit(turn, v)
        BY <2>1 DEF DP!MatchRule
      <3> HIDE DEF v
      <3> QED
        BY <3>2, <3>3
    <2>2. CASE DP!Score
      <3>1. dPc = "match" /\ turn = DP!Model
        BY <2>2 DEF DP!Score
      <3> DEFINE v == DP!Verdict(DP!Current)
      <3>2. DP!Judges(v)
        BY <1>1, <3>1, DP!ModelJudges, Sizes
      <3>3. DP!Emit(turn, v)
        BY <2>2 DEF DP!Score
      <3> HIDE DEF v
      <3> QED
        BY <3>2, <3>3
    <2> QED
      BY <1>2, <2>1, <2>2
  <1>4. turn \in 1..Len(rules) + 1
    BY <1>1, <1>2 DEF DP!MatchRule, DP!Score, DP!Model
  <1>5. Len(dInput) \in 1..Len(dInput)
    <2>1. dPc = "match"
      BY <1>2 DEF DP!MatchRule, DP!Score
    <2>2. dInput # <<>> /\ dInput \in Seq(DetectorLines(rules))
      BY <1>1, <2>1, Contents DEF PInv, DP!Position
    <2> QED
      BY <2>2
  <1>6. CASE v # "yes"
    <2>1. UNCHANGED buffer
      BY <1>3, <1>6 DEF DP!Emit, DP!Judges
    <2> QED
      BY <1>2, <2>1 DEF D!Written
  <1>7. CASE v = "yes" /\ UNCHANGED buffer
    BY <1>2, <1>7 DEF D!Written
  <1>8. CASE v = "yes" /\ buffer' # buffer
    <2>1. buffer' = Append(buffer, DP!Alert(turn))
      BY <1>3, <1>8 DEF DP!Emit
    <2>2. DP!Deserves(Len(dInput), turn)
      BY <1>3, <1>8 DEF DP!Judges
    <2>3. DP!Alert(turn) = [event |-> Len(dInput), by |-> turn] /\ DP!Alert(turn) \in DP!Alerts
      BY <1>1 DEF DP!Alert, DP!Alerts
    <2> SUFFICES ASSUME NEW a \in DP!Alerts, a = DP!Alert(turn)
                 PROVE  D!Written' = Append(D!Written, a)
      BY <1>4, <1>5, <2>2, <2>3
    <2>4. dOut \o Append(buffer, a) = Append(dOut \o buffer, a)
      BY <1>1, DP!EmitAppends, Sizes
    <2> QED
      BY <1>2, <2>1, <2>4 DEF D!Written
  <1> QED
    BY <1>6, <1>7, <1>8

\* That alert is the first of those that are asked for and not raised.
LEMMA FirstMissing ==
    ASSUME PInv, Len(dInput) \in 1..Len(dInput), turn \in 1..Len(rules) + 1,
           DP!Deserves(Len(dInput), turn),
           NEW a, a = AlertAbout([event |-> Len(dInput), by |-> turn])
    PROVE  /\ a \in AskedNow \ RaisedNow
           /\ \A b \in AskedNow \ RaisedNow : ~Promise!Precedes(b, a)
  <1> SUFFICES ASSUME NEW e \in 1..Len(dInput), e = Len(dInput)
               PROVE  /\ a \in AskedNow \ RaisedNow
                      /\ \A b \in AskedNow \ RaisedNow : ~Promise!Precedes(b, a)
    OBVIOUS
  <1>1. /\ Len(dInput) \in Nat /\ Len(pOut) \in Nat /\ Len(pInput) \in Nat /\ Len(rules) \in Nat
        /\ turn \in Nat
    BY Contents DEF PInv
  <1>2. /\ e \in 1..Len(pOut) /\ DP!Parses(dInput[e]) /\ turn \in Askers(Source(e))
    BY DeservedIsAsked DEF PInv
  <1>3. pOut[e].line \in 1..Len(pInput) /\ a = <<pOut[e].line, turn>>
    BY <1>2, Sources DEF PInv, AlertAbout
  <1>4. a \in AskedNow
    BY <1>2, <1>3, AskedAndRaised DEF Source
  <1>5. a \notin RaisedNow
    <2> SUFFICES ASSUME NEW k \in 1..Len(D!Written), a = AlertAbout(D!Written[k])
                 PROVE  FALSE
      BY AskedAndRaised
    <2> SUFFICES ASSUME NEW w, w = D!Written[k]
                 PROVE  FALSE
      OBVIOUS
    <2>1. w.event \in 1..Len(dInput) /\ w.event \in 1..Len(pOut) /\ w.by \in 1..Len(rules) + 1
      BY WrittenAlerts
    <2>2. pOut[w.event].line = pOut[e].line /\ w.by = turn
      BY <1>3 DEF AlertAbout
    <2>3. DP!Before(w, [event |-> e, by |-> turn])
      <3>1. k \in 1..Len(DP!Written) /\ w = DP!Written[k]
        BY WrittenAlerts
      <3> QED
        BY <3>1 DEF PInv, Keep, DetectorKeeps, DP!IInv, DP!Behind
    <2>4. w.event < e
      BY <1>1, <2>1, <2>2, <2>3 DEF DP!Before
    <2>5. pOut[w.event].line < pOut[e].line
      BY <1>2, <2>1, <2>4, SourcesInOrder DEF PInv
    <2> QED
      BY <1>1, <1>3, <2>2, <2>5
  <1>6. ASSUME NEW b \in AskedNow, Promise!Precedes(b, a)
        PROVE  b \in RaisedNow
    <2> SUFFICES ASSUME NEW i, NEW j, b = <<i, j>>
                 PROVE  b \in RaisedNow
      BY AskedAndRaised
    <2>1. i \in 1..Len(pInput) /\ j \in Askers(pInput[i])
      BY AskedAndRaised
    <2>2. i < pOut[e].line \/ (i = pOut[e].line /\ j < turn)
      BY <1>3, <1>6 DEF Promise!Precedes
    <2>3. pInput[i] \in Lines /\ P!Acceptable(pInput[i]) /\ j \in 1..Len(rules) + 1
      <3>1. Keep /\ pInput[i] \in Lines
        BY <2>1, Contents DEF PInv
      <3>2. Askers(pInput[i]) # {}
        BY <2>1
      <3>3. P!Acceptable(pInput[i]) /\ Askers(pInput[i]) \subseteq 1..Len(rules) + 1
        BY <3>1, <3>2, AskedAbout
      <3> QED
        BY <2>1, <3>1, <3>3
    <2>4. PICK k \in 1..Len(pOut) : pOut[k].line = i
      <3>1. CASE i = pOut[e].line
        BY <1>2, <3>1
      <3>2. CASE i < pOut[e].line
        <4>1. i # Len(pInput)
          BY <1>1, <1>3, <2>1, <3>2
        <4>2. PP!Acceptable(pInput[i]) /\ PP!OutputFollowsInput
          BY <2>3, SameParser DEF PInv, Keep, ParserKeeps, PP!IInv
        <4> QED
          BY <2>1, <4>1, <4>2 DEF PP!OutputFollowsInput
      <3> QED
        BY <2>2, <3>1, <3>2
    <2>5. k =< e /\ (k = e => i = pOut[e].line)
      <3>1. ASSUME k > e PROVE FALSE
        <4>1. pOut[e].line < pOut[k].line
          BY <1>1, <1>2, <2>4, <3>1, SourcesInOrder DEF PInv
        <4> QED
          BY <1>1, <1>3, <2>1, <2>2, <2>4, <4>1
      <3> QED
        BY <1>1, <1>2, <2>4, <3>1
    <2>7. k \in 1..Len(dInput) /\ (k < Len(dInput) \/ j < turn)
      <3>1. CASE k = e
        BY <1>1, <1>3, <2>1, <2>2, <2>5, <3>1
      <3>2. CASE k # e
        BY <1>1, <2>4, <2>5, <3>2
      <3> QED
        BY <3>1, <3>2
    <2>6. DP!Parses(dInput[k])
      <3>1. CASE k = e
        BY <1>2, <3>1
      <3>2. CASE k # e
        <4>1. k # Len(pOut)
          BY <1>1, <1>2, <2>4, <2>5, <3>2
        <4>2. \A q \in 1..Len(pOut) : ~pOut[q].whole => q = Len(pOut)
          BY DEF PInv, Keep, ParserKeeps, PP!IInv, PP!OutputFollowsInput
        <4>3. pOut[k].whole
          BY <2>4, <4>1, <4>2
        <4> QED
          BY <2>3, <2>7, <4>3, DeservedIsAsked DEF PInv
      <3> QED
        BY <3>1, <3>2
    <2>8. DP!Deserves(k, j)
      BY <2>1, <2>3, <2>4, <2>6, <2>7, DeservedIsAsked DEF PInv, Source
    <2>9. PICK m \in 1..Len(DP!Written) : DP!Written[m] = [event |-> k, by |-> j]
      BY <2>3, <2>7, <2>8 DEF PInv, Keep, DetectorKeeps, DP!JInv, DP!Complete, DP!Model
    <2>10. m \in 1..Len(D!Written) /\ D!Written[m] = [event |-> k, by |-> j]
      BY <2>9, WrittenAlerts
    <2>11. AlertAbout(D!Written[m]) = b
      BY <2>4, <2>10 DEF AlertAbout
    <2> QED
      BY <2>10, <2>11, AskedAndRaised
  <1> QED
    BY <1>4, <1>5, <1>6

-----------------------------------------------------------------------------
(* What is in the table.                                                    *)

\* A row in a request is an alert that was raised, and no other row is.
LEMMA RowsAreAlerts ==
    ASSUME PInv
    PROVE  /\ \A p \in 1..Len(posts) : RowsOf(p) \subseteq 1..Len(sInput)
           /\ \A r \in 1..Len(sInput) : AboutRow(r) \in RaisedNow
           /\ \A q, r \in 1..Len(sInput) : AboutRow(q) = AboutRow(r) => q = r
  <1>1. \A r \in 1..Len(sInput) : r \in 1..Len(dOut)
    <2>1. dTaken \in 0..Len(dOut) /\ Len(dOut) \in Nat /\ dTaken = Len(sInput)
      BY Contents DEF PInv, Linked, Scanning
    <2> QED
      BY <2>1
  <1>2. \A p \in 1..Len(posts) : RowsOf(p) \subseteq 1..Len(sInput)
    BY RowsScanned DEF PInv, RowsOf
  <1>3. \A r \in 1..Len(dOut) : r \in 1..Len(D!Written) /\ D!Written[r] = dOut[r]
    BY WrittenAlerts
  <1>4. \A r \in 1..Len(sInput) : AboutRow(r) \in RaisedNow
    <2> SUFFICES ASSUME NEW r \in 1..Len(sInput) PROVE AboutRow(r) \in RaisedNow
      OBVIOUS
    <2>1. r \in 1..Len(D!Written) /\ AboutRow(r) = AlertAbout(D!Written[r])
      BY <1>1, <1>3 DEF AboutRow
    <2> QED
      BY <2>1, AskedAndRaised
  <1>5. ASSUME NEW q \in 1..Len(sInput), NEW r \in 1..Len(sInput), AboutRow(q) = AboutRow(r)
        PROVE  q = r
    <2> SUFFICES ASSUME NEW a, a = dOut[q], NEW b, b = dOut[r]
                 PROVE  a = b
      BY <1>1, AlertsDiffer DEF PInv
    <2>1. a \in DP!Alerts /\ b \in DP!Alerts
      BY <1>1, Contents DEF PInv
    <2>2. a.event \in 1..Len(pOut) /\ b.event \in 1..Len(pOut)
      BY <1>1, <1>3, WrittenAlerts
    <2>3. pOut[a.event].line = pOut[b.event].line /\ a.by = b.by
      BY <1>5 DEF AboutRow, AlertAbout
    <2>4. a.event = b.event
      <3>1. \A j \in 1..Len(pOut) : pOut[j].line \in Nat
        BY Contents DEF PInv
      <3> SUFFICES ASSUME NEW i \in 1..Len(pOut), i = a.event,
                          NEW j \in 1..Len(pOut), j = b.event
                   PROVE  i = j
        BY <2>2
      <3>2. pOut[i].line = pOut[j].line /\ pOut[i].line \in Nat
        BY <2>3, <3>1
      <3>3. (i < j => pOut[i].line < pOut[j].line) /\ (j < i => pOut[j].line < pOut[i].line)
        BY SourcesInOrder DEF PInv
      <3>4. ~(i < j) /\ ~(j < i)
        BY <3>2, <3>3
      <3> QED
        BY <3>4, Contents DEF PInv
    <2> QED
      BY <2>1, <2>3, <2>4 DEF DP!Alerts
  <1> QED
    BY <1>2, <1>4, <1>5

\* The table holds every alert of the applied requests once.
LEMMA TableHolds == PInv => OnceEach
  <1> SUFFICES ASSUME PInv PROVE Applied = [a \in StoredAlerts |-> 1]
    BY DEF OnceEach
  <1>1. \A x \in AppliedRows : /\ x = <<x[1], x[2]>> /\ x[1] \in AppliedPosts
                               /\ x[2] \in 1..Len(posts[x[1]].rows)
                               /\ posts[x[1]].rows[x[2]] \in RowsOf(x[1])
                               /\ AlertIn(x) = AboutRow(posts[x[1]].rows[x[2]])
    BY DEF AppliedRows, AppliedPosts, RowsOf, AlertIn, AboutRow
  <1>2. \A p \in AppliedPosts : \A i \in 1..Len(posts[p].rows) : <<p, i>> \in AppliedRows
    BY RowsScanned DEF PInv, AppliedRows, AppliedPosts
  <1>3. {AlertIn(x) : x \in AppliedRows} = StoredAlerts
    <2>1. ASSUME NEW x \in AppliedRows PROVE AlertIn(x) \in StoredAlerts
      BY <1>1 DEF StoredAlerts, StoredRows
    <2>2. ASSUME NEW r \in StoredRows PROVE AboutRow(r) \in {AlertIn(x) : x \in AppliedRows}
      <3>1. PICK p \in AppliedPosts : \E i \in 1..Len(posts[p].rows) : r = posts[p].rows[i]
        BY DEF StoredRows, RowsOf
      <3>2. PICK i \in 1..Len(posts[p].rows) : r = posts[p].rows[i]
        BY <3>1
      <3>3. <<p, i>> \in AppliedRows
        BY <1>2
      <3>4. AlertIn(<<p, i>>) = AboutRow(r)
        BY <3>2 DEF AlertIn, AboutRow
      <3> QED
        BY <3>3, <3>4
    <2> QED
      BY <2>1, <2>2 DEF StoredAlerts
  <1>4. ASSUME NEW x \in AppliedRows, NEW y \in AppliedRows, AlertIn(x) = AlertIn(y)
        PROVE  x = y
    <2> SUFFICES ASSUME NEW p \in AppliedPosts, NEW i \in 1..Len(posts[p].rows), x = <<p, i>>,
                        NEW q \in AppliedPosts, NEW j \in 1..Len(posts[q].rows), y = <<q, j>>
                 PROVE  p = q /\ i = j
      BY <1>1
    <2>1. p \in 1..Len(posts) /\ q \in 1..Len(posts)
      BY DEF AppliedPosts
    <2>2. AboutRow(posts[p].rows[i]) = AboutRow(posts[q].rows[j])
      BY <1>4 DEF AlertIn, AboutRow
    <2>3. posts[p].rows[i] \in 1..Len(sInput) /\ posts[q].rows[j] \in 1..Len(sInput)
      BY <2>1, RowsScanned DEF PInv
    <2>4. posts[p].rows[i] = posts[q].rows[j]
      BY <2>2, <2>3, RowsAreAlerts
    <2> SUFFICES ASSUME NEW r, r = posts[p].rows[i]
                 PROVE  p = q /\ i = j
      OBVIOUS
    <2>5. SP!Holds(p, r) /\ SP!Holds(q, r)
      BY <2>4 DEF SP!Holds, SP!In
    <2>6. p = q
      BY <2>1, <2>5, SP!OneRequest, Sizes DEF PInv, Keep, SinkKeeps
    <2> QED
      BY <2>1, <2>4, <2>6, RowsScanned DEF PInv
  <1>5. ASSUME NEW a \in StoredAlerts
        PROVE  Cardinality({x \in AppliedRows : AlertIn(x) = a}) = 1
    <2>1. PICK x \in AppliedRows : AlertIn(x) = a
      BY <1>3
    <2>2. {y \in AppliedRows : AlertIn(y) = a} = {x}
      BY <1>4, <2>1
    <2> QED
      BY <2>2, FS_Singleton
  <1>6. Applied = [a \in StoredAlerts |-> Cardinality({x \in AppliedRows : AlertIn(x) = a})]
    BY <1>3, Zenon DEF Applied
  <1> QED
    BY <1>5, <1>6, Zenon

\* What is in the table stays, if the rows of the applied requests and what
\* they are about do.
LEMMA StoredStays ==
    ASSUME PInv, StoredRows' = StoredRows,
           \A r \in 1..Len(dOut) : dOut'[r] = dOut[r],
           \A k \in 1..Len(pOut) : pOut'[k] = pOut[k]
    PROVE  StoredAlerts' = StoredAlerts
  <1>1. \A r \in StoredRows : r \in 1..Len(dOut) /\ dOut[r].event \in 1..Len(pOut)
    <2> SUFFICES ASSUME NEW r \in StoredRows
                 PROVE  r \in 1..Len(dOut) /\ dOut[r].event \in 1..Len(pOut)
      OBVIOUS
    <2>1. r \in 1..Len(sInput)
      BY RowsAreAlerts DEF StoredRows, AppliedPosts
    <2>2. dTaken \in 0..Len(dOut) /\ Len(dOut) \in Nat /\ dTaken = Len(sInput)
      BY Contents DEF PInv, Linked, Scanning
    <2>3. r \in 1..Len(dOut)
      BY <2>1, <2>2
    <2> QED
      BY <2>3, WrittenAlerts
  <1>2. \A r \in StoredRows : AboutRow(r)' = AboutRow(r)
    <2> SUFFICES ASSUME NEW r \in StoredRows
                 PROVE  <<pOut'[dOut'[r].event].line, dOut'[r].by>> = <<pOut[dOut[r].event].line, dOut[r].by>>
      BY DEF AboutRow, AlertAbout
    <2>1. dOut'[r] = dOut[r] /\ pOut'[dOut[r].event] = pOut[dOut[r].event]
      BY <1>1
    <2> QED
      BY <2>1
  <1>3. StoredAlerts' = {AboutRow(r)' : r \in StoredRows}
    BY DEF StoredAlerts
  <1> QED
    BY <1>2, <1>3 DEF StoredAlerts

\* No step of the sink's own applies a request.
LEMMA RowsStay ==
    ASSUME PInv, Len(posts') >= Len(posts) /\ Len(posts') \in Nat,
           \A p \in 1..Len(posts) : posts'[p].rows = posts[p].rows /\ posts'[p].applied = posts[p].applied,
           \A p \in Len(posts)+1..Len(posts') : ~posts'[p].applied
    PROVE  StoredRows' = StoredRows
  <1>1. Len(posts) \in Nat
    BY SP!BufferTypes, Sizes DEF PInv, Keep, SinkKeeps, SP!RInv, SP!IInv, SP!TypeOK
  <1>2. \A p \in 1..Len(posts') : p \in 1..Len(posts) \/ p \in Len(posts)+1..Len(posts')
    BY <1>1
  <1>3. \A p \in 1..Len(posts) : p \in 1..Len(posts')
    BY <1>1
  <1>4. AppliedPosts' = AppliedPosts
    BY <1>2, <1>3 DEF AppliedPosts
  <1>5. \A p \in AppliedPosts : RowsOf(p)' = RowsOf(p)
    BY DEF AppliedPosts, RowsOf
  <1> QED
    BY <1>4, <1>5 DEF StoredRows

-----------------------------------------------------------------------------
(* The steps of Alerting.                                                   *)

\* The table changes with the alerts of the applied requests only.
LEMMA TableStays ==
    ASSUME PInv, PInv', StoredAlerts' = StoredAlerts
    PROVE  Applied' = Applied
  <1>1. PInv' => OnceEach'
    BY TableHolds, PTL
  <1> QED
    BY <1>1, TableHolds DEF OnceEach

\* A step that changes none of the three is no step of Alerting.
LEMMA Stutters ==
    ASSUME Demand' = Demand, RaisedSoFar' = RaisedSoFar, Applied' = Applied
    PROVE  [Promise!Next]_(Promise!vars)
  BY DEF Promise!vars, Demand, Askers, RaisedSoFar

\* An event comes in.
LEMMA Arrives ==
    ASSUME NEW J \in SUBSET Judges, Demand' = Append(Demand, J),
           RaisedSoFar' = RaisedSoFar, Applied' = Applied
    PROVE  [Promise!Next]_(Promise!vars)
  <1>1. Promise!Arrive
    BY DEF Promise!Arrive, Demand, Askers, RaisedSoFar
  <1> QED
    BY <1>1 DEF Promise!Next

\* An alert is raised.
LEMMA Raises ==
    ASSUME NEW a \in AskedNow \ RaisedNow,
           \A b \in AskedNow \ RaisedNow : ~Promise!Precedes(b, a),
           RaisedSoFar' = Append(RaisedSoFar, a), Demand' = Demand, Applied' = Applied
    PROVE  [Promise!Next]_(Promise!vars)
  <1>1. AskedNow = Promise!Asked /\ RaisedNow = Promise!Raised
    BY DEF AskedNow, RaisedNow, Promise!Asked, Promise!Raised, Demand, Askers, RaisedSoFar
  <1>2. Promise!Raise(a)
    BY <1>1 DEF Promise!Raise, Demand, Askers, RaisedSoFar
  <1> QED
    BY <1>1, <1>2 DEF Promise!Next

\* Alerts come into the table.
LEMMA Stores ==
    ASSUME PInv, PInv', NEW A, A \subseteq RaisedNow, A \cap StoredAlerts = {},
           StoredAlerts' = A \cup StoredAlerts, Demand' = Demand, RaisedSoFar' = RaisedSoFar
    PROVE  [Promise!Next]_(Promise!vars)
  <1>1. Applied = [a \in StoredAlerts |-> 1] /\ Applied' = [a \in A \cup StoredAlerts |-> 1]
    <2>1. PInv' => OnceEach'
      BY TableHolds, PTL
    <2> QED
      BY <2>1, TableHolds DEF OnceEach
  <1>2. CASE A = {}
    <2>1. Applied' = Applied
      BY <1>1, <1>2
    <2> QED
      BY <2>1, Stutters
  <1>3. CASE A # {}
    <2>1. DOMAIN Applied = StoredAlerts
      BY <1>1
    <2>2. Applied' = [a \in A \cup DOMAIN Applied |-> IF a \in A THEN 1 ELSE Applied[a]]
      BY <1>1, <2>1
    <2>3. Promise!Store(A)
      BY <1>3, <2>1, <2>2, Zenon DEF Promise!Store, Demand, Askers, RaisedSoFar
    <2>4. A \in SUBSET Promise!Raised
      BY DEF RaisedNow, Promise!Raised, RaisedSoFar
    <2> QED
      BY <2>3, <2>4 DEF Promise!Next
  <1> QED
    BY <1>2, <1>3

\* Every step of the parser is a step of Alerting.
LEMMA ParserMaps ==
    ASSUME PInv, PInv', ParserStep
    PROVE  [Promise!Next]_(Promise!vars)
  <1>1. /\ UNCHANGED <<rules, corpus, buffer, dOut, sinkVars>>
        /\ \A k \in 1..Len(pOut) : pOut'[k] = pOut[k]
    BY ParserAdds DEF PInv, detectorVars
  <1>2. RaisedSoFar' = RaisedSoFar
    <2>1. D!Written' = D!Written
      BY <1>1 DEF D!Written
    <2> QED
      BY <1>1, <2>1, RaisedStays
  <1>3. Applied' = Applied
    <2>1. posts' = posts
      BY <1>1 DEF sinkVars
    <2>2. StoredRows' = StoredRows
      BY <2>1 DEF StoredRows, AppliedPosts, RowsOf
    <2> QED
      BY <1>1, <2>2, StoredStays, TableStays
  <1>4. CASE pInput' = pInput
    <2>1. Demand' = Demand
      BY <1>1, <1>4 DEF Demand, Askers
    <2> QED
      BY <1>2, <1>3, <2>1, Stutters
  <1>5. CASE pInput' # pInput
    <2>1. PICK l \in Lines : pInput' = Append(pInput, l)
      BY <1>5 DEF ParserStep, P!ReadLine, P!EndOfInput, P!WriteLine, P!WriteFails, P!Kill
    <2>2. Demand' = Append(Demand, Askers(l)) /\ Askers(l) \in SUBSET Judges
      BY <1>1, <2>1, DemandGrows, AskersAreJudges DEF PInv
    <2> QED
      BY <1>2, <1>3, <2>2, Arrives
  <1> QED
    BY <1>4, <1>5

\* A detector that is not judging keeps what it has written, in the buffer or
\* in the pipe.
LEMMA WrittenStays ==
    ASSUME PInv, DetectorCannotDecode \/ DetectorSeesEnd \/ DetectorWorks \/ DetectorKilled, ~(D!MatchRule \/ D!Score)
    PROVE  /\ D!Written' = D!Written
           /\ \A k \in 1..Len(dOut) : dOut'[k] = dOut[k]
  <1>1. CASE D!Drain
    <2>1. dOut \in Seq(DP!Alerts) /\ buffer \in Seq(DP!Alerts) /\ buffer # <<>>
      BY <1>1, Contents DEF PInv, D!Drain, D!MustDrain
    <2>2. dOut' = Append(dOut, Head(buffer)) /\ buffer' = Tail(buffer)
      BY <1>1 DEF D!Drain
    <2>3. Append(dOut, Head(buffer)) \o Tail(buffer) = dOut \o buffer
      BY <2>1, DP!DrainMoves, Sizes
    <2>4. \A k \in 1..Len(dOut) : dOut'[k] = dOut[k]
      BY <2>1, <2>2
    <2> QED
      BY <2>2, <2>3, <2>4 DEF D!Written
  <1>2. CASE UNCHANGED <<dOut, buffer>>
    BY <1>2 DEF D!Written
  <1>3. CASE D!Load \/ D!StartFlush \/ D!Flushed \/ D!BrokenPipe \/ D!Exit \/ D!EndOfInput
             \/ D!ReadFails \/ D!Kill
    BY <1>2, <1>3 DEF D!Load, D!StartFlush, D!Flushed, D!BrokenPipe, D!Exit, D!EndOfInput,
                      D!ReadFails, D!Kill
  <1> QED
    BY <1>1, <1>3 DEF DetectorCannotDecode, DetectorSeesEnd, DetectorWorks, DetectorKilled

\* Every step of the detector is a step of Alerting.
LEMMA DetectorMaps ==
    ASSUME PInv, PInv', DetectorReads \/ DetectorCannotDecode \/ DetectorSeesEnd \/ DetectorWorks \/ DetectorKilled
    PROVE  [Promise!Next]_(Promise!vars)
  <1>1. UNCHANGED <<pInput, pOut, rules, corpus, posts>>
    BY ReadsNext, DetectorRest DEF PInv, parserVars, sinkVars
  <1>2. Demand' = Demand /\ StoredRows' = StoredRows
    BY <1>1 DEF Demand, Askers, StoredRows, AppliedPosts, RowsOf
  <1>3. ASSUME \A k \in 1..Len(dOut) : dOut'[k] = dOut[k]
        PROVE  Applied' = Applied
    BY <1>1, <1>2, <1>3, StoredStays, TableStays
  <1>4. CASE D!Written' = D!Written /\ \A k \in 1..Len(dOut) : dOut'[k] = dOut[k]
    <2>1. RaisedSoFar' = RaisedSoFar
      BY <1>1, <1>4, RaisedStays
    <2> QED
      BY <1>2, <1>3, <1>4, <2>1, Stutters
  <1>5. CASE DetectorReads
    <2>1. UNCHANGED <<buffer, dOut>>
      BY <1>5, ReadsNext DEF PInv
    <2> QED
      BY <1>4, <2>1 DEF D!Written
  <1>6. CASE D!MatchRule \/ D!Score
    <2>1. UNCHANGED dOut
      BY <1>6 DEF D!MatchRule, D!Score
    <2> DEFINE e == [event |-> Len(dInput), by |-> turn]
    <2>2. CASE /\ Len(dInput) \in 1..Len(dInput) /\ turn \in 1..Len(rules) + 1
               /\ DP!Deserves(Len(dInput), turn)
               /\ D!Written' = Append(D!Written, e)
      <3>1. AlertAbout(e) \in AskedNow \ RaisedNow
            /\ \A b \in AskedNow \ RaisedNow : ~Promise!Precedes(b, AlertAbout(e))
        BY <2>2, FirstMissing
      <3>2. e \in DP!Alerts
        <4>1. Len(dInput) \in Nat \ {0} /\ turn \in Nat \ {0}
          BY <2>2, Contents DEF PInv
        <4> QED
          BY <4>1 DEF DP!Alerts
      <3>3. RaisedSoFar' = Append(RaisedSoFar, AlertAbout(e))
        BY <1>1, <2>2, <3>2, RaisedGrows
      <3> HIDE DEF e
      <3> QED
        BY <1>2, <1>3, <2>1, <3>1, <3>3, Raises
    <2>3. CASE D!Written' = D!Written
      BY <1>4, <2>1, <2>3
    <2> QED
      BY <1>6, <2>2, <2>3, NextAlert
  <1>7. CASE (DetectorCannotDecode \/ DetectorSeesEnd \/ DetectorWorks \/ DetectorKilled) /\ ~(D!MatchRule \/ D!Score)
    BY <1>4, <1>7, WrittenStays
  <1> QED
    BY <1>5, <1>6, <1>7

\* What the sink does, short of an insert on the server, applies no request.
LEMMA SinkApplies ==
    ASSUME PInv, SinkReads \/ SinkSeesEnd \/ SinkWorks \/ SinkKilled
    PROVE  /\ UNCHANGED <<pInput, pOut, rules, corpus, buffer, dOut>>
           /\ StoredRows' = StoredRows \/ \E p \in 1..Len(posts) : SP!ServerInserts(p)
  <1>1. UNCHANGED <<pInput, pOut, rules, corpus, buffer, dOut>>
    BY ScansNext, SinkRest DEF PInv, parserVars, detectorVars
  <1>2. SP!TypeOK /\ Len(posts) \in Nat
    BY SP!BufferTypes, Sizes DEF PInv, Keep, SinkKeeps, SP!RInv, SP!IInv
  <1>3. CASE UNCHANGED posts
    BY <1>1, <1>3 DEF StoredRows, AppliedPosts, RowsOf
  <1>4. CASE SinkReads \/ SinkSeesEnd \/ SinkKilled
    BY <1>3, <1>4 DEF SinkReads, SinkSeesEnd, SinkKilled, S!Scan, S!ScanEnds, S!Kill
  <1>5. CASE S!SendLine \/ S!TickFires \/ S!ReceiveLine \/ S!ReceiveTick \/ S!ReceiveClosed \/ S!Exit
    BY <1>3, <1>5 DEF S!SendLine, S!TickFires, S!ReceiveLine, S!ReceiveTick, S!ReceiveClosed, S!Exit
  <1>6. ASSUME NEW t \in S!Tables, S!Flush(t)
        PROVE  StoredRows' = StoredRows
    <2>1. t \in SP!Tables /\ SP!Flush(t)
      BY <1>6, SameSink
    <2>2. /\ Len(posts') = Len(posts) + 1
          /\ \A p \in 1..Len(posts) : posts'[p] = posts[p]
          /\ posts'[Len(posts) + 1] = SP!Batch(t)
      BY <1>2, <2>1, SP!FlushFacts, Sizes
    <2>3. \A p \in Len(posts)+1..Len(posts') : p = Len(posts) + 1
      BY <1>2, <2>2
    <2>4. ~SP!Batch(t).applied
      BY DEF SP!Batch
    <2>5. \A p \in Len(posts)+1..Len(posts') : ~posts'[p].applied
      BY <2>2, <2>3, <2>4
    <2> QED
      BY <1>2, <2>2, <2>5, RowsStay
  <1>7. CASE S!ReplyOK \/ S!ReplyError \/ S!PostFails
    <2>1. PICK o \in SP!Replies : SP!Answer(o) /\ SP!InFlight
      BY <1>7, SameSink DEF SP!ReplyOK, SP!ReplyError, SP!PostFails, SP!Replies
    <2>2. /\ Len(posts') = Len(posts)
          /\ \A q \in 1..Len(posts) : /\ posts'[q].rows = posts[q].rows
                                      /\ posts'[q].applied = posts[q].applied
      BY <1>2, <2>1, SP!AnswerFacts, Sizes
    <2>3. StoredRows' = StoredRows
      BY <1>2, <2>2, RowsStay
    <2> QED
      BY <1>1, <2>3
  <1>8. CASE \E p \in 1..Len(posts) : S!ServerInserts(p)
    BY <1>1, <1>8, SameSink
  <1> QED
    BY <1>1, <1>4, <1>5, <1>6, <1>7, <1>8 DEF SinkWorks

\* Every step of the sink is a step of Alerting.
LEMMA SinkMaps ==
    ASSUME PInv, PInv', SinkReads \/ SinkSeesEnd \/ SinkWorks \/ SinkKilled
    PROVE  [Promise!Next]_(Promise!vars)
  <1>1. UNCHANGED <<pInput, pOut, rules, corpus, buffer, dOut>>
    BY SinkApplies
  <1>2. Demand' = Demand /\ RaisedSoFar' = RaisedSoFar
    <2>1. D!Written' = D!Written
      BY <1>1 DEF D!Written
    <2> QED
      BY <1>1, <2>1, RaisedStays DEF Demand, Askers
  <1>3. CASE StoredRows' = StoredRows
    <2>1. Applied' = Applied
      BY <1>1, <1>3, StoredStays, TableStays
    <2> QED
      BY <1>2, <2>1, Stutters
  <1>4. ASSUME NEW p \in 1..Len(posts), SP!ServerInserts(p)
        PROVE  [Promise!Next]_(Promise!vars)
    <2>1. /\ ~posts[p].applied /\ Len(posts') = Len(posts) /\ posts'[p].applied
          /\ \A q \in 1..Len(posts) : /\ posts'[q].rows = posts[q].rows
                                      /\ q # p => posts'[q].applied = posts[q].applied
      BY <1>4, SP!ServerFacts, Sizes DEF PInv, Keep, SinkKeeps, SP!RInv, SP!IInv
    <2>2. AppliedPosts' = AppliedPosts \cup {p} /\ p \notin AppliedPosts
      BY <2>1 DEF AppliedPosts
    <2>3. \A q \in 1..Len(posts) : RowsOf(q)' = RowsOf(q)
      BY <2>1 DEF RowsOf
    <2>4. StoredRows' = RowsOf(p) \cup StoredRows
      BY <2>2, <2>3 DEF StoredRows, AppliedPosts
    <2> DEFINE A == {AboutRow(r) : r \in RowsOf(p)}
    <2>5. StoredAlerts' = A \cup StoredAlerts
      <3>1. \A r : AboutRow(r)' = AboutRow(r)
        BY <1>1 DEF AboutRow, AlertAbout
      <3>2. StoredAlerts' = {AboutRow(r) : r \in StoredRows'}
        BY <3>1 DEF StoredAlerts
      <3> QED
        BY <2>4, <3>2 DEF StoredAlerts
    <2>6. A \subseteq RaisedNow
      BY RowsAreAlerts
    <2>7. A \cap StoredAlerts = {}
      <3> SUFFICES ASSUME NEW r \in RowsOf(p), NEW s \in StoredRows, AboutRow(r) = AboutRow(s)
                   PROVE  FALSE
        BY DEF StoredAlerts
      <3>1. PICK q \in AppliedPosts : s \in RowsOf(q)
        BY DEF StoredRows
      <3>2. q \in 1..Len(posts) /\ q # p
        BY <2>2 DEF AppliedPosts
      <3>3. r = s
        BY <3>1, <3>2, RowsAreAlerts
      <3>4. SP!Holds(p, r) /\ SP!Holds(q, r)
        BY <3>1, <3>3 DEF SP!Holds, SP!In, RowsOf
      <3> QED
        BY <3>2, <3>4, SP!OneRequest, Sizes DEF PInv, Keep, SinkKeeps
    <2> HIDE DEF A
    <2> QED
      BY <1>2, <2>5, <2>6, <2>7, Stores
  <1> QED
    BY <1>3, <1>4, SinkApplies

\* Whatever is killed, fails, stalls or answers late, the three stages together
\* do no more and no less than Alerting says: they raise the alerts that were
\* asked for, in order and without a gap, and each comes into the table at most
\* once.
THEOREM PipeAlerts == Spec => ImplementsAlerting
  <1>1. Init => Promise!Init
    <2> SUFFICES ASSUME Init PROVE Promise!Init
      OBVIOUS
    <2>1. pInput = <<>> /\ dOut = <<>> /\ buffer = <<>> /\ posts = <<>>
      BY DEF Init, P!Init, D!Init, S!Init
    <2>2. Demand = <<>>
      BY <2>1 DEF Demand
    <2>3. RaisedSoFar = <<>>
      <3>1. D!Written = <<>>
        BY <2>1 DEF D!Written
      <3> QED
        BY <3>1 DEF RaisedSoFar
    <2>4. Applied = <<>>
      <3>1. AppliedRows = {}
        BY <2>1 DEF AppliedRows
      <3>2. {AlertIn(x) : x \in AppliedRows} = {}
        BY <3>1
      <3>3. Applied = [a \in {} |-> Cardinality({x \in AppliedRows : AlertIn(x) = a})]
        BY <3>2, Zenon DEF Applied
      <3>4. Applied = [a \in {} |-> 1]
        BY <3>3, Zenon
      <3> QED
        BY <3>4
    <2> QED
      BY <2>2, <2>3, <2>4 DEF Promise!Init, Demand, Askers, RaisedSoFar
  <1>2. ASSUME PInv, PInv', [Next]_vars PROVE [Promise!Next]_(Promise!vars)
    <2>1. CASE UNCHANGED vars
      <3>1. UNCHANGED <<pInput, pOut, rules, corpus, buffer, dOut, posts>>
        BY <2>1 DEF vars, parserVars, detectorVars, sinkVars
      <3>2. Demand' = Demand /\ StoredRows' = StoredRows
        BY <3>1 DEF Demand, Askers, StoredRows, AppliedPosts, RowsOf
      <3>3. D!Written' = D!Written
        BY <3>1 DEF D!Written
      <3>4. RaisedSoFar' = RaisedSoFar
        BY <1>2, <3>1, <3>3, RaisedStays
      <3>5. Applied' = Applied
        BY <1>2, <3>1, <3>2, StoredStays, TableStays
      <3> QED
        BY <3>2, <3>4, <3>5, Stutters
    <2>2. CASE ParserStep
      BY <1>2, <2>2, ParserMaps
    <2>3. CASE DetectorReads \/ DetectorCannotDecode \/ DetectorSeesEnd \/ DetectorWorks \/ DetectorKilled
      BY <1>2, <2>3, DetectorMaps
    <2>4. CASE SinkReads \/ SinkSeesEnd \/ SinkWorks \/ SinkKilled
      BY <1>2, <2>4, SinkMaps
    <2> QED
      BY <1>2, <2>1, <2>2, <2>3, <2>4 DEF Next
  <1>3. Spec => []PInv
    BY AlwaysLinked DEF PInv
  <1> QED
    BY <1>1, <1>2, <1>3, PTL DEF Spec, ImplementsAlerting, Promise!Spec
=============================================================================
