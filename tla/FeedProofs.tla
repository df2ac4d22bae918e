----------------------------- MODULE FeedProofs -----------------------------
(***************************************************************************)
(* Ingest and the parser behind it: what each of them guarantees by itself  *)
(* it guarantees in the pipe, whose every step is a step of it or none; and *)
(* what the two promise together.                                           *)
(***************************************************************************)
EXTENDS Feed, FiniteSetTheorems, FunctionTheorems, TLAPS

IP == INSTANCE IngestProofs WITH
        Deployments <- {"pipe"}, MaxFaults <- 0,
        out <- iOut, taken <- iTaken, reader <- P!Running

PP == INSTANCE ParserProofs WITH
        Lines <- Minted \cup {LogRecord},
        pc <- pPc, code <- pCode, input <- pInput, out <- pOut, taken <- pTaken, reader <- pReader

\* The instances satisfy the assumptions of their modules.
LEMMA Sizes ==
    /\ PerClient \in Nat /\ PipeCap \in Nat \ {0}
    /\ {"pipe"} \subseteq {"pipe", "file"} /\ 0 \in Nat
    /\ MaxLines \in Nat
    /\ \A t \in DOMAIN Utc : Utc[t] \in DOMAIN Utc /\ Utc[Utc[t]] = Utc[t]
  <1>1. Cardinality(Clients) \in Nat
    BY FeedAssumption, FS_CardinalityType
  <1> QED
    BY <1>1, FeedAssumption DEF MaxLines

\* Sets are counted alike in the instances and here.
LEMMA SameCounting ==
    /\ \A S : PP!Cardinality(S) = Cardinality(S)
    /\ \A S : IP!Cardinality(S) = Cardinality(S)
    /\ \A S : IP!IsFiniteSet(S) <=> IsFiniteSet(S)
    /\ \A S : PP!IsFiniteSet(S) <=> IsFiniteSet(S)
  <1>1. \A S : PP!Cardinality(S) = Cardinality(S)
    BY DEF PP!Cardinality, Cardinality
  <1>2. \A S : IP!Cardinality(S) = Cardinality(S)
    BY DEF IP!Cardinality, Cardinality
  <1>3. \A S : IP!IsFiniteSet(S) <=> IsFiniteSet(S)
    BY DEF IP!IsFiniteSet, IsFiniteSet
  <1>4. \A S : PP!IsFiniteSet(S) <=> IsFiniteSet(S)
    BY DEF PP!IsFiniteSet, IsFiniteSet
  <1> QED
    BY <1>1, <1>2, <1>3, <1>4

-----------------------------------------------------------------------------
(* Every step of the two is a step of ingest, or none, and of the parser.   *)

\* What Feed says of ingest is what the proofs about ingest say.
LEMMA SameIngest ==
    /\ I!Init => IP!Init
    /\ I!Alive <=> IP!Alive
    /\ \A c : I!Post(c) => IP!Post(c)
    /\ \A c : I!GivesUp(c) => IP!GivesUp(c)
    /\ \A r : I!Decode(r) => IP!Decode(r)
    /\ \A r : I!Lock(r) => IP!Lock(r)
    /\ \A r : I!Write(r) => IP!Write(r)
    /\ \A r : I!Count(r) => IP!Count(r)
    /\ \A r : I!Log(r) => IP!Log(r)
    /\ \A r : I!Reply(r) => IP!Reply(r)
    /\ I!Signal => IP!Signal
    /\ I!Shutdown => IP!Shutdown
    /\ I!Drained => IP!Drained
    /\ I!Dies => IP!Dies
    /\ I!BrokenPipe => IP!BrokenPipe
    /\ I!Requests = IP!Requests
  <1> USE DEF I!Requests, IP!Requests, I!Client, IP!Client, I!serverVars, IP!serverVars,
              I!stdoutVars, IP!stdoutVars, I!clientVars, IP!clientVars,
              I!Active, IP!Active, I!Listening, IP!Listening, I!Alive, IP!Alive,
              I!Last, IP!Last, I!Chunk, IP!Chunk, I!Main, IP!Main,
              I!StdoutIsPipe, IP!StdoutIsPipe, I!Room, IP!Room, I!Writable, IP!Writable,
              I!BrokenWrite, IP!BrokenWrite, I!WholeWrite, IP!WholeWrite,
              I!Starts, IP!Starts, I!CountFailed, IP!CountFailed, I!Goto, IP!Goto,
              I!Logs, IP!Logs, I!LogLine, IP!LogLine
  <1>1. I!Init => IP!Init
    BY DEF I!Init, IP!Init
  <1>2. \A c : I!Post(c) => IP!Post(c)
    BY DEF I!Post, IP!Post
  <1>3. \A c : I!GivesUp(c) => IP!GivesUp(c)
    BY DEF I!GivesUp, IP!GivesUp
  <1>4. \A r : I!Decode(r) => IP!Decode(r)
    BY DEF I!Decode, IP!Decode
  <1>5. \A r : I!Lock(r) => IP!Lock(r)
    BY DEF I!Lock, IP!Lock
  <1>6. \A r : I!Write(r) => IP!Write(r)
    BY DEF I!Write, IP!Write
  <1>7. \A r : I!Count(r) => IP!Count(r)
    BY DEF I!Count, IP!Count
  <1>8. \A r : I!Log(r) => IP!Log(r)
    BY DEF I!Log, IP!Log
  <1>9. \A r : I!Reply(r) => IP!Reply(r)
    BY DEF I!Reply, IP!Reply
  <1>10. I!Signal => IP!Signal
    BY DEF I!Signal, IP!Signal
  <1>11. I!Shutdown => IP!Shutdown
    BY DEF I!Shutdown, IP!Shutdown
  <1>12. I!Drained => IP!Drained
    BY DEF I!Drained, IP!Drained
  <1>13. I!Dies => IP!Dies
    BY DEF I!Dies, IP!Dies
  <1>14. I!BrokenPipe => IP!BrokenPipe
    BY DEF I!BrokenPipe, IP!BrokenPipe
  <1>15. (I!Alive <=> IP!Alive) /\ I!Requests = IP!Requests
    OBVIOUS
  <1> HIDE DEF I!Requests, IP!Requests, I!Alive, IP!Alive
  <1> QED
    BY <1>1, <1>2, <1>3, <1>4, <1>5, <1>6, <1>7, <1>8, <1>9, <1>10, <1>11, <1>12, <1>13,
       <1>14, <1>15

\* And of the parser.
LEMMA SameParser ==
    /\ P!Init => PP!Init
    /\ P!Running <=> PP!Running
    /\ P!ReadLine => PP!ReadLine
    /\ P!EndOfInput => PP!EndOfInput
    /\ P!WriteLine => PP!WriteLine
    /\ P!WriteFails => PP!WriteFails
    /\ P!Kill => PP!Kill
    /\ P!TakeLine => PP!TakeLine
    /\ P!ReaderDies => PP!ReaderDies
    /\ \A l : P!Decodes(l) <=> PP!Decodes(l)
    /\ \A l : P!Acceptable(l) <=> PP!Acceptable(l)
  <1> USE DEF P!Running, PP!Running, P!Current, PP!Current, P!Enriched, PP!Enriched
  <1> USE DEF P!Value, PP!Value, P!Null, PP!Null, P!Text, PP!Text, P!Get, PP!Get,
              P!Timestamps, PP!Timestamps
  <1>1. \A l : P!Enrich(l) = PP!Enrich(l)
    <2> SUFFICES ASSUME NEW l
                 PROVE  P!Enrich(l) = PP!Enrich(l)
      OBVIOUS
    <2>1. P!Ts(l) = PP!Ts(l)
      BY DEF P!Ts, PP!Ts
    <2>2. \A words : P!MentionsOneOf(l.source, words) <=> PP!MentionsOneOf(l.source, words)
      BY DEF P!MentionsOneOf, PP!MentionsOneOf, P!Lower, PP!Lower
    <2>3. P!Text(P!Classify(l)) = PP!Text(PP!Classify(l))
      <3>1. /\ P!Get(l.raw, "event_class") = PP!Get(l.raw, "event_class")
            /\ \A w : P!Lower(w) = PP!Lower(w)
            /\ P!Classes = PP!Classes
        BY DEF P!Lower, PP!Lower, P!Classes, PP!Classes
      <3>2. \A a : P!Text(a) = PP!Text(a)
        OBVIOUS
      <3> HIDE DEF P!Get, PP!Get, P!Text, PP!Text
      <3>3. P!Classify(l) = PP!Classify(l)
        BY <2>2, <3>1, SMT DEF P!Classify, PP!Classify
      <3> QED
        BY <3>2, <3>3
    <2>4. P!Text(P!Severity(l.raw)) = PP!Text(PP!Severity(l.raw))
      BY DEF P!Severity, PP!Severity, P!Severities, PP!Severities, P!Aliases, PP!Aliases,
             P!Lower, PP!Lower
    <2>5. \A f : P!StringField(l.raw, f) = PP!StringField(l.raw, f)
      BY DEF P!StringField, PP!StringField
    <2>6. \A f : P!U16Field(l.raw, f) = PP!U16Field(l.raw, f)
      BY DEF P!U16Field, PP!U16Field, P!U16, PP!U16
    <2>7. P!Geo(l.raw) = PP!Geo(l.raw)
      BY <2>5 DEF P!Geo, PP!Geo
    <2> HIDE DEF P!Text, PP!Text
    <2> QED
      BY <2>1, <2>3, <2>4, <2>5, <2>6, <2>7
         DEF P!Enrich, PP!Enrich, P!StringFields, PP!StringFields, P!PortFields, PP!PortFields
  <1>2. \A l : P!Decodes(l) <=> PP!Decodes(l)
    BY DEF P!Decodes, PP!Decodes, P!Required, PP!Required
  <1>3. \A l : P!Dated(l) <=> PP!Dated(l)
    BY DEF P!Dated, PP!Dated, P!Timestamps, PP!Timestamps
  <1>4. \A l : P!Handle(l) => PP!Handle(l)
    BY <1>2, <1>3 DEF P!Handle, PP!Handle
  <1>5. P!ReadLine => PP!ReadLine
    BY <1>4 DEF P!ReadLine, PP!ReadLine
  <1>6. P!EndOfInput => PP!EndOfInput
    BY DEF P!EndOfInput, PP!EndOfInput
  <1>7. P!WriteLine => PP!WriteLine
    BY <1>1 DEF P!WriteLine, PP!WriteLine
  <1>8. P!WriteFails => PP!WriteFails
    BY DEF P!WriteFails, PP!WriteFails
  <1>9. P!Kill => PP!Kill
    BY <1>1 DEF P!Kill, PP!Kill
  <1>10. P!TakeLine => PP!TakeLine
    BY DEF P!TakeLine, PP!TakeLine
  <1>11. P!ReaderDies => PP!ReaderDies
    BY DEF P!ReaderDies, PP!ReaderDies
  <1>12. P!Init => PP!Init
    BY DEF P!Init, PP!Init
  <1>13. \A l : P!Acceptable(l) <=> PP!Acceptable(l)
    BY <1>2, <1>3 DEF P!Acceptable, PP!Acceptable
  <1> QED
    BY <1>2, <1>5, <1>6, <1>7, <1>8, <1>9, <1>10, <1>11, <1>12, <1>13

\* A client, a handler or the process of ingest moves; the parser does not.
LEMMA IngestMoves ==
    ASSUME IngestWorks
    PROVE  IP!Next /\ UNCHANGED <<iTaken, parserVars>>
  <1>1. CASE \E c \in Clients : I!Post(c) \/ I!GivesUp(c)
    BY <1>1, SameIngest DEF IP!Next, IngestWorks
  <1>2. CASE \E r \in I!Requests : \/ I!Decode(r) \/ I!Lock(r) \/ I!Write(r) \/ I!Count(r)
                                   \/ I!Log(r) \/ I!Reply(r)
    <2>1. PICK r \in IP!Requests : \/ IP!Decode(r) \/ IP!Lock(r) \/ IP!Write(r) \/ IP!Count(r)
                                   \/ IP!Log(r) \/ IP!Reply(r)
      BY <1>2, SameIngest
    <2> QED
      BY <2>1 DEF IP!Next, IngestWorks
  <1>3. CASE I!Signal \/ I!Shutdown \/ I!Drained \/ I!Dies \/ I!BrokenPipe
    BY <1>3, SameIngest DEF IP!Next, IngestWorks
  <1> QED
    BY <1>1, <1>2, <1>3 DEF IngestWorks

\* The parser, or the stage behind it, moves; ingest does not.
LEMMA ParserMoves ==
    ASSUME ParserReads \/ ParserSeesEnd \/ ParserWorks \/ Behind
    PROVE  PP!Next /\ UNCHANGED ingestVars
  BY SameParser DEF ParserReads, ParserSeesEnd, ParserWorks, Behind, PP!Next

\* Every step of the two is one of the parser or leaves it alone.
LEMMA ParserSteps == [Next]_vars => [PP!Next]_(PP!vars)
  <1>1. UNCHANGED parserVars => UNCHANGED PP!vars
    BY DEF parserVars, PP!vars
  <1> QED
    BY <1>1, IngestMoves, ParserMoves DEF Next, vars, parserVars

\* So a behaviour of the two is one of the parser.
LEMMA ParserSpec == Spec => PP!Spec
  <1>1. Init => PP!Init
    BY SameParser DEF Init
  <1> QED
    BY <1>1, ParserSteps, PTL DEF Spec, PP!Spec

\* The parser behind ingest keeps the invariant of the parser.
LEMMA ParserHolds == Spec => []PP!IInv
  <1>1. PP!Spec => []PP!IInv
    BY PP!Inductive, Sizes
  <1> QED
    BY <1>1, ParserSpec, PTL

\* Nothing turns the pipe into something else.
LEMMA PipeStays == IP!Next => UNCHANGED stdout
  <1> USE DEF IP!serverVars, IP!stdoutVars, IP!clientVars
  <1>1. ASSUME NEW c \in Clients, IP!Post(c) \/ IP!GivesUp(c)
        PROVE  UNCHANGED stdout
    BY <1>1 DEF IP!Post, IP!GivesUp
  <1>2. ASSUME NEW r \in IP!Requests,
               \/ IP!Decode(r) \/ IP!Lock(r) \/ IP!Write(r) \/ IP!WriteFails(r) \/ IP!Count(r)
               \/ IP!Complain(r) \/ IP!Log(r) \/ IP!Reply(r)
        PROVE  UNCHANGED stdout
    BY <1>2 DEF IP!Decode, IP!Lock, IP!Write, IP!WriteFails, IP!Count, IP!Complain, IP!Log,
                IP!Reply, IP!LogLine
  <1>3. CASE IP!Signal \/ IP!Shutdown \/ IP!Drained \/ IP!Dies \/ IP!BrokenPipe
             \/ IP!ReadLine \/ IP!ReaderDies
    BY <1>3 DEF IP!Signal, IP!Shutdown, IP!Drained, IP!Dies, IP!BrokenPipe, IP!ReadLine,
                IP!ReaderDies
  <1> QED
    BY <1>1, <1>2, <1>3 DEF IP!Next

\* The deployment that Feed is about.
IsPiped == stdout = "pipe"

\* Ingest writes into the pipe from the beginning to the end.
LEMMA Piped == Spec => []IsPiped
  <1>1. Init => IsPiped
    BY SameIngest DEF Init, IP!Init, IsPiped
  <1>2. IsPiped /\ [Next]_vars => IsPiped'
    BY IngestMoves, ParserMoves, PipeStays DEF Next, vars, ingestVars, IsPiped
  <1> QED
    BY <1>1, <1>2, PTL DEF Spec

-----------------------------------------------------------------------------

\* What the parser may find in a line of ingest.
RecordsOf(chunk) == IF chunk.what = "event" THEN Minted ELSE {LogRecord}

\* A line that is read is the next one of ingest.  The parser goes on, with an
\* event to be written or an error counted, or that line is its end.
LEMMA Reads ==
    ASSUME PP!IInv, ParserReads
    PROVE  /\ pPc = "read" /\ pInput \in Seq(Minted \cup {LogRecord})
           /\ \E l \in RecordsOf(iOut[iTaken + 1]) :
                 /\ l \in Minted \cup {LogRecord} /\ pInput' = Append(pInput, l)
                 /\ \/ l.kind = "text" /\ pPc' \in {"read", "write"} /\ iTaken' = iTaken + 1
                    \/ pPc' = "ended" /\ pCode' = 1 /\ iTaken' = iTaken
  <1> DEFINE L == Minted \cup {LogRecord}
  <1>1. PICK l \in RecordsOf(iOut[iTaken + 1]) : pInput' = Append(pInput, l)
    BY DEF ParserReads, RecordsOf
  <1>2. pPc = "read" /\ pInput \in Seq(L) /\ l \in L
    BY <1>1 DEF ParserReads, P!ReadLine, RecordsOf, PP!IInv, PP!Typed
  <1>3. PICK m \in L : pInput' = Append(pInput, m) /\ PP!Handle(m)
    BY SameParser DEF ParserReads, PP!ReadLine
  <1>4. m = l
    <2>1. \A x \in L : Append(pInput, x)[Len(pInput) + 1] = x
      BY <1>2
    <2>2. Append(pInput, l) = Append(pInput, m)
      BY <1>1, <1>3
    <2>3. /\ Append(pInput, l)[Len(pInput) + 1] = l
          /\ Append(pInput, m)[Len(pInput) + 1] = m
      BY <1>2, <1>3, <2>1
    <2> QED
      BY ONLY <2>2, <2>3
  <1>5. l.kind \in {"text", "garbled"}
    BY <1>2, FeedAssumption
  <1>6. \/ l.kind = "text" /\ pPc' \in {"read", "write"}
        \/ pPc' = "ended" /\ pCode' = 1
    <2>1. PP!Handle(l) /\ (PP!Decodes(l) => l.kind = "text")
      BY <1>3, <1>4 DEF PP!Decodes
    <2>2. CASE l.kind = "text"
      BY <1>2, <2>1, <2>2 DEF PP!Handle
    <2>3. CASE l.kind = "garbled"
      BY <2>1, <2>3 DEF PP!Handle
    <2> QED
      BY <1>5, <2>2, <2>3
  <1>7. iTaken' = IF pPc' \in {"read", "write"} THEN iTaken + 1 ELSE iTaken
    BY DEF ParserReads, P!Running
  <1> QED
    BY <1>1, <1>2, <1>6, <1>7

\* What the parser does is for ingest that its reader reads, dies or does
\* neither.
LEMMA IngestSteps ==
    ASSUME IsPiped, PP!IInv, [Next]_vars
    PROVE  [IP!Next]_(IP!vars)
  <1> USE DEF IP!vars, IP!serverVars, IP!stdoutVars, IP!clientVars, ingestVars, parserVars,
              P!Running, IsPiped
  <1>1. CASE IngestWorks
    BY <1>1, IngestMoves
  <1>2. CASE ParserReads
    <2>1. UNCHANGED ingestVars /\ P!Running = TRUE /\ iTaken < Len(iOut)
      BY <1>2, Reads DEF ParserReads
    <2>2. CASE pPc' \in {"read", "write"} /\ iTaken' = iTaken + 1
      <3>1. IP!ReadLine
        BY <2>1, <2>2 DEF IP!ReadLine, IP!StdoutIsPipe
      <3> QED
        BY <3>1 DEF IP!Next
    <2>3. CASE pPc' = "ended" /\ iTaken' = iTaken
      <3>1. IP!ReaderDies
        BY <2>1, <2>3 DEF IP!ReaderDies, IP!StdoutIsPipe
      <3> QED
        BY <3>1 DEF IP!Next
    <2> QED
      BY <1>2, <2>2, <2>3, Reads
  <1>3. CASE ParserSeesEnd \/ ParserWorks \/ Behind
    <2>1. UNCHANGED <<ingestVars, iTaken>>
      BY <1>3 DEF ParserSeesEnd, ParserWorks, Behind
    <2>2. \/ pPc' = pPc
          \/ pPc \in {"read", "write"} /\ pPc' \in {"read", "ended", "killed"}
      BY <1>3 DEF ParserSeesEnd, ParserWorks, Behind, P!EndOfInput, P!WriteLine, P!WriteFails,
                  P!Kill, P!TakeLine, P!ReaderDies
    <2>3. CASE pPc' = pPc \/ (pPc \in {"read", "write"} /\ pPc' = "read")
      BY <2>1, <2>3
    <2>4. CASE pPc \in {"read", "write"} /\ pPc' \in {"ended", "killed"}
      <3>1. IP!ReaderDies
        BY <2>1, <2>4 DEF IP!ReaderDies, IP!StdoutIsPipe
      <3> QED
        BY <3>1 DEF IP!Next
    <2> QED
      BY <2>2, <2>3, <2>4
  <1>4. CASE UNCHANGED vars
    BY <1>4 DEF vars
  <1> QED
    BY <1>1, <1>2, <1>3, <1>4 DEF Next

\* So a behaviour of the two is one of ingest.
LEMMA IngestSpec == Spec => IP!Spec
  <1>1. Init => IP!Init
    BY SameIngest DEF Init
  <1>2. IsPiped /\ PP!IInv /\ [Next]_vars => [IP!Next]_(IP!vars)
    BY IngestSteps
  <1> QED
    BY <1>1, <1>2, Piped, ParserHolds, PTL DEF Spec, IP!Spec

\* Ingest in front of the parser keeps the invariant of ingest.
LEMMA IngestHolds == Spec => []IP!IInv
  <1>1. IP!Spec => []IP!IInv
    BY IP!Inductive, Sizes
  <1> QED
    BY <1>1, IngestSpec, PTL

-----------------------------------------------------------------------------
(* What the parser has read and what ingest has written.                    *)

\* On a pipe every write is whole.
Whole(chunk) ==
    /\ chunk \in IP!Chunks
    /\ chunk.whole = TRUE
    /\ chunk.what = "event" => chunk.req \in IP!Requests

\* The parser has read the lines that ingest wrote one after the other, and all
\* of them when it ended well; the one that ended it is not taken.
Linked ==
    /\ \/ Len(pInput) = iTaken /\ \A k \in 1..Len(pInput) : pInput[k].kind = "text"
       \/ pPc = "ended" /\ pCode = 1 /\ Len(pInput) = iTaken + 1 /\ iTaken < Len(iOut)
    /\ \A k \in 1..Len(pInput) : pInput[k] \in RecordsOf(iOut[k])
    /\ \A k \in 1..Len(iOut) : Whole(iOut[k])
    /\ CleanEnd => ~IP!Alive /\ iTaken = Len(iOut)

\* A write of an event or of the logger puts one whole line behind the others.
LEMMA WholeWrites ==
    ASSUME IsPiped, NEW what, NEW r, IP!WholeWrite(what, r) \/ IP!BrokenWrite(what, r),
           \/ what = "event" /\ r \in IP!Requests
           \/ what = "log" /\ r \in IP!Requests \cup {IP!Main}
    PROVE  \E c : Whole(c) /\ iOut' = Append(iOut, c)
  <1>1. iOut' = Append(iOut, IP!Chunk(what, r, TRUE))
    BY DEF IsPiped, IP!WholeWrite, IP!BrokenWrite, IP!StdoutIsPipe
  <1>2. Whole(IP!Chunk(what, r, TRUE))
    BY DEF Whole, IP!Chunk, IP!Chunks
  <1> QED
    BY <1>1, <1>2

\* Ingest that has ended writes nothing and does not come back.
LEMMA IngestWrites ==
    ASSUME IsPiped, IP!Next
    PROVE  /\ iOut' = iOut \/ (IP!Alive /\ \E c : Whole(c) /\ iOut' = Append(iOut, c))
           /\ ~IP!Alive => ~IP!Alive'
  <1> USE DEF IP!serverVars, IP!stdoutVars, IP!clientVars
  <1>1. ASSUME NEW c \in Clients, IP!Post(c) \/ IP!GivesUp(c)
        PROVE  UNCHANGED <<server, iOut>>
    BY <1>1 DEF IP!Post, IP!GivesUp
  <1>2. ASSUME NEW r \in IP!Requests,
               \/ IP!Decode(r) \/ IP!Lock(r) \/ IP!Count(r) \/ IP!Reply(r)
        PROVE  UNCHANGED <<server, iOut>>
    BY <1>2 DEF IP!Decode, IP!Lock, IP!Count, IP!Reply
  <1>3. ASSUME NEW r \in IP!Requests, IP!Write(r) \/ IP!WriteFails(r)
        PROVE  /\ IP!Alive /\ UNCHANGED server
               /\ \E c : Whole(c) /\ iOut' = Append(iOut, c)
    <2>1. /\ IP!Alive /\ UNCHANGED server
          /\ IP!WholeWrite("event", r) \/ IP!BrokenWrite("event", r)
      BY <1>3 DEF IP!Write, IP!WriteFails
    <2> QED
      BY <2>1, WholeWrites
  <1>4. ASSUME NEW r \in IP!Requests, IP!Complain(r) \/ IP!Log(r)
        PROVE  /\ IP!Alive /\ UNCHANGED server
               /\ \E c : Whole(c) /\ iOut' = Append(iOut, c)
    <2>1. /\ IP!Alive /\ UNCHANGED server
          /\ IP!WholeWrite("log", r) \/ IP!BrokenWrite("log", r)
      BY <1>4 DEF IP!Complain, IP!Log, IP!LogLine, IP!Logs
    <2> QED
      BY <2>1, WholeWrites
  <1>5. CASE IP!Signal \/ IP!Drained \/ IP!BrokenPipe
    BY <1>5 DEF IP!Signal, IP!Drained, IP!BrokenPipe, IP!Alive, IP!Listening
  <1>6. CASE IP!Shutdown \/ IP!Dies
    <2>1. /\ IP!Alive
          /\ \/ iOut' = iOut
             \/ IP!WholeWrite("log", IP!Main) \/ IP!BrokenWrite("log", IP!Main)
      BY <1>6 DEF IP!Shutdown, IP!Dies, IP!Logs, IP!Alive, IP!Listening
    <2> QED
      BY <2>1, WholeWrites
  <1>7. CASE IP!ReadLine \/ IP!ReaderDies
    BY <1>7 DEF IP!ReadLine, IP!ReaderDies, IP!Alive, IP!Listening
  <1>8. UNCHANGED server /\ ~IP!Alive => ~IP!Alive'
    BY DEF IP!Alive, IP!Listening
  <1> QED
    BY <1>1, <1>2, <1>3, <1>4, <1>5, <1>6, <1>7, <1>8 DEF IP!Next

\* At first the start-up line of ingest is in the pipe and nothing is read.
LEMMA InitLinked == Init => Linked
  <1> SUFFICES ASSUME Init
               PROVE  Linked
    OBVIOUS
  <1>1. pInput = <<>> /\ pPc = "read" /\ iTaken = 0
    BY SameParser, SameIngest DEF Init, PP!Init, IP!Init
  <1>2. iOut = <<IP!Chunk("log", IP!Main, TRUE)>>
    BY SameIngest DEF Init, IP!Init, IP!Starts, IP!StdoutIsPipe
  <1>3. Whole(IP!Chunk("log", IP!Main, TRUE))
    BY DEF Whole, IP!Chunk, IP!Chunks
  <1>4. Len(iOut) = 1 /\ Whole(iOut[1])
    BY <1>2, <1>3
  <1>5. ~CleanEnd
    BY <1>1 DEF CleanEnd
  <1> QED
    BY <1>1, <1>4, <1>5 DEF Linked

\* A line is read as it was written, and none is written once ingest has ended.
LEMMA NextLinked == Linked /\ IsPiped /\ IP!IInv /\ PP!IInv /\ [Next]_vars => Linked'
  <1> SUFFICES ASSUME Linked, IsPiped, IP!IInv, PP!IInv, [Next]_vars,
                      NEW n \in Nat, n = Len(iOut), NEW m \in Nat, m = Len(pInput)
               PROVE  Linked'
    BY DEF IP!IInv, IP!Types, PP!IInv, PP!Typed
  <1> DEFINE Ended == pPc = "ended" /\ pCode = 1
             InStep(len, taken) ==
                 \/ len = taken /\ \A k \in 1..len : pInput[k].kind = "text"
                 \/ Ended /\ len = taken + 1 /\ taken < n
  <1>1. /\ iOut \in Seq(IP!Chunks) /\ iTaken \in 0..n
        /\ pInput \in Seq(Minted \cup {LogRecord})
        /\ InStep(m, iTaken) /\ m =< n
        /\ \A k \in 1..m : pInput[k] \in RecordsOf(iOut[k])
        /\ \A k \in 1..n : Whole(iOut[k])
        /\ CleanEnd => ~IP!Alive /\ iTaken = n
    BY DEF IP!IInv, IP!Types, PP!IInv, PP!Typed, Linked
  <1>2. CASE IngestWorks
    <2>1. /\ IP!Next
          /\ pInput' = pInput /\ iTaken' = iTaken /\ (CleanEnd' <=> CleanEnd)
          /\ pPc' = pPc /\ pCode' = pCode
      BY <1>2, IngestMoves DEF parserVars, CleanEnd
    <2>2. CASE iOut' = iOut
      BY <1>1, <2>1, <2>2, IngestWrites DEF Linked, RecordsOf
    <2>3. CASE IP!Alive /\ \E c : Whole(c) /\ iOut' = Append(iOut, c)
      <3>1. PICK c : Whole(c) /\ iOut' = Append(iOut, c)
        BY <2>3
      <3>2. /\ Len(iOut') = n + 1
            /\ \A k \in 1..n : iOut'[k] = iOut[k]
            /\ iOut'[n + 1] = c
        BY <1>1, <3>1 DEF Whole
      <3>3. \A k \in 1..n+1 : k \in 1..n \/ k = n + 1
        OBVIOUS
      <3>4. \A k \in 1..m : k \in 1..n
        BY <1>1
      <3>5. ~CleanEnd'
        BY <1>1, <2>1, <2>3
      <3>6. \A k \in 1..m : pInput'[k] \in RecordsOf(iOut'[k])
        BY <1>1, <2>1, <3>2, <3>4
      <3>7. \A k \in 1..Len(iOut') : Whole(iOut'[k])
        BY <1>1, <3>1, <3>2, <3>3
      <3>8. \/ m = iTaken /\ \A k \in 1..m : pInput'[k].kind = "text"
            \/ pPc' = "ended" /\ pCode' = 1 /\ m = iTaken + 1 /\ iTaken < n + 1
        BY <1>1, <2>1
      <3> QED
        BY <2>1, <3>2, <3>5, <3>6, <3>7, <3>8 DEF Linked, RecordsOf
    <2> QED
      BY <2>1, <2>2, <2>3, IngestWrites
  <1>3. CASE ParserReads
    <2>1. iTaken < n /\ UNCHANGED ingestVars /\ pPc = "read"
      BY <1>3, Reads DEF ParserReads
    <2>2. m = iTaken /\ \A k \in 1..m : pInput[k].kind = "text"
      BY <1>1, <2>1
    <2>3. PICK l \in RecordsOf(iOut[iTaken + 1]) :
             /\ l \in Minted \cup {LogRecord} /\ pInput' = Append(pInput, l)
             /\ \/ l.kind = "text" /\ pPc' \in {"read", "write"} /\ iTaken' = iTaken + 1
                \/ pPc' = "ended" /\ pCode' = 1 /\ iTaken' = iTaken
      BY <1>3, Reads
    <2>4. /\ Len(pInput') = m + 1
          /\ \A k \in 1..m : pInput'[k] = pInput[k]
          /\ pInput'[m + 1] = l
      BY <1>1, <2>3
    <2>5. \A k \in 1..m+1 : k \in 1..m \/ k = m + 1
      OBVIOUS
    <2>6. \A k \in 1..m+1 : pInput'[k] \in RecordsOf(iOut[k])
      BY <1>1, <2>2, <2>3, <2>4, <2>5
    <2>7. \/ m + 1 = iTaken' /\ \A k \in 1..m+1 : pInput'[k].kind = "text"
          \/ pPc' = "ended" /\ pCode' = 1 /\ m + 1 = iTaken' + 1 /\ iTaken' < n
      BY <2>1, <2>2, <2>3, <2>4, <2>5
    <2>8. ~CleanEnd' /\ iOut' = iOut
      BY <2>1, <2>3 DEF CleanEnd, ingestVars
    <2> QED
      BY <1>1, <2>4, <2>6, <2>7, <2>8 DEF Linked, RecordsOf
  <1>4. CASE ParserSeesEnd \/ ParserWorks
    <2>1. UNCHANGED <<ingestVars, iTaken, pInput>> /\ pPc \in {"read", "write"}
      BY <1>4 DEF ParserSeesEnd, ParserWorks, P!EndOfInput, P!WriteLine, P!WriteFails,
                  P!Kill, P!Running
    <2>2. ParserSeesEnd => ~IP!Alive /\ iTaken = n
      BY SameIngest DEF ParserSeesEnd
    <2>3. ParserWorks => pPc' # "ended" \/ pCode' = 1
      BY DEF ParserWorks, P!WriteLine, P!WriteFails, P!Kill
    <2>4. CleanEnd' => ~IP!Alive /\ iTaken = n
      BY <1>4, <2>2, <2>3 DEF CleanEnd
    <2>5. m = iTaken /\ \A k \in 1..m : pInput[k].kind = "text"
      BY <1>1, <2>1
    <2> QED
      BY <1>1, <2>1, <2>4, <2>5 DEF Linked, ingestVars, IP!Alive, IP!Listening, RecordsOf
  <1>5. CASE Behind \/ UNCHANGED vars
    <2>1. UNCHANGED <<ingestVars, iTaken, pInput, pPc, pCode>>
      BY <1>5 DEF Behind, P!TakeLine, P!ReaderDies, vars, parserVars
    <2> QED
      BY <1>1, <2>1 DEF Linked, ingestVars, IP!Alive, IP!Listening, RecordsOf, CleanEnd
  <1> QED
    BY <1>2, <1>3, <1>4, <1>5 DEF Next

\* So the two are linked for good.
LEMMA LinkHolds == Spec => []Linked
  BY InitLinked, NextLinked, Piped, IngestHolds, ParserHolds, PTL DEF Spec

-----------------------------------------------------------------------------
(* The parser has read everything and ended well.                           *)

Events == {k \in 1..Len(iOut) : iOut[k].what = "event"}

Enriched == Events \ Rejected

\* Then the records are the event lines of ingest that the parser accepts, in
\* their order, each once.
LEMMA CleanEndFacts ==
    ASSUME CleanEnd, Linked, IP!IInv, PP!IInv
    PROVE  /\ Len(iOut) \in Nat /\ Len(pInput) = Len(iOut) /\ ~IP!Alive
           /\ \A k \in 1..Len(iOut) :
                 /\ Whole(iOut[k]) /\ pInput[k].kind = "text"
                 /\ PP!Acceptable(pInput[k]) <=> k \in Enriched
           /\ Rejected \subseteq Events
           /\ \A j, k \in 1..Len(pOut) : j < k => pOut[j].line < pOut[k].line
           /\ \A k \in 1..Len(pOut) : pOut[k].line \in Enriched
           /\ \A i \in Enriched : \E k \in 1..Len(pOut) : pOut[k].line = i
           /\ Len(pOut) \in Nat
  <1>1. LogRecord.kind = "text" /\ ~PP!Acceptable(LogRecord)
    BY FeedAssumption, SameParser DEF PP!Acceptable, PP!Decodes
  <1>2. /\ Len(iOut) \in Nat /\ Len(pInput) = Len(iOut) /\ ~IP!Alive
        /\ \A k \in 1..Len(iOut) : /\ Whole(iOut[k]) /\ pInput[k].kind = "text"
                                    /\ pInput[k] \in RecordsOf(iOut[k])
    BY DEF Linked, CleanEnd, IP!IInv, IP!Types
  <1>3. /\ Rejected \subseteq Events
        /\ \A k \in Events : k \in Rejected <=> ~PP!Acceptable(pInput[k])
    BY <1>2, SameParser DEF Rejected, EventLines, Events
  <1>4. \A k \in 1..Len(iOut) : PP!Acceptable(pInput[k]) <=> k \in Enriched
    BY <1>1, <1>2, <1>3 DEF RecordsOf, Events, Enriched
  <1>5. Enriched = {i \in 1..Len(pInput) : PP!Acceptable(pInput[i])}
    BY <1>2, <1>4 DEF Events, Enriched
  <1>6. /\ \A j, k \in 1..Len(pOut) : j < k => pOut[j].line < pOut[k].line
        /\ \A k \in 1..Len(pOut) : pOut[k].line \in Enriched
        /\ \A i \in Enriched : \E k \in 1..Len(pOut) : pOut[k].line = i
    BY <1>5 DEF PP!IInv, PP!OutputFollowsInput, CleanEnd
  <1>7. Len(pOut) \in Nat
    BY DEF PP!IInv, PP!Typed
  <1> QED
    BY <1>2, <1>3, <1>4, <1>6, <1>7

\* What ingest knows of the lines of a request.
LEMMA RequestLines ==
    ASSUME Linked, IP!IInv
    PROVE  /\ \A i \in Events : iOut[i].req \in IP!Requests
           /\ \A i, j \in Events : iOut[i].req = iOut[j].req => i = j
           /\ \A r \in IP!Requests : IP!Published(r) <=> \E i \in Events : iOut[i].req = r
           /\ \A r \in acked : r \in IP!Requests /\ IP!Published(r)
           /\ \A r, s \in IP!Requests :
                 (r[1] = s[1] /\ r[2] < s[2] /\ r \in acked) =>
                     \A i, j \in Events : iOut[i].req = r /\ iOut[j].req = s => i < j
  <1>1. \A i \in Events : iOut[i].whole /\ iOut[i].req \in IP!Requests
    BY DEF Events, Linked, Whole
  <1>2. \A r : IP!EventLines(r) = {i \in Events : iOut[i].req = r}
    BY DEF Events, IP!EventLines
  <1>3. \A r \in IP!Requests : IP!Published(r) <=> \E i \in Events : iOut[i].req = r
    BY <1>1, <1>2 DEF IP!Published
  <1>4. \A r \in IP!Requests : /\ \A i, j \in IP!EventLines(r) : i = j
                               /\ r \in acked => IP!Published(r)
    BY DEF IP!IInv, IP!Steps, IP!Progress
  <1>5. \A r, s \in IP!Requests :
           (r[1] = s[1] /\ r[2] < s[2] /\ r \in acked) =>
               \A i \in IP!EventLines(r), j \in IP!EventLines(s) : i < j
    BY DEF IP!IInv, IP!SentKeepsOrder, IP!Client
  <1>6. acked \subseteq IP!Requests
    BY DEF IP!IInv, IP!Types
  <1> HIDE DEF Events
  <1>7. \A i, j \in Events : iOut[i].req = iOut[j].req => i = j
    BY <1>1, <1>2, <1>4
  <1>8. \A r, s \in IP!Requests :
           (r[1] = s[1] /\ r[2] < s[2] /\ r \in acked) =>
               \A i, j \in Events : iOut[i].req = r /\ iOut[j].req = s => i < j
    BY <1>2, <1>5
  <1> QED
    BY <1>1, <1>3, <1>4, <1>6, <1>7, <1>8

\* An event line is rejected when the request behind it is: no other line has
\* that request.
LEMMA RejectedByRequest ==
    ASSUME CleanEnd, Linked, IP!IInv, PP!IInv
    PROVE  \A i \in Events : i \in Rejected <=> iOut[i].req \in RejectedRequests
  <1>1. Rejected \subseteq Events
    BY CleanEndFacts
  <1>2. \A i, j \in Events : iOut[i].req = iOut[j].req => i = j
    BY RequestLines
  <1> HIDE DEF Events, Rejected
  <1> QED
    BY <1>1, <1>2 DEF RejectedRequests

\* An event that its client counts as sent comes out of the parser, once and in
\* the order in which the client posted it, whatever became of ingest; unless
\* the parser cannot decode it, and then it does not come out.
THEOREM AcknowledgedComeOut == Spec => []AcknowledgedIsEnriched
  <1>1. Linked /\ IP!IInv /\ PP!IInv => AcknowledgedIsEnriched
    <2> SUFFICES ASSUME Linked, IP!IInv, PP!IInv, CleanEnd
                 PROVE  /\ \A r \in acked :
                              Cardinality({k \in 1..Len(pOut) : RequestOf(k) = r})
                                 = IF r \in RejectedRequests THEN 0 ELSE 1
                        /\ \A j, k \in 1..Len(pOut) :
                              LET r == RequestOf(j)  s == RequestOf(k)
                              IN  (r \in acked /\ r[1] = s[1] /\ r[2] < s[2]) => j < k
      BY DEF AcknowledgedIsEnriched
    <2>1. /\ \A j, k \in 1..Len(pOut) : j < k => pOut[j].line < pOut[k].line
          /\ \A k \in 1..Len(pOut) : pOut[k].line \in Enriched
          /\ \A i \in Enriched : \E k \in 1..Len(pOut) : pOut[k].line = i
          /\ Enriched \subseteq Events /\ Events \subseteq Nat
      BY CleanEndFacts DEF Events, Enriched
    <2>0. ASSUME NEW j \in 1..Len(pOut), NEW k \in 1..Len(pOut)
          PROVE  /\ pOut[j].line = pOut[k].line => j = k
                 /\ pOut[j].line < pOut[k].line => j < k
      <3>1. /\ pOut[j].line \in Nat /\ pOut[k].line \in Nat
            /\ j < k => pOut[j].line < pOut[k].line
            /\ k < j => pOut[k].line < pOut[j].line
        BY <2>1
      <3>2. j \in Int /\ k \in Int
        OBVIOUS
      <3> QED
        BY <3>1, <3>2
    <2>2. \A j, k \in 1..Len(pOut) : pOut[j].line = pOut[k].line => j = k
      BY <2>0
    <2>3. \A j, k \in 1..Len(pOut) : pOut[j].line < pOut[k].line => j < k
      BY <2>0
    <2>6. \A i \in Events : i \in Enriched <=> iOut[i].req \notin RejectedRequests
      BY RejectedByRequest DEF Enriched
    <2>7. ASSUME NEW r \in acked, r \in RejectedRequests
          PROVE  Cardinality({k \in 1..Len(pOut) : RequestOf(k) = r}) = 0
      <3>1. \A k \in 1..Len(pOut) : RequestOf(k) # r
        BY <2>1, <2>6, <2>7 DEF RequestOf
      <3>2. {k \in 1..Len(pOut) : RequestOf(k) = r} = {}
        BY <3>1
      <3> QED
        BY <3>2, FS_EmptySet
    <2>4. ASSUME NEW r \in acked, r \notin RejectedRequests
          PROVE  Cardinality({k \in 1..Len(pOut) : RequestOf(k) = r}) = 1
      <3>0. PICK i \in Events : iOut[i].req = r
        BY RequestLines
      <3>1. i \in Enriched /\ iOut[i].req = r
        BY <2>4, <2>6, <3>0
      <3>2. PICK k \in 1..Len(pOut) : pOut[k].line = i
        BY <2>1, <3>1
      <3>3. ASSUME NEW j \in 1..Len(pOut), RequestOf(j) = r
            PROVE  j = k
        <4>1. pOut[j].line \in Events /\ iOut[pOut[j].line].req = iOut[i].req
          BY <2>1, <3>1, <3>3 DEF RequestOf
        <4>2. pOut[j].line = i
          BY <4>1, RequestLines
        <4> QED
          BY <2>2, <3>2, <4>2
      <3>4. {j \in 1..Len(pOut) : RequestOf(j) = r} = {k}
        BY <3>1, <3>2, <3>3 DEF RequestOf
      <3> QED
        BY <3>4, FS_Singleton
    <2>5. ASSUME NEW j \in 1..Len(pOut), NEW k \in 1..Len(pOut),
                 RequestOf(j) \in acked, RequestOf(j)[1] = RequestOf(k)[1],
                 RequestOf(j)[2] < RequestOf(k)[2]
          PROVE  j < k
      <3>1. RequestOf(j) \in IP!Requests /\ RequestOf(k) \in IP!Requests
        BY <2>1, RequestLines DEF RequestOf
      <3>2. pOut[j].line < pOut[k].line
        BY <2>1, <2>5, <3>1, RequestLines DEF RequestOf
      <3> QED
        BY <2>3, <3>2
    <2> QED
      BY <2>4, <2>5, <2>7
  <1> QED
    BY <1>1, LinkHolds, IngestHolds, ParserHolds, PTL

-----------------------------------------------------------------------------
(* The counters.                                                            *)

RequestsOf(E) == {iOut[i].req : i \in E}

\* As many requests are behind some of the events as there are events.
LEMMA AsManyRequests ==
    ASSUME Linked, IP!IInv, NEW E \in SUBSET Events
    PROVE  /\ IsFiniteSet(E) /\ IsFiniteSet(RequestsOf(E))
           /\ Cardinality(E) = Cardinality(RequestsOf(E))
  <1> DEFINE g == [i \in E |-> iOut[i].req]
  <1>1. IsFiniteSet(E)
    <2>1. IsFiniteSet(1..Len(iOut))
      BY FS_Interval DEF IP!IInv, IP!Types
    <2> QED
      BY <2>1, FS_Subset DEF Events
  <1>2. \A i, j \in E : iOut[i].req = iOut[j].req => i = j
    BY RequestLines
  <1> HIDE DEF Events
  <1>3. /\ g \in [E -> RequestsOf(E)]
        /\ \A i, j \in E : g[i] = g[j] => i = j
        /\ \A r \in RequestsOf(E) : \E i \in E : g[i] = r
    BY <1>2 DEF RequestsOf
  <1> HIDE DEF g
  <1>4. g \in Bijection(E, RequestsOf(E))
    BY <1>3, Fun_IsBij
  <1>5. ExistsBijection(E, RequestsOf(E))
    BY <1>4 DEF ExistsBijection
  <1> QED
    BY <1>1, <1>5, FS_Bijection

\* One handler at most is between its write and count.Add, none once ingest has
\* ended by itself.
LEMMA OneCounting ==
    ASSUME IP!IInv, ~IP!Alive
    PROVE  /\ Cardinality(IP!Counting) \in 0..1
           /\ Cardinality(IP!Counting) = 0 \/ server = "dead"
  <1>1. \A r, s \in IP!Counting : r = s
    BY DEF IP!IInv, IP!Exclusive, IP!Holders, IP!Counting
  <1>2. CASE IP!Counting = {}
    BY <1>2, FS_EmptySet
  <1>3. CASE IP!Counting # {}
    <2>1. PICK r \in IP!Counting : TRUE
      BY <1>3
    <2>2. IP!Counting = {r}
      BY <1>1, <2>1
    <2>3. server # "exited"
      BY <2>1 DEF IP!IInv, IP!Exited, IP!Active, IP!Counting
    <2>4. server = "dead"
      BY <2>3 DEF IP!IInv, IP!Types, IP!Alive, IP!Listening
    <2> QED
      BY <2>2, <2>4, FS_Singleton
  <1> QED
    BY <1>2, <1>3

\* An interval of n numbers without some of them.
LEMMA Without ==
    ASSUME NEW n \in Nat, NEW E \in SUBSET (1..n)
    PROVE  /\ Cardinality(1..n) = n
           /\ Cardinality(E) \in Nat
           /\ Cardinality((1..n) \ E) = n - Cardinality(E)
  <1>1. IsFiniteSet(1..n) /\ Cardinality(1..n) = n
    <2>1. 1 \in Int /\ n \in Int
      OBVIOUS
    <2>2. IsFiniteSet(1..n) /\ Cardinality(1..n) = IF 1 > n THEN 0 ELSE n - 1 + 1
      BY <2>1, FS_Interval
    <2> QED
      BY <2>2
  <1> DEFINE N == 1..n
  <1>2. E \subseteq N /\ IsFiniteSet(N) /\ Cardinality(N) = n
    BY <1>1
  <1> HIDE DEF N
  <1>3. IsFiniteSet(E) /\ N \cap E = E
    BY <1>2, FS_Subset
  <1>4. Cardinality(E) \in Nat /\ Cardinality(N \ E) = Cardinality(N) - Cardinality(E)
    <2>1. Cardinality(N \ E) = Cardinality(N) - Cardinality(N \cap E)
      BY <1>2, FS_Difference
    <2> QED
      BY <1>3, <2>1, FS_CardinalityType
  <1> QED
    BY <1>2, <1>4 DEF N

\* What the parser counts once it has ended well.
LEMMA ParserCounts ==
    ASSUME CleanEnd, Linked, IP!IInv, PP!IInv
    PROVE  /\ total = Cardinality(Enriched)
           /\ Cardinality(Events) = total + Cardinality(Rejected)
           /\ errors = Cardinality(LogLines) + Cardinality(Rejected)
           /\ total + errors = Len(iOut)
           /\ total \in Nat
  <1> DEFINE n == Len(iOut)
  <1>1. /\ n \in Nat /\ Len(pInput) = n
        /\ \A k \in 1..n : /\ Whole(iOut[k]) /\ pInput[k].kind = "text"
                           /\ PP!Acceptable(pInput[k]) <=> k \in Enriched
        /\ Rejected \subseteq Events
    BY CleanEndFacts
  <1>2. LogLines = (1..n) \ Events
    BY <1>1 DEF LogLines, Events, Whole, IP!Chunks
  <1>3. /\ {i \in 1..Len(pInput) : pInput[i].kind = "text"} = 1..n
        /\ {i \in 1..n : ~PP!Acceptable(pInput[i])} = (1..n) \ Enriched
    BY <1>1
  <1>4. /\ errors = Cardinality((1..n) \ Enriched)
        /\ Cardinality(1..n) = total + errors + Cardinality(PP!Pending)
    BY <1>3, SameCounting DEF PP!IInv, PP!EveryLineAccounted, CleanEnd
  <1>5. Cardinality(PP!Pending) = 0
    BY FS_EmptySet DEF PP!Pending, CleanEnd
  <1>6. Events \in SUBSET (1..n) /\ Enriched \in SUBSET (1..n)
    BY DEF Events, Enriched
  <1> HIDE DEF n, Events
  <1>7. /\ Cardinality(1..n) = n
        /\ Cardinality(Events) \in Nat
        /\ Cardinality(LogLines) = n - Cardinality(Events)
    BY <1>1, <1>2, <1>6, Without
  <1>8. /\ Cardinality(Enriched) \in Nat
        /\ errors = n - Cardinality(Enriched)
    BY <1>1, <1>4, <1>6, Without
  <1>9. /\ Cardinality(Rejected) \in Nat
        /\ Cardinality(Enriched) = Cardinality(Events) - Cardinality(Rejected)
    <2>1. IsFiniteSet(Events) /\ Events \cap Rejected = Rejected
      BY <1>1, AsManyRequests
    <2>2. IsFiniteSet(Rejected)
      BY <1>1, <2>1, FS_Subset
    <2>3. Cardinality(Events \ Rejected) = Cardinality(Events) - Cardinality(Events \cap Rejected)
      BY <2>1, FS_Difference
    <2> QED
      BY <2>1, <2>2, <2>3, FS_CardinalityType DEF Enriched
  <1>10. total \in Nat
    BY DEF PP!IInv, PP!Typed
  <1>11. total + errors = n /\ n \in Nat
    BY <1>4, <1>5, <1>7, <1>8, <1>10, <1>1
  <1>12. /\ total = Cardinality(Enriched)
         /\ Cardinality(Events) = total + Cardinality(Rejected)
         /\ errors = Cardinality(LogLines) + Cardinality(Rejected)
    <2>1. total = Cardinality(Enriched)
      BY <1>8, <1>10, <1>11
    <2>2. Cardinality(Events) = total + Cardinality(Rejected)
      BY <1>7, <1>9, <1>10, <2>1
    <2>3. errors = Cardinality(LogLines) + Cardinality(Rejected)
      BY <1>7, <1>8, <1>9, <1>11
    <2> QED
      BY <2>1, <2>2, <2>3
  <1> QED
    BY <1>10, <1>11, <1>12 DEF n

\* What the two services say when they end fits together, and with what their
\* clients count.
THEOREM CountersFit == Spec => []CountersAgree
  <1>1. Linked /\ IP!IInv /\ PP!IInv => CountersAgree
    <2> SUFFICES ASSUME Linked, IP!IInv, PP!IInv, CleanEnd
                 PROVE  CountersAgree
      BY DEF CountersAgree
    <2>1. /\ total = Cardinality(Enriched) /\ total \in Nat
          /\ Cardinality(Events) = total + Cardinality(Rejected)
          /\ errors = Cardinality(LogLines) + Cardinality(Rejected)
          /\ total + errors = Len(iOut)
      BY ParserCounts
    <2>2. /\ Cardinality(Events) = Cardinality(IP!Lined)
          /\ Cardinality(IP!Lined) = count + Cardinality(IP!Counting)
          /\ count \in Nat
      <3>1. RequestsOf(Events) = IP!Lined
        BY RequestLines DEF IP!Lined, RequestsOf
      <3>2. Cardinality(Events) = Cardinality(IP!Lined)
        BY <3>1, AsManyRequests
      <3>3. /\ IP!Cardinality(IP!Lined) = count + IP!Cardinality(IP!Counting)
            /\ count \in Nat
        BY DEF IP!IInv, IP!Counted, IP!Types
      <3> QED
        BY <3>2, <3>3, SameCounting
    <2>3. /\ Cardinality(IP!Counting) \in 0..1
          /\ Cardinality(IP!Counting) = 0 \/ server = "dead"
      BY OneCounting, CleanEndFacts
    <2>4. /\ total + Cardinality(Rejected) \in count..count + 1
          /\ total + Cardinality(Rejected) = count \/ server = "dead"
      BY <2>1, <2>2, <2>3
    <2>5. /\ Cardinality(acked \ RejectedRequests) =< total
          /\ Cardinality(acked \ RejectedRequests) \in Nat
      <3>1. Enriched \in SUBSET Events
        BY DEF Enriched
      <3>2. acked \ RejectedRequests \subseteq RequestsOf(Enriched)
        <4>1. \A r \in acked : \E i \in Events : iOut[i].req = r
          BY RequestLines
        <4>2. \A i \in Events : i \in Enriched <=> iOut[i].req \notin RejectedRequests
          BY RejectedByRequest DEF Enriched
        <4> HIDE DEF Events, Enriched
        <4> QED
          BY <4>1, <4>2 DEF RequestsOf
      <3>3. IsFiniteSet(RequestsOf(Enriched)) /\ Cardinality(RequestsOf(Enriched)) = total
        BY <2>1, <3>1, AsManyRequests
      <3> QED
        BY <3>2, <3>3, FS_Subset, FS_CardinalityType
    <2> QED
      BY <2>1, <2>4, <2>5 DEF CountersAgree
  <1> QED
    BY <1>1, LinkHolds, IngestHolds, ParserHolds, PTL
=============================================================================
