---------------------------- MODULE IngestProofs ----------------------------
(***************************************************************************)
(* Proofs about Ingest for every set of clients, number of requests, pipe  *)
(* capacity, number of failing writes, and either kind of stdout.          *)
(***************************************************************************)
EXTENDS Ingest, FiniteSetTheorems, TLAPS

Chunks == [what : {"event", "log"}, req : Requests \cup {Main}, whole : BOOLEAN]

-----------------------------------------------------------------------------
(* The lines on stdout.                                                    *)

\* A line of the logger adds nothing to what is written of a request.
LEMMA LogKeeps ==
    ASSUME out \in Seq(Chunks), NEW e \in Chunks, e.what = "log",
           out' = out \/ out' = Append(out, e)
    PROVE  \A r : EventLines(r)' = EventLines(r) /\ Published(r)' = Published(r)
  <1>1. CASE out' = out
    BY <1>1 DEF EventLines, Published
  <1>2. CASE out' = Append(out, e)
    <2>1. /\ Len(out') = Len(out) + 1
          /\ \A i \in 1..Len(out) : out'[i] = out[i]
          /\ out'[Len(out) + 1] = e
      BY <1>2
    <2>2. \A r : EventLines(r)' = EventLines(r)
      BY <2>1 DEF EventLines
    <2>3. \A r : \A i \in EventLines(r) : out'[i] = out[i]
      BY <2>1 DEF EventLines
    <2> QED
      BY <2>2, <2>3 DEF Published
  <1> QED
    BY <1>1, <1>2

\* The line of an event, whole or torn, comes last, and is of its request alone.
LEMMA EventKeeps ==
    ASSUME out \in Seq(Chunks), NEW r \in Requests, NEW w \in BOOLEAN,
           out' = Append(out, Chunk("event", r, w))
    PROVE  /\ EventLines(r)' = EventLines(r) \cup {Len(out) + 1}
           /\ Published(r)' <=> (Published(r) \/ w)
           /\ \A s : s # r => EventLines(s)' = EventLines(s) /\ Published(s)' = Published(s)
  <1> DEFINE e == Chunk("event", r, w)
  <1>1. e \in Chunks /\ e.what = "event" /\ e.req = r /\ e.whole = w
    BY DEF Chunks, Chunk
  <1> HIDE DEF e
  <1>2. /\ Len(out) \in Nat
        /\ Len(out') = Len(out) + 1
        /\ \A i \in 1..Len(out) : out'[i] = out[i]
        /\ out'[Len(out) + 1] = e
    BY <1>1 DEF e
  <1>3. EventLines(r)' = EventLines(r) \cup {Len(out) + 1}
    BY <1>1, <1>2 DEF EventLines
  <1>4. \A s : s # r => EventLines(s)' = EventLines(s)
    BY <1>1, <1>2 DEF EventLines
  <1>5. \A s : \A i \in EventLines(s) : out'[i] = out[i]
    BY <1>2 DEF EventLines
  <1>6. Published(r)' <=> (Published(r) \/ w)
    BY <1>1, <1>2, <1>3, <1>5 DEF Published
  <1>7. \A s : s # r => Published(s)' = Published(s)
    <2> SUFFICES ASSUME NEW s, s # r
                 PROVE  Published(s)' = Published(s)
      OBVIOUS
    <2>1. EventLines(s)' = EventLines(s) /\ \A i \in EventLines(s) : out'[i] = out[i]
      BY <1>4, <1>5
    <2> QED
      BY <2>1 DEF Published
  <1> QED
    BY <1>3, <1>4, <1>6, <1>7

-----------------------------------------------------------------------------
(* Type correctness.                                                       *)

\* TypeOK without the mutex.
Types ==
    /\ server \in {"up", "stopping", "draining", "exited", "dead"}
    /\ phase \in [Requests -> Phases]
    /\ status \in [Requests -> {0, 202, 400, 503}]
    /\ stdout \in Deployments
    /\ out \in Seq(Chunks)
    /\ taken \in 0..Len(out)
    /\ StdoutIsPipe => Len(out) - taken =< PipeCap
    /\ reader \in BOOLEAN
    /\ faults \in 0..MaxFaults
    /\ count \in Nat
    /\ posted \in [Clients -> 0..PerClient]
    /\ waiting \subseteq Clients
    /\ sent \in [Clients -> Nat] /\ failed \in [Clients -> Nat]
    /\ acked \subseteq Requests

\* The initial state has its types.
LEMMA InitTypes == Init => Types
  <1> SUFFICES ASSUME Init
               PROVE  Types
    OBVIOUS
  <1>1. /\ server \in {"up", "stopping", "draining", "exited", "dead"}
        /\ phase \in [Requests -> Phases]
        /\ status \in [Requests -> {0, 202, 400, 503}]
    BY DEF Init, Phases
  <1>2. out \in Seq(Chunks) /\ Len(out) \in {0, 1} /\ faults \in 0..MaxFaults
    <2>1. Chunk("log", Main, TRUE) \in Chunks /\ Chunk("log", Main, FALSE) \in Chunks
      BY DEF Chunk, Chunks
    <2>2. out \in {<<>>, <<Chunk("log", Main, TRUE)>>, <<Chunk("log", Main, FALSE)>>}
      BY DEF Init, Starts, StdoutIsPipe
    <2>3. faults \in 0..MaxFaults
      <3>1. faults = 0 \/ (faults = 1 /\ MaxFaults > 0)
        BY DEF Init, Starts, Chunk, StdoutIsPipe
      <3> QED
        BY <3>1, IngestAssumption
    <2> DEFINE c1 == Chunk("log", Main, TRUE)
               c2 == Chunk("log", Main, FALSE)
    <2> HIDE DEF c1, c2
    <2>4. out \in {<<>>, <<c1>>, <<c2>>}
      BY <2>2 DEF c1, c2
    <2>5. c1 \in Chunks /\ c2 \in Chunks
      BY <2>1 DEF c1, c2
    <2>6. out \in Seq(Chunks) /\ Len(out) \in {0, 1}
      <3>1. /\ <<>> \in Seq(Chunks) /\ Len(<<>>) = 0
            /\ <<c1>> \in Seq(Chunks) /\ Len(<<c1>>) = 1
            /\ <<c2>> \in Seq(Chunks) /\ Len(<<c2>>) = 1
        BY <2>5
      <3>2. CASE out = <<>>
        BY <3>1, <3>2, Zenon
      <3>3. CASE out = <<c1>>
        BY <3>1, <3>3, Zenon
      <3>4. CASE out = <<c2>>
        BY <3>1, <3>4, Zenon
      <3> QED
        BY <2>4, <3>2, <3>3, <3>4, Zenon
    <2> QED
      BY <2>6, <2>3
  <1>3. /\ taken \in 0..Len(out)
        /\ StdoutIsPipe => Len(out) - taken =< PipeCap
    <2>1. taken = 0
      BY DEF Init
    <2> QED
      BY <1>2, <2>1, IngestAssumption
  <1>4. /\ count \in Nat /\ reader \in BOOLEAN /\ stdout \in Deployments
        /\ posted \in [Clients -> 0..PerClient]
        /\ waiting \subseteq Clients
        /\ sent \in [Clients -> Nat] /\ failed \in [Clients -> Nat]
        /\ acked \subseteq Requests
    BY IngestAssumption DEF Init
  <1> QED
    BY <1>1, <1>2, <1>3, <1>4 DEF Types

\* A write, whole or broken, keeps stdout within its capacity.
LEMMA WriteTypes ==
    ASSUME Types, NEW what \in {"event", "log"}, NEW r \in Requests \cup {Main},
           WholeWrite(what, r) \/ BrokenWrite(what, r),
           UNCHANGED <<stdout, taken>>
    PROVE  /\ out' \in Seq(Chunks) /\ faults' \in 0..MaxFaults
           /\ taken' \in 0..Len(out')
           /\ StdoutIsPipe' => Len(out') - taken' =< PipeCap
  <1> DEFINE whole == Chunk(what, r, TRUE)
             torn == Chunk(what, r, FALSE)
  <1>1. whole \in Chunks /\ torn \in Chunks
    BY DEF Chunk, Chunks
  <1> HIDE DEF whole, torn
  <1>4. /\ out \in Seq(Chunks) /\ taken \in 0..Len(out) /\ faults \in 0..MaxFaults
        /\ StdoutIsPipe => Len(out) - taken =< PipeCap
        /\ StdoutIsPipe' = StdoutIsPipe /\ taken' = taken
    BY DEF Types, StdoutIsPipe
  <1>2. CASE WholeWrite(what, r)
    <2>1. /\ out' = Append(out, whole) /\ faults' = faults
          /\ StdoutIsPipe => Len(out) - taken < PipeCap
      BY <1>2 DEF WholeWrite, Writable, Room, whole
    <2> QED
      BY <1>1, <1>4, <2>1, IngestAssumption
  <1>3. CASE BrokenWrite(what, r)
    <2>1. /\ out' = out \/ out' = Append(out, torn)
          /\ faults' = faults + 1 /\ faults < MaxFaults /\ ~StdoutIsPipe
      BY <1>3 DEF BrokenWrite, torn
    <2> QED
      BY <1>1, <1>4, <2>1, IngestAssumption
  <1> QED
    BY <1>2, <1>3

\* A request is a client and the number of one of its posts.
LEMMA RequestParts ==
    /\ \A r \in Requests : Client(r) \in Clients /\ r[2] \in 1..PerClient
    /\ \A c \in Clients, n \in 1..PerClient : <<c, n>> \in Requests
  BY DEF Requests, Client

\* What a step leaves alone keeps its type.
LEMMA StdoutTypes ==
    ASSUME Types, UNCHANGED stdoutVars
    PROVE  /\ stdout' \in Deployments /\ reader' \in BOOLEAN
           /\ out' \in Seq(Chunks) /\ faults' \in 0..MaxFaults
           /\ taken' \in 0..Len(out')
           /\ StdoutIsPipe' => Len(out') - taken' =< PipeCap
  BY DEF Types, stdoutVars, StdoutIsPipe

\* A step that leaves the clients alone keeps their types.
LEMMA ClientTypes ==
    ASSUME Types, UNCHANGED clientVars
    PROVE  /\ posted' \in [Clients -> 0..PerClient]
           /\ waiting' \subseteq Clients
           /\ sent' \in [Clients -> Nat] /\ failed' \in [Clients -> Nat]
           /\ acked' \subseteq Requests
  BY DEF Types, clientVars

\* A step that leaves the server alone keeps its types.
LEMMA ServerTypes ==
    ASSUME Types, UNCHANGED serverVars
    PROVE  /\ server' \in {"up", "stopping", "draining", "exited", "dead"}
           /\ phase' \in [Requests -> Phases]
           /\ status' \in [Requests -> {0, 202, 400, 503}]
           /\ count' \in Nat
  BY DEF Types, serverVars

\* A handler that goes on is at some line of the code.
LEMMA PhaseType ==
    ASSUME Types, NEW r \in Requests, NEW p \in Phases, Goto(r, p)
    PROVE  phase' \in [Requests -> Phases]
  BY DEF Types, Goto

\* A status that is set is one of those that the handler replies with.
LEMMA StatusType ==
    ASSUME Types, NEW r \in Requests, NEW n \in {202, 400, 503},
           status' = status \/ status' = [status EXCEPT ![r] = n]
    PROVE  status' \in [Requests -> {0, 202, 400, 503}]
  <1>1. status \in [Requests -> {0, 202, 400, 503}]
    BY DEF Types
  <1>2. CASE status' = status
    BY <1>1, <1>2
  <1>3. CASE status' = [status EXCEPT ![r] = n]
    BY <1>1, <1>3
  <1> QED
    BY <1>2, <1>3

\* Whatever the answer, the counters of its client go up by one at most.
LEMMA CounterTypes ==
    ASSUME Types, NEW c \in Clients,
           \/ CountFailed(c)
           \/ /\ waiting' = waiting \ {c}
              /\ sent' = [sent EXCEPT ![c] = @ + 1]
              /\ UNCHANGED failed
    PROVE  waiting' \subseteq Clients /\ sent' \in [Clients -> Nat] /\ failed' \in [Clients -> Nat]
  <1>1. waiting \subseteq Clients /\ sent \in [Clients -> Nat] /\ failed \in [Clients -> Nat]
    BY DEF Types
  <1>2. CASE CountFailed(c)
    <2>1. /\ waiting' = waiting \ {c} /\ sent' = sent
          /\ failed' = [failed EXCEPT ![c] = @ + 1]
      BY <1>2 DEF CountFailed
    <2> QED
      BY <1>1, <2>1
  <1>3. CASE /\ waiting' = waiting \ {c} /\ failed' = failed
             /\ sent' = [sent EXCEPT ![c] = @ + 1]
    BY <1>1, <1>3
  <1> QED
    BY <1>2, <1>3

\* Every step keeps the types.
LEMMA NextTypes == Types /\ [Next]_vars => Types'
  <1> SUFFICES ASSUME Types, [Next]_vars
               PROVE  Types'
    OBVIOUS
  <1>1. ASSUME NEW c \in Clients, Post(c)
        PROVE  Types'
    <2>1. posted[c] + 1 \in 1..PerClient /\ UNCHANGED stdoutVars
      BY <1>1, IngestAssumption DEF Types, Post
    <2>2. posted' \in [Clients -> 0..PerClient]
      BY <1>1, <2>1, IngestAssumption DEF Types, Post
    <2>3. phase' \in [Requests -> Phases]
      <3>1. CASE UNCHANGED phase
        BY <3>1 DEF Types
      <3>2. CASE Goto(<<c, posted[c] + 1>>, "arrived")
        BY <2>1, <3>2, RequestParts, PhaseType DEF Phases
      <3> QED
        BY <1>1, <3>1, <3>2 DEF Post, Goto
    <2>4. /\ waiting' \subseteq Clients
          /\ sent' \in [Clients -> Nat] /\ failed' \in [Clients -> Nat]
          /\ acked' \subseteq Requests
      <3>1. CASE CountFailed(c)
        BY <3>1, CounterTypes DEF Types, CountFailed
      <3>2. CASE waiting' = waiting \cup {c} /\ UNCHANGED <<sent, failed, acked>>
        BY <3>2 DEF Types
      <3> QED
        BY <1>1, <3>1, <3>2 DEF Post
    <2>5. UNCHANGED <<server, status, count>>
      BY <1>1 DEF Post
    <2> QED
      BY <2>1, <2>2, <2>3, <2>4, <2>5, StdoutTypes DEF Types
  <1>2. ASSUME NEW c \in Clients, GivesUp(c)
        PROVE  Types'
    <2>1. /\ waiting' \subseteq Clients /\ failed' \in [Clients -> Nat]
          /\ UNCHANGED <<sent, acked, posted>>
          /\ UNCHANGED stdoutVars /\ UNCHANGED serverVars
      BY <1>2 DEF Types, GivesUp, CountFailed
    <2> QED
      BY <2>1, StdoutTypes, ServerTypes DEF Types
  <1>3. ASSUME NEW r \in Requests, Decode(r) \/ Lock(r) \/ Count(r)
        PROVE  Types'
    <2>1. /\ UNCHANGED stdoutVars /\ UNCHANGED clientVars /\ server' = server
          /\ count' \in Nat
      BY <1>3 DEF Types, Decode, Lock, Count
    <2>2. phase' \in [Requests -> Phases]
      BY <1>3, PhaseType DEF Decode, Lock, Count, Phases
    <2>3. status' \in [Requests -> {0, 202, 400, 503}]
      BY <1>3, StatusType DEF Decode, Lock, Count
    <2> QED
      BY <2>1, <2>2, <2>3, StdoutTypes, ClientTypes DEF Types
  <1>4. ASSUME NEW r \in Requests, Write(r) \/ WriteFails(r) \/ Complain(r) \/ Log(r)
        PROVE  Types'
    <2>1. /\ out' \in Seq(Chunks) /\ faults' \in 0..MaxFaults
          /\ taken' \in 0..Len(out')
          /\ StdoutIsPipe' => Len(out') - taken' =< PipeCap
      BY <1>4, WriteTypes DEF Write, WriteFails, Complain, Log, LogLine, Logs
    <2>2. UNCHANGED clientVars /\ UNCHANGED <<server, count, stdout, reader>>
      BY <1>4 DEF Write, WriteFails, Complain, Log, LogLine
    <2>3. phase' \in [Requests -> Phases]
      BY <1>4, PhaseType DEF Write, WriteFails, Complain, Log, LogLine, Phases
    <2>4. status' \in [Requests -> {0, 202, 400, 503}]
      BY <1>4, StatusType DEF Write, WriteFails, Complain, Log, LogLine
    <2> QED
      BY <2>1, <2>2, <2>3, <2>4, ClientTypes DEF Types
  <1>5. ASSUME NEW r \in Requests, Reply(r)
        PROVE  Types'
    <2>1. /\ UNCHANGED stdoutVars /\ UNCHANGED <<server, status, count, posted>>
          /\ phase' \in [Requests -> Phases]
      BY <1>5, PhaseType DEF Reply, Phases
    <2>2. /\ waiting' \subseteq Clients
          /\ sent' \in [Clients -> Nat] /\ failed' \in [Clients -> Nat]
          /\ acked' \subseteq Requests
      <3>1. Client(r) \in Clients
        BY RequestParts
      <3>2. CASE UNCHANGED <<waiting, sent, failed, acked>>
        BY <3>2 DEF Types
      <3>3. CASE CountFailed(Client(r))
        BY <3>1, <3>3, CounterTypes DEF Types, CountFailed
      <3>4. CASE /\ waiting' = waiting \ {Client(r)}
                 /\ sent' = [sent EXCEPT ![Client(r)] = @ + 1]
                 /\ acked' = acked \cup {r}
                 /\ UNCHANGED failed
        BY <3>1, <3>4, CounterTypes DEF Types
      <3> QED
        BY <1>5, <3>2, <3>3, <3>4 DEF Reply
    <2> QED
      BY <2>1, <2>2, StdoutTypes DEF Types
  <1>6. CASE Shutdown \/ Dies
    <2>1. /\ out' \in Seq(Chunks) /\ faults' \in 0..MaxFaults
          /\ taken' \in 0..Len(out')
          /\ StdoutIsPipe' => Len(out') - taken' =< PipeCap
      <3>1. CASE UNCHANGED <<out, faults, stdout, taken>>
        BY <3>1 DEF Types, StdoutIsPipe
      <3>2. CASE Logs(Main) /\ UNCHANGED <<stdout, taken>>
        BY <3>2, WriteTypes DEF Logs
      <3> QED
        BY <1>6, <3>1, <3>2 DEF Shutdown, Dies
    <2>2. /\ UNCHANGED clientVars /\ UNCHANGED <<phase, status, count, stdout, reader>>
          /\ server' \in {"draining", "dead"}
      BY <1>6 DEF Shutdown, Dies
    <2> QED
      BY <2>1, <2>2, ClientTypes DEF Types
  <1>7. CASE Signal \/ Drained \/ BrokenPipe
    <2>1. /\ UNCHANGED stdoutVars /\ UNCHANGED clientVars /\ UNCHANGED <<phase, status, count>>
          /\ server' \in {"stopping", "exited", "dead"}
      BY <1>7 DEF Signal, Drained, BrokenPipe
    <2> QED
      BY <2>1, StdoutTypes, ClientTypes DEF Types
  <1>8. CASE ReadLine \/ ReaderDies
    <2>1. UNCHANGED serverVars /\ UNCHANGED clientVars
      BY <1>8 DEF ReadLine, ReaderDies
    <2>2. /\ UNCHANGED <<stdout, out, faults>> /\ reader' \in BOOLEAN
          /\ taken' \in taken..Len(out)
      <3>1. out \in Seq(Chunks) /\ taken \in 0..Len(out) /\ reader \in BOOLEAN
        BY DEF Types
      <3>2. CASE ReadLine
        BY <3>1, <3>2 DEF ReadLine
      <3>3. CASE ReaderDies
        <4>1. taken' = taken /\ reader' = FALSE /\ UNCHANGED <<stdout, out, faults>>
          BY <3>3 DEF ReaderDies
        <4>2. taken \in taken..Len(out)
          BY <3>1
        <4> QED
          BY <4>1, <4>2
      <3> QED
        BY <1>8, <3>2, <3>3
    <2>3. /\ taken' \in 0..Len(out')
          /\ StdoutIsPipe' => Len(out') - taken' =< PipeCap
      BY <2>2, IngestAssumption DEF Types, StdoutIsPipe
    <2> QED
      BY <2>1, <2>2, <2>3, ServerTypes, ClientTypes DEF Types
  <1>9. CASE UNCHANGED vars
    BY <1>9, StdoutTypes, ClientTypes, ServerTypes DEF Types, vars
  <1> QED
    BY <1>1, <1>2, <1>3, <1>4, <1>5, <1>6, <1>7, <1>8, <1>9 DEF Next

-----------------------------------------------------------------------------
(* The life of a request.                                                  *)

\* How far the line, the status and the acknowledgement of a request are, by
\* where its handler is.
Progress(r) ==
    /\ phase[r] \in {"none", "arrived", "lock", "write"} => EventLines(r) = {}
    /\ phase[r] = "count" => Published(r)
    /\ phase[r] = "complain" => status[r] = 503 /\ ~Published(r)
    /\ phase[r] \in {"log", "reply", "done"} =>
          status[r] # 0 /\ (status[r] = 202 <=> Published(r))
    /\ \A i, j \in EventLines(r) : i = j
    /\ r \in acked => phase[r] = "done" /\ status[r] = 202
    /\ r[2] > posted[Client(r)] => phase[r] = "none"

Steps == \A r \in Requests : Progress(r)

\* The step changes nothing that Progress tells of s.
Spares(s) ==
    /\ phase'[s] = phase[s] /\ status'[s] = status[s]
    /\ EventLines(s)' = EventLines(s) /\ (Published(s)' <=> Published(s))
    /\ s \in acked' => s \in acked
    /\ posted' = posted

\* What is said of a request stays true if a step spares it.
LEMMA Spared ==
    ASSUME NEW s \in Requests, Progress(s), Spares(s)
    PROVE  Progress(s)'
  BY DEF Progress, Spares, Client

\* Nothing is written.
LEMMA NoLine ==
    ASSUME out' = out
    PROVE  \A r : EventLines(r)' = EventLines(r) /\ (Published(r)' <=> Published(r))
  BY DEF EventLines, Published

\* A line of the logger is no line of an event.
LEMMA LogLineKeeps ==
    ASSUME Types, NEW r \in Requests \cup {Main}, Logs(r)
    PROVE  \A s : EventLines(s)' = EventLines(s) /\ (Published(s)' <=> Published(s))
  <1> DEFINE whole == Chunk("log", r, TRUE)
             torn == Chunk("log", r, FALSE)
  <1>1. /\ whole \in Chunks /\ torn \in Chunks
        /\ whole.what = "log" /\ torn.what = "log"
    BY DEF Chunk, Chunks
  <1> HIDE DEF whole, torn
  <1>2. \/ out' = out \/ out' = Append(out, whole) \/ out' = Append(out, torn)
    BY DEF Logs, WholeWrite, BrokenWrite, whole, torn
  <1>3. out \in Seq(Chunks)
    BY DEF Types
  <1>4. CASE out' = out
    BY <1>4, NoLine
  <1>5. CASE out' = Append(out, whole)
    BY <1>1, <1>3, <1>5, LogKeeps
  <1>6. CASE out' = Append(out, torn)
    BY <1>1, <1>3, <1>6, LogKeeps
  <1> QED
    BY <1>2, <1>4, <1>5, <1>6

\* The write of an event, whole or broken, is of its own request only.
LEMMA EventLineKeeps ==
    ASSUME Types, NEW r \in Requests, EventLines(r) = {},
           WholeWrite("event", r) \/ BrokenWrite("event", r)
    PROVE  /\ \A i, j \in EventLines(r)' : i = j
           /\ \A i \in EventLines(r)' : i = Len(out) + 1
           /\ WholeWrite("event", r) => Published(r)'
           /\ BrokenWrite("event", r) => ~Published(r)'
           /\ \A s : s # r =>
                 EventLines(s)' = EventLines(s) /\ (Published(s)' <=> Published(s))
  <1>1. out \in Seq(Chunks) /\ ~Published(r)
    BY DEF Types, Published
  <1> DEFINE whole == Chunk("event", r, TRUE)
             torn == Chunk("event", r, FALSE)
  <1>2. WholeWrite("event", r) => out' = Append(out, whole)
    BY DEF WholeWrite
  <1>3. BrokenWrite("event", r) => (out' = out \/ out' = Append(out, torn))
    BY DEF BrokenWrite
  <1>4. ASSUME WholeWrite("event", r)
        PROVE  /\ EventLines(r)' = {Len(out) + 1} /\ Published(r)'
               /\ \A s : s # r =>
                     EventLines(s)' = EventLines(s) /\ (Published(s)' <=> Published(s))
    BY <1>1, <1>2, <1>4, EventKeeps
  <1>5. ASSUME BrokenWrite("event", r)
        PROVE  /\ EventLines(r)' \subseteq {Len(out) + 1} /\ ~Published(r)'
               /\ \A s : s # r =>
                     EventLines(s)' = EventLines(s) /\ (Published(s)' <=> Published(s))
    <2>1. CASE out' = out
      BY <1>1, <2>1, NoLine
    <2>2. CASE out' = Append(out, torn)
      BY <1>1, <2>2, EventKeeps
    <2> QED
      BY <1>3, <1>5, <2>1, <2>2
  <1> HIDE DEF whole, torn
  <1>6. ~(WholeWrite("event", r) /\ BrokenWrite("event", r))
    BY <1>4, <1>5
  <1> QED
    BY <1>4, <1>5, <1>6

\* No request is on its way at the start.
LEMMA InitSteps == Init => Steps
  <1> SUFFICES ASSUME Init, NEW r \in Requests
               PROVE  Progress(r)
    BY DEF Steps
  <1>1. phase[r] = "none" /\ r \notin acked
    BY DEF Init
  <1>2. EventLines(r) = {}
    <2>1. \A i \in 1..Len(out) : out[i].what = "log"
      <3> DEFINE c1 == Chunk("log", Main, TRUE)
                 c2 == Chunk("log", Main, FALSE)
      <3>1. out \in {<<>>, <<c1>>, <<c2>>}
        BY DEF Init, Starts, StdoutIsPipe
      <3>2. c1.what = "log" /\ c2.what = "log"
        BY DEF Chunk
      <3> HIDE DEF c1, c2
      <3> QED
        BY <3>1, <3>2
    <2> QED
      BY <2>1 DEF EventLines
  <1> QED
    BY <1>1, <1>2 DEF Progress

\* A step of the handler of r at one place moves r alone.
LEMMA Moves ==
    ASSUME Types, NEW r \in Requests, NEW p, Goto(r, p)
    PROVE  phase'[r] = p /\ \A s \in Requests : s # r => phase'[s] = phase[s]
  <1>1. phase \in [Requests -> Phases]
    BY DEF Types
  <1> QED
    BY <1>1 DEF Goto

\* A reply sets the status of its own request.
LEMMA Answers ==
    ASSUME Types, NEW r \in Requests, NEW n, status' = [status EXCEPT ![r] = n]
    PROVE  status'[r] = n /\ \A s \in Requests : s # r => status'[s] = status[s]
  <1>1. DOMAIN status = Requests
    BY DEF Types
  <1> QED
    BY <1>1

\* A request whose handler is at work has been posted.
LEMMA AtWork ==
    ASSUME NEW r \in Requests, Progress(r), phase[r] # "none", UNCHANGED posted
    PROVE  ~(r[2] > posted'[Client(r)])
  BY DEF Progress

\* Every step keeps, of every request, what its phase says of it.
LEMMA NextSteps == Types /\ Steps /\ [Next]_vars => Steps'
  <1> SUFFICES ASSUME Types, Steps, [Next]_vars
               PROVE  Steps'
    OBVIOUS
  <1>0. \A r \in Requests : Progress(r)
    BY DEF Steps
  \* The steps that leave every request where it is.
  <1>1. ASSUME UNCHANGED <<phase, status, acked, posted>>,
               \A s : EventLines(s)' = EventLines(s) /\ (Published(s)' <=> Published(s))
        PROVE  Steps'
    <2>1. \A s \in Requests : Spares(s)
      BY <1>1 DEF Spares
    <2> QED
      BY <1>0, <2>1, Spared DEF Steps
  \* The steps of the handler of one request.
  <1>2. ASSUME NEW r \in Requests, Progress(r)', UNCHANGED posted,
               \A s \in Requests : s # r =>
                   /\ phase'[s] = phase[s] /\ status'[s] = status[s]
                   /\ EventLines(s)' = EventLines(s) /\ (Published(s)' <=> Published(s))
                   /\ s \in acked' => s \in acked
        PROVE  Steps'
    <2>1. \A s \in Requests : s # r => Spares(s)
      BY <1>2 DEF Spares
    <2>2. \A s \in Requests : s # r => Progress(s)'
      BY <1>0, <2>1, Spared
    <2> QED
      BY <1>2, <2>2 DEF Steps
  <1>3. CASE \E c \in Clients : GivesUp(c)
    BY <1>3, <1>1, NoLine DEF GivesUp, CountFailed, serverVars, stdoutVars
  <1>4. CASE Signal \/ Drained \/ BrokenPipe \/ ReadLine \/ ReaderDies \/ UNCHANGED vars
    <2>1. UNCHANGED <<phase, status, acked, posted, out>>
      BY <1>4 DEF Signal, Drained, BrokenPipe, ReadLine, ReaderDies, vars, serverVars,
                  stdoutVars, clientVars
    <2> QED
      BY <2>1, <1>1, NoLine
  <1>5. CASE Shutdown \/ Dies
    <2>1. UNCHANGED <<phase, status, acked, posted>>
      BY <1>5 DEF Shutdown, Dies, clientVars
    <2>2. UNCHANGED out \/ Logs(Main)
      BY <1>5 DEF Shutdown, Dies
    <2> QED
      BY <2>1, <2>2, <1>1, NoLine, LogLineKeeps
  <1>6. ASSUME NEW c \in Clients, Post(c)
        PROVE  Steps'
    <2> DEFINE r == <<c, posted[c] + 1>>
    <2>1. /\ posted \in [Clients -> 0..PerClient] /\ phase \in [Requests -> Phases]
          /\ posted[c] + 1 \in 1..PerClient
          /\ r \in Requests /\ Client(r) = c /\ r[2] = posted[c] + 1
      BY <1>6, IngestAssumption DEF Types, Post, Client, Requests
    <2>2. UNCHANGED <<status, acked, out>> /\ posted' = [posted EXCEPT ![c] = @ + 1]
      BY <1>6 DEF Post, CountFailed, stdoutVars
    <2>3. phase' = phase \/ phase' = [phase EXCEPT ![r] = "arrived"]
      BY <1>6 DEF Post
    <2>4. phase[r] = "none" /\ Progress(r)
      BY <1>0, <2>1 DEF Progress
    <2> HIDE DEF r
    <2>5. ASSUME NEW s \in Requests
          PROVE  Progress(s)'
      <3>1. EventLines(s)' = EventLines(s) /\ (Published(s)' <=> Published(s))
        BY <2>2, NoLine
      <3>2. s[2] > posted'[Client(s)] => s[2] > posted[Client(s)] /\ s # r
        BY <2>1, <2>2, RequestParts
      <3>3. Progress(s)
        BY <1>0
      <3>4. CASE s = r
        BY <2>1, <2>2, <2>3, <2>4, <3>1, <3>2, <3>3, <3>4 DEF Progress
      <3>5. CASE s # r
        <4>1. phase'[s] = phase[s]
          BY <2>1, <2>3, <3>5
        <4> QED
          BY <2>2, <4>1, <3>1, <3>2, <3>3 DEF Progress
      <3> QED
        BY <3>4, <3>5
    <2> QED
      BY <2>5 DEF Steps
  <1>7. ASSUME NEW r \in Requests, Decode(r) \/ Lock(r) \/ Count(r)
        PROVE  Steps'
    <2>1. UNCHANGED <<out, acked, posted>> /\ Progress(r)
      BY <1>0, <1>7 DEF Decode, Lock, Count, stdoutVars, clientVars
    <2>2. \A s : EventLines(s)' = EventLines(s) /\ (Published(s)' <=> Published(s))
      BY <2>1, NoLine
    <2>3. \A s \in Requests : s # r => phase'[s] = phase[s] /\ status'[s] = status[s]
      BY <1>7, Moves, Answers DEF Decode, Lock, Count
    <2>4. /\ phase[r] \in {"arrived", "lock", "count"}
          /\ \/ phase[r] \in {"arrived", "lock"} /\ phase'[r] \in {"lock", "write"}
             \/ phase[r] = "arrived" /\ phase'[r] = "log" /\ status'[r] = 400
             \/ phase[r] = "count" /\ phase'[r] = "log" /\ status'[r] = 202
      BY <1>7, Moves, Answers DEF Decode, Lock, Count
    <2>5. ~(r[2] > posted'[Client(r)])
      BY <2>1, <2>4, AtWork
    <2>6. Published(r) => EventLines(r) # {}
      BY DEF Published
    <2>7. Progress(r)'
      BY <2>1, <2>2, <2>4, <2>5, <2>6 DEF Progress
    <2> QED
      BY <2>1, <2>2, <2>3, <2>7, <1>2
  <1>8. ASSUME NEW r \in Requests, Write(r) \/ WriteFails(r)
        PROVE  Steps'
    <2>1. UNCHANGED <<acked, posted>> /\ Progress(r) /\ phase[r] = "write"
      BY <1>0, <1>8 DEF Write, WriteFails, clientVars
    <2>2. EventLines(r) = {} /\ (WholeWrite("event", r) \/ BrokenWrite("event", r))
      BY <1>8, <2>1 DEF Progress, Write, WriteFails
    <2>3. \A s \in Requests : s # r => phase'[s] = phase[s] /\ status'[s] = status[s]
      BY <1>8, Moves, Answers DEF Write, WriteFails
    <2>4. \/ phase'[r] = "count" /\ WholeWrite("event", r)
          \/ phase'[r] = "complain" /\ status'[r] = 503 /\ BrokenWrite("event", r)
      BY <1>8, Moves, Answers DEF Write, WriteFails
    <2>5. ~(r[2] > posted'[Client(r)])
      BY <2>1, AtWork
    <2>6. /\ \A i, j \in EventLines(r)' : i = j
          /\ WholeWrite("event", r) => Published(r)'
          /\ BrokenWrite("event", r) => ~Published(r)'
          /\ \A s : s # r =>
                EventLines(s)' = EventLines(s) /\ (Published(s)' <=> Published(s))
      BY <2>2, EventLineKeeps
    <2>7. Progress(r)'
      BY <2>1, <2>4, <2>5, <2>6 DEF Progress
    <2> QED
      BY <2>1, <2>3, <2>6, <2>7, <1>2
  <1>9. ASSUME NEW r \in Requests, Complain(r) \/ Log(r)
        PROVE  Steps'
    <2>1. UNCHANGED <<acked, posted, status>> /\ Progress(r) /\ Logs(r)
      BY <1>0, <1>9 DEF Complain, Log, LogLine, clientVars
    <2>2. \A s : EventLines(s)' = EventLines(s) /\ (Published(s)' <=> Published(s))
      BY <2>1, LogLineKeeps
    <2>3. \A s \in Requests : s # r => phase'[s] = phase[s]
      BY <1>9, Moves DEF Complain, Log, LogLine
    <2>4. \/ phase[r] = "complain" /\ phase'[r] = "log"
          \/ phase[r] = "log" /\ phase'[r] = "reply"
      BY <1>9, Moves DEF Complain, Log, LogLine
    <2>5. ~(r[2] > posted'[Client(r)])
      BY <2>1, <2>4, AtWork
    <2>6. Progress(r)'
      BY <2>1, <2>2, <2>4, <2>5 DEF Progress
    <2> QED
      BY <2>1, <2>2, <2>3, <2>6, <1>2
  <1>10. ASSUME NEW r \in Requests, Reply(r)
         PROVE  Steps'
    <2>1. UNCHANGED <<out, posted, status>> /\ Progress(r) /\ phase[r] = "reply"
      BY <1>0, <1>10 DEF Reply, stdoutVars
    <2>2. \A s : EventLines(s)' = EventLines(s) /\ (Published(s)' <=> Published(s))
      BY <2>1, NoLine
    <2>3. phase'[r] = "done" /\ \A s \in Requests : s # r => phase'[s] = phase[s]
      BY <1>10, Moves DEF Reply
    <2>4. acked' = acked \/ (acked' = acked \cup {r} /\ status[r] < 400)
      BY <1>10 DEF Reply, CountFailed
    <2>5. ~(r[2] > posted'[Client(r)])
      BY <2>1, AtWork
    <2>6. status[r] \in {0, 202, 400, 503} /\ status[r] # 0
      BY <2>1 DEF Progress, Types
    <2>7. Progress(r)'
      BY <2>1, <2>2, <2>3, <2>4, <2>5, <2>6 DEF Progress
    <2> QED
      BY <2>1, <2>2, <2>3, <2>4, <2>7, <1>2
  <1> QED
    BY <1>3, <1>4, <1>5, <1>6, <1>7, <1>8, <1>9, <1>10 DEF Next

-----------------------------------------------------------------------------
(* The mutex.                                                              *)

Holders == {r \in Requests : phase[r] \in {"write", "count"}}

Exclusive == mutex = Holders /\ \A r, s \in Holders : r = s

\* Nobody holds the mutex at the start.
LEMMA InitExclusive == Init => Exclusive
  BY DEF Init, Exclusive, Holders

\* Every step keeps the handlers in Publish apart.
LEMMA NextExclusive == Types /\ Steps /\ Exclusive /\ [Next]_vars => Exclusive'
  <1> SUFFICES ASSUME Types, Steps, Exclusive, [Next]_vars
               PROVE  Exclusive'
    OBVIOUS
  <1>0. mutex = Holders /\ \A r, s \in Holders : r = s
    BY DEF Exclusive
  \* Nobody comes into Publish's critical section or leaves it.
  <1>1. ASSUME UNCHANGED mutex,
               \A s \in Requests : phase'[s] \in {"write", "count"} <=> phase[s] \in {"write", "count"}
        PROVE  Exclusive'
    <2>1. Holders' = Holders
      BY <1>1 DEF Holders
    <2> QED
      BY <1>0, <1>1, <2>1 DEF Exclusive
  \* The one holder leaves.
  <1>2. ASSUME NEW r \in Requests, NEW p, p \notin {"write", "count"},
               phase[r] \in {"write", "count"}, Goto(r, p), mutex' = {}
        PROVE  Exclusive'
    <2>1. phase'[r] = p /\ \A s \in Requests : s # r => phase'[s] = phase[s]
      BY <1>2, Moves
    <2>2. Holders' = {}
      BY <1>0, <1>2, <2>1 DEF Holders
    <2> QED
      BY <1>2, <2>2 DEF Exclusive
  <1>3. CASE (\E c \in Clients : GivesUp(c)) \/ Signal \/ Shutdown \/ Drained \/ Dies \/ BrokenPipe
             \/ ReadLine \/ ReaderDies \/ UNCHANGED vars
    <2>1. UNCHANGED <<phase, mutex>>
      BY <1>3 DEF GivesUp, Signal, Shutdown, Drained, Dies, BrokenPipe, ReadLine, ReaderDies,
                  vars, serverVars
    <2> QED
      BY <2>1, <1>1
  <1>4. ASSUME NEW c \in Clients, Post(c)
        PROVE  Exclusive'
    <2> DEFINE r == <<c, posted[c] + 1>>
    <2>1. /\ r \in Requests /\ r[2] > posted[Client(r)]
          /\ mutex' = mutex
          /\ phase' = phase \/ phase' = [phase EXCEPT ![r] = "arrived"]
      BY <1>4, IngestAssumption DEF Types, Post, Client, Requests
    <2> HIDE DEF r
    <2>2. phase[r] = "none" /\ phase \in [Requests -> Phases]
      BY <1>4, <2>1 DEF Steps, Progress, Types
    <2> QED
      BY <2>1, <2>2, <1>1
  <1>5. ASSUME NEW r \in Requests, Decode(r) \/ Complain(r) \/ Log(r) \/ Reply(r) \/ Write(r)
        PROVE  Exclusive'
    <2>1. mutex' = mutex /\ \A s \in Requests : s # r => phase'[s] = phase[s]
      BY <1>5, Moves DEF Decode, Complain, Log, LogLine, Reply, Write
    <2>2. \/ phase[r] = "write" /\ phase'[r] = "count"
          \/ /\ phase[r] \in {"arrived", "complain", "log", "reply"}
             /\ phase'[r] \in {"lock", "log", "reply", "done"}
      BY <1>5, Moves DEF Decode, Complain, Log, LogLine, Reply, Write
    <2> QED
      BY <2>1, <2>2, <1>1
  <1>6. ASSUME NEW r \in Requests, Lock(r)
        PROVE  Exclusive'
    <2>1. /\ mutex = {} /\ mutex' = {r}
          /\ phase'[r] = "write" /\ \A s \in Requests : s # r => phase'[s] = phase[s]
      BY <1>6, Moves DEF Lock
    <2>2. Holders' = {r}
      BY <1>0, <2>1 DEF Holders
    <2> QED
      BY <2>1, <2>2 DEF Exclusive
  <1>7. ASSUME NEW r \in Requests, WriteFails(r) \/ Count(r)
        PROVE  Exclusive'
    BY <1>7, <1>2 DEF WriteFails, Count
  <1> QED
    BY <1>3, <1>4, <1>5, <1>6, <1>7 DEF Next

\* The process has returned from main only when no handler was left.
Exited == server = "exited" => \A r \in Requests : ~Active(r)

\* No handler is active once the server has exited.
LEMMA NextExited == Types /\ Exited /\ [Next]_vars => Exited'
  <1> SUFFICES ASSUME Types, Exited, [Next]_vars, server' = "exited", NEW r \in Requests
               PROVE  ~Active(r)'
    BY DEF Exited
  <1>1. CASE Drained
    BY <1>1 DEF Drained, Active
  <1>2. CASE UNCHANGED <<server, phase>>
    BY <1>2 DEF Exited, Active
  <1>3. CASE \/ \E c \in Clients : Post(c) \/ GivesUp(c)
             \/ Signal \/ Shutdown \/ Dies \/ BrokenPipe \/ ReadLine \/ ReaderDies
             \/ UNCHANGED vars
    <2>1. \/ server' \in {"stopping", "draining", "dead"}
          \/ UNCHANGED <<server, phase>>
          \/ server' = server /\ Listening
      BY <1>3 DEF Post, GivesUp, Signal, Shutdown, Dies, BrokenPipe, ReadLine, ReaderDies,
                  CountFailed, vars, serverVars
    <2> QED
      BY <2>1, <1>2 DEF Listening
  <1>4. CASE \E s \in Requests :
                \/ Decode(s) \/ Lock(s) \/ Write(s) \/ WriteFails(s) \/ Count(s)
                \/ Complain(s) \/ Log(s) \/ Reply(s)
    <2>1. server' = server /\ Alive
      BY <1>4 DEF Decode, Lock, Write, WriteFails, Count, Complain, Log, LogLine, Reply
    <2> QED
      BY <2>1 DEF Alive, Listening
  <1> QED
    BY <1>1, <1>3, <1>4 DEF Next

-----------------------------------------------------------------------------
(* The order of one client's events.                                       *)

\* Nothing has been acknowledged at the start.
LEMMA InitOrder == Init => SentKeepsOrder
  BY DEF Init, SentKeepsOrder

\* A request is acknowledged while it is its client's last, so every later one
\* is written behind it.
LEMMA NextOrder == Types /\ Steps /\ SentKeepsOrder /\ [Next]_vars => SentKeepsOrder'
  <1> SUFFICES ASSUME Types, Steps, SentKeepsOrder, [Next]_vars,
                      NEW r \in Requests, NEW s \in Requests,
                      Client(r) = Client(s), r[2] < s[2], r \in acked'
               PROVE  \A i \in EventLines(r)', j \in EventLines(s)' : i < j
    BY DEF SentKeepsOrder, Client
  <1>0. Progress(r) /\ Progress(s)
    BY DEF Steps
  <1>1. ASSUME EventLines(r)' = EventLines(r), EventLines(s)' = EventLines(s), r \in acked
        PROVE  \A i \in EventLines(r)', j \in EventLines(s)' : i < j
    BY <1>1 DEF SentKeepsOrder
  <1>2. CASE \/ \E c \in Clients : Post(c) \/ GivesUp(c)
             \/ \E q \in Requests : Decode(q) \/ Lock(q) \/ Count(q)
             \/ Signal \/ Drained \/ BrokenPipe \/ ReadLine \/ ReaderDies \/ UNCHANGED vars
    <2>1. UNCHANGED <<out, acked>>
      BY <1>2 DEF Post, GivesUp, CountFailed, Decode, Lock, Count, Signal, Drained, BrokenPipe,
                  ReadLine, ReaderDies, vars, stdoutVars, clientVars
    <2> QED
      BY <2>1, <1>1, NoLine
  <1>3. CASE Shutdown \/ Dies \/ \E q \in Requests : Complain(q) \/ Log(q)
    <2>1. acked' = acked /\ (out' = out \/ \E q \in Requests \cup {Main} : Logs(q))
      BY <1>3 DEF Shutdown, Dies, Complain, Log, LogLine, clientVars
    <2> QED
      BY <2>1, <1>1, NoLine, LogLineKeeps
  <1>4. ASSUME NEW q \in Requests, Write(q) \/ WriteFails(q)
        PROVE  \A i \in EventLines(r)', j \in EventLines(s)' : i < j
    <2>1. /\ acked' = acked /\ phase[q] = "write"
          /\ WholeWrite("event", q) \/ BrokenWrite("event", q)
      BY <1>4 DEF Write, WriteFails, clientVars
    <2>2. q # r
      BY <2>1, <1>0 DEF Progress
    <2>3. EventLines(q) = {}
      BY <2>1 DEF Steps, Progress
    <2>4. /\ \A i \in EventLines(q)' : i = Len(out) + 1
          /\ \A x : x # q => EventLines(x)' = EventLines(x)
      BY <2>1, <2>3, EventLineKeeps
    <2>5. CASE s # q
      BY <2>1, <2>2, <2>4, <2>5, <1>1
    <2>6. CASE s = q
      <3>1. \A i \in EventLines(r)' : i \in 1..Len(out)
        BY <2>2, <2>4 DEF EventLines
      <3>2. Len(out) \in Nat
        BY DEF Types
      <3> QED
        BY <2>4, <2>6, <3>1, <3>2
    <2> QED
      BY <2>5, <2>6
  <1>5. ASSUME NEW q \in Requests, Reply(q)
        PROVE  \A i \in EventLines(r)', j \in EventLines(s)' : i < j
    <2>1. /\ out' = out
          /\ acked' = acked \/ (acked' = acked \cup {q} /\ q = Last(Client(q)))
      BY <1>5 DEF Reply, CountFailed, stdoutVars
    <2>2. CASE r \in acked
      BY <2>1, <2>2, <1>1, NoLine
    <2>3. CASE r \notin acked
      <3>1. r = Last(Client(r))
        BY <2>1, <2>3
      <3>2. s[2] > posted[Client(s)]
        BY <3>1, RequestParts DEF Last
      <3>3. EventLines(s) = {}
        BY <3>2, <1>0 DEF Progress
      <3> QED
        BY <2>1, <3>3, NoLine
    <2> QED
      BY <2>2, <2>3
  <1> QED
    BY <1>2, <1>3, <1>4, <1>5 DEF Next

-----------------------------------------------------------------------------
(* The producer's counter.                                                 *)

Lined == {r \in Requests : Published(r)}

Counting == {r \in Requests : phase[r] = "count"}

Counted ==
    /\ IsFiniteSet(Lined) /\ IsFiniteSet(Counting)
    /\ Cardinality(Lined) = count + Cardinality(Counting)

\* Nothing has been counted at the start.
LEMMA InitCounted == Init /\ Steps => Counted
  <1> SUFFICES ASSUME Init, Steps
               PROVE  Counted
    OBVIOUS
  <1>1. \A r \in Requests : phase[r] = "none" /\ EventLines(r) = {}
    BY DEF Init, Steps, Progress
  <1>2. Lined = {} /\ Counting = {}
    BY <1>1 DEF Lined, Counting, Published
  <1>3. count = 0
    BY DEF Init
  <1> QED
    BY <1>2, <1>3, FS_EmptySet DEF Counted

\* Every step keeps the counter at the lines of events, but for handlers
\* about to count.
LEMMA NextCounted == Types /\ Steps /\ Exclusive /\ Counted /\ [Next]_vars => Counted'
  <1> SUFFICES ASSUME Types, Steps, Exclusive, Counted, [Next]_vars
               PROVE  Counted'
    OBVIOUS
  <1>0. /\ IsFiniteSet(Lined) /\ IsFiniteSet(Counting)
        /\ Cardinality(Lined) = count + Cardinality(Counting)
        /\ count \in Nat
    BY DEF Counted, Types
  <1>1. ASSUME UNCHANGED count,
               \A s \in Requests : (Published(s)' <=> Published(s)) /\
                                   (phase'[s] = "count" <=> phase[s] = "count")
        PROVE  Counted'
    <2>1. Lined' = Lined /\ Counting' = Counting
      BY <1>1 DEF Lined, Counting
    <2> QED
      BY <1>0, <1>1, <2>1 DEF Counted
  <1>2. CASE \/ \E c \in Clients : GivesUp(c)
             \/ Signal \/ Drained \/ BrokenPipe \/ ReadLine \/ ReaderDies \/ UNCHANGED vars
    <2>1. UNCHANGED <<phase, count, out>>
      BY <1>2 DEF GivesUp, Signal, Drained, BrokenPipe, ReadLine, ReaderDies, vars,
                  serverVars, stdoutVars
    <2> QED
      BY <2>1, <1>1, NoLine
  <1>3. CASE Shutdown \/ Dies
    <2>1. UNCHANGED <<phase, count>> /\ (out' = out \/ Logs(Main))
      BY <1>3 DEF Shutdown, Dies
    <2> QED
      BY <2>1, <1>1, NoLine, LogLineKeeps
  <1>4. ASSUME NEW c \in Clients, Post(c)
        PROVE  Counted'
    <2> DEFINE r == <<c, posted[c] + 1>>
    <2>1. /\ r \in Requests /\ r[2] > posted[Client(r)]
          /\ UNCHANGED <<out, count>>
          /\ phase' = phase \/ phase' = [phase EXCEPT ![r] = "arrived"]
      BY <1>4, IngestAssumption DEF Types, Post, Client, Requests, stdoutVars
    <2> HIDE DEF r
    <2>2. phase[r] = "none" /\ phase \in [Requests -> Phases]
      BY <1>4, <2>1 DEF Steps, Progress, Types
    <2>3. \A s \in Requests : phase'[s] = "count" <=> phase[s] = "count"
      BY <2>1, <2>2
    <2> QED
      BY <2>1, <2>3, <1>1, NoLine
  <1>5. ASSUME NEW r \in Requests,
               Decode(r) \/ Lock(r) \/ WriteFails(r) \/ Complain(r) \/ Log(r) \/ Reply(r)
        PROVE  Counted'
    <2>1. count' = count /\ \A s \in Requests : s # r => phase'[s] = phase[s]
      BY <1>5, Moves DEF Decode, Lock, WriteFails, Complain, Log, LogLine, Reply
    <2>2. phase'[r] # "count" /\ phase[r] # "count"
      BY <1>5, Moves DEF Decode, Lock, WriteFails, Complain, Log, LogLine, Reply
    <2>3. CASE WriteFails(r)
      <3>1. phase[r] = "write" /\ BrokenWrite("event", r)
        BY <2>3 DEF WriteFails
      <3>2. EventLines(r) = {} /\ ~Published(r)
        BY <3>1 DEF Steps, Progress, Published
      <3>3. \A s : Published(s)' <=> Published(s)
        BY <3>1, <3>2, EventLineKeeps
      <3> QED
        BY <2>1, <2>2, <3>3, <1>1
    <2>4. CASE ~WriteFails(r)
      <3>1. out' = out \/ Logs(r)
        BY <1>5, <2>4 DEF Decode, Lock, Complain, Log, LogLine, Reply, stdoutVars
      <3> QED
        BY <2>1, <2>2, <3>1, <1>1, NoLine, LogLineKeeps
    <2> QED
      BY <2>3, <2>4
  <1>6. ASSUME NEW r \in Requests, Write(r)
        PROVE  Counted'
    <2>1. /\ phase[r] = "write" /\ WholeWrite("event", r) /\ count' = count
          /\ phase'[r] = "count" /\ \A s \in Requests : s # r => phase'[s] = phase[s]
      BY <1>6, Moves DEF Write
    <2>2. EventLines(r) = {} /\ ~Published(r)
      BY <2>1 DEF Steps, Progress, Published
    <2>3. Published(r)' /\ \A s : s # r => (Published(s)' <=> Published(s))
      BY <2>1, <2>2, EventLineKeeps
    <2>4. Lined' = Lined \cup {r} /\ r \notin Lined
      BY <2>2, <2>3 DEF Lined
    <2>5. Counting' = Counting \cup {r} /\ r \notin Counting
      BY <2>1 DEF Counting
    <2>6. Counting = {}
      BY <2>1 DEF Counting, Exclusive, Holders
    <2>7. IsFiniteSet(Lined') /\ Cardinality(Lined') = Cardinality(Lined) + 1
      BY <1>0, <2>4, FS_AddElement
    <2>8. IsFiniteSet(Counting') /\ Cardinality(Counting') = 1 /\ Cardinality(Counting) = 0
      <3>1. Counting' = {r}
        BY <2>5, <2>6
      <3>2. IsFiniteSet({r}) /\ Cardinality({r}) = 1
        BY FS_Singleton, Zenon
      <3> QED
        BY <3>1, <3>2, <2>6, FS_EmptySet, Zenon
    <2> QED
      BY <1>0, <2>1, <2>7, <2>8 DEF Counted
  <1>7. ASSUME NEW r \in Requests, Count(r)
        PROVE  Counted'
    <2>1. /\ phase[r] = "count" /\ out' = out /\ count' = count + 1
          /\ phase'[r] = "log" /\ \A s \in Requests : s # r => phase'[s] = phase[s]
      BY <1>7, Moves DEF Count, stdoutVars
    <2>2. Lined' = Lined
      BY <2>1, NoLine DEF Lined
    <2>3. Counting = {r} /\ Counting' = {}
      BY <2>1 DEF Counting, Exclusive, Holders
    <2>4. IsFiniteSet(Counting') /\ Cardinality(Counting') = 0 /\ Cardinality(Counting) = 1
      BY <2>3, FS_Singleton, FS_EmptySet
    <2> QED
      BY <1>0, <2>1, <2>2, <2>4 DEF Counted
  <1> QED
    BY <1>2, <1>3, <1>4, <1>5, <1>6, <1>7 DEF Next

-----------------------------------------------------------------------------
(* The theorems.                                                           *)

IInv ==
    /\ Types /\ Steps /\ Exclusive /\ Exited
    /\ SentKeepsOrder /\ Counted

\* In every state the handlers, the mutex, stdout and the clients are where
\* the source can bring them.
THEOREM Inductive == Spec => []IInv
  <1>1. Init => IInv
    <2> SUFFICES ASSUME Init
                 PROVE  IInv
      OBVIOUS
    <2>1. Exited
      BY DEF Init, Exited
    <2> QED
      BY <2>1, InitTypes, InitSteps, InitExclusive, InitOrder, InitCounted DEF IInv
  <1>2. IInv /\ [Next]_vars => IInv'
    BY NextTypes, NextSteps, NextExclusive, NextExited, NextOrder, NextCounted DEF IInv
  <1> QED
    BY <1>1, <1>2, PTL DEF Spec

\* The types, the pipe's capacity, and that StdoutProducer.mu is held by
\* exactly the one handler, if any, that is between its Lock and its Unlock.
THEOREM TypeCorrect == Spec => []TypeOK
  <1>1. IInv => TypeOK
    <2> SUFFICES ASSUME IInv
                 PROVE  TypeOK
      OBVIOUS
    <2>1. mutex = {r \in Requests : phase[r] \in {"write", "count"}}
      BY DEF IInv, Exclusive, Holders
    <2>2. Cardinality(mutex) =< 1
      <3>1. CASE mutex = {}
        BY <3>1, FS_EmptySet
      <3>2. CASE mutex # {}
        <4>1. PICK r : mutex = {r}
          BY <3>2 DEF IInv, Exclusive
        <4>2. Cardinality({r}) = 1
          BY FS_Singleton, Zenon
        <4> QED
          BY <4>1, <4>2
      <3> QED
        BY <3>1, <3>2
    <2> QED
      BY <2>1, <2>2 DEF TypeOK, IInv, Types, Chunks
  <1> QED
    BY <1>1, Inductive, PTL

\* Whatever times out or fails to be written, no request has two lines on
\* stdout, and one its client was told 202 for has its line whole.
THEOREM PublishedOnce == Spec => []SentIsPublishedOnce
  <1>1. IInv => SentIsPublishedOnce
    <2> SUFFICES ASSUME IInv, NEW r \in Requests
                 PROVE  /\ \A i, j \in EventLines(r) : i = j
                        /\ r \in acked => Published(r)
      BY DEF SentIsPublishedOnce
    <2>1. Progress(r)
      BY DEF IInv, Steps
    <2> QED
      BY <2>1 DEF Progress
  <1> QED
    BY <1>1, Inductive, PTL

\* StdoutProducer.count is the number of whole lines of events, but for the
\* handler between its write and count.Add(1).
THEOREM CountAgrees == Spec => []CountIsPublished
  <1>1. IInv => CountIsPublished
    BY DEF IInv, Counted, Lined, Counting, CountIsPublished
  <1> QED
    BY <1>1, Inductive, PTL

\* The events of one client stand on stdout in the order of its posts from
\* every acknowledged one on.
THEOREM OrderKept == Spec => []SentKeepsOrder
  <1>1. IInv => SentKeepsOrder
    BY DEF IInv
  <1> QED
    BY <1>1, Inductive, PTL

\* main returns after srv.Shutdown with no request half done: 202 was the
\* answer to exactly those that are on stdout.
THEOREM ShutdownIsClean == Spec => []CleanShutdown
  <1>1. IInv => CleanShutdown
    <2> SUFFICES ASSUME IInv, server = "exited", NEW r \in Requests, phase[r] # "none"
                 PROVE  phase[r] = "done" /\ (status[r] = 202 <=> Published(r))
      BY DEF CleanShutdown
    <2>1. phase[r] = "done"
      BY DEF IInv, Exited, Active
    <2>2. Progress(r)
      BY DEF IInv, Steps
    <2> QED
      BY <2>1, <2>2 DEF Progress
  <1> QED
    BY <1>1, Inductive, PTL
=============================================================================
