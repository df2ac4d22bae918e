------------------------------ MODULE Ingest ------------------------------
(***************************************************************************)
(* sentinel-ingest (services/ingest) and the clients that post to it.      *)
(* Every request runs in its own handler goroutine: it is validated,       *)
(* published as a line on stdout under the producer's mutex, logged on the *)
(* same stdout by the logging middleware, and only then is the buffered    *)
(* response flushed to the client.  The clients are those of               *)
(* services/generator: one request at a time, a timeout, no retry.         *)
(*                                                                         *)
(* Stdout is either a pipe to the next stage (bounded, and writing to it   *)
(* after its reader died kills the process) or a file (a write can fail    *)
(* half way).                                                              *)
(***************************************************************************)
EXTENDS Integers, Sequences, FiniteSets

CONSTANTS Clients,       \* the processes that post events
          PerClient,     \* bound: requests each client makes
          PipeCap,       \* lines that fit into stdout when it is a pipe
          Deployments,   \* what stdout may be: "pipe" or "file"
          MaxFaults      \* bound: writes to a file that fail

ASSUME IngestAssumption == /\ PerClient \in Nat
                           /\ PipeCap \in Nat \ {0}
                           /\ Deployments \subseteq {"pipe", "file"}
                           /\ MaxFaults \in Nat

Requests == Clients \X (1..PerClient)

Client(r) == r[1]

VARIABLES server,    \* "up", "stopping" (a signal came), "draining"
                     \* (srv.Shutdown), "exited" or "dead"
          phase,     \* phase[r]: where the handler of request r is
          mutex,     \* requests whose handler holds StdoutProducer.mu
          status,    \* status[r]: the response code the handler has set
          stdout,    \* how the service is deployed
          out,       \* every write to stdout so far, in order
          taken,     \* how many of them the next stage has read
          reader,    \* the next stage is alive
          faults,    \* writes that have failed so far
          count,     \* StdoutProducer.count
          posted,    \* posted[c]: requests client c has made
          waiting,   \* clients that wait for the response to their last one
          sent,      \* sent[c], failed[c]: the Poster's counters
          failed,
          acked      \* requests counted in sent (history)

serverVars == <<server, phase, mutex, status, count>>
stdoutVars == <<stdout, out, taken, reader, faults>>
clientVars == <<posted, waiting, sent, failed, acked>>
vars == <<serverVars, stdoutVars, clientVars>>

Phases == {"none",     \* not at the server
           "arrived",  \* accepted, the handler has yet to decode it
           "lock",     \* Publish waits for the mutex
           "write",    \* Publish holds it and writes
           "count",    \* written, the mutex still held
           "complain", \* Publish failed: handleEvents logs the error
           "log",      \* handleEvents has returned, the middleware logs
           "reply",    \* the response is about to be flushed
           "done"}

Active(r) == phase[r] \notin {"none", "done"}

Listening == server \in {"up", "stopping"}

Alive == Listening \/ server = "draining"

Last(c) == <<c, posted[c]>>

\* A write to stdout: the line of an event or a line of the logger, whole or
\* broken off before its newline.  Main stands for the lines of main itself.
Chunk(what, r, whole) == [what |-> what, req |-> r, whole |-> whole]

Main == <<>>

StdoutIsPipe == stdout = "pipe"

Room == ~StdoutIsPipe \/ Len(out) - taken < PipeCap

Writable == Room /\ (StdoutIsPipe => reader)

\* A write to a file that fails, after a part of the line or before any of it.
BrokenWrite(what, r) ==
    /\ ~StdoutIsPipe
    /\ faults < MaxFaults
    /\ faults' = faults + 1
    /\ out' \in {out, Append(out, Chunk(what, r, FALSE))}

WholeWrite(what, r) ==
    /\ Writable
    /\ out' = Append(out, Chunk(what, r, TRUE))
    /\ UNCHANGED faults

\* "sentinel-ingest starting" is on stdout before the first request, unless
\* that write failed.
Starts ==
    \/ /\ out = <<Chunk("log", Main, TRUE)>>
       /\ faults = 0
    \/ /\ ~StdoutIsPipe /\ MaxFaults > 0
       /\ out \in {<<>>, <<Chunk("log", Main, FALSE)>>}
       /\ faults = 1

Init ==
    /\ server = "up"
    /\ phase = [r \in Requests |-> "none"]
    /\ mutex = {}
    /\ status = [r \in Requests |-> 0]
    /\ stdout \in Deployments
    /\ Starts
    /\ taken = 0
    /\ reader = TRUE
    /\ count = 0
    /\ posted = [c \in Clients |-> 0]
    /\ waiting = {}
    /\ sent = [c \in Clients |-> 0]
    /\ failed = [c \in Clients |-> 0]
    /\ acked = {}

-----------------------------------------------------------------------------
(* Plausible mistakes in the code; nothing below uses them.                *)

\* Publish counts before it writes.
LockCounting(r) ==
    /\ Alive
    /\ phase[r] = "lock"
    /\ mutex = {}
    /\ mutex' = {r}
    /\ count' = count + 1
    /\ phase' = [phase EXCEPT ![r] = "write"]
    /\ UNCHANGED <<server, status, stdoutVars, clientVars>>

\* Publish does not take the mutex.
LockUnheld(r) ==
    /\ Alive
    /\ phase[r] = "lock"
    /\ phase' = [phase EXCEPT ![r] = "write"]
    /\ UNCHANGED <<server, mutex, status, count, stdoutVars, clientVars>>

\* The response is flushed before Publish is called.
ReplyEarly(r) ==
    /\ Alive
    /\ \/ /\ phase[r] = "lock"
          /\ r = <<r[1], posted[r[1]]>> /\ r[1] \in waiting
          /\ waiting' = waiting \ {r[1]}
          /\ sent' = [sent EXCEPT ![r[1]] = @ + 1]
          /\ acked' = acked \cup {r}
          /\ UNCHANGED phase
       \/ /\ phase[r] = "reply"
          /\ phase' = [phase EXCEPT ![r] = "done"]
          /\ UNCHANGED <<waiting, sent, acked>>
    /\ UNCHANGED <<server, mutex, status, count, posted, failed, stdoutVars>>

\* The error of the write is not looked at.
WriteFailsUnnoticed(r) ==
    /\ Alive
    /\ phase[r] = "write"
    /\ BrokenWrite("event", r)
    /\ phase' = [phase EXCEPT ![r] = "count"]
    /\ UNCHANGED <<server, mutex, status, count, stdout, taken, reader, clientVars>>

\* The write error path unlocks by hand, and forgets to.
WriteFailsLocked(r) ==
    /\ Alive
    /\ phase[r] = "write"
    /\ BrokenWrite("event", r)
    /\ status' = [status EXCEPT ![r] = 503]
    /\ phase' = [phase EXCEPT ![r] = "complain"]
    /\ UNCHANGED <<server, mutex, count, stdout, taken, reader, clientVars>>

\* main returns without waiting for srv.Shutdown.
DrainedAtOnce ==
    /\ server = "draining"
    /\ server' = "exited"
    /\ UNCHANGED <<phase, mutex, status, count, stdoutVars, clientVars>>

-----------------------------------------------------------------------------
(* Clients: Poster.post.                                                   *)

CountFailed(c) ==
    /\ waiting' = waiting \ {c}
    /\ failed' = [failed EXCEPT ![c] = @ + 1]
    /\ UNCHANGED <<sent, acked>>

\* client.post(target, json=event) reaches a listening server, or does not.
Post(c) ==
    /\ c \notin waiting
    /\ posted[c] < PerClient
    /\ posted' = [posted EXCEPT ![c] = @ + 1]
    /\ \/ /\ Listening
          /\ phase' = [phase EXCEPT ![<<c, posted[c] + 1>>] = "arrived"]
          /\ waiting' = waiting \cup {c}
          /\ UNCHANGED <<sent, failed, acked>>
       \/ CountFailed(c) /\ UNCHANGED phase
    /\ UNCHANGED <<server, mutex, status, count, stdoutVars>>

\* httpx.HTTPError: the timeout, or the connection breaks when the server
\* ends.  The handler goroutine is not told and goes on.
GivesUp(c) ==
    /\ c \in waiting
    /\ CountFailed(c)
    /\ UNCHANGED <<posted, serverVars, stdoutVars>>

-----------------------------------------------------------------------------
(* The handler of a request: handleEvents, Publish and logging.            *)

Goto(r, p) == phase' = [phase EXCEPT ![r] = p]

\* Decode, Validate and Mint: the request is turned down with 400, for a
\* fault of its own or because no event id could be made, or goes to Publish.
Decode(r) ==
    /\ Alive
    /\ phase[r] = "arrived"
    /\ \/ Goto(r, "lock") /\ UNCHANGED status
       \/ Goto(r, "log") /\ status' = [status EXCEPT ![r] = 400]
    /\ UNCHANGED <<server, mutex, count, stdoutVars, clientVars>>

\* p.mu.Lock()
Lock(r) ==
    /\ Alive
    /\ phase[r] = "lock"
    /\ mutex = {}
    /\ mutex' = {r}
    /\ Goto(r, "write")
    /\ UNCHANGED <<server, status, count, stdoutVars, clientVars>>

\* p.w.Write returns without an error.
Write(r) ==
    /\ Alive
    /\ phase[r] = "write"
    /\ WholeWrite("event", r)
    /\ Goto(r, "count")
    /\ UNCHANGED <<server, mutex, status, count, stdout, taken, reader, clientVars>>

\* p.w.Write fails, with a part of the line written or nothing of it; the
\* deferred Unlock runs and handleEvents answers 503.
WriteFails(r) ==
    /\ Alive
    /\ phase[r] = "write"
    /\ BrokenWrite("event", r)
    /\ mutex' = {}
    /\ status' = [status EXCEPT ![r] = 503]
    /\ Goto(r, "complain")
    /\ UNCHANGED <<server, count, stdout, taken, reader, clientVars>>

\* p.count.Add(1), the deferred Unlock, and 202 for the response.
Count(r) ==
    /\ Alive
    /\ phase[r] = "count"
    /\ count' = count + 1
    /\ mutex' = {}
    /\ status' = [status EXCEPT ![r] = 202]
    /\ Goto(r, "log")
    /\ UNCHANGED <<server, stdoutVars, clientVars>>

\* The logger writes to stdout too, and drops the error of a failed write.
Logs(r) == WholeWrite("log", r) \/ BrokenWrite("log", r)

LogLine(r, from, to) ==
    /\ Alive
    /\ phase[r] = from
    /\ Logs(r)
    /\ Goto(r, to)
    /\ UNCHANGED <<server, mutex, status, count, stdout, taken, reader, clientVars>>

\* logger.Error("publish failed")
Complain(r) == LogLine(r, "complain", "log")

\* logger.Info("http"), by the middleware, once handleEvents has returned.
Log(r) == LogLine(r, "log", "reply")

\* The response leaves; the client counts it unless it has given up.
Reply(r) ==
    /\ Alive
    /\ phase[r] = "reply"
    /\ Goto(r, "done")
    /\ LET c == Client(r) IN
       IF c \in waiting /\ r = Last(c)
       THEN \/ /\ status[r] < 400
               /\ waiting' = waiting \ {c}
               /\ sent' = [sent EXCEPT ![c] = @ + 1]
               /\ acked' = acked \cup {r}
               /\ UNCHANGED failed
            \/ status[r] >= 400 /\ CountFailed(c)
       ELSE UNCHANGED <<waiting, sent, failed, acked>>
    /\ UNCHANGED <<server, mutex, status, count, posted, stdoutVars>>

-----------------------------------------------------------------------------
(* The process and the next stage.                                         *)

\* SIGTERM or SIGINT: main leaves its select.
Signal ==
    /\ server = "up"
    /\ server' = "stopping"
    /\ UNCHANGED <<phase, mutex, status, count, stdoutVars, clientVars>>

\* logger.Info("shutting down"), then srv.Shutdown closes the listener and
\* waits.  A stdout that is full holds up the shutdown.
Shutdown ==
    /\ server = "stopping"
    /\ Logs(Main)
    /\ server' = "draining"
    /\ UNCHANGED <<phase, mutex, status, count, stdout, taken, reader, clientVars>>

\* Shutdown returns nil: no handler is left, and main returns.
Drained ==
    /\ server = "draining"
    /\ \A r \in Requests : ~Active(r)
    /\ server' = "exited"
    /\ UNCHANGED <<phase, mutex, status, count, stdoutVars, clientVars>>

\* The process is killed, or Shutdown returns after its 5 s with handlers
\* still at work and main logs that and returns: every goroutine ends where it
\* is.
Dies ==
    /\ Alive
    /\ UNCHANGED <<out, faults>> \/ (server = "draining" /\ Logs(Main))
    /\ server' = "dead"
    /\ UNCHANGED <<phase, mutex, status, count, stdout, taken, reader, clientVars>>

\* A write to stdout when nobody will read it: SIGPIPE ends the process.
BrokenPipe ==
    /\ Alive
    /\ StdoutIsPipe /\ ~reader
    /\ \/ server = "stopping"
       \/ \E r \in Requests : phase[r] \in {"write", "complain", "log"}
    /\ server' = "dead"
    /\ UNCHANGED <<phase, mutex, status, count, stdoutVars, clientVars>>

ReadLine ==
    /\ StdoutIsPipe
    /\ reader
    /\ taken < Len(out)
    /\ taken' = taken + 1
    /\ UNCHANGED <<stdout, out, reader, faults, serverVars, clientVars>>

ReaderDies ==
    /\ StdoutIsPipe
    /\ reader
    /\ reader' = FALSE
    /\ UNCHANGED <<stdout, out, taken, faults, serverVars, clientVars>>

Next ==
    \/ \E c \in Clients : Post(c) \/ GivesUp(c)
    \/ \E r \in Requests :
          \/ Decode(r) \/ Lock(r) \/ Write(r) \/ WriteFails(r) \/ Count(r)
          \/ Complain(r) \/ Log(r) \/ Reply(r)
    \/ Signal \/ Shutdown \/ Drained \/ Dies \/ BrokenPipe
    \/ ReadLine \/ ReaderDies

Spec == Init /\ [][Next]_vars

\* Goroutines run (WF); sync.Mutex hands itself to a waiter that has starved
\* (SF); the next stage reads while it lives; clients time out.
Fairness ==
    /\ \A r \in Requests :
          /\ WF_vars(Decode(r)) /\ SF_vars(Lock(r))
          /\ WF_vars(Write(r) \/ WriteFails(r)) /\ WF_vars(Count(r))
          /\ WF_vars(Complain(r)) /\ WF_vars(Log(r)) /\ WF_vars(Reply(r))
    /\ WF_vars(BrokenPipe) /\ WF_vars(ReadLine)
    /\ WF_vars(Shutdown) /\ WF_vars(Drained)
    /\ \A c \in Clients : WF_vars(GivesUp(c))

FairSpec == Spec /\ Fairness

-----------------------------------------------------------------------------
(* Properties.                                                             *)

\* Types; the pipe never holds more than it can, and the mutex is held by
\* exactly the handler that is inside Publish's critical section.
TypeOK ==
    /\ server \in {"up", "stopping", "draining", "exited", "dead"}
    /\ phase \in [Requests -> Phases]
    /\ mutex = {r \in Requests : phase[r] \in {"write", "count"}}
    /\ Cardinality(mutex) =< 1
    /\ status \in [Requests -> {0, 202, 400, 503}]
    /\ stdout \in Deployments
    /\ out \in Seq([what : {"event", "log"}, req : Requests \cup {Main}, whole : BOOLEAN])
    /\ taken \in 0..Len(out)
    /\ StdoutIsPipe => Len(out) - taken =< PipeCap
    /\ reader \in BOOLEAN
    /\ faults \in 0..MaxFaults
    /\ count \in Nat
    /\ posted \in [Clients -> 0..PerClient]
    /\ waiting \subseteq Clients
    /\ sent \in [Clients -> Nat] /\ failed \in [Clients -> Nat]
    /\ acked \subseteq Requests

EventLines(r) == {i \in 1..Len(out) : out[i].what = "event" /\ out[i].req = r}

Published(r) == \E i \in EventLines(r) : out[i].whole

\* A request is written to stdout at most once, whatever times out around it,
\* and one that its client counts as sent is there in full: the 202 leaves the
\* service only after the write.  The converse does not hold, a failed request
\* may have been published.
SentIsPublishedOnce ==
    \A r \in Requests :
        /\ \A i, j \in EventLines(r) : i = j
        /\ r \in acked => Published(r)

\* The producer's counter is the number of complete event lines, except for
\* the moment in which a handler has written and not yet counted.
CountIsPublished ==
    Cardinality({r \in Requests : Published(r)})
      = count + Cardinality({r \in Requests : phase[r] = "count"})

\* Two events of one client are published in the order it posted them if the
\* first one was acknowledged, however the handlers interleave.  After a
\* timeout the order is open: the first handler may still be at work.
SentKeepsOrder ==
    \A r, s \in Requests :
        (Client(r) = Client(s) /\ r[2] < s[2] /\ r \in acked) =>
            \A i \in EventLines(r), j \in EventLines(s) : i < j

\* After a shutdown that was not cut short no request was left half done: each
\* one that reached the service has had its response, 202 exactly if its line
\* is on stdout.
CleanShutdown ==
    server = "exited" =>
        \A r \in Requests :
            phase[r] # "none" => phase[r] = "done" /\ (status[r] = 202 <=> Published(r))

\* No handler is stuck for ever, neither behind the mutex nor behind a write:
\* a failed write frees the mutex, a dead reader ends the process.
HandlerEnds ==
    \A r \in Requests : Active(r) ~> (~Active(r) \/ ~Alive)

-----------------------------------------------------------------------------
(* What the documentation says of stdout.                                  *)

\* services/ingest/README.md: one JSON line per event on stdout.  The logger
\* writes its lines there as well.
StdoutHoldsEventsOnly == \A i \in 1..Len(out) : out[i].what = "event"
============================================================================
