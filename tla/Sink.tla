------------------------------- MODULE Sink -------------------------------
(***************************************************************************)
(* sentinel-sink (services/sink): one process with a goroutine that scans  *)
(* stdin into a bounded channel, a ticker, and a main loop that routes     *)
(* each line to the buffer of its table and inserts the buffers into       *)
(* ClickHouse, one blocking HTTP request at a time.                        *)
(*                                                                         *)
(* A line is identified by its position on stdin; input[i] is the kind of  *)
(* line i.  The channel `lines' is FIFO with one sender and one receiver,  *)
(* so it holds exactly the lines received+1 .. sent.                       *)
(***************************************************************************)
EXTENDS Integers, Sequences

CONSTANTS BatchSize,   \* SINK_BATCH_SIZE: any integer, the code checks none
          ChanCap,     \* capacity of the channel lines (256)
          Stdin,       \* what stdin may have delivered so far: sequences of kinds
          MaxLines     \* bound: lines that stdin delivers in a behaviour

ASSUME ConfigAssumption == /\ BatchSize \in Int
                           /\ ChanCap \in Nat \ {0}
                           /\ MaxLines \in Nat

VARIABLES input,       \* kinds of the lines scanned so far
          reader,      \* the scanning goroutine: "scan", "send" or "done"
          sent,        \* lines put into the channel
          received,    \* lines the main loop has taken from it
          tick,        \* a tick waits in ticker.C
          pc,          \* run: "loop", "return" (its defers), "exited", "killed"
          buffers,     \* buffers[t]: lines waiting to be inserted into t
          todo,        \* tables the current flush or flushAll has yet to insert
          posts        \* every INSERT request made so far, in order

vars == <<input, reader, sent, received, tick, pc, buffers, todo, posts>>

Tables == {"events_enriched", "alerts"}

\* "event" and "alert" are JSON objects without and with a field kind (a line
\* null decodes too, to an object without fields);
\* "poison" is an object without it that the table's column types reject;
\* "junk" is an empty line or one that is not a JSON object.
Kinds == {"event", "alert", "poison", "junk"}

IsRow(k) == k # "junk"

Route(k) == IF k = "alert" THEN "alerts" ELSE "events_enriched"

Replies == {"none",    \* still waiting
            "ok",      \* status below 400
            "error",   \* status of 400 or above, or no connection: nothing inserted
            "lost"}    \* the client gave up: the server may insert, or have inserted

Posts == [table : Tables, rows : Seq(Nat), applied : BOOLEAN, reply : Replies]

InFlight == posts # <<>> /\ posts[Len(posts)].reply = "none"

AtSelect == pc = "loop" /\ todo = {} /\ ~InFlight

NonEmpty == {t \in Tables : buffers[t] # <<>>}

Running == pc \in {"loop", "return"}

Init ==
    /\ input = <<>>
    /\ reader = "scan"
    /\ sent = 0
    /\ received = 0
    /\ tick = FALSE
    /\ pc = "loop"
    /\ buffers = [t \in Tables |-> <<>>]
    /\ todo = {}
    /\ posts = <<>>

-----------------------------------------------------------------------------
(* Plausible mistakes in the code.  Nothing below uses these operators: each *)
(* takes the place of the definition it is named after in a run that must    *)
(* then find a property violated.                                            *)

\* make(chan string) read by a sender that never blocks.
SendLineUnbounded ==
    /\ Running
    /\ reader = "send"
    /\ sent' = sent + 1
    /\ reader' = "scan"
    /\ UNCHANGED <<input, received, tick, pc, buffers, todo, posts>>

\* The goroutine returns without closing the channel.
ScanEndsUnclosed ==
    /\ Running
    /\ reader = "scan"
    /\ reader' = "gone"
    /\ UNCHANGED <<input, sent, received, tick, pc, buffers, todo, posts>>

\* > in place of >= in the size check.
FullWhenAbove(b) == Len(b) > BatchSize

\* No size check: a batch never fills, and only the ticker flushes.
FullNever(b) == FALSE

\* case <-ticker.C without flushAll().
ReceiveTickIgnored ==
    /\ AtSelect
    /\ tick
    /\ tick' = FALSE
    /\ UNCHANGED <<input, reader, sent, received, pc, buffers, todo, posts>>

\* No defer flushAll().
ReceiveClosedUndeferred ==
    /\ AtSelect
    /\ reader = "done"
    /\ received = sent
    /\ pc' = "return"
    /\ UNCHANGED <<input, reader, sent, received, tick, buffers, todo, posts>>

Batch(t) == [table |-> t, rows |-> buffers[t], applied |-> FALSE, reply |-> "none"]

\* buffers[table] = nil only after a successful insert, so never here.
FlushKeepsBatch(t) ==
    /\ Running
    /\ ~InFlight
    /\ t \in todo
    /\ todo' = todo \ {t}
    /\ posts' = Append(posts, Batch(t))
    /\ UNCHANGED <<input, reader, sent, received, tick, pc, buffers>>

\* One flush empties the buffers of both tables.
FlushClearsAll(t) ==
    /\ Running
    /\ ~InFlight
    /\ t \in todo
    /\ todo' = todo \ {t}
    /\ posts' = Append(posts, Batch(t))
    /\ buffers' = [u \in Tables |-> <<>>]
    /\ UNCHANGED <<input, reader, sent, received, tick, pc>>

-----------------------------------------------------------------------------
(* The scanning goroutine.                                                 *)

\* scanner.Scan() returns the next line, of any kind that Stdin allows.
Scan ==
    /\ Running
    /\ reader = "scan"
    /\ Len(input) < MaxLines
    /\ \E k \in Kinds : Append(input, k) \in Stdin /\ input' = Append(input, k)
    /\ reader' = "send"
    /\ UNCHANGED <<sent, received, tick, pc, buffers, todo, posts>>

\* scanner.Scan() returns false: end of file, a read error or a line longer
\* than the scanner's buffer.  The deferred close(lines) runs.
ScanEnds ==
    /\ Running
    /\ reader = "scan"
    /\ reader' = "done"
    /\ UNCHANGED <<input, sent, received, tick, pc, buffers, todo, posts>>

\* lines <- scanner.Text() blocks while the channel is full.
SendLine ==
    /\ Running
    /\ reader = "send"
    /\ sent - received < ChanCap
    /\ sent' = sent + 1
    /\ reader' = "scan"
    /\ UNCHANGED <<input, received, tick, pc, buffers, todo, posts>>

-----------------------------------------------------------------------------
(* The ticker and the main loop.                                           *)

\* ticker.C holds one tick; a tick that finds it full is dropped.  The
\* deferred ticker.Stop() runs before the deferred flushAll().
TickFires ==
    /\ pc = "loop"
    /\ tick' = TRUE
    /\ UNCHANGED <<input, reader, sent, received, pc, buffers, todo, posts>>

Full(b) == Len(b) >= BatchSize

\* case line, ok := <-lines, with ok: skip the line or buffer its row, and
\* flush the table when its buffer is full.
ReceiveLine ==
    /\ AtSelect
    /\ received < sent
    /\ received' = received + 1
    /\ LET k == input[received + 1]
           t == Route(k)
           b == Append(buffers[t], received + 1)
       IN  \/ /\ ~IsRow(k)
              /\ UNCHANGED <<buffers, todo>>
           \/ /\ IsRow(k)
              /\ buffers' = [buffers EXCEPT ![t] = b]
              /\ todo' = IF Full(b) THEN {t} ELSE {}
    /\ UNCHANGED <<input, reader, sent, tick, pc, posts>>

\* case <-ticker.C: flushAll().
ReceiveTick ==
    /\ AtSelect
    /\ tick
    /\ tick' = FALSE
    /\ todo' = NonEmpty
    /\ UNCHANGED <<input, reader, sent, received, pc, buffers, posts>>

\* case line, ok := <-lines, without ok: the channel is closed and empty, run
\* returns and its deferred flushAll() begins.
ReceiveClosed ==
    /\ AtSelect
    /\ reader = "done"
    /\ received = sent
    /\ pc' = "return"
    /\ todo' = NonEmpty
    /\ UNCHANGED <<input, reader, sent, received, tick, buffers, posts>>

\* flush(table): the buffer is emptied, then client.InsertBatch is called and
\* blocks the loop.  flushAll visits the tables in any order.
Flush(t) ==
    /\ Running
    /\ ~InFlight
    /\ t \in todo
    /\ todo' = todo \ {t}
    /\ posts' = Append(posts, Batch(t))
    /\ buffers' = [buffers EXCEPT ![t] = <<>>]
    /\ UNCHANGED <<input, reader, sent, received, tick, pc>>

\* The deferred flushAll() is through and the process ends.
Exit ==
    /\ pc = "return"
    /\ todo = {}
    /\ ~InFlight
    /\ pc' = "exited"
    /\ UNCHANGED <<input, reader, sent, received, tick, buffers, todo, posts>>

-----------------------------------------------------------------------------
(* An INSERT request: what the server does and what InsertBatch returns.   *)

Accepts(p) == \A i \in 1..Len(posts[p].rows) : input[posts[p].rows[i]] # "poison"

\* ClickHouse parses and inserts the whole body.  A request whose client has
\* given up on it may still be running.
ServerInserts(p) ==
    /\ ~posts[p].applied
    /\ posts[p].reply \in {"none", "lost"}
    /\ Accepts(p)
    /\ posts' = [posts EXCEPT ![p].applied = TRUE]
    /\ UNCHANGED <<input, reader, sent, received, tick, pc, buffers, todo>>

Answer(reply) ==
    /\ posts' = [posts EXCEPT ![Len(posts)].reply = reply]
    /\ UNCHANGED <<input, reader, sent, received, tick, pc, buffers, todo>>

\* resp.StatusCode < 400.
ReplyOK == Running /\ InFlight /\ posts[Len(posts)].applied /\ Answer("ok")

\* resp.StatusCode >= 400, or the request never reached a server.
ReplyError == Running /\ InFlight /\ ~posts[Len(posts)].applied /\ Answer("error")

\* client.Do fails after the request went out: the 30 s timeout, a reset.
PostFails == Running /\ InFlight /\ Answer("lost")

\* SIGTERM or SIGINT, for which the sink installs no handler.
Kill ==
    /\ Running
    /\ pc' = "killed"
    /\ UNCHANGED <<input, reader, sent, received, tick, buffers, todo, posts>>

Next ==
    \/ Scan \/ ScanEnds \/ SendLine
    \/ TickFires \/ ReceiveLine \/ ReceiveTick \/ ReceiveClosed
    \/ \E t \in Tables : Flush(t)
    \/ \E p \in 1..Len(posts) : ServerInserts(p)
    \/ ReplyOK \/ ReplyError \/ PostFails
    \/ Exit \/ Kill

Spec == Init /\ [][Next]_vars

(* What the code's scheduling justifies.  Go's select picks among its ready  *)
(* cases at random, so a case that is ready again and again is taken (SF);   *)
(* the other goroutine and the ticker keep running (WF); a request ends by   *)
(* an answer or by the client's 30 s timeout (WF on their disjunction).      *)
(* Nothing is assumed of stdin, of the server or of Kill.                    *)
Fairness ==
    /\ WF_vars(SendLine) /\ WF_vars(TickFires)
    /\ SF_vars(ReceiveLine) /\ SF_vars(ReceiveTick) /\ SF_vars(ReceiveClosed)
    /\ \A t \in Tables : WF_vars(Flush(t))
    /\ WF_vars(ReplyOK \/ ReplyError \/ PostFails)
    /\ WF_vars(Exit)

FairSpec == Spec /\ Fairness

-----------------------------------------------------------------------------
(* Properties.                                                             *)

\* Every variable has its type, and the channel never holds more than its
\* capacity although its sender and receiver run concurrently.
TypeOK ==
    /\ input \in Seq(Kinds)
    /\ reader \in {"scan", "send", "done"}
    /\ received \in Nat
    /\ sent \in received .. received + ChanCap
    /\ tick \in BOOLEAN
    /\ pc \in {"loop", "return", "exited", "killed"}
    /\ buffers \in [Tables -> Seq(Nat)]
    /\ todo \in SUBSET Tables
    /\ posts \in Seq(Posts)

Increasing(s) == \A i, j \in 1..Len(s) : i < j => s[i] < s[j]

Below(s, u) == \A i \in 1..Len(s) : \A j \in 1..Len(u) : s[i] < u[j]

\* Through size flushes, tick flushes, failed and timed-out inserts: the rows
\* of a table go into its INSERT requests in the order of stdin and no line is
\* ever in two requests, or in a request and still in a buffer.  This is why a
\* request whose answer was lost cannot lead to a duplicate row.
OrderedOnce ==
    /\ \A t \in Tables : Increasing(buffers[t])
    /\ \A p \in 1..Len(posts) :
          /\ Increasing(posts[p].rows)
          /\ Below(posts[p].rows, buffers[posts[p].table])
          /\ \A q \in p+1..Len(posts) :
                posts[p].table = posts[q].table => Below(posts[p].rows, posts[q].rows)

In(r, s) == \E i \in 1..Len(s) : s[i] = r

Held(r) == \E t \in Tables : In(r, buffers[t])

Holds(p, r) == In(r, posts[p].rows)

InPost(r, p) == posts[p].table = Route(input[r]) /\ Holds(p, r)

\* Every row the main loop has taken from the channel waits in the buffer of
\* its table or is in a request to its table: a failed insert of one table, or
\* a flush of it, loses no row of the other one.
NoRowMislaid ==
    \A r \in 1..received :
        IsRow(input[r]) =>
            In(r, buffers[Route(input[r])]) \/ \E p \in 1..Len(posts) : InPost(r, p)

\* When the process ends by itself, every row it ever scanned, those that were
\* in the channel or a buffer at the end of stdin included, is in a request
\* that has been answered or given up on.
DrainedAtExit ==
    pc = "exited" =>
        \A r \in 1..Len(input) :
            IsRow(input[r]) =>
                \E p \in 1..Len(posts) : InPost(r, p) /\ posts[p].reply # "none"

MaxBatch == IF BatchSize > 1 THEN BatchSize ELSE 1

RowsIn(b) == Len(b["events_enriched"]) + Len(b["alerts"])

BufferedRows == RowsIn(buffers)

\* What a kill can lose: the line being sent, the lines in the channel and the
\* rows that are in no finished request never outnumber the channel and two
\* batches.  A line counts from the moment Scan() returned it; what the
\* scanner has read ahead comes on top.
BoundedLoss ==
    (Len(input) - received) + BufferedRows
        + (IF InFlight THEN Len(posts[Len(posts)].rows) ELSE 0)
      =< ChanCap + 2 * MaxBatch

\* No INSERT carries more rows than the configured batch.
BatchWithinSize == \A p \in 1..Len(posts) : Len(posts[p].rows) =< MaxBatch

\* What the invariants above rest on: how far the scanner is ahead of the
\* channel; which rows a buffer or a request may hold; which buffers may be
\* full or, once stdin is at its end, still hold rows; and that only the last
\* request can be waiting.
FromStdin(s, t) ==
    \A i \in 1..Len(s) : /\ s[i] \in 1..received
                         /\ IsRow(input[s[i]])
                         /\ Route(input[s[i]]) = t

Support ==
    /\ Len(input) = IF reader = "send" THEN sent + 1 ELSE sent
    /\ \A t \in Tables : FromStdin(buffers[t], t)
    /\ \A p \in 1..Len(posts) : FromStdin(posts[p].rows, posts[p].table)
    /\ \A t \in Tables : /\ Len(buffers[t]) =< MaxBatch
                         /\ t \notin todo => Len(buffers[t]) < MaxBatch
    /\ \A p \in 1..Len(posts) : posts[p].reply = "none" => p = Len(posts)
    /\ pc \in {"return", "exited"} =>
          /\ reader = "done" /\ received = sent
          /\ \A t \in Tables \ todo : buffers[t] = <<>>
    /\ pc = "exited" => todo = {} /\ ~InFlight

\* A row in a buffer goes out even if stdin falls silent for ever, unless the
\* process is killed first: the ticker alone brings it about.
BufferedRowGoesOut ==
    \A r \in 1..MaxLines :
        Held(r) ~> (pc = "killed" \/ \E p \in 1..Len(posts) : Holds(p, r))

\* After the end of stdin the process ends, although ticks go on competing
\* with the last lines in the select and the last inserts may fail.
EndOfInputEndsProcess == reader \notin {"scan", "send"} ~> ~Running
============================================================================
