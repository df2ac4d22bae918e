----------------------------- MODULE Generator -----------------------------
(***************************************************************************)
(* sentinel-generator (cli.py, scenarios.py, poster.py): fills a queue     *)
(* with the events of the scenarios it is to inject, then makes one try    *)
(* after the other until its deadline, queued events first and random ones *)
(* after that.  A try posts an event to ingest and waits for the answer,   *)
(* or prints it to a pipe (--dry-run).  Nothing is tried twice.            *)
(*                                                                         *)
(* Time is a natural number that starts at 0 with the loop.                *)
(***************************************************************************)
EXTENDS Naturals, Sequences, FiniteSets, SequencesExt

CONSTANTS Injections,   \* what --inject may ask for: sequences of scenarios
          Intervals,    \* 1 / --rate; 0 if the rate is zero or below
          Duration,     \* --duration
          Attempts,     \* failed logins of brute_force_ssh
          Ports,        \* ports of port_scan
          PostTime,     \* bound: how long a try may take
          Slack         \* bound: how much longer than asked a sleep may take

Scenarios == {"brute_force_ssh", "port_scan"}

ASSUME GeneratorAssumption == /\ Injections \subseteq Seq(Scenarios)
                              /\ Intervals \subseteq Nat
                              /\ {Duration, Attempts, Ports, Slack} \subseteq Nat
                              /\ PostTime \in Nat \ {0}

VARIABLES inject, interval, dry,   \* the command line
          pc,        \* "fill", "loop", "try", "sleep", "ended" or "killed"
          code,      \* exit status
          drained,   \* scenarios of inject whose events are all in the queue
          seen,      \* the ports of the scan that is being queued
          queue,     \* scenario_queue
          now,
          tries,     \* what has been tried: [event, at, outcome]
          sent,      \* the counters of the Poster
          failed,
          reader     \* the stage behind the dry run is alive

config == <<inject, interval, dry>>
fillVars == <<drained, seen>>
vars == <<config, pc, code, fillVars, queue, now, tries, sent, failed, reader>>

Random == <<"random", 0>>

Running == pc \notin {"ended", "killed"}

Init ==
    /\ inject \in Injections
    /\ interval \in Intervals
    /\ dry \in BOOLEAN
    /\ pc = "fill"
    /\ code = 0
    /\ drained = 0
    /\ seen = {}
    /\ queue = <<>>
    /\ now = 0
    /\ tries = <<>>
    /\ sent = 0
    /\ failed = 0
    /\ reader = TRUE

Settle(outcome) == tries' = [tries EXCEPT ![Len(tries)].outcome = outcome]

\* A try takes time; without a sleep between the tries, some.
TimePasses == \E d \in 0..PostTime : (interval = 0 => d > 0) /\ now' = now + d

-----------------------------------------------------------------------------
(* Plausible mistakes in the code; nothing below uses them.                *)

\* The number of ports so far, without the one that is to be added.
NextPortFromZero(ports) == Cardinality(ports) * 17 % 65535

\* The deadline is looked at only when the queue is empty.
TakePlanFirst ==
    /\ pc = "loop"
    /\ now < Duration \/ queue # <<>>
    /\ pc' = "try"
    /\ tries' = Append(tries, [event |-> IF queue = <<>> THEN Random ELSE Head(queue),
                               at |-> now, outcome |-> "none"])
    /\ queue' = IF queue = <<>> THEN queue ELSE Tail(queue)
    /\ UNCHANGED <<config, code, fillVars, now, sent, failed, reader>>

\* An event that could not be posted is put back.
PostErrorRequeued ==
    /\ pc = "try" /\ ~dry
    /\ TimePasses
    /\ Settle("error")
    /\ queue' = <<tries[Len(tries)].event>> \o queue
    /\ failed' = failed + 1
    /\ pc' = "sleep"
    /\ UNCHANGED <<config, code, fillVars, sent, reader>>

\* After an error the next event is tried at once.
PostErrorUnpaced ==
    /\ pc = "try" /\ ~dry
    /\ TimePasses
    /\ Settle("error")
    /\ failed' = failed + 1
    /\ pc' = "loop"
    /\ UNCHANGED <<config, code, fillVars, queue, sent, reader>>

\* Any answer is taken as a success.
PostRejectedSent ==
    /\ pc = "try" /\ ~dry
    /\ TimePasses
    /\ Settle("rejected")
    /\ sent' = sent + 1
    /\ pc' = "sleep"
    /\ UNCHANGED <<config, code, fillVars, queue, failed, reader>>

-----------------------------------------------------------------------------
(* Filling the queue: _drain_scenarios.                                    *)

Filling(name) ==
    /\ pc = "fill"
    /\ drained < Len(inject)
    /\ inject[drained + 1] = name

\* Failed logins, then a successful one.
FillBruteForce ==
    /\ Filling("brute_force_ssh")
    /\ queue' = queue \o [k \in 1..Attempts + 1 |-> <<"brute_force_ssh", k>>]
    /\ drained' = drained + 1
    /\ UNCHANGED <<config, pc, code, seen, now, tries, sent, failed, reader>>

NextPort(ports) == (Cardinality(ports) + 1) * 17 % 65535

\* One round of the loop of port_scan; a port of 0 or one it has seen leaves
\* everything as it was.
FillPort ==
    /\ Filling("port_scan")
    /\ Cardinality(seen) < Ports
    /\ NextPort(seen) \notin seen \cup {0}
    /\ seen' = seen \cup {NextPort(seen)}
    /\ queue' = Append(queue, <<"port_scan", NextPort(seen)>>)
    /\ UNCHANGED <<config, pc, code, drained, now, tries, sent, failed, reader>>

FillPortsDone ==
    /\ Filling("port_scan")
    /\ Cardinality(seen) >= Ports
    /\ seen' = {}
    /\ drained' = drained + 1
    /\ UNCHANGED <<config, pc, code, queue, now, tries, sent, failed, reader>>

\* The deadline is set when the queue is complete.
StartLoop ==
    /\ pc = "fill"
    /\ drained = Len(inject)
    /\ pc' = "loop"
    /\ UNCHANGED <<config, code, fillVars, queue, now, tries, sent, failed, reader>>

-----------------------------------------------------------------------------
(* The loop.                                                               *)

\* Before the deadline: scenario_queue.pop(0), or a random event.
Take ==
    /\ pc = "loop"
    /\ now < Duration
    /\ pc' = "try"
    /\ tries' = Append(tries, [event |-> IF queue = <<>> THEN Random ELSE Head(queue),
                               at |-> now, outcome |-> "none"])
    /\ queue' = IF queue = <<>> THEN queue ELSE Tail(queue)
    /\ UNCHANGED <<config, code, fillVars, now, sent, failed, reader>>

\* Poster.post: an answer below 400, one of 400 or above, or httpx.HTTPError.
PostAccepted ==
    /\ pc = "try" /\ ~dry
    /\ TimePasses
    /\ Settle("accepted")
    /\ sent' = sent + 1
    /\ pc' = "sleep"
    /\ UNCHANGED <<config, code, fillVars, queue, failed, reader>>

PostFailed(outcome) ==
    /\ pc = "try" /\ ~dry
    /\ TimePasses
    /\ Settle(outcome)
    /\ failed' = failed + 1
    /\ pc' = "sleep"
    /\ UNCHANGED <<config, code, fillVars, queue, sent, reader>>

PostRejected == PostFailed("rejected")

PostError == PostFailed("error")

\* Anything else ends the process: httpx.InvalidURL is no HTTPError; a dry run
\* whose reader is gone finds its pipe broken.
Raises ==
    /\ pc = "try"
    /\ dry => ~reader
    /\ Settle("raised")
    /\ pc' = "ended"
    /\ code' = 1
    /\ UNCHANGED <<config, fillVars, queue, now, sent, failed, reader>>

\* --dry-run: write and flush.
WriteOut ==
    /\ pc = "try" /\ dry
    /\ reader
    /\ TimePasses
    /\ Settle("printed")
    /\ pc' = "sleep"
    /\ UNCHANGED <<config, code, fillVars, queue, sent, failed, reader>>

\* time.sleep(interval) sleeps at least that long; no sleep for an interval of 0.
Sleep ==
    /\ pc = "sleep"
    /\ \E s \in 0..Slack : now' = IF interval = 0 THEN now ELSE now + interval + s
    /\ pc' = "loop"
    /\ UNCHANGED <<config, code, fillVars, queue, tries, sent, failed, reader>>

\* The deadline has passed.
Done ==
    /\ pc = "loop"
    /\ now >= Duration
    /\ pc' = "ended"
    /\ code' = IF dry \/ failed = 0 THEN 0 ELSE 1
    /\ UNCHANGED <<config, fillVars, queue, now, tries, sent, failed, reader>>

\* A signal, SIGINT and its KeyboardInterrupt included.
Kill ==
    /\ Running
    /\ pc' = "killed"
    /\ UNCHANGED <<config, code, fillVars, queue, now, tries, sent, failed, reader>>

ReaderDies ==
    /\ dry /\ reader
    /\ reader' = FALSE
    /\ UNCHANGED <<config, pc, code, fillVars, queue, now, tries, sent, failed>>

Steps ==
    \/ FillBruteForce \/ FillPort \/ FillPortsDone \/ StartLoop
    \/ Take \/ PostAccepted \/ PostRejected \/ PostError \/ Raises \/ WriteOut
    \/ Sleep \/ Done

Next == Steps \/ Kill \/ ReaderDies

Spec == Init /\ [][Next]_vars

\* The process runs: a post is answered or given up on, a sleep ends, and the
\* stage behind a dry run reads or is gone.
Fairness == WF_vars(Steps)

FairSpec == Spec /\ Fairness

-----------------------------------------------------------------------------
(* Properties.                                                             *)

Outcomes == {"none", "accepted", "rejected", "error", "raised", "printed"}

\* Types.
TypeOK ==
    /\ inject \in Injections /\ interval \in Intervals /\ dry \in BOOLEAN
    /\ pc \in {"fill", "loop", "try", "sleep", "ended", "killed"}
    /\ code \in {0, 1}
    /\ drained \in 0..Len(inject)
    /\ seen \subseteq Nat /\ IsFiniteSet(seen)
    /\ queue \in Seq(Scenarios \X Nat)
    /\ now \in Nat
    /\ tries \in Seq([event : (Scenarios \X Nat) \cup {Random}, at : Nat, outcome : Outcomes])
    /\ sent \in Nat /\ failed \in Nat
    /\ reader \in BOOLEAN

\* What --inject asks for, scenario by scenario.
Expansion(name) ==
    IF name = "port_scan" THEN [k \in 1..Ports |-> <<name, 17 * k>>]
                          ELSE [k \in 1..Attempts + 1 |-> <<name, k>>]

Plan == FlattenSeq([i \in 1..Len(inject) |-> Expansion(inject[i])])

\* The events of the scenarios are tried first, in the order of the command
\* line, all failed logins before the successful one, each once, whatever came
\* of the one before: a failed post neither holds an event back nor repeats it,
\* and no event of a scenario comes after a random one.
ScenariosFirst ==
    \A k \in 1..Len(tries) :
        tries[k].event = IF k =< Len(Plan) THEN Plan[k] ELSE Random

\* A target that fails or refuses is not hammered: whatever came of a try, the
\* next one starts no sooner than the interval after it.
PacedByRate ==
    \A k \in 1..Len(tries) - 1 : tries[k + 1].at >= tries[k].at + interval

\* What one round of the loop may take.
Round == PostTime + (IF interval = 0 THEN 0 ELSE interval + Slack)

\* No try starts at or after the deadline, and the run is over within a round
\* of it.  The deadline cuts the scenarios short, and the exit status does not
\* tell; but they are tried in full if there is time for all but one of their
\* rounds.
DeadlineKept ==
    /\ \A k \in 1..Len(tries) : tries[k].at < Duration
    /\ now < Duration + Round
    /\ (/\ pc = "ended" /\ \A k \in 1..Len(tries) : tries[k].outcome # "raised"
        /\ Plan # <<>> => (Len(Plan) - 1) * Round < Duration)
          => Len(tries) >= Len(Plan)

Count(outcomes) == Cardinality({k \in 1..Len(tries) : tries[k].outcome \in outcomes})

\* The exit status is 0 exactly if every try came off, and what the log says
\* was sent and failed is what was accepted and what was not.
ExitTellsFailures ==
    /\ sent = Count({"accepted"})
    /\ failed = Count({"rejected", "error"})
    /\ pc = "ended" => (code = 0 <=> Count({"accepted", "printed"}) = Len(tries))

\* The queue is filled and the loop comes to its deadline.
GeneratorEnds == <>~Running
============================================================================
