# SentinelStream in TLA+

A specification of the services of this repository, the TLC runs that check it
on small instances, and proofs of the invariants of every service.
`PROJECT.json` lists the components, runs, mutants, hazards, findings and
theorems, and maps every definition to the lines of source it stands for.

    tlc -workers 2 -config Feed.cfg MCFeed.tla      # any run: its cfg and module
    tlapm SinkProofs.tla                            # the proofs of one component

## The system

| Part | State | Operations | Talks to |
|---|---|---|---|
| generator (Python) | scenario queue, `Poster.sent/failed` | post one event and wait, with a timeout and no retry; or print it (`--dry-run`) | ingest over HTTP, or a pipe |
| ingest (Go) | one goroutine per request; `StdoutProducer.mu`, `count` | decode, validate, mint, publish, log, reply; shutdown | clients; its stdout |
| parser (Rust) | `total`, `errors` | decode, enrich, write a line | two pipes |
| detector (Python) | rules, anomaly model, buffered stdout | load rules; per event: match every rule, score, flush | two pipes |
| sink (Go) | scanning goroutine, channel, ticker, a buffer per table | receive a line, tick, end of input, insert | a pipe; ClickHouse over HTTP |
| demo-seed (Python) | none that lasts | synthesize, enrich, detect, two inserts | ClickHouse |
| Redpanda, Grafana, Compose, CI | configuration | none: no service uses the broker yet | |

The stages run as a Unix pipe (top-level README, "Running the pipeline"). They
share nothing but the pipes: bounded queues whose reader may be slow, whose
writer may end or die, and which kill or fail a writer whose reader is gone.

What is hard, part by part, and what makes the part correct:

* **sink.** Ticks and lines race in a `select`; the buffer is emptied before
  the outcome of its insert is known; an insert may be applied although its
  answer is lost; a signal ends the process without a flush. Correct means: a
  row is in at most one request and in order, none goes missing inside the
  process, nothing is left when it ends by itself, a kill loses a bounded
  number, and a row goes out even when stdin is silent.
* **ingest.** Handlers interleave around a mutex; a write may fail half way or
  block for ever; a client gives up while its handler goes on and then posts
  its next event; the shutdown waits, for 5 s. Correct means: an event the
  client counts as sent is on stdout, whole and once, acknowledged events of a
  client stay in order, a failed write leaves no handler stuck.
* **detector.** One exception ends the process with alerts of earlier rules in
  the buffer; conditions are evaluated by a hand-written parser that sees bad
  input only at run time; the buffer can fill in the middle of an event.
  Correct means: exactly the alerts the rules ask for, in order, none held
  back, and no exception on input that is well formed.
* **parser.** Lines that do not decode are counted, lines that are no UTF-8
  end it, a kill can tear a record. Correct means: every line accounted for,
  output in input order, no value cut or made up.
* **the pipe.** Ends and deaths travel through it. Correct means: nothing lost
  or doubled at a seam, and the stages end one after the other; ingest's counts
  and the parser's fit together, and what a client counts as sent is enriched.
* **generator.** The deadline can fall into a slow post, the target can fail at
  once or refuse everything, a dry run's reader can die. Correct means:
  scenarios come first, whole and in order as far as time allows, nothing is
  tried twice or too soon, the process ends, and its status tells of failures.
* **demo-seed.** It repeats the parser's rules in another language, and makes
  two inserts of which either may fail, be applied late, or be cut off.
  Correct means: no alert without its event, none twice when the operator runs
  it again, and rows like those that the pipe makes.

`PROJECT.json` has the same list line by line under `hazards`.

## The modules

| Module | Models |
|---|---|
| `Sink` | `services/sink`: `run`, `flush`, `InsertBatch` and the server it talks to |
| `Delivery` | what the sink promises, without channel, ticker or buffer |
| `SinkRefinement`, `MCSink` | the refinement mapping from `Sink` to `Delivery`; the samples of stdin |
| `SinkProofs` | the inductive invariant of `Sink` and six theorems; that `Sink` implements `Delivery` |
| `Ingest`, `IngestProofs` | `services/ingest` with `Poster` clients and a stdout that is a pipe or a file; its inductive invariant |
| `Values` | JSON values as the stages tell them apart |
| `Sigma` | `sigma.py`: loading, selections, conditions; and what a rule means |
| `Anomaly` | `anomaly.py`: from the forest's decision to a score and a verdict, and what that amounts to |
| `Detector`, `MCDetector`, `DetectorProofs` | `cli.py`, `alerts.py`, both layers; that the matcher says what a rule means and the model what the threshold means, and on that all six invariants |
| `Enrich` | `enrich.rs`: what becomes of the fields of one event |
| `Parser`, `MCParser`, `ParserProofs` | `main.rs` of `services/parser`, and the lines of the generator's dry run; all four invariants proved |
| `Pipe`, `MCPipe`, `PipeProofs` | parser, detector and sink, each an `INSTANCE`, joined by their pipes; both invariants proved, that each stage keeps to its own module, and that the three implement `Alerting` |
| `Alerting` | what that pipe promises, without process, pipe or buffer |
| `Feed`, `MCFeed`, `FeedProofs` | ingest and the parser behind it, each an `INSTANCE`; both invariants proved |
| `Events` | the events the generator's factories and scenarios make |
| `Generator`, `MCGenerator`, `GeneratorProofs` | the queue of scenarios, the paced loop, `Poster`; all four invariants proved |
| `DemoSeed`, `MCDemoSeed`, `DemoSeedProofs` | `seed.py`, run once or twice; all three invariants proved |

How the models correspond to the code:

**Sink.** A line is its position on stdin and a kind; `Stdin` is the set of what
stdin may have delivered, any sequences of kinds. The channel is FIFO with
one sender and one receiver, so two counters (`sent`, `received`) say what is in
it. `ReceiveLine`, `ReceiveTick` and `ReceiveClosed` are the cases of the
`select`; each sets `todo`, the tables the `flush` or `flushAll` it runs still
has to insert, and the select is not reached again until `todo` is empty and
the request is answered. `Flush` empties the buffer *and* starts the request,
as the code does. `ctx` is `context.Background()`, so the `Done` case never
fires and has no action. A request is answered well only if applied; refused
only if not applied, and then never applied; or lost, when the server may apply
it before or after. That a refused request leaves no row and an applied one all
of its rows is assumed of ClickHouse.

**Ingest.** `phase[r]` is the line a handler has reached. The order of the code
is kept: publish under the mutex, then the middleware's log line on the same
stdout, then the response leaves (net/http buffers it until the handler
returns). `Validate` and `Mint` are one choice, taken or turned down with 400.
A write to a full pipe blocks; to a pipe without a reader it ends the process
(SIGPIPE on descriptor 1); to a file it may fail with a part of the line
written. The log lines of `main` are in the model because a full stdout holds
up the shutdown.

**Detector.** One initial state per rule directory and outcome of
`Anomaly.fit`; a directory that does not exist is the empty one. `turn` walks
through the rules and then the model. `Emit` blocks while the buffer is full; `MustDrain` says when the buffered writer pushes
alerts into the pipe: on a flush, when full, and on the way out of the
interpreter, after an exception too. `Sigma!Match` follows the code, with three
outcomes (`"raise"` for the exceptions), and an operator is one in every casing,
as for `token.lower()`; `EvalCondition` is the
recursive-descent evaluator as recursive functions over positions. Which string
contains or ends with which is a constant relation. `Means` and `Sound` give
the meaning of a rule without the algorithm: some term is true that stands
first or behind an "or", and no later "and" takes it back.

**Anomaly.** The forest is scikit-learn's, so what it decides of an event is an
input, an integer. What the repository does with it is modelled: the lowest and
the highest decision of the warm-up events, a range of 1.0 where they
agree, scaling, turning round, clamping, the threshold. `StandsOut` says the
same without the algorithm, and the detector and the seeder are held against it.
With training events that all look alike every ordinary event gets the score
1.0 and raises an alert; the model shows it and no documentation denies it.

**Parser.** Every rule of `enrich` is a definition of `Enrich`. Timestamps are
names with a constant map to UTC; strings are opaque. A record is written by two
`write_all`s behind a line buffer, so a kill can leave a part of one (`whole` is
FALSE).

**Pipe.** One stage's `out` is the next one's `input`. The stages' own
`reader` and `taken` become the state of the stage behind. Fields the parser
drops are gone: `AsRead` has no payload. Of a record that a kill has torn the
detector may find half, which is no JSON, all but the newline, which is an event
like any other (`Readings`), or half of a character, on which reading raises
(`DetectorCannotDecode`). The detector writes alerts only, so in
the documented pipe no enriched event reaches the sink, `events_enriched` stays
empty, and only the alerts' side of the sink is exercised here; `Sink` alone
covers both tables.

**Alerting.** Its state is what `Pipe` has for an observer: which judges ask for
an alert about which event, by what the rules *mean*; what was raised; how often
each alert is in the table. The mapping computes the first from `Means` and
`StandsOut`, not from the algorithms, so a wrong evaluator is a step that
`Alerting` does not allow.

**Feed.** Ingest writes to a pipe that the parser reads. A line of the logger
does not decode. `Minted` is what `event.Mint` may have written for a request:
`Validate` asks for no more than `json.Valid`, and the payload is passed on as it
came, so a record may be one that serde rejects (`1e999`, half of a surrogate
pair, nesting beyond 128) or one that is not UTF-8, which ends the parser.
When the parser is gone the next write kills ingest.

**Generator.** Time is a natural number. A post takes up to `PostTime`, a sleep
at least the interval and up to `Slack` more; without an interval a post takes
some time, or nothing would bring the deadline nearer. The `Poster` counts
anything below 400 as sent, redirects included. `Raises` is what
`except httpx.HTTPError` does not catch (`httpx.InvalidURL`), and a broken pipe
in a dry run. `port_scan` is a loop of its own, for its test may hold for ever.

**DemoSeed.** `Synthesize` and `enrich` run in one go since nothing in between
is visible outside the process; the inserts are steps, with the server between.
Tables are sets: shuffling has no effect. `resp.status >= 400` cannot hold,
because `urlopen` raises for it: `InsertFails` is that exception.
`--inject-attacks` cannot be turned off, so it is not a parameter. An event
class that nothing knows would be classified by its source here and as "other"
by the parser; the generator makes none, and `SeededRowsAsParsed` is about what
it makes.

## The runs

Bounds are constants of the modules (`MaxLines`, `PerClient`, `MaxFaults`,
`MaxAlerts`, `MaxRuns`, `PostTime`, `Slack`); everything else about a run is in
its cfg. `CHECK_DEADLOCK` is off everywhere because every process here ends, or
waits on a silent stdin.

| Run | What is checked | Bounds, and why they reach the case |
|---|---|---|
| `sink` | `TypeOK`, `OrderedOnce`, `NoRowMislaid`, `DrainedAtExit`, `BoundedLoss`, `BatchWithinSize`, `ImplementsDelivery`, `BufferedRowGoesOut`, `EndOfInputEndsProcess` | batch 2, channel 1; every stdin of up to 3 lines of 4 kinds: a full batch of one table beside a row of the other, a blocked sender, two requests; and one of 6 lines that fills both batches and the channel, so that a kill can lose the 5 lines that `BoundedLoss` allows, and a batch that never fills would lose 6. The invariants hold for all bounds by proof |
| `ingest` | `TypeOK`, `SentIsPublishedOnce`, `SentKeepsOrder`, `CountIsPublished`, `CleanShutdown`, `HandlerEnds` | a client that times out and posts again: two handlers at once; a pipe of one line whose reader stalls or dies, and a file with two writes that fail. The invariants hold for all bounds by proof |
| `detector` | `TypeOK`, `AlertsAreDeserved`, `NoAlertMissed`, `CleanRunNeverRaises`, `BadConditionStopsFirst`, `NothingHeldBack` | all conditions of up to four words over two selections, an unknown name, and the operators; every modifier with numbers, numeric strings, strings, null and lists; missing, shadowed and mistyped fields; scalars, junk, events without an id; decisions at the threshold, beyond the range, and over a degenerate or empty corpus; buffer of one, pipe of two, two lines |
| `parser_lines` | `TypeOK`, `EveryLineAccounted`, `OutputFollowsInput`, `NothingMadeUp` | two lines out of payloads that differ in one respect at a time; ports 0-1, 0 to 65535 and 65536 |
| `pipe_stages` | `AlertsCrossThePipe`, `CleanRunIsComplete`, `StagesAsSpecified`, `ImplementsAlerting`, `PipeRunsDry` | two lines, pipes of two, a sigma alert, an anomaly, a dropped line, a rule that raises after another one has written an alert about the same event, every stage killed anywhere, a torn record read as junk, as an event, or not at all |
| `generator` | `ScenariosFirst`, `PacedByRate`, `DeadlineKept`, `ExitTellsFailures`, `GeneratorEnds` | none, one or two scenarios of three events each, at intervals 0, 1 and 2 in a duration of 6: too short for all, just enough, and ample |
| `feed` | `AcknowledgedIsEnriched`, `CountersAgree` | one client, two posts, a pipe of two lines: a timeout, a log line between events, a full pipe, a shutdown with lines left in it; each event one that the parser takes, one that serde rejects, or one that is not UTF-8 |
| `demo_seed` | `AlertsHaveEvents`, `ExitZeroIsComplete`, `SeededRowsAsParsed` | two runs one after the other, totals of -1, 0, 2 and 4 with a scenario of three events; five rule directories |
| `ingest_stdout`, `parser_dry_run`, `pipe_payload`, `demo_spread` | one documented claim each, and TLC refutes it | see below |

Every property of a passing run has a mutant: a definition replaced by what a
plausible bug would make of it, which the run must refute. The mutants stand in
the modules under "Plausible mistakes".

`StagesAsSpecified` says that in the pipe each stage still satisfies the
specification of its own module, so what is shown there holds of the whole.

### Where the documentation and the code part

* `ingest_stdout`: ingest's README has stdout carry one JSON line per event. The
  logger of `main.go` writes to the same stdout, a line per request. The parser
  counts each as a decode error.
* `parser_dry_run`: the documented pipe from `sentinel-generator --dry-run`
  into the parser enriches nothing: the events lack `received_at` and
  `ingest_node_id`, which `RawEvent` requires. The run ends with status 0.
* `pipe_payload`: the shipped rules look at `query`, `outcome` and `service`,
  which are in the payload; the enriched event does not carry the payload, so
  behind the parser they cannot fire, as `examples/README.md` says they do.
* `demo_spread`: the README and the help of `--minutes-back` say that the
  seeder spreads events over the last hours. It draws an instant for each event,
  but sets `@timestamp` to it only if the payload has none, and all have one:
  the time of their making, which `parse_ts` prefers. All rows have the `ts` of
  the run, and only `received_at` is spread.

Met on the way and not given a run of its own: the geo placeholder writes
`country_code: null` where the schema wants a string of two letters; after a
write that failed half way ingest glues the next, acknowledged, event to the
torn line; the help of `--anomaly-threshold` says "above which", the code alerts
from the threshold on (`>=`, and the model with it); ingest answers 202 to
payloads that the parser then rejects (`Feed`).

## Fairness

Only the properties of `FairSpec` runs rest on it.

* Sink: Go's `select` picks at random among its ready cases, so a case that is
  ready again and again is taken (strong fairness on the three receives); the
  other goroutine and the ticker run on (weak); a request is answered or given
  up on, by the client's 30 s timeout. Nothing is assumed of stdin or the server.
* Ingest: goroutines run; `sync.Mutex` hands itself to a waiter that starves
  (strong fairness on `Lock`); the reader reads while it lives; a client times out.
* Generator: the process runs, posts are answered or time out, sleeps end, the
  reader of a dry run reads or is gone (weak fairness on all steps together).
* Pipe: a process that can take a step takes one, the reader reads
  while it lives, the sink's assumptions as above. In `Pipe` the parser has no
  fairness: `PipeRunsDry` starts where it has ended.
* No kill, signal, failure, or death of a reader is ever assumed to happen.

## What is proved

Every theorem holds for all values of the constants that the module's named
assumption allows, and each component rests on an inductive invariant of its
own. A module's sets of inputs (`Lines`, `Directories`, `Corpora`) are constants
too, so the theorems are about any input, not about the samples of a run.

**Sink** (`SinkProofs`, from `ConfigAssumption`: any integer batch size, for the
code checks none; a channel of at least one; any length of input).

| Theorem | States |
|---|---|
| `TypeCorrect` | `Spec => []TypeOK`, the channel within its capacity |
| `RowsPostedOnceInOrder` | `Spec => []OrderedOnce` |
| `RowsNeverMislaid` | `Spec => []NoRowMislaid` |
| `BatchesWithinSize` | `Spec => []BatchWithinSize` |
| `ExitIsDrained` | `Spec => []DrainedAtExit` |
| `LossIsBounded` | `Spec => []BoundedLoss` |
| `SinkDelivers` | `Spec => ImplementsDelivery` |

None of the five invariants is inductive as it stands. `OrderedOnce` needs that
a buffered or posted row is one the loop has received, so that a new one is
larger than all of them. `NoRowMislaid` needs that buffers and requests hold
only rows of their own table. `DrainedAtExit` needs that the loop returns with
the channel empty and that a table not in `todo` has an empty buffer by then.
`BoundedLoss` needs that a table that is not about to be flushed has room left
in its batch, and that only the last request can be waiting. These facts are
`Support`. `IInv` is the conjunction of `TypeOK`, `Support` and the
invariants; `Inductive` proves it from `InitIInv` and `NextIInv`, and the
theorems follow. `NextIInv` splits the actions by what they disturb: receiving
a line, flushing, the server's and the client's view of a request, and the
quiet rest. Statements about `Append` and `EXCEPT` on requests, and the
arithmetic of `BoundedLoss`, are lemmas of their own, because the solvers do
not get through them inside a larger goal.

`SinkDelivers` is the refinement. `Where` puts every line in one place (unread,
skipped, in one buffer, in one request) and names its fate there; it follows
from `IInv` (`WhereHolds`, with `OrderedOnce` for "one"). Each group of actions
then has a lemma that says which step of `Delivery` it is: `ReceiveStep` a
`Take`, `FlushStep` a `Post`, `ServerStep` a `Land`, `AnswerStep` a `Confirm`, a
`Refuse` or a `GiveUp`, `QuietStep` none. The mapping speaks of the lines
`1..MaxLines`, so the bound on the input is part of its invariant (`RInv`).

**Ingest** (`IngestProofs`, from `IngestAssumption`: any clients and number of
posts, any pipe, any number of failing writes).

| Theorem | States |
|---|---|
| `TypeCorrect` | `Spec => []TypeOK`, the mutex held by exactly the handler in `Publish` |
| `PublishedOnce` | `Spec => []SentIsPublishedOnce` |
| `CountAgrees` | `Spec => []CountIsPublished` |
| `OrderKept` | `Spec => []SentKeepsOrder` |
| `ShutdownIsClean` | `Spec => []CleanShutdown` |

`Inductive` proves the invariant `IInv`. Its core is `Steps`: for every request,
what its phase says of its status, of its line on stdout and of its client
(before `write` there is no line, at `count` there is a whole one, at `done` a
whole one exactly for a 202). With it go mutual exclusion, what an exit means for
the phases, the order of the lines and the counter, which is compared with two
cardinalities and so moves by `FS_AddElement` and `FS_RemoveElement`.

**Generator** (`GeneratorProofs`, from `GeneratorAssumption`: any injections,
rates, duration, sizes of scenarios, and lengths of posts and sleeps).

| Theorem | States |
|---|---|
| `TypeCorrect` | `Spec => []TypeOK`; no run repeats it |
| `OrderKept` | `Spec => []ScenariosFirst` |
| `InTime` | `Spec => []DeadlineKept` |
| `PaceKept` | `Spec => []PacedByRate` |
| `FailuresTold` | `Spec => []ExitTellsFailures` |

`PacedByRate` relates two tries; the invariant `Waited` carries what the clock
owes to the last one through post and sleep. `ExitTellsFailures` needs `Settled`:
only the last try can be undecided, and only while the loop is in it or after a
kill; the counters are the cardinalities of the tries they count. `ScenariosFirst`
speaks of the flattened plan of all scenarios. `Order` says where the program is in
it: while it fills, the queue is the plan of the scenarios drained so far
with the probes of the scan that is under way behind it; afterwards the queue is
what the plan has beyond the tries made so far. `FlattenJoins` shows by
induction over the injection what flattening gives. `Timely` bounds the
clock by the rounds of the tries so far, which is what `DeadlineKept` needs. A
`port_scan` of more than 3854 ports never finds its last one and stays in the
`"fill"` loop for ever; the theorems hold of that run as well, `GeneratorEnds`
would not.

**Parser** (`ParserProofs`, from `ParserAssumption`: any lines, any pipe, any
number of lines; the words and timestamps are constants as well).

| Theorem | States |
|---|---|
| `TypeCorrect` | `Spec => []TypeOK`: classes, severities, timestamps and ports of the schema |
| `LinesAccounted` | `Spec => []EveryLineAccounted` |
| `OrderKept` | `Spec => []OutputFollowsInput` |
| `ValuesKept` | `Spec => []NothingMadeUp` |

`Awaited` is the strengthening: a line is being written only if it is acceptable
and later than all that were written. Reading a line raises the number of lines
to account for, and the error counter or the pending line with it; `RecordAdded`
says what a whole or a torn record does to the order. `Faithful` (a record is
the enriched form of its line) and the lemmas `EnrichTypes` and `FieldsKept`
about `Enrich` give the other two.

**Detector** (`DetectorProofs`, from `DetectorAssumption`: any directories of
rules, with conditions and selections of any length, any lines, any trained
model or none, any buffer and pipe).

| Theorem | States |
|---|---|
| `MatchMeans` | a rule that is sound never makes `Match` raise, and wherever it does not raise it says "yes" exactly if the rule `Means` the event |
| `AnomalyMeans` | `IsAnomaly` is `StandsOut`: scaling, turning round and clamping change no verdict |
| `ScoreInRange` | a score is between 0 and 1 |
| `TypeCorrect` | `Spec => []TypeOK` |
| `OnlyDeserved` | `Spec => []AlertsAreDeserved` |
| `NoneMissed` | `Spec => []NoAlertMissed` |
| `CleanNeverRaises` | `Spec => []CleanRunNeverRaises` |
| `BadConditionStops` | `Spec => []BadConditionStopsFirst` |
| `FlushedPerEvent` | `Spec => []NothingHeldBack` |

The evaluator is a pair of recursive functions over the positions of a condition,
`Terms` and `Rests`. The induction over positions uses no induction theorem with an
operator parameter: `Least` says that a set of natural numbers that is not
empty has a least element, `SetInduction` follows, and the set is the one of
the positions at which the claim holds. `TermsDef` and `RestsDef` first show that
the recursive definitions satisfy their equations, `TermsFound` and `RestsMeans`
what they return, and `ConditionMeans` that this is the meaning: a true term
that stands first or behind an "or" and that no later "and" takes back. A
selection named like an operator cannot be reached, in the code and in `Names`.
`CompareFits`, `FieldFits` and `SelectionSelects` do the same for a selection.

`IInv` has the order of the alerts: by `Behind` all of them come before the
one that could be raised next. `JInv` has what they are about: every alert is
deserved (`Judged`), every pair of event and judge that the process has gone past
without dying has its alert if it deserves one (`Complete`), a clean run fails only
at rest (`NoFault`), and a malformed condition ends it at the first event (`BadStops`).
`VerdictKeeps` takes a verdict through all of them at once, whichever layer gave it.

**Demo-seed** (`DemoSeedProofs`, from `SeedAssumption`: any rules, corpora,
totals and number of runs, and any decision of the forest).

| Theorem | States |
|---|---|
| `AlertsNeverAlone` | `Spec => []AlertsHaveEvents` |
| `ZeroIsComplete` | `Spec => []ExitZeroIsComplete` |
| `RowsAsParsed` | `Spec => []SeededRowsAsParsed` |

`SInv` follows the inserts of all runs: no row is in two of them or of a
later run (`Separate`, `NoneFromLater`), and alerts are sent only when their events
are in the table (`Backed`), so that nothing the server does
late can put an alert before its event. `Found` adds what synthesis and detection made.
The alerts are compared with `Means` and `StandsOut`, by `FindersMean` from the detector's
verdicts. `RowsAsParsed` compares the enrichment in Python with the parser's,
field by field, on everything that the factories and scenarios can make (`MadeRegular`).
A scan of more than 3854 ports would not end, so the assumption leaves it out.

**Feed** (`FeedProofs`, from `FeedAssumption`: any clients and posts, any pipe,
any payloads. A record of `Mint` has an instant whenever it decodes, for `Mint`
sets it; whether it decodes is left open. A line of the logger does not.)

| Theorem | States |
|---|---|
| `AcknowledgedComeOut` | `Spec => []AcknowledgedIsEnriched` |
| `CountersFit` | `Spec => []CountersAgree` |

Every step of `Feed` is a step of ingest and one of the parser or none of
either (`IngestSteps`, `ParserSteps`), so what `IngestProofs` and `ParserProofs`
say of the two holds in the pipe. `Linked` is the seam: the parser has read what
it took from the pipe, every line in it is whole, and it ends well only with
ingest gone and the pipe empty. By `CleanEndFacts` the parser's records are then
the event lines without the `Rejected` ones. The counters are compared by
bijections between event lines and the requests they are of (`AsManyRequests`).

**Pipe** (`PipeProofs`, from `PipeAssumption`: any lines, rules, corpora,
decisions and threshold, any batch size, capacities of pipes, channel and buffer).

| Theorem | States |
|---|---|
| `StagesKeepTheirSpecs` | `Spec => StagesAsSpecified` |
| `AlertsAreInserted` | `Spec => []AlertsCrossThePipe` |
| `CleanRunsComplete` | `Spec => []CleanRunIsComplete` |
| `PipeAlerts` | `Spec => ImplementsAlerting` |

`Steps` shows that a step of the pipe is, for each of the three stages, a step of its
own specification or a stutter. The proofs of the stages are therefore
instantiated and not repeated: `Keep` is the conjunction of their invariants,
`StagesKeep` proves it from their theorems. `Linked` is what the stages have to do with each other:
the detector has read the records it took, each in one of its `Readings`, the sink has
scanned as many alerts as it took, an end of input means that the stage before
is gone and its pipe is empty, and only a killed sink keeps a detector that has
ended from having emptied its buffer. The second and third theorem follow state by state.

`PipeAlerts` is the refinement. Its invariant is `Keep /\ Linked`. `ParserMaps`,
`DetectorMaps` and `SinkMaps` say of every step which step of `Alerting` it is:
a line read is an `Arrive`; a verdict that writes an alert is a `Raise`, and
by `FirstMissing` of the first alert that is asked for and not raised, which is where
`Complete`, `Behind` and the parser's order meet; the server applying an insert
is a `Store` of alerts that were raised and are in no other insert; everything
else, deaths included, is none. `TableHolds` gives the count of an alert in the
table as one: alerts differ (`Before`), and a row is in one request (`OneRequest`).

### Only model-checked

* Liveness: `BufferedRowGoesOut`, `EndOfInputEndsProcess`, `HandlerEnds`,
  `GeneratorEnds`, `PipeRunsDry`. Fairness and `ENABLED` are beyond the prover.
* The four claims of the documentation that TLC refutes.

Every invariant and every refinement that a passing run checks is a theorem.

## What is not modelled

The values of a row in `FlattenEnriched`; the Isolation Forest and the random
corpus it learns from (its decision is an input, and what becomes of it is
modelled); the wording of logs and of alerts; `GET /health`; the crash of ingest
when its port is taken; `Poster.post_many`, which nothing calls. Redpanda, since
no service uses it; dashboards, Compose, CI. The scanner's limit of 1 MB per line is one of the
reasons `ScanEnds` stands for. `SINK_FLUSH_MS` of zero or below panics at
start-up and is not modelled. Clocks that jump are not: the generator's is
`time.monotonic`.

## Plan

Every service and both pipes are modelled, checked and proved about. Next:

1. Proofs that are long in `DemoSeedProofs` and `GeneratorProofs`: shorter, by
   lemmas that both use.
2. The equality lemmas between instances (`SameParser`, `SameVerdicts`,
   `SameDetector`) say the same in three modules; one order of instances could serve.
3. A theorem from ingest to the table: `Feed` and `Pipe` share the parser, and
   the invariants of both apply to the five processes in a row.
