------------------------------ MODULE DemoSeed ------------------------------
(***************************************************************************)
(* demo-seed (seed.py): a one-shot that makes events in the process, with  *)
(* the generator's factories, enriches them with its own version of the    *)
(* parser's rules, runs the detector's rules and model on them, and        *)
(* inserts first the events and then the alerts into ClickHouse.  An       *)
(* exception ends it with status 1; what is inserted stays.  The operator  *)
(* may run it again.                                                       *)
(*                                                                         *)
(* The tables have no order, so rows are kept in sets and random.shuffle   *)
(* changes nothing.                                                        *)
(***************************************************************************)
EXTENDS Enrich, Events, Sigma, Anomaly, FiniteSets

CONSTANTS Directories,    \* the sequences of rule files in --rules-dir
          Corpora,        \* what the forest may make of the warm-up events
          Threshold,      \* --anomaly-threshold, in hundredths
          Decision(_),    \* what the forest says of an event
          Totals,         \* what --rows may be
          Attempts,       \* failed logins of the burst, 18 in the code
          Ports,          \* ports of the scan, 24 in the code
          Window,         \* the instants between --minutes-back ago and the start
          MaxRuns         \* bound: how often it is run

\* The scenarios, in the order of synthesize_events.
Scenario == BruteForceSsh(Attempts) \o PortScan(Ports)

Made == RandomEvents \cup {Scenario[k] : k \in 1..Len(Scenario)}

\* An event gets the instant that was drawn for it.
Given(made, at) == [source |-> made.source, raw |-> made.raw, received |-> at]

ASSUME SeedAssumption == /\ \A d \in Directories :
                               Len(d) \in Nat /\ \A i \in 1..Len(d) : IsRule(d[i])
                         /\ Corpora \subseteq Trained
                         /\ Threshold \in Int
                         /\ Totals \subseteq Int
                         /\ Attempts \in Nat
                         /\ Ports \in 0..3854
                         /\ Window \cup {"created"} \subseteq Timestamps
                         /\ \A word \in {"auth", "network", "dns", "info", "notice", "warning",
                                         "debug"} : Lower(word) = word
                         /\ \A made \in Made, at \in Window : Decision(Given(made, at)) \in Int
                         /\ MaxRuns \in Nat \ {0}

VARIABLES rules, corpus, anomaly, total,    \* the command line; not --no-anomaly
          run,       \* which run this is
          pc,        \* "load", "synthesize", "detect", "insert", "wait" (for
                     \* ClickHouse), "ended" or "killed"
          code,      \* exit status
          events,    \* the events of this run, enriched
          alerts,    \* what it found in them: <<event id, who found it>>
          todo,      \* the tables it still has to insert into
          posts      \* all inserts: [table, rows, applied, reply]

config == <<rules, corpus, anomaly, total>>
vars == <<config, run, pc, code, events, alerts, todo, posts>>

Running == pc \notin {"ended", "killed"}

Fails ==
    /\ pc' = "ended"
    /\ code' = 1

-----------------------------------------------------------------------------
(* Plausible mistakes in the code; nothing below uses them.                *)

\* The alerts go first.
InsertsSwapped == <<"alerts", "events_enriched">>

\* An insert that fails is reported and passed over.
InsertFailsReported ==
    /\ pc = "wait"
    /\ \/ ~posts[Len(posts)].applied /\ posts' = [posts EXCEPT ![Len(posts)].reply = "error"]
       \/ posts' = [posts EXCEPT ![Len(posts)].reply = "lost"]
    /\ pc' = "insert"
    /\ todo' = Tail(todo)
    /\ UNCHANGED <<config, run, code, events, alerts>>

\* The instant drawn for the event is its ts.
SeedTsReceived(e) == Text(e.received)

-----------------------------------------------------------------------------
(* The seeder's own version of enrich.rs.                                  *)

\* parse_ts: the text itself, not in UTC.
SeedTs(e) ==
    LET own == Get(e.raw, "@timestamp") IN
    IF own.str /\ own.atom \in Timestamps THEN own ELSE Text(e.received)

\* classify: a class it does not know counts as none.
SeedClassify(e) ==
    LET own == Get(e.raw, "event_class")
        by(words) == MentionsOneOf(e.source, words)
    IN  CASE own.str /\ Lower(own.atom) \in Classes -> Lower(own.atom)
          [] ~(own.str /\ Lower(own.atom) \in Classes) ->
                CASE by({"auth", "ssh", "login"}) -> "auth"
                  [] ~by({"auth", "ssh", "login"}) /\ by({"firewall", "net"}) -> "network"
                  [] OTHER -> IF by({"dns"}) THEN "dns" ELSE "other"

\* severity: str() makes text of anything, none of it a severity but text.
SeedSeverity(e) ==
    LET word == Lower(Get(e.raw, "severity").atom)
    IN  CASE word \in DOMAIN Aliases -> Aliases[word]
          [] word \in Severities -> word
          [] OTHER -> "info"

\* enrich: the payload's own values, of whatever type.
SeedEnrich(e) ==
    [f \in StringFields \cup PortFields \cup {"ts", "event_class", "severity", "geo"} |->
        CASE f = "ts"          -> SeedTs(e)
          [] f = "event_class" -> Text(SeedClassify(e))
          [] f = "severity"    -> Text(SeedSeverity(e))
          [] f = "geo"         -> IF Get(e.raw, "src_ip") = Null THEN Null
                                  ELSE Value(FALSE, "geo", FALSE, 0)
          [] OTHER             -> Get(e.raw, f)]

-----------------------------------------------------------------------------
(* main                                                                    *)

\* main inserts the events, then the alerts.
Inserts == <<"events_enriched", "alerts">>

Init ==
    /\ rules \in Directories
    /\ corpus \in Corpora
    /\ anomaly \in BOOLEAN
    /\ total \in Totals
    /\ run = 1
    /\ pc = "load"
    /\ code = 0
    /\ events = {}
    /\ alerts = {}
    /\ todo = Inserts
    /\ posts = <<>>

\* load_rules, SigmaMatcher; Anomaly.fit has its 512 events.
Load ==
    /\ pc = "load"
    /\ IF \A i \in 1..Len(rules) : Loads(rules[i])
       THEN pc' = "synthesize" /\ UNCHANGED code
       ELSE Fails
    /\ UNCHANGED <<config, run, events, alerts, todo, posts>>

\* How many of n events out[:total] leaves: a negative total counts from the end.
Kept(n) == Clamp(IF total < 0 THEN n + total ELSE total, 0, n)

\* The k-th event of this run, enriched.
Row(k, from) == [id |-> <<run, k>>, from |-> from, top |-> SeedEnrich(from)]

\* synthesize_events and enrich: the scenarios, then random events up to the
\* total; each is given an instant of the window.
Synthesize ==
    /\ pc = "synthesize"
    /\ LET more == IF total > Len(Scenario) THEN total - Len(Scenario) ELSE 0
           kept == Kept(Len(Scenario) + more)
       IN  \E fill \in [1..more -> RandomEvents], at \in [1..kept -> Window] :
              LET made == Scenario \o fill
              IN  events' = {Row(k, Given(made[k], at[k])) : k \in 1..kept}
    /\ pc' = "detect"
    /\ UNCHANGED <<config, run, code, alerts, todo, posts>>

\* What a rule is shown: the enriched fields and, unlike behind the parser, the
\* payload.
Target(e) == [top |-> e.top, raw |-> e.from.raw]

Model == 0

\* Who finds something in an event: detect_sigma and detect_anomaly.
Finders(e) ==
    {i \in 1..Len(rules) : Match(rules[i], Target(e)) = "yes"}
    \cup {i \in {Model} : anomaly /\ IsAnomaly(corpus, Decision(e.from), Threshold)}

\* Every event is looked at before anything is inserted; an exception of a rule
\* ends it all.
Detect ==
    /\ pc = "detect"
    /\ IF \E e \in events, i \in 1..Len(rules) : Match(rules[i], Target(e)) = "raise"
       THEN Fails /\ UNCHANGED alerts
       ELSE /\ alerts' = UNION {{<<e.id, i>> : i \in Finders(e)} : e \in events}
            /\ pc' = "insert"
            /\ UNCHANGED code
    /\ UNCHANGED <<config, run, events, todo, posts>>

RowsFor(table) == IF table = "alerts" THEN alerts ELSE {e.id : e \in events}

\* insert: one request with all rows, none if there are no rows.
Insert ==
    /\ pc = "insert"
    /\ todo # <<>>
    /\ LET rows == RowsFor(Head(todo)) IN
       IF rows = {}
       THEN todo' = Tail(todo) /\ UNCHANGED <<pc, posts>>
       ELSE /\ pc' = "wait"
            /\ posts' = Append(posts, [table |-> Head(todo), rows |-> rows,
                                       applied |-> FALSE, reply |-> "none"])
            /\ UNCHANGED todo
    /\ UNCHANGED <<config, run, code, events, alerts>>

\* The server inserts the rows of a request, perhaps after the client has given
\* up on it or died.
ServerInserts(p) ==
    /\ ~posts[p].applied
    /\ posts[p].reply \in {"none", "lost"}
    /\ posts' = [posts EXCEPT ![p].applied = TRUE]
    /\ UNCHANGED <<config, run, pc, code, events, alerts, todo>>

InsertReturns ==
    /\ pc = "wait"
    /\ posts[Len(posts)].applied
    /\ posts' = [posts EXCEPT ![Len(posts)].reply = "ok"]
    /\ pc' = "insert"
    /\ todo' = Tail(todo)
    /\ UNCHANGED <<config, run, code, events, alerts>>

\* urlopen raises: HTTPError if the server refused the rows, URLError or a
\* timeout after 30 s.
InsertFails ==
    /\ pc = "wait"
    /\ \/ ~posts[Len(posts)].applied /\ posts' = [posts EXCEPT ![Len(posts)].reply = "error"]
       \/ posts' = [posts EXCEPT ![Len(posts)].reply = "lost"]
    /\ Fails
    /\ UNCHANGED <<config, run, events, alerts, todo>>

\* main returns 0.
Return ==
    /\ pc = "insert"
    /\ todo = <<>>
    /\ pc' = "ended"
    /\ UNCHANGED <<config, run, code, events, alerts, todo, posts>>

Kill ==
    /\ Running
    /\ pc' = "killed"
    /\ UNCHANGED <<config, run, code, events, alerts, todo, posts>>

\* The operator runs it once more, whatever came of the last run.
Again ==
    /\ ~Running
    /\ run < MaxRuns
    /\ run' = run + 1
    /\ pc' = "load"
    /\ code' = 0
    /\ events' = {}
    /\ alerts' = {}
    /\ todo' = Inserts
    /\ UNCHANGED <<config, posts>>

Next ==
    \/ Load \/ Synthesize \/ Detect
    \/ Insert \/ InsertReturns \/ InsertFails \/ Return
    \/ \E p \in 1..Len(posts) : ServerInserts(p)
    \/ Kill \/ Again

Spec == Init /\ [][Next]_vars

-----------------------------------------------------------------------------
(* Properties.                                                             *)

Table(name) == UNION {posts[p].rows : p \in {q \in 1..Len(posts) :
                                                posts[q].table = name /\ posts[q].applied}}

\* At no moment, whatever fails, is late or is killed, does the alerts table
\* hold an alert about an event that the events table lacks, and no row is in
\* two inserts: a run that failed half way and was started again leaves events
\* without alerts, never the other way round, and no alert twice.
AlertsHaveEvents ==
    /\ \A a \in Table("alerts") : a[1] \in Table("events_enriched")
    /\ \A p, q \in 1..Len(posts) :
          (p # q /\ posts[p].table = posts[q].table) => posts[p].rows \cap posts[q].rows = {}

\* The alerts that rules and model ask for, by what they mean.
Wanted ==
    UNION {{<<e.id, i>> : i \in {j \in 1..Len(rules) : Means(rules[j], Target(e))}
                                \cup (IF anomaly /\ StandsOut(corpus, Decision(e.from), Threshold)
                                      THEN {Model} ELSE {})} : e \in events}

OfThisRun(ids) == {x \in ids : x[1] = run}

\* When the seeder says that it went well, as many events are in the table as
\* --rows asks for, and in the other one every alert that rules and model ask
\* for about them and no other.
ExitZeroIsComplete ==
    (pc = "ended" /\ code = 0) =>
        /\ OfThisRun(Table("events_enriched")) = {e.id : e \in events}
        /\ total >= 0 => Cardinality(events) = total
        /\ {a \in Table("alerts") : a[1][1] = run} = Wanted

\* services/demo-seed/README.md: a dashboard looks the same on these rows and on
\* those of the pipe.  The two versions of the enrichment, in Python and in
\* Rust, agree on every event that the generator can make, the ts of the one
\* being the instant that the other writes in UTC.
SeededRowsAsParsed ==
    \A e \in events :
        /\ Dated(e.from)
        /\ [e.top EXCEPT !["ts"] = Text(Utc[@.atom])] = Enrich(e.from)

-----------------------------------------------------------------------------
(* What the documentation says.                                            *)

\* The events are spread over the window: the instant that is drawn for an event
\* is its ts, by which the table is ordered and the dashboards select.  But the
\* payload has an instant of its own, that of its making, which comes first.
SeedIsSpread == \A e \in events : e.top["ts"] = Text(e.from.received)
============================================================================
