--------------------------- MODULE DemoSeedProofs ---------------------------
(***************************************************************************)
(* Proofs about the seeder, for any rules, any size, any number of runs    *)
(* and whatever becomes of its inserts: no alert without its event and no  *)
(* row twice; and a run that reports success is complete.                  *)
(***************************************************************************)
EXTENDS DemoSeed, FiniteSetTheorems, FunctionTheorems, TLAPS

\* The matcher and the model are those of the detector: what is shown of them
\* there does not depend on the state of a detector, and here there is none.
NoLines(directory) == {}

V == INSTANCE DetectorProofs WITH
        Directories <- {}, Lines <- NoLines, UseAnomaly <- FALSE, Corpora <- {}, Threshold <- 0,
        BufCap <- 1, PipeCap <- 1, MaxLines <- 0,
        rules <- <<>>, corpus <- EmptyCorpus, pc <- "load", code <- 0, input <- <<>>, turn <- 1,
        buffer <- <<>>, out <- <<>>, taken <- 0, reader <- TRUE

\* A sequence that grows by one element.
LEMMA AppendFacts ==
    ASSUME NEW S, NEW s \in Seq(S), NEW e \in S
    PROVE  /\ Append(s, e) \in Seq(S)
           /\ Len(s) \in Nat /\ Len(Append(s, e)) = Len(s) + 1
           /\ \A i \in 1..Len(s) : Append(s, e)[i] = s[i]
           /\ Append(s, e)[Len(s) + 1] = e
  OBVIOUS

Tables == {"events_enriched", "alerts"}

\* A row of events is known by its id, one of alerts by the event and who found it.
Ids == Nat \X Nat

RowsOf(table) == IF table = "alerts" THEN Ids \X Nat ELSE Ids

\* The run that made a row.
RunOf(table, row) == IF table = "alerts" THEN row[1][1] ELSE row[1]

Posts == [table : Tables, rows : SUBSET (RowsOf("alerts") \cup RowsOf("events_enriched")),
          applied : BOOLEAN, reply : {"none", "ok", "error", "lost"}]

Typed ==
    /\ rules \in Directories /\ corpus \in Corpora /\ anomaly \in BOOLEAN /\ total \in Totals
    /\ run \in Nat
    /\ posts \in Seq(Posts)
    /\ \A p \in 1..Len(posts) : posts[p].rows \subseteq RowsOf(posts[p].table)
    /\ todo \in {Inserts, <<"alerts">>, <<>>}
    /\ \A e \in events : /\ e.id \in Ids /\ e.id[1] = run
                         /\ \E made \in Made, at \in Window : /\ e.from = Given(made, at)
                                                              /\ e.top = SeedEnrich(e.from)
    /\ \A a \in alerts : a \in Ids \X Nat /\ a[1] \in {e.id : e \in events}

\* The tables that are still to be inserted into.
Left(tables) == {tables[i] : i \in 1..Len(tables)}

Stage ==
    /\ pc \in {"load", "synthesize", "detect"} => todo = Inserts
    /\ pc \in {"load", "synthesize"} => alerts = {}
    /\ pc = "wait" => /\ todo # <<>> /\ posts # <<>>
                      /\ posts[Len(posts)].table = Head(todo)
                      /\ posts[Len(posts)].rows = RowsFor(Head(todo))
    /\ Running => code = 0
    /\ pc = "ended" /\ code = 0 => todo = <<>>

\* An insert has rows of this run.
Mine(p) == \E row \in posts[p].rows : RunOf(posts[p].table, row) = run

NoneFromLater ==
    \A p \in 1..Len(posts) : \A row \in posts[p].rows : RunOf(posts[p].table, row) =< run

\* A run inserts into a table once.
Fresh ==
    Running => \A p \in 1..Len(posts) :
                  (posts[p].table \in Left(todo) /\ ~(pc = "wait" /\ p = Len(posts))) => ~Mine(p)

Separate ==
    \A p, q \in 1..Len(posts) :
        (p # q /\ posts[p].table = posts[q].table) => posts[p].rows \cap posts[q].rows = {}

\* Alerts are sent only when their events are in the table, even if they never
\* arrive.
Backed ==
    \A p \in 1..Len(posts) :
        posts[p].table = "alerts" => \A a \in posts[p].rows : a[1] \in Table("events_enriched")

\* A table that the seeder is done with has the rows of this run and gets no
\* more of them.
Done ==
    \A t \in Tables \ Left(todo) :
        /\ {row \in Table(t) : RunOf(t, row) = run} = RowsFor(t)
        /\ \A p \in 1..Len(posts) : (posts[p].table = t /\ ~posts[p].applied) => ~Mine(p)

Successful == pc \in {"insert", "wait"} \/ (pc = "ended" /\ code = 0)

SInv == Typed /\ Stage /\ NoneFromLater /\ Fresh /\ Separate /\ Backed /\ Done

\* The right number of events, and what is to be found in them.
Found ==
    /\ pc = "detect" \/ Successful => (total >= 0 => Cardinality(events) = total)
    /\ Successful => alerts = Wanted

-----------------------------------------------------------------------------
(* Rows and tables.                                                        *)

\* What is in a table, said of one row.
LEMMA InTable ==
    ASSUME NEW t, NEW row
    PROVE  row \in Table(t) <=>
              \E p \in 1..Len(posts) : posts[p].table = t /\ posts[p].applied /\ row \in posts[p].rows
  BY DEF Table

\* The tables that are left, at each stage of main.
LEMMA LeftTables ==
    ASSUME NEW s \in {Inserts, <<"alerts">>, <<>>}
    PROVE  /\ s = Inserts => /\ Left(s) = Tables /\ s # <<>> /\ Head(s) = "events_enriched"
                             /\ Tail(s) = <<"alerts">>
           /\ s = <<"alerts">> => /\ Left(s) = {"alerts"} /\ s # <<>> /\ Head(s) = "alerts"
                                  /\ Tail(s) = <<>>
           /\ s = <<>> => Left(s) = {}
  <1>1. ASSUME s = Inserts
        PROVE  /\ Left(s) = Tables /\ s # <<>> /\ Head(s) = "events_enriched"
               /\ Tail(s) = <<"alerts">>
    BY <1>1 DEF Left, Inserts, Tables
  <1>2. ASSUME s = <<"alerts">>
        PROVE  Left(s) = {"alerts"} /\ s # <<>> /\ Head(s) = "alerts" /\ Tail(s) = <<>>
    BY <1>2 DEF Left
  <1>3. ASSUME s = <<>> PROVE Left(s) = {}
    BY <1>3 DEF Left
  <1> QED
    BY <1>1, <1>2, <1>3

\* A table is done with, the alerts last.
LEMMA TailLeaves ==
    ASSUME NEW s \in {Inserts, <<"alerts">>, <<>>}, s # <<>>
    PROVE  /\ Head(s) \in Tables /\ Head(s) \in Left(s)
           /\ Tail(s) \in {Inserts, <<"alerts">>, <<>>}
           /\ Left(Tail(s)) = Left(s) \ {Head(s)}
           /\ Head(s) = "alerts" => "events_enriched" \notin Left(s)
  <1>1. Tail(s) \in {Inserts, <<"alerts">>, <<>>}
    BY LeftTables
  <1>2. CASE s = Inserts
    BY <1>1, <1>2, LeftTables DEF Tables
  <1>3. CASE s = <<"alerts">>
    BY <1>1, <1>3, LeftTables DEF Tables
  <1> QED
    BY <1>2, <1>3

\* The rows of this run are rows of their table, and made by this run.
LEMMA OwnRows ==
    ASSUME Typed, NEW t \in Tables
    PROVE  /\ RowsFor(t) \subseteq RowsOf(t)
           /\ \A row \in RowsFor(t) : RunOf(t, row) = run
  <1>1. CASE t = "alerts"
    <2>1. ASSUME NEW a \in alerts PROVE a \in Ids \X Nat /\ a[1][1] = run
      BY <2>1 DEF Typed
    <2> QED
      BY <1>1, <2>1 DEF RowsFor, RowsOf, RunOf
  <1>2. CASE t = "events_enriched"
    <2>1. ASSUME NEW e \in events PROVE e.id \in Ids /\ e.id[1] = run
      BY <2>1 DEF Typed
    <2> QED
      BY <1>2, <2>1 DEF RowsFor, RowsOf, RunOf
  <1> QED
    BY <1>1, <1>2 DEF Tables

\* The run that made a row.
LEMMA RunIsNat ==
    ASSUME NEW t \in Tables, NEW row \in RowsOf(t)
    PROVE  RunOf(t, row) \in Nat
  <1>1. CASE t = "alerts"
    <2>1. row \in Ids \X Nat
      BY <1>1 DEF RowsOf
    <2> QED
      BY <1>1, <2>1 DEF RunOf, Ids
  <1>2. CASE t = "events_enriched"
    <2>1. row \in Ids
      BY <1>2 DEF RowsOf
    <2> QED
      BY <1>2, <2>1 DEF RunOf, Ids
  <1> QED
    BY <1>1, <1>2 DEF Tables

\* A request.
LEMMA PostTypes ==
    ASSUME Typed, NEW p \in 1..Len(posts)
    PROVE  /\ posts[p] \in Posts /\ posts[p].table \in Tables
           /\ posts[p].rows \subseteq RowsOf(posts[p].table)
           /\ posts[p].applied \in BOOLEAN
           /\ \A row \in posts[p].rows : RunOf(posts[p].table, row) \in Nat
  <1>1. posts[p] \in Posts /\ posts[p].rows \subseteq RowsOf(posts[p].table)
    BY DEF Typed
  <1>2. posts[p].table \in Tables /\ posts[p].applied \in BOOLEAN
    BY <1>1 DEF Posts
  <1> QED
    BY <1>1, <1>2, RunIsNat

\* An element that is replaced disturbs no other one.
LEMMA ReplaceFacts ==
    ASSUME NEW S, NEW s \in Seq(S), NEW p \in 1..Len(s), NEW a \in S
    PROVE  /\ [s EXCEPT ![p] = a] \in Seq(S)
           /\ Len([s EXCEPT ![p] = a]) = Len(s)
           /\ \A q \in 1..Len(s) : [s EXCEPT ![p] = a][q] = IF q = p THEN a ELSE s[q]
  OBVIOUS

\* The server applies a request.
LEMMA ApplyFacts ==
    ASSUME posts \in Seq(Posts), NEW p \in 1..Len(posts),
           posts' = [posts EXCEPT ![p].applied = TRUE]
    PROVE  /\ posts' \in Seq(Posts) /\ Len(posts') = Len(posts)
           /\ \A q \in 1..Len(posts) : /\ posts'[q].table = posts[q].table
                                       /\ posts'[q].rows = posts[q].rows
                                       /\ q # p => (posts'[q].applied <=> posts[q].applied)
           /\ posts'[p].applied
  <1>1. posts[p] \in Posts
    OBVIOUS
  <1> DEFINE a == [posts[p] EXCEPT !.applied = TRUE]
  <1>2. /\ a \in Posts /\ a.table = posts[p].table /\ a.rows = posts[p].rows /\ a.applied
        /\ posts' = [posts EXCEPT ![p] = a]
    BY <1>1 DEF Posts
  <1> HIDE DEF a
  <1>3. /\ posts' \in Seq(Posts) /\ Len(posts') = Len(posts)
        /\ \A q \in 1..Len(posts) : posts'[q] = IF q = p THEN a ELSE posts[q]
    BY ONLY posts \in Seq(Posts), p \in 1..Len(posts), <1>2, ReplaceFacts
  <1> QED
    BY <1>2, <1>3

\* The client learns what became of a request.
LEMMA ReplyFacts ==
    ASSUME NEW s \in Seq(Posts), NEW p \in 1..Len(s),
           NEW r \in {"none", "ok", "error", "lost"},
           NEW u, u = [s EXCEPT ![p].reply = r]
    PROVE  /\ u \in Seq(Posts) /\ Len(u) = Len(s)
           /\ \A q \in 1..Len(s) : /\ u[q].table = s[q].table /\ u[q].rows = s[q].rows
                                   /\ u[q].applied <=> s[q].applied
  <1>1. s[p] \in Posts
    OBVIOUS
  <1> DEFINE a == [s[p] EXCEPT !.reply = r]
  <1>2. /\ a \in Posts /\ a.table = s[p].table /\ a.rows = s[p].rows
        /\ a.applied <=> s[p].applied
        /\ u = [s EXCEPT ![p] = a]
    BY <1>1 DEF Posts
  <1> HIDE DEF a
  <1>3. /\ u \in Seq(Posts) /\ Len(u) = Len(s)
        /\ \A q \in 1..Len(s) : u[q] = IF q = p THEN a ELSE s[q]
    BY ONLY s \in Seq(Posts), p \in 1..Len(s), <1>2, ReplaceFacts
  <1> QED
    BY <1>2, <1>3

-----------------------------------------------------------------------------
(* SInv is inductive.                                                      *)

\* At the start nothing is sent.
LEMMA InitSInv == Init => SInv
  <1> SUFFICES ASSUME Init PROVE SInv
    OBVIOUS
  <1>1. /\ rules \in Directories /\ corpus \in Corpora /\ anomaly \in BOOLEAN /\ total \in Totals
        /\ run = 1 /\ pc = "load" /\ code = 0 /\ events = {} /\ alerts = {}
        /\ todo = Inserts /\ posts = <<>>
    BY DEF Init
  <1>2. Typed /\ Stage
    BY <1>1 DEF Typed, Stage, Running
  <1>3. Left(todo) = Tables
    BY <1>1, LeftTables
  <1>4. NoneFromLater /\ Fresh /\ Separate /\ Backed /\ Done
    BY <1>1, <1>3 DEF NoneFromLater, Fresh, Separate, Backed, Done
  <1> QED
    BY <1>2, <1>4 DEF SInv

\* What the tables hold, as long as no request is sent or applied.
LEMMA SameTables ==
    ASSUME UNCHANGED posts
    PROVE  \A t : Table(t)' = Table(t)
  BY DEF Table

\* Steps that touch neither the requests nor what is to be sent.
LEMMA QuietKeeps ==
    ASSUME SInv, Load \/ Return \/ Kill \/ UNCHANGED vars
    PROVE  SInv'
  <1>1. UNCHANGED <<config, run, events, alerts, todo, posts>>
    BY DEF Load, Return, Kill, vars
  <1>2. UNCHANGED <<rules, corpus, anomaly, total>>
    BY <1>1 DEF config
  <1>3. /\ Running' => Running /\ (pc' = "wait" <=> pc = "wait")
        /\ Stage'
    <2>1. CASE Load
      BY <2>1, <1>1 DEF Load, Fails, Running, SInv, Stage
    <2>2. CASE Return \/ Kill
      BY <2>2, <1>1 DEF Return, Kill, Running, SInv, Stage
    <2>3. CASE UNCHANGED vars
      <3>1. UNCHANGED <<pc, code>>
        BY <2>3 DEF vars
      <3>2. UNCHANGED RowsFor(Head(todo))
        BY <1>1 DEF RowsFor
      <3> QED
        BY <3>1, <3>2, <1>1 DEF Running, SInv, Stage
    <2> QED
      BY <2>1, <2>2, <2>3
  <1>4. Typed'
    BY <1>1, <1>2 DEF SInv, Typed
  <1>5. Fresh'
    BY <1>1, <1>3 DEF SInv, Fresh, Mine
  <1>6. NoneFromLater' /\ Separate'
    BY <1>1 DEF SInv, NoneFromLater, Separate
  <1>7. Backed' /\ Done'
    <2>1. \A t : Table(t)' = Table(t) /\ RowsFor(t)' = RowsFor(t)
      BY <1>1 DEF Table, RowsFor
    <2> QED
      BY <1>1, <2>1 DEF SInv, Backed, Done, Mine
  <1> QED
    BY <1>3, <1>4, <1>5, <1>6, <1>7 DEF SInv

-----------------------------------------------------------------------------
(* The events of a run.                                                    *)

\* One sequence behind another.
LEMMA Joined ==
    ASSUME NEW S, NEW s \in Seq(S), NEW u \in Seq(S)
    PROVE  s \o u \in Seq(S) /\ Len(s \o u) = Len(s) + Len(u) /\ Len(s) \in Nat /\ Len(u) \in Nat
  OBVIOUS

\* Its elements.
OneOf(x, s) == \E k \in 1..Len(s) : x = s[k]

\* An element of two sequences joined is an element of one of them.
LEMMA JoinedElements ==
    ASSUME NEW S, NEW s \in Seq(S), NEW u \in Seq(S)
    PROVE  \A i \in 1..Len(s \o u) : OneOf((s \o u)[i], s) \/ OneOf((s \o u)[i], u)
  <1>1. Len(s) \in Nat /\ Len(u) \in Nat /\ Len(s \o u) = Len(s) + Len(u)
    OBVIOUS
  <1>2. ASSUME NEW i \in 1..Len(s \o u)
        PROVE  OneOf((s \o u)[i], s) \/ OneOf((s \o u)[i], u)
    <2>1. CASE i \in 1..Len(s)
      BY <2>1 DEF OneOf
    <2>2. CASE i - Len(s) \in 1..Len(u)
      <3>1. (s \o u)[i] = u[i - Len(s)]
        BY <1>1, <2>2
      <3> QED
        BY <2>2, <3>1 DEF OneOf
    <2> QED
      BY <1>1, <2>1, <2>2
  <1> QED
    BY <1>2

\* A function on the first numbers is a sequence.
LEMMA Filled ==
    ASSUME NEW n \in Nat, NEW S, NEW f \in [1..n -> S]
    PROVE  f \in Seq(S) /\ Len(f) = n
  OBVIOUS

\* As many elements as numbers, if every element has one number of its own.
LEMMA Numbered ==
    ASSUME NEW n \in Nat, NEW S, NEW g \in [1..n -> S],
           \A j, k \in 1..n : g[j] = g[k] => j = k, \A e \in S : \E k \in 1..n : g[k] = e
    PROVE  Cardinality(S) = n
  <1>1. g \in Bijection(1..n, S)
    BY Fun_IsBij
  <1>2. IsFiniteSet(1..n) /\ Cardinality(1..n) = n
    BY FS_Interval
  <1>3. ExistsBijection(1..n, S)
    BY <1>1 DEF ExistsBijection
  <1> QED
    BY <1>2, <1>3, FS_Bijection

\* The scenarios are the logins of the burst and then the probes of the scan.
LEMMA ScenarioParts ==
    /\ Scenario \in Seq(Made) /\ Len(Scenario) \in Nat
    /\ \A i \in 1..Len(Scenario) :
          \/ \E k \in 1..Attempts + 1 : Scenario[i] = BruteForceSsh(Attempts)[k]
          \/ \E k \in 1..Ports : Scenario[i] = PortScan(Ports)[k]
  <1> DEFINE burst(k) == [AuthEvent(k > Attempts) EXCEPT !.raw =
                             With([src_ip |-> Text("203.0.113.66"), service |-> Text("ssh")], @)]
             probe(k) == [NetworkEvent(FALSE, 17 * k) EXCEPT !.raw =
                             With([src_ip |-> Text("203.0.113.77")], @)]
             A == {burst(k) : k \in 1..Attempts + 1}
             B == {probe(k) : k \in 1..Ports}
  <1>1. Attempts + 1 \in Nat /\ Ports \in Nat
    BY SeedAssumption
  <1>2. BruteForceSsh(Attempts) = [k \in 1..Attempts + 1 |-> burst(k)]
    BY DEF BruteForceSsh
  <1>3. PortScan(Ports) = [k \in 1..Ports |-> probe(k)]
    BY DEF PortScan
  <1> HIDE DEF burst, probe
  <1>4. BruteForceSsh(Attempts) \in Seq(A) /\ Len(BruteForceSsh(Attempts)) = Attempts + 1
    BY <1>1, <1>2, Filled
  <1>5. PortScan(Ports) \in Seq(B) /\ Len(PortScan(Ports)) = Ports
    BY <1>1, <1>3, Filled
  <1> HIDE DEF A, B
  <1> DEFINE S == A \cup B
             s == BruteForceSsh(Attempts)
             u == PortScan(Ports)
  <1>6. s \in Seq(S) /\ u \in Seq(S) /\ Len(s) = Attempts + 1 /\ Len(u) = Ports
    BY <1>4, <1>5
  <1>7. Scenario = s \o u
    BY DEF Scenario
  <1> HIDE DEF S, s, u
  <1>8. Scenario \in Seq(S) /\ Len(Scenario) \in Nat
    BY <1>6, <1>7, Joined
  <1>9. \A i \in 1..Len(Scenario) : \/ \E k \in 1..Attempts + 1 : Scenario[i] = s[k]
                                    \/ \E k \in 1..Ports : Scenario[i] = u[k]
    <2>1. \A i \in 1..Len(s \o u) : OneOf((s \o u)[i], s) \/ OneOf((s \o u)[i], u)
      BY <1>6, JoinedElements
    <2> QED
      BY <1>6, <1>7, <2>1 DEF OneOf
  <1>10. \A k \in 1..Len(Scenario) : Scenario[k] \in Made
    BY DEF Made
  <1> QED
    BY <1>8, <1>9, <1>10 DEF s, u

\* What Synthesize makes: as many rows as --rows asks for, each with an id of its
\* own, an event of the generator and an instant of the window.
LEMMA SynthesisMakes ==
    ASSUME Typed, Synthesize
    PROVE  /\ \A e \in events' : /\ e.id \in Ids /\ e.id[1] = run
                                 /\ \E made \in Made, at \in Window : /\ e.from = Given(made, at)
                                                                      /\ e.top = SeedEnrich(e.from)
           /\ total >= 0 => Cardinality(events') = total
  <1> DEFINE more == IF total > Len(Scenario) THEN total - Len(Scenario) ELSE 0
             kept == Kept(Len(Scenario) + more)
  <1>1. total \in Int /\ Len(Scenario) \in Nat /\ run \in Nat
    BY SeedAssumption, ScenarioParts DEF Typed
  <1>2. more \in Nat /\ kept \in 0..Len(Scenario) + more /\ (total >= 0 => kept = total)
    BY <1>1 DEF Kept, Clamp
  <1>3. PICK fill \in [1..more -> RandomEvents], at \in [1..kept -> Window] :
            events' = {Row(k, Given((Scenario \o fill)[k], at[k])) : k \in 1..kept}
    BY DEF Synthesize
  <1> HIDE DEF more, kept
  <1> DEFINE made == Scenario \o fill
             row(k) == Row(k, Given(made[k], at[k]))
  <1>4. kept \in Nat /\ kept =< Len(Scenario) + more
    BY <1>1, <1>2
  <1>5. \A k \in 1..kept : made[k] \in Made /\ at[k] \in Window
    <2>1. fill \in Seq(RandomEvents) /\ Len(fill) = more
      BY <1>2, Filled
    <2>2. fill \in Seq(Made)
      BY <2>1 DEF Made
    <2>3. made \in Seq(Made) /\ Len(made) = Len(Scenario) + more
      BY <2>1, <2>2, ScenarioParts, Joined
    <2> HIDE DEF made
    <2>4. \A k \in 1..kept : k \in 1..Len(made)
      BY <1>1, <1>2, <1>4, <2>3
    <2>5. \A k \in 1..Len(made) : made[k] \in Made
      BY <2>3
    <2> QED
      BY <2>4, <2>5
  <1> HIDE DEF made
  <1>6. \A k \in 1..kept : /\ row(k).id = <<run, k>> /\ row(k).from = Given(made[k], at[k])
                           /\ row(k).top = SeedEnrich(row(k).from)
    BY DEF Row
  <1>7. events' = {row(k) : k \in 1..kept}
    BY <1>3 DEF made
  <1> HIDE DEF row
  <1>8. ASSUME NEW e \in events'
        PROVE  /\ e.id \in Ids /\ e.id[1] = run
               /\ \E x \in Made, t \in Window : e.from = Given(x, t) /\ e.top = SeedEnrich(e.from)
    <2>1. PICK k \in 1..kept : e = row(k)
      BY <1>7
    <2>2. e.id \in Ids /\ e.id[1] = run
      <3>1. e.id = <<run, k>> /\ k \in Nat
        BY <1>4, <1>6, <2>1
      <3> QED
        BY <1>1, <3>1 DEF Ids
    <2>3. e.from = Given(made[k], at[k]) /\ e.top = SeedEnrich(e.from)
      BY <1>6, <2>1
    <2> QED
      BY <1>5, <2>2, <2>3
  <1>9. Cardinality(events') = kept
    <2>1. ASSUME NEW j \in 1..kept, NEW k \in 1..kept, row(j) = row(k) PROVE j = k
      <3>1. row(j).id[2] = j /\ row(k).id[2] = k
        BY <1>6
      <3> QED
        BY <2>1, <3>1
    <2> DEFINE g == [k \in 1..kept |-> row(k)]
    <2>2. /\ g \in [1..kept -> events']
          /\ \A j, k \in 1..kept : g[j] = g[k] => j = k
          /\ \A e \in events' : \E k \in 1..kept : g[k] = e
      BY <1>7, <2>1
    <2> HIDE DEF g
    <2> QED
      BY <1>4, <2>2, Numbered
  <1> QED
    BY <1>2, <1>8, <1>9

-----------------------------------------------------------------------------
(* The steps that make, send and apply.                                    *)

\* Making events and finding alerts in them happens before anything is sent.
LEMMA MakeKeeps ==
    ASSUME SInv, Synthesize \/ Detect
    PROVE  SInv'
  <1>1. /\ UNCHANGED <<config, run, todo, posts>> /\ todo = Inserts
        /\ pc \in {"synthesize", "detect"} /\ code = 0
    BY DEF Synthesize, Detect, SInv, Stage, Running
  <1>2. UNCHANGED <<rules, corpus, anomaly, total>>
    BY <1>1 DEF config
  <1>3. Typed'
    <2>1. CASE Synthesize
      <3>1. alerts' = {}
        BY <2>1 DEF SInv, Stage, Synthesize
      <3>2. \A e \in events' : /\ e.id \in Ids /\ e.id[1] = run
                               /\ \E made \in Made, at \in Window : /\ e.from = Given(made, at)
                                                                    /\ e.top = SeedEnrich(e.from)
        BY <2>1, SynthesisMakes DEF SInv
      <3> QED
        BY <1>1, <1>2, <3>1, <3>2 DEF SInv, Typed
    <2>2. CASE Detect
      <3>1. UNCHANGED events
        BY <2>2 DEF Detect
      <3>2. ASSUME NEW a \in alerts' PROVE a \in Ids \X Nat /\ a[1] \in {e.id : e \in events}
        <4>1. CASE a \in alerts
          BY <4>1 DEF SInv, Typed
        <4>2. CASE a \in UNION {{<<e.id, i>> : i \in Finders(e)} : e \in events}
          <5>1. PICK e \in events : \E i \in Finders(e) : a = <<e.id, i>>
            BY <4>2
          <5>2. Finders(e) \subseteq Nat
            <6>1. Len(rules) \in Nat
              BY SeedAssumption DEF SInv, Typed
            <6> QED
              BY <6>1 DEF Finders, Model
          <5> QED
            BY <5>1, <5>2 DEF SInv, Typed
        <4> QED
          BY <2>2, <3>2, <4>1, <4>2 DEF Detect
      <3> QED
        BY <1>1, <1>2, <3>1, <3>2 DEF SInv, Typed
    <2> QED
      BY <2>1, <2>2
  <1>4. Stage' /\ pc' # "wait"
    <2>1. CASE Synthesize
      <3>1. pc' = "detect" /\ code' = 0
        BY <1>1, <2>1 DEF Synthesize
      <3> QED
        BY <1>1, <3>1 DEF Stage
    <2>2. CASE Detect
      <3>1. (pc' = "ended" /\ code' = 1) \/ (pc' = "insert" /\ code' = 0)
        BY <1>1, <2>2 DEF Detect, Fails
      <3> QED
        BY <1>1, <3>1 DEF Stage, Running
    <2> QED
      BY <2>1, <2>2
  <1>5. Left(todo) = Tables
    BY <1>1, LeftTables
  <1>6. Fresh'
    <2>1. Running
      BY <1>1 DEF Running
    <2> QED
      BY <1>1, <1>4, <2>1 DEF SInv, Fresh, Mine
  <1>7. NoneFromLater' /\ Separate' /\ Done'
    BY <1>1, <1>5 DEF SInv, NoneFromLater, Separate, Done
  <1>8. Backed'
    BY <1>1, SameTables DEF SInv, Backed
  <1> QED
    BY <1>3, <1>4, <1>6, <1>7, <1>8 DEF SInv

\* A table without rows is done with at once.
LEMMA PassOver ==
    ASSUME SInv, pc = "insert", todo # <<>>, RowsFor(Head(todo)) = {},
           todo' = Tail(todo), UNCHANGED <<pc, posts>>,
           UNCHANGED <<config, run, code, events, alerts>>
    PROVE  SInv'
  <1>1. UNCHANGED <<rules, corpus, anomaly, total>>
    BY DEF config
  <1>2. /\ Head(todo) \in Tables /\ todo' \in {Inserts, <<"alerts">>, <<>>}
        /\ Left(todo') = Left(todo) \ {Head(todo)} /\ Head(todo) \in Left(todo)
    BY TailLeaves DEF SInv, Typed
  <1>3. Typed' /\ Stage'
    BY <1>1, <1>2 DEF SInv, Typed, Stage, Running
  <1>4. NoneFromLater' /\ Separate' /\ Fresh'
    BY <1>2 DEF SInv, NoneFromLater, Separate, Fresh, Running, Mine
  <1>5. Backed'
    BY SameTables DEF SInv, Backed
  <1>6. Done'
    <2>1. ASSUME NEW t \in Tables, t \notin Left(todo')
          PROVE  /\ {row \in Table(t) : RunOf(t, row) = run} = RowsFor(t)
                 /\ \A p \in 1..Len(posts) :
                       (posts[p].table = t /\ ~posts[p].applied) => ~Mine(p)
      <3>1. CASE t \notin Left(todo)
        BY <3>1 DEF SInv, Done
      <3>2. CASE t = Head(todo)
        <4>1. \A p \in 1..Len(posts) : posts[p].table = t => ~Mine(p)
          BY <1>2, <3>2 DEF SInv, Fresh, Running
        <4>2. {row \in Table(t) : RunOf(t, row) = run} = {}
          BY <4>1, InTable DEF Mine
        <4> QED
          BY <3>2, <4>1, <4>2
      <3> QED
        BY <1>2, <2>1, <3>1, <3>2
    <2>2. \A t : Table(t)' = Table(t) /\ RowsFor(t)' = RowsFor(t)
      BY SameTables DEF RowsFor
    <2> QED
      BY <2>1, <2>2 DEF Done, Mine
  <1> QED
    BY <1>3, <1>4, <1>5, <1>6 DEF SInv

\* A request is sent, with the rows of this run and no other.
LEMMA SendKeeps ==
    ASSUME SInv, pc = "insert", todo # <<>>, pc' = "wait",
           posts' = Append(posts, [table |-> Head(todo), rows |-> RowsFor(Head(todo)),
                                   applied |-> FALSE, reply |-> "none"]),
           UNCHANGED todo, UNCHANGED <<config, run, code, events, alerts>>
    PROVE  SInv'
  <1>1. UNCHANGED <<rules, corpus, anomaly, total>>
    BY DEF config
  <1>2. /\ Head(todo) \in Tables /\ Head(todo) \in Left(todo)
        /\ Head(todo) = "alerts" => "events_enriched" \notin Left(todo)
        /\ Len(posts) \in Nat
    BY TailLeaves DEF SInv, Typed
  <1> SUFFICES ASSUME NEW t \in Tables, t = Head(todo), NEW rows, rows = RowsFor(t),
                      NEW n \in Nat, n = Len(posts)
               PROVE  SInv'
    BY <1>2
  <1>3. rows \subseteq RowsOf(t) /\ (\A row \in rows : RunOf(t, row) = run) /\ run \in Nat
    BY OwnRows DEF SInv, Typed
  <1> DEFINE post == [table |-> t, rows |-> rows, applied |-> FALSE, reply |-> "none"]
  <1>4. /\ post \in Posts /\ post.table = t /\ post.rows = rows /\ ~post.applied
        /\ posts' = Append(posts, post)
    <2>1. rows \subseteq RowsOf("alerts") \cup RowsOf("events_enriched")
      BY <1>3 DEF Tables
    <2> QED
      BY <2>1 DEF Posts
  <1> HIDE DEF post
  <1>5. /\ posts' \in Seq(Posts) /\ Len(posts') = n + 1
        /\ \A p \in 1..n : posts'[p] = posts[p]
        /\ posts'[n + 1] = post
    BY <1>4, AppendFacts DEF SInv, Typed
  <1>6. \A p \in 1..n+1 : p \in 1..n \/ p = n + 1
    OBVIOUS
  <1>7. Typed'
    <2>1. \A p \in 1..n+1 : posts'[p].rows \subseteq RowsOf(posts'[p].table)
      BY <1>3, <1>4, <1>5, <1>6 DEF SInv, Typed
    <2> QED
      BY <1>1, <1>5, <2>1 DEF SInv, Typed
  <1>8. Stage'
    <2>1. posts' # <<>> /\ posts'[Len(posts')] = post
      BY <1>5
    <2>2. UNCHANGED RowsFor(Head(todo))
      BY DEF RowsFor
    <2> QED
      BY <1>4, <2>1, <2>2 DEF SInv, Stage, Running
  <1>9. \A p \in 1..n : Mine(p)' <=> Mine(p)
    BY <1>5 DEF Mine
  <1>10. NoneFromLater'
    BY <1>3, <1>4, <1>5, <1>6 DEF SInv, NoneFromLater
  <1>11. \A p \in 1..n : posts[p].table \in Left(todo) => ~Mine(p)
    BY DEF SInv, Fresh, Running
  <1>12. Fresh'
    BY <1>5, <1>6, <1>9, <1>11 DEF Fresh
  <1>13. Separate'
    <2>1. ASSUME NEW p \in 1..n, posts[p].table = t PROVE posts[p].rows \cap rows = {}
      BY <1>2, <1>3, <1>11, <2>1 DEF Mine
    <2>2. \A p, q \in 1..n : (p # q /\ posts[p].table = posts[q].table) =>
                                posts[p].rows \cap posts[q].rows = {}
      BY DEF SInv, Separate
    <2>3. ASSUME NEW p \in 1..n+1, NEW q \in 1..n+1, p # q, posts'[p].table = posts'[q].table
          PROVE  posts'[p].rows \cap posts'[q].rows = {}
      <3>1. CASE p \in 1..n /\ q \in 1..n
        BY <1>5, <2>2, <2>3, <3>1
      <3>2. CASE p \in 1..n /\ q = n + 1
        BY <1>4, <1>5, <2>1, <2>3, <3>2
      <3>3. CASE p = n + 1 /\ q \in 1..n
        BY <1>4, <1>5, <2>1, <2>3, <3>3
      <3> QED
        BY <1>6, <2>3, <3>1, <3>2, <3>3
    <2> QED
      BY <1>5, <2>3 DEF Separate
  <1>14. \A name : Table(name)' = Table(name)
    BY <1>4, <1>5, <1>6 DEF Table
  <1>15. Backed'
    <2>1. ASSUME t = "alerts", NEW a \in rows PROVE a[1] \in Table("events_enriched")
      <3>1. "events_enriched" \in Tables \ Left(todo)
        BY <1>2, <2>1 DEF Tables
      <3>2. RowsFor("events_enriched") \subseteq Table("events_enriched")
        BY <3>1 DEF SInv, Done
      <3>3. a[1] \in RowsFor("events_enriched")
        BY <2>1 DEF SInv, Typed, RowsFor
      <3> QED
        BY <3>2, <3>3
    <2> QED
      BY <1>4, <1>5, <1>6, <1>14, <2>1 DEF SInv, Backed
  <1>16. Done'
    <2>1. ASSUME NEW u \in Tables, u \notin Left(todo)
          PROVE  /\ {row \in Table(u)' : RunOf(u, row) = run} = RowsFor(u)
                 /\ \A p \in 1..n+1 : (posts'[p].table = u /\ ~posts'[p].applied) => ~Mine(p)'
      <3>1. u # t
        BY <1>2, <2>1
      <3> QED
        BY <1>4, <1>5, <1>6, <1>9, <1>14, <2>1, <3>1 DEF SInv, Done
    <2>2. \A u : RowsFor(u)' = RowsFor(u)
      BY DEF RowsFor
    <2> QED
      BY <1>5, <2>1, <2>2 DEF Done
  <1> QED
    BY <1>7, <1>8, <1>10, <1>12, <1>13, <1>15, <1>16 DEF SInv

\* The server applies a request, whoever still waits for it: it can be one of
\* this run only if the run is not done with its table.
LEMMA ApplyKeeps ==
    ASSUME SInv, NEW p \in 1..Len(posts), ServerInserts(p)
    PROVE  SInv'
  <1>1. /\ UNCHANGED <<config, run, pc, code, events, alerts, todo>> /\ ~posts[p].applied
        /\ posts' = [posts EXCEPT ![p].applied = TRUE] /\ posts \in Seq(Posts)
    BY DEF ServerInserts, SInv, Typed
  <1>2. UNCHANGED <<rules, corpus, anomaly, total>>
    BY <1>1 DEF config
  <1>3. /\ posts' \in Seq(Posts) /\ Len(posts') = Len(posts)
        /\ \A q \in 1..Len(posts) : /\ posts'[q].table = posts[q].table
                                    /\ posts'[q].rows = posts[q].rows
                                    /\ q # p => (posts'[q].applied <=> posts[q].applied)
        /\ posts'[p].applied
    <2>1. posts \in Seq(Posts) /\ p \in 1..Len(posts) /\ posts' = [posts EXCEPT ![p].applied = TRUE]
      BY <1>1
    <2> QED
      BY ONLY <2>1, ApplyFacts
  <1>4. Typed'
    BY <1>1, <1>2, <1>3 DEF SInv, Typed
  <1>5. Stage'
    <2>1. pc = "wait" => posts' # <<>> /\ Len(posts) \in 1..Len(posts)
      <3>1. Len(posts) \in Nat /\ Len(posts) # 0
        BY <1>1
      <3> QED
        BY <1>3, <3>1
    <2>2. UNCHANGED RowsFor(Head(todo))
      BY <1>1 DEF RowsFor
    <2> QED
      BY <1>1, <1>3, <2>1, <2>2 DEF SInv, Stage, Running
  <1>6. \A q \in 1..Len(posts) : Mine(q)' <=> Mine(q)
    BY <1>1, <1>3 DEF Mine
  <1>7. NoneFromLater' /\ Separate'
    BY <1>1, <1>3 DEF SInv, NoneFromLater, Separate
  <1>8. Fresh'
    BY <1>1, <1>3, <1>6 DEF SInv, Fresh, Running
  <1>9. \A t : /\ Table(t) \subseteq Table(t)'
               /\ posts[p].table = t => Table(t)' \subseteq Table(t) \cup posts[p].rows
               /\ posts[p].table # t => Table(t)' \subseteq Table(t)
    BY <1>3 DEF Table
  <1>10. Backed'
    BY <1>3, <1>9 DEF SInv, Backed
  <1>11. Done'
    <2>1. ASSUME NEW t \in Tables, t \notin Left(todo)
          PROVE  /\ {row \in Table(t)' : RunOf(t, row) = run} = RowsFor(t)
                 /\ \A q \in 1..Len(posts) : (posts'[q].table = t /\ ~posts'[q].applied) => ~Mine(q)
      <3>1. /\ {row \in Table(t) : RunOf(t, row) = run} = RowsFor(t)
            /\ \A q \in 1..Len(posts) : (posts[q].table = t /\ ~posts[q].applied) => ~Mine(q)
        BY <2>1 DEF SInv, Done
      <3>2. ASSUME NEW row \in Table(t)', RunOf(t, row) = run PROVE row \in Table(t)
        <4>1. CASE posts[p].table = t /\ row \in posts[p].rows
          BY <1>1, <3>1, <3>2, <4>1 DEF Mine
        <4> QED
          BY <1>9, <3>2, <4>1
      <3> QED
        BY <1>3, <1>9, <3>1, <3>2
    <2>2. \A t : RowsFor(t)' = RowsFor(t)
      BY <1>1 DEF RowsFor
    <2> QED
      BY <1>1, <1>3, <1>6, <2>1, <2>2 DEF Done
  <1> QED
    BY <1>4, <1>5, <1>7, <1>8, <1>10, <1>11 DEF SInv

\* An answer changes no row: what it may change is the stage of main.
LEMMA AnswerFacts ==
    ASSUME SInv, InsertReturns \/ InsertFails
    PROVE  /\ UNCHANGED <<rules, corpus, anomaly, total, run, events, alerts>>
           /\ pc = "wait" /\ posts # <<>> /\ Len(posts) \in 1..Len(posts)
           /\ posts[Len(posts)].table = Head(todo)
           /\ posts[Len(posts)].rows = RowsFor(Head(todo))
           /\ Head(todo) \in Tables /\ Head(todo) \in Left(todo)
           /\ Tail(todo) \in {Inserts, <<"alerts">>, <<>>}
           /\ Left(Tail(todo)) = Left(todo) \ {Head(todo)}
           /\ posts' \in Seq(Posts) /\ Len(posts') = Len(posts)
           /\ \A q \in 1..Len(posts) : /\ posts'[q].table = posts[q].table
                                       /\ posts'[q].rows = posts[q].rows
                                       /\ posts'[q].applied <=> posts[q].applied
  <1>1. /\ pc = "wait" /\ posts # <<>> /\ todo # <<>> /\ posts \in Seq(Posts)
        /\ posts[Len(posts)].table = Head(todo)
        /\ posts[Len(posts)].rows = RowsFor(Head(todo))
        /\ todo \in {Inserts, <<"alerts">>, <<>>}
    BY DEF InsertReturns, InsertFails, SInv, Stage, Typed
  <1>2. UNCHANGED <<rules, corpus, anomaly, total, run, events, alerts>>
    BY DEF InsertReturns, InsertFails, config
  <1>3. Len(posts) \in 1..Len(posts)
    <2>1. Len(posts) \in Nat /\ Len(posts) # 0
      BY <1>1
    <2> QED
      BY <2>1
  <1>4. \E r \in {"none", "ok", "error", "lost"} : posts' = [posts EXCEPT ![Len(posts)].reply = r]
    BY DEF InsertReturns, InsertFails
  <1>5. /\ posts' \in Seq(Posts) /\ Len(posts') = Len(posts)
        /\ \A q \in 1..Len(posts) : /\ posts'[q].table = posts[q].table
                                    /\ posts'[q].rows = posts[q].rows
                                    /\ posts'[q].applied <=> posts[q].applied
    <2>1. posts \in Seq(Posts) /\ Len(posts) \in 1..Len(posts)
      BY <1>1, <1>3
    <2> QED
      BY ONLY <2>1, <1>4, ReplyFacts
  <1> QED
    BY <1>1, <1>2, <1>3, <1>5, TailLeaves

\* A request that is confirmed has its rows in the table, and no other request
\* for this table has rows of this run.
LEMMA ReturnsKeeps ==
    ASSUME SInv, InsertReturns
    PROVE  SInv'
  <1>1. /\ pc' = "insert" /\ todo' = Tail(todo) /\ UNCHANGED code
        /\ posts[Len(posts)].applied /\ Running /\ Running'
    BY DEF InsertReturns, Running
  <1> SUFFICES ASSUME NEW t \in Tables, t = Head(todo), NEW n \in Nat, n = Len(posts),
                      n \in 1..n
               PROVE  SInv'
    BY AnswerFacts
  <1>2. Typed'
    BY <1>1, AnswerFacts DEF SInv, Typed
  <1>3. Stage'
    BY <1>1, AnswerFacts DEF SInv, Stage, Running
  <1>4. \A q \in 1..n : Mine(q)' <=> Mine(q)
    BY AnswerFacts DEF Mine
  <1>5. NoneFromLater' /\ Separate'
    BY AnswerFacts DEF SInv, NoneFromLater, Separate
  <1>6. \A q \in 1..n : (posts[q].table \in Left(todo) /\ q # n) => ~Mine(q)
    BY <1>1, AnswerFacts DEF SInv, Fresh
  <1>7. Left(todo') = Left(todo) \ {t}
    BY <1>1, AnswerFacts
  <1>8. Fresh'
    BY <1>4, <1>6, <1>7, AnswerFacts DEF Fresh
  <1>9. \A name : Table(name)' = Table(name)
    BY AnswerFacts DEF Table
  <1>10. Backed'
    BY <1>9, AnswerFacts DEF SInv, Backed
  <1>11. Done'
    <2>1. ASSUME NEW u \in Tables, u \notin Left(todo')
          PROVE  /\ {row \in Table(u) : RunOf(u, row) = run} = RowsFor(u)
                 /\ \A q \in 1..n : (posts[q].table = u /\ ~posts[q].applied) => ~Mine(q)
      <3>1. CASE u \notin Left(todo)
        BY <3>1 DEF SInv, Done
      <3>2. CASE u = t
        <4>1. \A q \in 1..n : (posts[q].table = t /\ q # n) => ~Mine(q)
          BY <1>6, AnswerFacts
        <4>2. RowsFor(t) \subseteq {row \in Table(t) : RunOf(t, row) = run}
          <5>1. \A row \in RowsFor(t) : RunOf(t, row) = run
            BY OwnRows DEF SInv
          <5>2. posts[n].table = t /\ posts[n].rows = RowsFor(t) /\ posts[n].applied
            BY <1>1, AnswerFacts
          <5> QED
            BY <5>1, <5>2, InTable
        <4>3. ASSUME NEW row \in Table(t), RunOf(t, row) = run PROVE row \in RowsFor(t)
          <5>1. PICK q \in 1..n : posts[q].table = t /\ row \in posts[q].rows
            BY <4>3, InTable
          <5>2. Mine(q)
            BY <4>3, <5>1 DEF Mine
          <5>3. q = n
            BY <4>1, <5>1, <5>2
          <5> QED
            BY <5>1, <5>3, AnswerFacts
        <4> QED
          BY <1>1, <3>2, <4>1, <4>2, <4>3
      <3> QED
        BY <1>7, <2>1, <3>1, <3>2
    <2>2. \A u : RowsFor(u)' = RowsFor(u)
      BY AnswerFacts DEF RowsFor
    <2> QED
      BY <1>4, <1>9, <2>1, <2>2, AnswerFacts DEF Done
  <1> QED
    BY <1>2, <1>3, <1>5, <1>8, <1>10, <1>11 DEF SInv

\* A request that fails ends the run.
LEMMA FailsKeeps ==
    ASSUME SInv, InsertFails
    PROVE  SInv'
  <1>1. pc' = "ended" /\ code' = 1 /\ UNCHANGED todo /\ ~Running'
    BY DEF InsertFails, Fails, Running
  <1>2. Typed'
    BY <1>1, AnswerFacts DEF SInv, Typed
  <1>3. Stage' /\ Fresh'
    BY <1>1 DEF Stage, Fresh
  <1>4. \A q \in 1..Len(posts) : Mine(q)' <=> Mine(q)
    BY AnswerFacts DEF Mine
  <1>5. NoneFromLater' /\ Separate'
    BY AnswerFacts DEF SInv, NoneFromLater, Separate
  <1>6. \A name : Table(name)' = Table(name) /\ RowsFor(name)' = RowsFor(name)
    <2>1. \A name : Table(name)' = Table(name)
      <3>1. /\ Len(posts') = Len(posts)
            /\ \A q \in 1..Len(posts) : /\ posts'[q].rows = posts[q].rows
                                        /\ posts'[q].table = posts[q].table
                                        /\ posts'[q].applied <=> posts[q].applied
        BY AnswerFacts
      <3> QED
        BY <3>1 DEF Table
    <2>2. \A name : RowsFor(name)' = RowsFor(name)
      BY AnswerFacts DEF RowsFor
    <2> QED
      BY <2>1, <2>2
  <1>7. Backed'
    BY <1>6, AnswerFacts DEF SInv, Backed
  <1>8. Done'
    BY <1>1, <1>4, <1>6, AnswerFacts DEF SInv, Done
  <1> QED
    BY <1>2, <1>3, <1>5, <1>7, <1>8 DEF SInv

\* A new run has rows of its own.
LEMMA AgainKeeps ==
    ASSUME SInv, Again
    PROVE  SInv'
  <1>1. /\ run' = run + 1 /\ pc' = "load" /\ code' = 0 /\ events' = {} /\ alerts' = {}
        /\ todo' = Inserts /\ UNCHANGED <<config, posts>> /\ run \in Nat
    BY DEF Again, SInv, Typed
  <1>2. UNCHANGED <<rules, corpus, anomaly, total>>
    BY <1>1 DEF config
  <1>3. Typed' /\ Stage'
    BY <1>1, <1>2 DEF SInv, Typed, Stage
  <1>4. Left(todo') = Tables
    BY <1>1, LeftTables
  <1>5. ASSUME NEW p \in 1..Len(posts), NEW row \in posts[p].rows
        PROVE  /\ RunOf(posts[p].table, row) =< run /\ RunOf(posts[p].table, row) \in Nat
    BY PostTypes DEF SInv, NoneFromLater
  <1>6. NoneFromLater' /\ Fresh'
    BY <1>1, <1>5 DEF NoneFromLater, Fresh, Mine
  <1>7. Separate' /\ Done'
    BY <1>1, <1>4 DEF SInv, Separate, Done
  <1>8. Backed'
    BY <1>1, SameTables DEF SInv, Backed
  <1> QED
    BY <1>3, <1>6, <1>7, <1>8 DEF SInv

\* SInv always holds.
LEMMA Inductive == Spec => []SInv
  <1>1. ASSUME SInv, [Next]_vars PROVE SInv'
    <2>1. CASE Load \/ Return \/ Kill \/ UNCHANGED vars
      BY <1>1, <2>1, QuietKeeps
    <2>2. CASE Synthesize \/ Detect
      BY <1>1, <2>2, MakeKeeps
    <2>3. CASE Insert
      <3>1. CASE RowsFor(Head(todo)) = {}
        BY <1>1, <2>3, <3>1, PassOver DEF Insert
      <3>2. CASE RowsFor(Head(todo)) # {}
        BY <1>1, <2>3, <3>2, SendKeeps DEF Insert
      <3> QED
        BY <3>1, <3>2
    <2>4. CASE \E p \in 1..Len(posts) : ServerInserts(p)
      BY <1>1, <2>4, ApplyKeeps
    <2>5. CASE InsertReturns
      BY <1>1, <2>5, ReturnsKeeps
    <2>6. CASE InsertFails
      BY <1>1, <2>6, FailsKeeps
    <2>7. CASE Again
      BY <1>1, <2>7, AgainKeeps
    <2> QED
      BY <1>1, <2>1, <2>2, <2>3, <2>4, <2>5, <2>6, <2>7 DEF Next
  <1> QED
    BY <1>1, InitSInv, PTL DEF Spec

\* Whatever fails, is late, is killed or is run again: the alerts table never
\* holds an alert about an event that the events table lacks, and no row is in
\* two inserts.
THEOREM AlertsNeverAlone == Spec => []AlertsHaveEvents
  <1>1. ASSUME SInv PROVE AlertsHaveEvents
    <2>1. ASSUME NEW a \in Table("alerts") PROVE a[1] \in Table("events_enriched")
      <3>1. PICK p \in 1..Len(posts) : posts[p].table = "alerts" /\ a \in posts[p].rows
        BY InTable
      <3> QED
        BY <1>1, <3>1 DEF SInv, Backed
    <2> QED
      BY <1>1, <2>1 DEF SInv, Separate, AlertsHaveEvents
  <1> QED
    BY <1>1, Inductive, PTL

-----------------------------------------------------------------------------
(* What status 0 means.                                                    *)

\* The verdicts there are the verdicts here.
LEMMA SameVerdicts ==
    /\ \A rule : IsRule(rule) <=> V!IsRule(rule)
    /\ \A rule, event : Match(rule, event) = V!Match(rule, event)
    /\ \A rule, event : Means(rule, event) <=> V!Means(rule, event)
    /\ \A fit, df, percent :
          /\ IsAnomaly(fit, df, percent) <=> V!IsAnomaly(fit, df, percent)
          /\ StandsOut(fit, df, percent) <=> V!StandsOut(fit, df, percent)
  <1>1. \A rule : IsRule(rule) <=> V!IsRule(rule)
    BY DEF IsRule, V!IsRule
  <1>2. \A rule : Tokens(rule) = V!Tokens(rule)
    BY DEF Tokens, V!Tokens, Token, V!Token,
           Ands, V!Ands, Ors, V!Ors, Nots, V!Nots
  <1>3. \A event, field : Lookup(event, field) = V!Lookup(event, field)
    BY DEF Lookup, V!Lookup, Get, V!Get, Null, V!Null, Value, V!Value
  <1>4. \A actual, modifier, expected :
           Compare(actual, modifier, expected) = V!Compare(actual, modifier, expected)
    BY DEF Compare, V!Compare, Bool, V!Bool, TextModifiers, V!TextModifiers, Null, V!Null,
           Value, V!Value
  <1>5. \A outcomes, neutral : Until(outcomes, neutral) = V!Until(outcomes, neutral)
    BY DEF Until, V!Until, SelectInSeq, V!SelectInSeq, Min, V!Min
  <1>6. \A selection, event : SelectionMatches(selection, event) = V!SelectionMatches(selection, event)
    BY <1>3, <1>4, <1>5
       DEF SelectionMatches, V!SelectionMatches, FieldMatches, V!FieldMatches, AnyOf, V!AnyOf
  <1>7. \A tokens, sels : Terms(tokens, sels) = V!Terms(tokens, sels)
    BY DEF Terms, V!Terms, Fault, V!Fault, Negated, V!Negated, Operators, V!Operators
  <1>8. \A tokens, sels : Rests(tokens, sels) = V!Rests(tokens, sels)
    BY DEF Rests, V!Rests, Terms, V!Terms, Fault, V!Fault, Negated, V!Negated,
           Operators, V!Operators, Bool, V!Bool, Combine, V!Combine
  <1>9. \A tokens, sels : EvalCondition(tokens, sels) = V!EvalCondition(tokens, sels)
    BY <1>7, <1>8 DEF EvalCondition, V!EvalCondition
  <1>10. \A rule, event : Match(rule, event) = V!Match(rule, event)
    BY <1>2, <1>6, <1>9 DEF Match, V!Match
  <1>11. \A rule, event : Means(rule, event) <=> V!Means(rule, event)
    <2>1. \A rule : Names(rule) = V!Names(rule)
      BY DEF Names, V!Names, Operators, V!Operators
    <2>2. \A t, k : NotsBefore(t, k) = V!NotsBefore(t, k)
      BY DEF NotsBefore, V!NotsBefore
    <2>3. \A S : Cardinality(S) = V!Cardinality(S)
      BY DEF Cardinality, V!Cardinality
    <2>4. \A selection, event : Selects(selection, event) <=> V!Selects(selection, event)
      <3>1. \A actual, modifier, v : Fits(actual, modifier, v) <=> V!Fits(actual, modifier, v)
        BY DEF Fits, V!Fits, TextModifiers, V!TextModifiers, Null, V!Null,
               Value, V!Value
      <3> QED
        BY <1>3, <3>1 DEF Selects, V!Selects
    <2>5. \A rule, event, t, k :
             TermHolds(rule, event, t, k) <=> V!TermHolds(rule, event, t, k)
      BY <2>2, <2>3, <2>4 DEF TermHolds, V!TermHolds
    <2>6. \A t, k : OperatorBefore(t, k) = V!OperatorBefore(t, k)
      BY <2>2, <2>3 DEF OperatorBefore, V!OperatorBefore
    <2> QED
      BY <1>2, <2>1, <2>5, <2>6 DEF Means, V!Means
  <1>12. \A fit, df, percent :
            /\ IsAnomaly(fit, df, percent) <=> V!IsAnomaly(fit, df, percent)
            /\ StandsOut(fit, df, percent) <=> V!StandsOut(fit, df, percent)
    BY DEF IsAnomaly, V!IsAnomaly, StandsOut, V!StandsOut, Span, V!Span, Top, V!Top,
           Bottom, V!Bottom, One, V!One, Norm, V!Norm, Clamp, V!Clamp
  <1> QED
    BY <1>1, <1>10, <1>11, <1>12

\* What the rules and the model find in an event is what they stand for.
LEMMA FindersMean ==
    ASSUME SInv, NEW e \in events,
           \A i \in 1..Len(rules) : Match(rules[i], Target(e)) # "raise"
    PROVE  Finders(e) = {j \in 1..Len(rules) : Means(rules[j], Target(e))}
                        \cup (IF anomaly /\ StandsOut(corpus, Decision(e.from), Threshold)
                              THEN {Model} ELSE {})
  <1>1. /\ \A i \in 1..Len(rules) : IsRule(rules[i])
        /\ corpus \in Trained /\ Threshold \in Int
        /\ Decision(e.from) \in Int
    <2>1. rules \in Directories /\ corpus \in Corpora
          /\ \E made \in Made, at \in Window : e.from = Given(made, at)
      BY DEF SInv, Typed
    <2> QED
      BY <2>1, SeedAssumption
  <1>2. ASSUME NEW i \in 1..Len(rules)
        PROVE  Match(rules[i], Target(e)) = "yes" <=> Means(rules[i], Target(e))
    BY <1>1, V!MatchMeans, SameVerdicts
  <1>3. IsAnomaly(corpus, Decision(e.from), Threshold) <=>
            StandsOut(corpus, Decision(e.from), Threshold)
    <2>1. Trained = V!Trained
      BY DEF Trained, V!Trained
    <2> QED
      BY <1>1, <2>1, V!AnomalyMeans, SameVerdicts
  <1>4. {i \in 1..Len(rules) : Match(rules[i], Target(e)) = "yes"} =
            {j \in 1..Len(rules) : Means(rules[j], Target(e))}
    BY <1>2
  <1>5. {i \in {Model} : anomaly /\ IsAnomaly(corpus, Decision(e.from), Threshold)} =
            IF anomaly /\ StandsOut(corpus, Decision(e.from), Threshold) THEN {Model} ELSE {}
    <2>1. CASE anomaly /\ StandsOut(corpus, Decision(e.from), Threshold)
      BY <1>3, <2>1
    <2>2. CASE ~(anomaly /\ StandsOut(corpus, Decision(e.from), Threshold))
      BY <1>3, <2>2
    <2> QED
      BY <2>1, <2>2
  <1> QED
    BY <1>4, <1>5 DEF Finders

\* Found always holds.
LEMMA FoundAlways == Spec => [](SInv /\ Found)
  <1>1. Init => Found
    BY DEF Init, Found, Successful
  <1>2. ASSUME SInv, Found, [Next]_vars PROVE Found'
    <2>1. CASE Synthesize
      <3>1. pc' = "detect" /\ UNCHANGED total /\ (total >= 0 => Cardinality(events') = total)
        BY <1>2, <2>1, SynthesisMakes DEF SInv, Synthesize, config
      <3> QED
        BY <3>1 DEF Found, Successful
    <2>2. CASE Detect
      <3>1. UNCHANGED <<rules, corpus, anomaly, total, events>> /\ Wanted' = Wanted
        BY <2>2 DEF Detect, config, Wanted, Target
      <3>2. pc = "detect" /\ (total >= 0 => Cardinality(events) = total)
        BY <1>2, <2>2 DEF Detect, Found
      <3>3. CASE \E e \in events, i \in 1..Len(rules) : Match(rules[i], Target(e)) = "raise"
        BY <2>2, <3>3 DEF Detect, Fails, Found, Successful
      <3>4. CASE ~\E e \in events, i \in 1..Len(rules) : Match(rules[i], Target(e)) = "raise"
        <4>1. alerts' = UNION {{<<e.id, i>> : i \in Finders(e)} : e \in events}
          BY <2>2, <3>4 DEF Detect
        <4> DEFINE S(e) == {j \in 1..Len(rules) : Means(rules[j], Target(e))}
                           \cup (IF anomaly /\ StandsOut(corpus, Decision(e.from), Threshold)
                                 THEN {Model} ELSE {})
        <4>2. \A e \in events : Finders(e) = S(e)
          BY <1>2, <3>4, FindersMean
        <4>3. Wanted = UNION {{<<e.id, i>> : i \in S(e)} : e \in events}
          BY DEF Wanted
        <4> HIDE DEF S
        <4>4. alerts' = Wanted
          BY <4>1, <4>2, <4>3
        <4> QED
          BY <3>1, <3>2, <4>4 DEF Found
      <3> QED
        BY <3>3, <3>4
    <2>3. CASE Again
      BY <2>3 DEF Again, Found, Successful
    <2>4. CASE \/ Load \/ Insert \/ InsertReturns \/ InsertFails \/ Return \/ Kill
               \/ (\E p \in 1..Len(posts) : ServerInserts(p)) \/ UNCHANGED vars
      <3>1. UNCHANGED <<config, events, alerts>>
        BY <2>4 DEF Load, Insert, InsertReturns, InsertFails, Return, Kill, ServerInserts, vars
      <3>2. UNCHANGED <<rules, corpus, anomaly, total, events, alerts>> /\ Wanted' = Wanted
        BY <3>1 DEF config, Wanted, Target
      <3>3. /\ pc' = "detect" => pc = "detect"
            /\ Successful' => Successful
        <4>1. CASE Load \/ InsertFails \/ Kill
          BY <4>1 DEF Load, InsertFails, Kill, Fails, Successful
        <4>2. CASE Insert \/ InsertReturns \/ Return
          BY <4>2 DEF Insert, InsertReturns, Return, Successful
        <4>3. CASE (\E p \in 1..Len(posts) : ServerInserts(p)) \/ UNCHANGED vars
          BY <4>3 DEF ServerInserts, vars, Successful
        <4> QED
          BY <2>4, <4>1, <4>2, <4>3
      <3> QED
        BY <1>2, <3>2, <3>3 DEF Found
    <2> QED
      BY <1>2, <2>1, <2>2, <2>3, <2>4 DEF Next
  <1> QED
    BY <1>1, <1>2, Inductive, PTL DEF Spec

\* When the seeder ends with status 0, however its inserts were delayed and
\* whatever earlier runs left behind, the tables hold the events of this run, as
\* many as --rows asks for, and exactly the alerts that rules and model stand
\* for.
THEOREM ZeroIsComplete == Spec => []ExitZeroIsComplete
  <1>1. ASSUME SInv, Found PROVE ExitZeroIsComplete
    <2> SUFFICES ASSUME pc = "ended", code = 0
                 PROVE  /\ OfThisRun(Table("events_enriched")) = {e.id : e \in events}
                        /\ total >= 0 => Cardinality(events) = total
                        /\ {a \in Table("alerts") : a[1][1] = run} = Wanted
      BY DEF ExitZeroIsComplete
    <2>1. Left(todo) = {}
      BY <1>1, LeftTables DEF SInv, Stage, Typed
    <2>2. \A t \in Tables : {row \in Table(t) : RunOf(t, row) = run} = RowsFor(t)
      BY <1>1, <2>1 DEF SInv, Done
    <2>3. /\ {row \in Table("events_enriched") : RunOf("events_enriched", row) = run} =
                RowsFor("events_enriched")
          /\ {row \in Table("alerts") : RunOf("alerts", row) = run} = RowsFor("alerts")
      BY <2>2 DEF Tables
    <2>4. OfThisRun(Table("events_enriched")) = {e.id : e \in events}
      BY <2>3 DEF OfThisRun, RunOf, RowsFor
    <2>5. {a \in Table("alerts") : a[1][1] = run} = alerts
      BY <2>3 DEF RunOf, RowsFor
    <2> QED
      BY <1>1, <2>4, <2>5 DEF Found, Successful
  <1> QED
    BY <1>1, FoundAlways, PTL

-----------------------------------------------------------------------------
(* The two versions of the enrichment agree on what the generator makes.   *)

\* A payload of the generator, as far as the enrichment looks: an instant, a
\* class and a severity that both know, and fields of the types of the tables.
Regular(raw) ==
    /\ Get(raw, "@timestamp") = Text("created")
    /\ \E class \in {"auth", "network", "dns"} : Get(raw, "event_class") = Text(class)
    /\ \E word \in {"info", "notice", "warning", "debug"} : Get(raw, "severity") = Text(word)
    /\ \A f \in StringFields : Get(raw, f) = Null \/ Get(raw, f).str
    /\ \A f \in PortFields : Get(raw, f) = Null \/ \E n \in U16 : Get(raw, f) = Number(n)
    /\ Get(raw, "src_ip").str

\* Text and numbers.
LEMMA ValueFacts ==
    /\ \A w : Text(w).str /\ Text(w).atom = w /\ Text(w) # Null
    /\ \A n : ~Number(n).str /\ Number(n).numeric /\ Number(n).num = n
    /\ ~Null.str /\ ~Null.numeric
  <1>1. \A w : Text(w).str /\ Text(w).atom = w /\ Text(w) # Null
    BY DEF Text, Null, Value
  <1>2. \A n : ~Number(n).str /\ Number(n).numeric /\ Number(n).num = n
    BY DEF Number, Value
  <1>3. ~Null.str /\ ~Null.numeric
    BY DEF Null, Value
  <1> QED
    BY <1>1, <1>2, <1>3

\* One payload laid over another.
LEMMA Overlaid ==
    ASSUME NEW f, NEW g, NEW x
    PROVE  Get(With(f, g), x) = IF x \in DOMAIN f THEN f[x] ELSE Get(g, x)
  BY DEF Get, With

\* The instant of the making is part of every payload.
LEMMA CreatedFirst ==
    ASSUME NEW g, NEW x
    PROVE  Get(With(Created, g), x) = IF x = "@timestamp" THEN Text("created") ELSE Get(g, x)
  BY Overlaid DEF Created

\* The numbers of ports.
LEMMA PortNumbers ==
    /\ 443 \in U16 /\ 65535 \in U16
    /\ \A k \in 1..Ports : 17 * k \in U16
  BY SeedAssumption DEF U16

\* An event with a regular payload.
Shaped(e) == \E source, raw : e = [source |-> source, raw |-> raw] /\ Regular(raw)

\* A payload is regular if what the factory writes besides the instant is.
LEMMA CreatedRegular ==
    ASSUME NEW r,
           \E class \in {"auth", "network", "dns"} : Get(r, "event_class") = Text(class),
           \E word \in {"info", "notice", "warning", "debug"} : Get(r, "severity") = Text(word),
           \A f \in StringFields : Get(r, f) = Null \/ Get(r, f).str,
           \A f \in PortFields : Get(r, f) = Null \/ \E n \in U16 : Get(r, f) = Number(n),
           Get(r, "src_ip").str
    PROVE  Regular(With(Created, r))
  <1> DEFINE w == With(Created, r)
  <1>1. /\ Get(w, "@timestamp") = Text("created")
        /\ \A x : x # "@timestamp" => Get(w, x) = Get(r, x)
    BY CreatedFirst
  <1> HIDE DEF w
  <1>2. /\ \A f \in StringFields : Get(w, f) = Get(r, f)
        /\ \A f \in PortFields : Get(w, f) = Get(r, f)
    BY <1>1 DEF StringFields, PortFields
  <1>3. /\ Get(w, "event_class") = Get(r, "event_class")
        /\ Get(w, "severity") = Get(r, "severity")
        /\ Get(w, "src_ip") = Get(r, "src_ip")
    BY <1>1
  <1>4. Regular(w)
    BY <1>1, <1>2, <1>3 DEF Regular
  <1> QED
    BY <1>4 DEF w

\* Logins.
LEMMA AuthRegular ==
    ASSUME NEW success
    PROVE  Shaped(AuthEvent(success))
  <1> DEFINE word == IF success THEN "info" ELSE "warning"
             r == [event_class |-> Text("auth"),
                   outcome  |-> Text(IF success THEN "success" ELSE "failure"),
                   user     |-> Text("alice"),
                   host     |-> Text("db-1"),
                   src_ip   |-> Text("203.0.113.9"),
                   severity |-> Text(word),
                   message  |-> Text("login")]
  <1>1. AuthEvent(success) = [source |-> "auth-service", raw |-> With(Created, r)]
    BY DEF AuthEvent
  <1>2. word \in {"info", "warning"}
    OBVIOUS
  <1> HIDE DEF word
  <1>3. /\ Get(r, "event_class") = Text("auth") /\ Get(r, "severity") = Text(word)
        /\ Get(r, "user") = Text("alice") /\ Get(r, "host") = Text("db-1")
        /\ Get(r, "src_ip") = Text("203.0.113.9") /\ Get(r, "message") = Text("login")
        /\ Get(r, "dst_ip") = Null /\ Get(r, "src_port") = Null /\ Get(r, "dst_port") = Null
    BY DEF Get
  <1> HIDE DEF r
  <1>4. \A f \in StringFields : Get(r, f) = Null \/ Get(r, f).str
    BY <1>3, ValueFacts DEF StringFields
  <1>5. \A f \in PortFields : Get(r, f) = Null
    BY <1>3 DEF PortFields
  <1>6. Get(r, "src_ip").str
    BY <1>3, ValueFacts
  <1>7. Regular(With(Created, r))
    BY <1>2, <1>3, <1>4, <1>5, <1>6, CreatedRegular
  <1> QED
    BY <1>1, <1>7 DEF Shaped

\* Connections.
LEMMA NetworkRegular ==
    ASSUME NEW accepted, NEW port \in U16
    PROVE  Shaped(NetworkEvent(accepted, port))
  <1> DEFINE word == IF accepted THEN "info" ELSE "notice"
             r == [event_class |-> Text("network"),
                   action   |-> Text(IF accepted THEN "accept" ELSE "drop"),
                   src_ip   |-> Text("203.0.113.9"),
                   dst_ip   |-> Text("10.0.0.1"),
                   src_port |-> Number(65535),
                   dst_port |-> Number(port),
                   protocol |-> Text("tcp"),
                   severity |-> Text(word),
                   message  |-> Text("fw")]
  <1>1. NetworkEvent(accepted, port) = [source |-> "edge-firewall", raw |-> With(Created, r)]
    BY DEF NetworkEvent
  <1>2. word \in {"info", "notice"}
    OBVIOUS
  <1> HIDE DEF word
  <1>3. /\ Get(r, "event_class") = Text("network") /\ Get(r, "severity") = Text(word)
        /\ Get(r, "user") = Null /\ Get(r, "host") = Null
        /\ Get(r, "src_ip") = Text("203.0.113.9") /\ Get(r, "message") = Text("fw")
        /\ Get(r, "dst_ip") = Text("10.0.0.1")
        /\ Get(r, "src_port") = Number(65535) /\ Get(r, "dst_port") = Number(port)
    BY DEF Get
  <1> HIDE DEF r
  <1>4. \A f \in StringFields : Get(r, f) = Null \/ Get(r, f).str
    BY <1>3, ValueFacts DEF StringFields
  <1>5. \A f \in PortFields : Get(r, f) = Null \/ \E n \in U16 : Get(r, f) = Number(n)
    BY <1>3, PortNumbers DEF PortFields
  <1>6. Get(r, "src_ip").str
    BY <1>3, ValueFacts
  <1>7. Regular(With(Created, r))
    BY <1>2, <1>3, <1>4, <1>5, <1>6, CreatedRegular
  <1> QED
    BY <1>1, <1>7 DEF Shaped

\* Queries.
LEMMA DnsRegular == Shaped(DnsEvent)
  <1> DEFINE r == [event_class |-> Text("dns"),
                   query    |-> Text("github.com"),
                   src_ip   |-> Text("10.0.0.1"),
                   severity |-> Text("debug"),
                   message  |-> Text("dns query")]
  <1>1. DnsEvent = [source |-> "dns-resolver", raw |-> With(Created, r)]
    BY DEF DnsEvent
  <1>2. /\ Get(r, "event_class") = Text("dns") /\ Get(r, "severity") = Text("debug")
        /\ Get(r, "user") = Null /\ Get(r, "host") = Null
        /\ Get(r, "src_ip") = Text("10.0.0.1") /\ Get(r, "message") = Text("dns query")
        /\ Get(r, "dst_ip") = Null /\ Get(r, "src_port") = Null /\ Get(r, "dst_port") = Null
    BY DEF Get
  <1> HIDE DEF r
  <1>3. \A f \in StringFields : Get(r, f) = Null \/ Get(r, f).str
    BY <1>2, ValueFacts DEF StringFields
  <1>4. \A f \in PortFields : Get(r, f) = Null
    BY <1>2 DEF PortFields
  <1>5. Get(r, "src_ip").str
    BY <1>2, ValueFacts
  <1>6. Regular(With(Created, r))
    BY <1>2, <1>3, <1>4, <1>5, CreatedRegular
  <1> QED
    BY <1>1, <1>6 DEF Shaped

\* The scenarios put an address of their own over that of the factory.
LEMMA OverlayRegular ==
    ASSUME NEW e, Shaped(e), NEW over, NEW address,
           DOMAIN over \subseteq {"src_ip", "service"}, "src_ip" \in DOMAIN over,
           over["src_ip"] = Text(address)
    PROVE  Shaped([e EXCEPT !.raw = With(over, e.raw)])
  <1>1. PICK source, raw : e = [source |-> source, raw |-> raw] /\ Regular(raw)
    BY DEF Shaped
  <1> DEFINE r == With(over, raw)
  <1>2. [e EXCEPT !.raw = With(over, e.raw)] = [source |-> source, raw |-> r]
    BY <1>1
  <1>3. \A x : Get(r, x) = IF x \in DOMAIN over THEN over[x] ELSE Get(raw, x)
    BY Overlaid
  <1> HIDE DEF r
  <1>4. Get(r, "src_ip") = Text(address) /\ Get(r, "src_ip").str
    BY <1>3, ValueFacts
  <1>5. \A x : x \notin {"src_ip", "service"} => Get(r, x) = Get(raw, x)
    BY <1>3
  <1>6. \A f \in StringFields : Get(r, f) = Null \/ Get(r, f).str
    <2>1. \A f \in StringFields : f # "src_ip" => Get(r, f) = Get(raw, f)
      BY <1>5 DEF StringFields
    <2> QED
      BY <1>1, <1>4, <2>1 DEF Regular
  <1>7. \A f \in PortFields : Get(r, f) = Get(raw, f)
    BY <1>5 DEF PortFields
  <1>8. /\ Get(r, "@timestamp") = Get(raw, "@timestamp")
        /\ Get(r, "event_class") = Get(raw, "event_class")
        /\ Get(r, "severity") = Get(raw, "severity")
    BY <1>5
  <1>9. Regular(r)
    BY <1>1, <1>4, <1>6, <1>7, <1>8 DEF Regular
  <1> QED
    BY <1>2, <1>9 DEF Shaped

\* Everything that the seeder takes from the generator is regular.
LEMMA MadeRegular ==
    ASSUME NEW made \in Made
    PROVE  Shaped(made)
  <1>1. CASE made \in RandomEvents
    BY <1>1, AuthRegular, NetworkRegular, DnsRegular, PortNumbers DEF RandomEvents
  <1>2. ASSUME NEW k \in 1..Attempts + 1, made = BruteForceSsh(Attempts)[k]
        PROVE  Shaped(made)
    <2> DEFINE over == [src_ip |-> Text("203.0.113.66"), service |-> Text("ssh")]
               login == AuthEvent(k > Attempts)
    <2>1. made = [login EXCEPT !.raw = With(over, login.raw)]
      BY <1>2 DEF BruteForceSsh
    <2>2. Shaped(login)
      BY AuthRegular
    <2>3. /\ DOMAIN over \subseteq {"src_ip", "service"} /\ "src_ip" \in DOMAIN over
          /\ over["src_ip"] = Text("203.0.113.66")
      OBVIOUS
    <2> HIDE DEF over, login
    <2> QED
      BY <2>1, <2>2, <2>3, OverlayRegular
  <1>3. ASSUME NEW k \in 1..Ports, made = PortScan(Ports)[k]
        PROVE  Shaped(made)
    <2> DEFINE over == [src_ip |-> Text("203.0.113.77")]
               probe == NetworkEvent(FALSE, 17 * k)
    <2>1. made = [probe EXCEPT !.raw = With(over, probe.raw)]
      BY <1>3 DEF PortScan
    <2>2. Shaped(probe)
      <3>1. 17 * k \in U16
        BY PortNumbers
      <3> QED
        BY <3>1, NetworkRegular
    <2>3. /\ DOMAIN over \subseteq {"src_ip", "service"} /\ "src_ip" \in DOMAIN over
          /\ over["src_ip"] = Text("203.0.113.77")
      OBVIOUS
    <2> HIDE DEF over, probe
    <2> QED
      BY <2>1, <2>2, <2>3, OverlayRegular
  <1>4. CASE made \in {Scenario[i] : i \in 1..Len(Scenario)}
    <2>1. PICK i \in 1..Len(Scenario) : made = Scenario[i]
      BY <1>4
    <2>2. \/ \E k \in 1..Attempts + 1 : made = BruteForceSsh(Attempts)[k]
          \/ \E k \in 1..Ports : made = PortScan(Ports)[k]
      BY <2>1, ScenarioParts
    <2> QED
      BY <1>2, <1>3, <2>2
  <1> QED
    BY <1>1, <1>4 DEF Made

\* Strings and ports of a regular payload pass the parser's checks of their type.
LEMMA FieldsAgree ==
    ASSUME NEW raw, Regular(raw)
    PROVE  /\ \A f \in StringFields : StringField(raw, f) = Get(raw, f)
           /\ \A f \in PortFields : U16Field(raw, f) = Get(raw, f)
           /\ StringField(raw, "src_ip") # Null /\ Get(raw, "src_ip") # Null
  <1>1. \A f \in StringFields : StringField(raw, f) = Get(raw, f)
    BY DEF Regular, StringField
  <1>2. ASSUME NEW f \in PortFields PROVE U16Field(raw, f) = Get(raw, f)
    <2>1. CASE Get(raw, f) = Null
      BY <2>1 DEF U16Field
    <2>2. CASE \E n \in U16 : Get(raw, f) = Number(n)
      BY <2>2, ValueFacts DEF U16Field
    <2> QED
      BY <2>1, <2>2 DEF Regular
  <1>3. StringField(raw, "src_ip") # Null /\ Get(raw, "src_ip") # Null
    BY ValueFacts DEF Regular, StringField
  <1> QED
    BY <1>1, <1>2, <1>3

\* Instant, class and severity of a regular payload are its own in both versions.
LEMMA OwnWords ==
    ASSUME NEW l, Regular(l.raw)
    PROVE  /\ Dated(l) /\ SeedTs(l) = Text("created") /\ Ts(l) = Text(Utc["created"])
           /\ SeedClassify(l) = Classify(l)
           /\ SeedSeverity(l) = Severity(l.raw)
  <1>1. /\ Get(l.raw, "@timestamp") = Text("created") /\ Text("created").str
        /\ Text("created").atom = "created" /\ "created" \in Timestamps
    BY SeedAssumption, ValueFacts DEF Regular
  <1>2. Dated(l) /\ SeedTs(l) = Text("created") /\ Ts(l) = Text(Utc["created"])
    BY <1>1 DEF Dated, SeedTs, Ts
  <1>3. PICK class \in {"auth", "network", "dns"} : Get(l.raw, "event_class") = Text(class)
    BY DEF Regular
  <1>4. /\ Get(l.raw, "event_class").str /\ Get(l.raw, "event_class").atom = class
        /\ Lower(class) = class /\ class \in Classes
    BY <1>3, SeedAssumption, ValueFacts DEF Classes
  <1>5. SeedClassify(l) = class /\ Classify(l) = class
    BY <1>4 DEF SeedClassify, Classify
  <1>6. PICK word \in {"info", "notice", "warning", "debug"} : Get(l.raw, "severity") = Text(word)
    BY DEF Regular
  <1>7. /\ Get(l.raw, "severity").str /\ Get(l.raw, "severity").atom = word
        /\ Lower(word) = word
    BY <1>6, SeedAssumption, ValueFacts
  <1>8. SeedSeverity(l) = Severity(l.raw)
    BY <1>7 DEF SeedSeverity, Severity
  <1> QED
    BY <1>2, <1>5, <1>8

\* So the two versions make the same of it.
LEMMA VersionsAgree ==
    ASSUME NEW l, Regular(l.raw)
    PROVE  Dated(l) /\ [SeedEnrich(l) EXCEPT !["ts"] = Text(Utc[@.atom])] = Enrich(l)
  <1> DEFINE F == StringFields \cup PortFields \cup {"ts", "event_class", "severity", "geo"}
             s == SeedEnrich(l)
             r == [s EXCEPT !["ts"] = Text(Utc[s["ts"].atom])]
             e == Enrich(l)
  <1>1. /\ s = [f \in F |-> s[f]] /\ e = [f \in F |-> e[f]]
    <2> DEFINE mine(f) == CASE f = "ts"          -> SeedTs(l)
                            [] f = "event_class" -> Text(SeedClassify(l))
                            [] f = "severity"    -> Text(SeedSeverity(l))
                            [] f = "geo"         -> IF Get(l.raw, "src_ip") = Null THEN Null
                                                    ELSE Value(FALSE, "geo", FALSE, 0)
                            [] OTHER             -> Get(l.raw, f)
               theirs(f) == CASE f \in StringFields -> StringField(l.raw, f)
                              [] f \in PortFields   -> U16Field(l.raw, f)
                              [] f = "ts"           -> Ts(l)
                              [] f = "event_class"  -> Text(Classify(l))
                              [] f = "severity"     -> Text(Severity(l.raw))
                              [] f = "geo"          -> Geo(l.raw)
    <2>1. s = [f \in F |-> mine(f)] /\ e = [f \in F |-> theirs(f)]
      BY DEF SeedEnrich, Enrich
    <2> HIDE DEF s, e, mine, theirs, F
    <2> QED
      BY <2>1
  <1>2. /\ s["ts"] = SeedTs(l) /\ s["event_class"] = Text(SeedClassify(l))
        /\ s["severity"] = Text(SeedSeverity(l))
        /\ s["geo"] = IF Get(l.raw, "src_ip") = Null THEN Null ELSE Value(FALSE, "geo", FALSE, 0)
    BY DEF SeedEnrich
  <1>3. \A f \in StringFields \cup PortFields : s[f] = Get(l.raw, f)
    BY DEF SeedEnrich, StringFields, PortFields
  <1>4. /\ e["ts"] = Ts(l) /\ e["event_class"] = Text(Classify(l))
        /\ e["severity"] = Text(Severity(l.raw)) /\ e["geo"] = Geo(l.raw)
    BY DEF Enrich, StringFields, PortFields
  <1>5. \A f \in StringFields : e[f] = StringField(l.raw, f)
    BY DEF Enrich, StringFields, PortFields
  <1>6. \A f \in PortFields : e[f] = U16Field(l.raw, f)
    BY DEF Enrich, StringFields, PortFields
  <1> HIDE DEF s, e
  <1>7. /\ r = [f \in F |-> r[f]] /\ r["ts"] = Text(Utc[s["ts"].atom])
        /\ \A f \in F : f # "ts" => r[f] = s[f]
    BY <1>1
  <1> HIDE DEF r
  <1>8. r["ts"] = e["ts"]
    BY <1>2, <1>4, <1>7, OwnWords, ValueFacts
  <1>9. \A f \in StringFields \cup PortFields : r[f] = e[f]
    <2>1. \A f \in StringFields \cup PortFields : r[f] = s[f]
      BY <1>7 DEF StringFields, PortFields
    <2> QED
      BY <1>3, <1>5, <1>6, <2>1, FieldsAgree
  <1>10. r["event_class"] = e["event_class"] /\ r["severity"] = e["severity"]
    BY <1>2, <1>4, <1>7, OwnWords
  <1>11. r["geo"] = e["geo"]
    BY <1>2, <1>4, <1>7, FieldsAgree DEF Geo
  <1>12. r = e
    <2>1. \A f \in F : r[f] = e[f]
      BY <1>8, <1>9, <1>10, <1>11
    <2> HIDE DEF F
    <2> QED
      BY ONLY <1>1, <1>7, <2>1
  <1> QED
    BY <1>12, OwnWords DEF r, s, e

\* The rows of the seeder are those that the parser would make of the same
\* events: every event of the generator carries its own instant, class and
\* severity in a spelling that both versions take.
THEOREM RowsAsParsed == Spec => []SeededRowsAsParsed
  <1>1. ASSUME SInv PROVE SeededRowsAsParsed
    <2> SUFFICES ASSUME NEW e \in events
                 PROVE  /\ Dated(e.from)
                        /\ [e.top EXCEPT !["ts"] = Text(Utc[@.atom])] = Enrich(e.from)
      BY DEF SeededRowsAsParsed
    <2>1. PICK made \in Made, at \in Window : /\ e.from = Given(made, at)
                                              /\ e.top = SeedEnrich(e.from)
      BY <1>1 DEF SInv, Typed
    <2>2. e.from.raw = made.raw
      BY <2>1 DEF Given
    <2>3. Regular(made.raw)
      BY MadeRegular DEF Shaped
    <2> QED
      BY <2>1, <2>2, <2>3, VersionsAgree
  <1> QED
    BY <1>1, Inductive, PTL DEF Spec
============================================================================
