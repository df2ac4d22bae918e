------------------------------ MODULE Detector ------------------------------
(***************************************************************************)
(* sentinel-detector (cli.py): loads the rule files, then reads events     *)
(* from stdin one line at a time, runs every rule and the anomaly model on *)
(* each, and writes alerts to a buffered stdout that it flushes after each *)
(* event.  An exception ends the process; what is in the buffer then still *)
(* goes out while the interpreter shuts down.                              *)
(*                                                                         *)
(* Stdout is a pipe to the next stage, which may stall or die.             *)
(***************************************************************************)
EXTENDS Sigma, Anomaly, FiniteSets

CONSTANTS Directories,  \* the sequences of rule files it may be started with
          Lines(_),     \* the lines stdin may deliver, with these rules
          UseAnomaly,   \* not --no-anomaly
          Corpora,      \* what the forest may make of its training events
          Threshold,    \* --anomaly-threshold, in hundredths
          BufCap,       \* alerts that fit into the buffer of sys.stdout
          PipeCap,      \* alerts that fit into the pipe
          MaxLines      \* bound: lines that stdin delivers

ASSUME DetectorAssumption == /\ \A d \in Directories :
                                   /\ Len(d) \in Nat
                                   /\ \A i \in 1..Len(d) : IsRule(d[i])
                                   /\ \A l \in Lines(d) : l.df \in Int
                             /\ UseAnomaly \in BOOLEAN
                             /\ Corpora \subseteq Trained \cup {EmptyCorpus}
                             /\ Threshold \in Int
                             /\ BufCap \in Nat \ {0}
                             /\ PipeCap \in Nat \ {0}
                             /\ MaxLines \in Nat

VARIABLES rules,     \* the rule files, in the order load_rules sorts them
          corpus,    \* the range of the fitted model
          pc,        \* "load", "read", "match", "flush", "exit" (the
                     \* interpreter shuts down), "ended" or "killed"
          code,      \* exit status
          input,     \* the lines read so far
          turn,      \* which rule is next, Len(rules) + 1 for the model
          buffer,    \* alerts written and not yet in the pipe
          out,       \* alerts that went into the pipe
          taken,     \* how many of them the next stage has read
          reader     \* the next stage is alive

vars == <<rules, corpus, pc, code, input, turn, buffer, out, taken, reader>>

\* A line is "blank", "junk" (json.loads rejects it), "scalar" (JSON that is no
\* object) or an "object".  ports: src_port and dst_port are null or convert to
\* float.  df: the decision function of the fitted model.
Kinds == {"blank", "junk", "scalar", "object"}

Parses(l) == l.kind \in {"scalar", "object"}

Current == input[Len(input)]

Alert(by) == [event |-> Len(input), by |-> by]

Model == Len(rules) + 1

Written == out \o buffer

Running == pc \notin {"ended", "killed"}

Init ==
    /\ rules \in Directories
    /\ corpus \in Corpora
    /\ pc = "load"
    /\ code = 0
    /\ input = <<>>
    /\ turn = 1
    /\ buffer = <<>>
    /\ out = <<>>
    /\ taken = 0
    /\ reader = TRUE

Raise ==
    /\ pc' = "exit"
    /\ code' = 1

-----------------------------------------------------------------------------
(* Plausible mistakes in the code; nothing below uses them.                *)

\* The flush after each event is forgotten.
FlushedSkipped ==
    /\ pc = "flush"
    /\ pc' = "read"
    /\ UNCHANGED <<rules, corpus, code, input, turn, buffer, out, taken, reader>>

\* The write of an alert does not wait for room in the buffer.
EmitUnbounded(by, verdict) ==
    /\ buffer' = IF verdict = "yes" THEN Append(buffer, Alert(by)) ELSE buffer
    /\ turn' = turn + 1
    /\ UNCHANGED <<pc, code>>

\* An exception of the matcher is caught and the rule skipped.
MatchRuleCaught ==
    /\ pc = "match"
    /\ turn =< Len(rules)
    /\ buffer' = IF Match(rules[turn], Current) = "yes" THEN Append(buffer, Alert(turn))
                 ELSE buffer
    /\ turn' = turn + 1
    /\ UNCHANGED <<rules, corpus, pc, code, input, out, taken, reader>>

-----------------------------------------------------------------------------
(* The process.                                                            *)

\* load_rules and the SigmaMatchers, Anomaly.fit: one file that does not load,
\* or a corpus without an event, ends it all.
Load ==
    /\ pc = "load"
    /\ IF /\ \A i \in 1..Len(rules) : Loads(rules[i])
          /\ UseAnomaly => corpus # EmptyCorpus
       THEN pc' = "read" /\ UNCHANGED code
       ELSE Raise
    /\ UNCHANGED <<rules, corpus, input, turn, buffer, out, taken, reader>>

\* for line in sys.stdin: blank lines and lines that are not JSON are skipped.
ReadLine ==
    /\ pc = "read"
    /\ Len(input) < MaxLines
    /\ \E l \in Lines(rules) :
          /\ input' = Append(input, l)
          /\ pc' = IF Parses(l) THEN "match" ELSE "read"
    /\ turn' = 1
    /\ UNCHANGED <<rules, corpus, code, buffer, out, taken, reader>>

\* The end of stdin; main returns 0.
EndOfInput ==
    /\ pc = "read"
    /\ pc' = "exit"
    /\ UNCHANGED <<rules, corpus, code, input, turn, buffer, out, taken, reader>>

\* stdin cannot be read or decoded.
ReadFails ==
    /\ pc = "read"
    /\ Raise
    /\ UNCHANGED <<rules, corpus, input, turn, buffer, out, taken, reader>>

\* One alert, if there is one: building it reads event["event_id"], writing it
\* waits for room in the buffer.
Emit(by, verdict) ==
    \/ /\ verdict = "no"
       /\ turn' = turn + 1
       /\ UNCHANGED <<pc, code, buffer>>
    \/ /\ verdict = "yes" /\ Current.id
       /\ Len(buffer) < BufCap
       /\ buffer' = Append(buffer, Alert(by))
       /\ turn' = turn + 1
       /\ UNCHANGED <<pc, code>>
    \/ /\ verdict = "raise" \/ (verdict = "yes" /\ ~Current.id)
       /\ Raise
       /\ UNCHANGED <<turn, buffer>>

\* matcher.match(event) and from_sigma_match; a scalar has no event.get.
MatchRule ==
    /\ pc = "match"
    /\ turn =< Len(rules)
    /\ Emit(turn, IF Current.kind = "object" THEN Match(rules[turn], Current) ELSE "raise")
    /\ UNCHANGED <<rules, corpus, input, out, taken, reader>>

\* anomaly.score: featurize converts the ports to float.
Verdict(l) ==
    CASE ~UseAnomaly -> "no"
      [] UseAnomaly /\ (l.kind = "scalar" \/ ~l.ports) -> "raise"
      [] OTHER -> Bool(IsAnomaly(corpus, l.df, Threshold))

\* anomaly.score and from_anomaly.
Score ==
    /\ pc = "match"
    /\ turn = Model
    /\ Emit(turn, Verdict(Current))
    /\ UNCHANGED <<rules, corpus, input, out, taken, reader>>

\* Both layers are done with the event: sys.stdout.flush().
StartFlush ==
    /\ pc = "match"
    /\ turn > Model
    /\ pc' = "flush"
    /\ UNCHANGED <<rules, corpus, code, input, turn, buffer, out, taken, reader>>

\* The buffer goes into the pipe when it is flushed or full, and on the way
\* out of the interpreter, after an exception as well.
MustDrain ==
    /\ buffer # <<>>
    /\ pc \in {"flush", "exit"} \/ (pc = "match" /\ Len(buffer) = BufCap)

Drain ==
    /\ MustDrain
    /\ reader
    /\ Len(out) - taken < PipeCap
    /\ out' = Append(out, Head(buffer))
    /\ buffer' = Tail(buffer)
    /\ UNCHANGED <<rules, corpus, pc, code, input, turn, taken, reader>>

Flushed ==
    /\ pc = "flush"
    /\ buffer = <<>>
    /\ pc' = "read"
    /\ UNCHANGED <<rules, corpus, code, input, turn, buffer, out, taken, reader>>

\* BrokenPipeError; the interpreter has nobody left to flush to.
BrokenPipe ==
    /\ MustDrain
    /\ ~reader
    /\ pc' = "ended"
    /\ code' = 1
    /\ UNCHANGED <<rules, corpus, input, turn, buffer, out, taken, reader>>

Exit ==
    /\ pc = "exit"
    /\ buffer = <<>>
    /\ pc' = "ended"
    /\ UNCHANGED <<rules, corpus, code, input, turn, buffer, out, taken, reader>>

\* A signal whose default action ends the process: nothing is flushed.
Kill ==
    /\ Running
    /\ pc' = "killed"
    /\ UNCHANGED <<rules, corpus, code, input, turn, buffer, out, taken, reader>>

\* The next stage.
TakeAlert ==
    /\ reader
    /\ taken < Len(out)
    /\ taken' = taken + 1
    /\ UNCHANGED <<rules, corpus, pc, code, input, turn, buffer, out, reader>>

ReaderDies ==
    /\ reader
    /\ reader' = FALSE
    /\ UNCHANGED <<rules, corpus, pc, code, input, turn, buffer, out, taken>>

Next ==
    \/ Load \/ ReadLine \/ EndOfInput \/ ReadFails
    \/ MatchRule \/ Score \/ StartFlush
    \/ Drain \/ Flushed \/ BrokenPipe \/ Exit \/ Kill
    \/ TakeAlert \/ ReaderDies

Spec == Init /\ [][Next]_vars

-----------------------------------------------------------------------------
(* Properties.                                                             *)

\* Types, and the two buffers between the detector and the next stage never
\* hold more than they can.
TypeOK ==
    /\ rules \in Directories
    /\ corpus \in Corpora
    /\ pc \in {"load", "read", "match", "flush", "exit", "ended", "killed"}
    /\ code \in {0, 1}
    /\ input \in Seq(Lines(rules))
    /\ turn \in 1..Len(rules) + 2
    /\ out \in Seq([event : 1..Len(input), by : 1..Model])
    /\ buffer \in Seq([event : 1..Len(input), by : 1..Model])
    /\ Len(buffer) =< BufCap
    /\ taken \in 0..Len(out)
    /\ Len(out) - taken =< PipeCap
    /\ reader \in BOOLEAN

\* What the rules and the model say of line e, by the meaning of a rule and
\* not by the steps of the matcher.
Deserves(e, by) ==
    /\ Parses(input[e])
    /\ IF by = Model THEN UseAnomaly /\ StandsOut(corpus, input[e].df, Threshold)
                     ELSE Means(rules[by], input[e])

Before(a, b) == a.event < b.event \/ (a.event = b.event /\ a.by < b.by)

\* Every alert, delivered or still buffered, is one that its rule or the model
\* stands for, and no alert is raised twice: they come in the order of the
\* events and for one event in the order of the rules, the model last.
AlertsAreDeserved ==
    /\ \A k \in 1..Len(Written) : Deserves(Written[k].event, Written[k].by)
    /\ \A k, m \in 1..Len(Written) : k < m => Before(Written[k], Written[m])

\* The detector is done with rule or model `by' on line e.
Passed(e, by) ==
    \/ e < Len(input)
    \/ e = Len(input) /\ (by < turn \/ (pc = "read" /\ turn > Model))

\* However the process ends, short of a signal or a dead reader: no alert is
\* missing, neither of an earlier event nor of a rule that came before the one
\* that raised the exception, and what the log says was written is delivered.
NoAlertMissed ==
    (pc # "killed" /\ reader) =>
        /\ \A e \in 1..Len(input), by \in 1..Model :
              (Passed(e, by) /\ Deserves(e, by)) =>
                  \E k \in 1..Len(Written) : Written[k] = [event |-> e, by |-> by]
        /\ pc = "ended" => buffer = <<>>

\* While the detector waits for stdin no alert sits in its buffer: an alert
\* does not have to wait for the next event, and a signal that arrives while
\* stdin is silent loses nothing.
NothingHeldBack == pc = "read" => buffer = <<>>

Clean(l) == l.kind = "object" => l.id /\ l.ports

\* With rules that can be evaluated and lines as the parser writes them
\* nothing but stdin or the pipe ends the detector with an error: no mix of
\* types, nulls, missing fields and lists makes the matcher raise.  If it ended
\* so, it was between two events, or the next stage was gone.
CleanRunNeverRaises ==
    (/\ \A i \in 1..Len(rules) : Loads(rules[i]) /\ Sound(rules[i])
     /\ \A e \in 1..Len(input) : input[e].kind # "scalar" /\ Clean(input[e])
     /\ pc \in {"exit", "ended"} /\ code = 1)
        => ~reader \/ turn > Model \/ input = <<>> \/ ~Parses(Current)

\* A condition that does not parse, or names a selection that is not there, is
\* not noticed when the rules are loaded but ends the process at the first
\* event, whatever that event is: no later one is read.
BadConditionStopsFirst ==
    (\E i \in 1..Len(rules) : ~WellFormed(rules[i])) =>
        \A e \in 1..Len(input) - 1 : ~Parses(input[e])
============================================================================
