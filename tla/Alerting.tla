------------------------------ MODULE Alerting ------------------------------
(***************************************************************************)
(* What the pipe of parser, detector and sink promises, with no process,   *)
(* pipe, buffer or request in sight.  An event comes in and every judge, a *)
(* rule or the anomaly model, asks for an alert about it or does not.      *)
(* Alerts are raised in the order of the events and, for one event, of the *)
(* judges; none that was asked for is passed over, though the raising may  *)
(* stop for good.  What is in the table was raised, and is there once.     *)
(*                                                                         *)
(* Pipe.tla is shown to implement this specification.                      *)
(***************************************************************************)
EXTENDS Naturals, Sequences

CONSTANT Judges         \* a set of numbers, in the order the detector asks them

VARIABLES demand,       \* demand[e]: the judges that ask for an alert about e
          raised,       \* the alerts raised so far, <<event, judge>>, in order
          stored        \* stored[a]: how often the table holds alert a, for
                        \* those that it holds

vars == <<demand, raised, stored>>

Init ==
    /\ demand = <<>>
    /\ raised = <<>>
    /\ stored = <<>>

Asked == {a \in (1..Len(demand)) \X Judges : a[2] \in demand[a[1]]}

Raised == {raised[k] : k \in 1..Len(raised)}

Precedes(a, b) == a[1] < b[1] \/ (a[1] = b[1] /\ a[2] < b[2])

Arrive ==
    /\ UNCHANGED <<raised, stored>>
    /\ \E J \in SUBSET Judges : demand' = Append(demand, J)

\* The first of the alerts that are asked for and not raised yet.
Raise(a) ==
    /\ UNCHANGED <<demand, stored>>
    /\ a \in Asked \ Raised
    /\ \A b \in Asked \ Raised : ~Precedes(b, a)
    /\ raised' = Append(raised, a)

Store(A) ==
    /\ UNCHANGED <<demand, raised>>
    /\ A # {}
    /\ A \cap DOMAIN stored = {}
    /\ stored' = [a \in A \cup DOMAIN stored |-> IF a \in A THEN 1 ELSE stored[a]]

Next ==
    \/ Arrive
    \/ \E a \in Asked : Raise(a)
    \/ \E A \in SUBSET Raised : Store(A)

Spec == Init /\ [][Next]_vars
============================================================================
