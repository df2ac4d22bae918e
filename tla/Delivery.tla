----------------------------- MODULE Delivery -----------------------------
(***************************************************************************)
(* What sentinel-sink promises about the lines it reads, with no channel,  *)
(* ticker, buffer or batch in sight: a line is taken up at most once, a    *)
(* row of it reaches its table at most once, a row reported as flushed is  *)
(* in the table, and a row of a refused insert never is.  A row may also   *)
(* end with its fate unknown: the insert was given up on and the server    *)
(* may apply it before or after that, but only once.                       *)
(*                                                                         *)
(* Sink.tla is shown to implement this specification.                      *)
(***************************************************************************)
CONSTANT Rows              \* identities of the lines the sink may read

VARIABLES fate,            \* fate[r]: what has become of line r
          stored           \* the rows that are in a ClickHouse table

vars == <<fate, stored>>

Fates == {"unread",        \* still on stdin, or queued for the main loop
          "skipped",       \* not a JSON object: dropped with a warning
          "held",          \* in a buffer of the main loop
          "posted",        \* in an insert the sink is waiting for
          "flushed",       \* its insert was reported as done
          "refused",       \* its insert was refused by the server
          "unknown"}       \* its insert was given up on

Init ==
    /\ fate = [r \in Rows |-> "unread"]
    /\ stored = {}

Move(R, from, to) ==
    /\ R # {}
    /\ \A r \in R : fate[r] = from
    /\ fate' = [r \in Rows |-> IF r \in R THEN to ELSE fate[r]]

Take(r) == (Move({r}, "unread", "held") \/ Move({r}, "unread", "skipped"))
           /\ UNCHANGED stored

Post(R) == Move(R, "held", "posted") /\ UNCHANGED stored

\* The server applies an insert: no row of it was in the table before.
Land(R) ==
    /\ R # {}
    /\ \A r \in R : r \notin stored /\ fate[r] \in {"posted", "unknown"}
    /\ stored' = stored \cup R
    /\ UNCHANGED fate

Confirm(R) == R \subseteq stored /\ Move(R, "posted", "flushed") /\ UNCHANGED stored

Refuse(R) == R \cap stored = {} /\ Move(R, "posted", "refused") /\ UNCHANGED stored

GiveUp(R) == Move(R, "posted", "unknown") /\ UNCHANGED stored

\* The rows that have been taken up and may still move or be stored.
Open == {r \in Rows : fate[r] \in {"held", "posted", "unknown"}}

Next ==
    \/ \E r \in Rows : Take(r)
    \/ \E R \in SUBSET Open :
          Post(R) \/ Land(R) \/ Confirm(R) \/ Refuse(R) \/ GiveUp(R)

Spec == Init /\ [][Next]_vars
============================================================================
