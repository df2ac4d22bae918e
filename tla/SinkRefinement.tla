-------------------------- MODULE SinkRefinement --------------------------
(***************************************************************************)
(* The sink implements Delivery: what has become of a line is read off the *)
(* counter of received lines and the requests, what is in the tables off   *)
(* the requests the server has applied.                                    *)
(***************************************************************************)
EXTENDS Sink

Lines == 1..MaxLines

\* The fate of the rows of a request, by what InsertBatch has returned.
Outcome(p) ==
    CASE posts[p].reply = "none"  -> "posted"
      [] posts[p].reply = "ok"    -> "flushed"
      [] posts[p].reply = "error" -> "refused"
      [] posts[p].reply = "lost"  -> "unknown"

Fate(r) ==
    CASE r > received -> "unread"
      [] r =< received /\ ~IsRow(input[r]) -> "skipped"
      [] r =< received /\ IsRow(input[r]) /\ Held(r) -> "held"
      [] OTHER ->
           IF \E p \in 1..Len(posts) : Holds(p, r)
           THEN Outcome(CHOOSE p \in 1..Len(posts) : Holds(p, r))
           ELSE "mislaid"

Stored == {r \in Lines : \E p \in 1..Len(posts) : posts[p].applied /\ Holds(p, r)}

Promise == INSTANCE Delivery WITH
    Rows <- Lines, fate <- [r \in Lines |-> Fate(r)], stored <- Stored

\* Every behaviour of the sink, kills and lost answers included, is one of the
\* abstract delivery: a row is taken up, posted and applied at most once, what
\* is logged as flushed is in its table, what ClickHouse refused never is.
ImplementsDelivery == Promise!Spec
============================================================================
