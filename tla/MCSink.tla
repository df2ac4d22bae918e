------------------------------- MODULE MCSink -------------------------------
(* The sink with every stdin of up to three lines, and with one of six that   *)
(* fills the channel while both buffers and the request hold rows: one row of *)
(* one table, three of the other, two lines behind them.  Of the kinds of     *)
(* rows that one is taken whose insert has the fewest outcomes.               *)
EXTENDS SinkRefinement

Full6 == <<"alert", "poison", "poison", "poison", "junk", "junk">>

ShortOrFull == UNION {[1..n -> Kinds] : n \in 0..3} \cup {SubSeq(Full6, 1, n) : n \in 4..6}
============================================================================
