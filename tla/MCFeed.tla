------------------------------- MODULE MCFeed -------------------------------
(* Ingest and the parser with an event the parser takes, one that serde       *)
(* rejects, one that is not UTF-8, and a line of the logger.                  *)
EXTENDS Feed

Words == [WARN |-> "warn"]

Instants == [noon |-> "noon"]

KeywordsOf == {<<"auth-service", "auth">>}

Proper ==
    [kind |-> "text", source |-> "auth-service", received |-> "noon",
     has |-> {"event_id", "tenant_id", "source", "received_at", "ingest_node_id", "raw"},
     raw |-> [severity |-> Text("WARN")]]

\* Neither of the two has a field to the parser.
NoEvent(kind) ==
    [kind |-> kind, source |-> "", received |-> "", has |-> {}, raw |-> [f \in {} |-> Null]]

Events == {Proper, NoEvent("text"), NoEvent("garbled")}

Logged == NoEvent("text")
============================================================================
