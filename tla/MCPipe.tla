------------------------------- MODULE MCPipe -------------------------------
(* The pipe with a few lines: an event a rule fires for, one the model flags, *)
(* a line the parser drops; and the shipped rules with the example payloads.  *)
EXTENDS Pipe

Words == [WARN |-> "warn"]

Instants == [noon |-> "noon"]

KeywordsOf == {<<"auth-service", "auth">>}

Entry(field, modifier, values) ==
    [field |-> field, modifier |-> modifier, values |-> values]

Rule(selection, condition) ==
    [shaped |-> TRUE, selections |-> [s \in {"selection"} |-> selection], condition |-> condition]

IngestFields == {"event_id", "tenant_id", "source", "received_at", "ingest_node_id", "raw"}

RawEvent(source, raw) ==
    [kind |-> "text", has |-> IngestFields, source |-> source, received |-> "noon", raw |-> raw]

Login == RawEvent("auth-service", [event_class |-> Text("auth"), severity |-> Text("WARN")])

Strange == RawEvent("app", [severity |-> Text("emerg")])

LogLine == [kind |-> "text", has |-> {}, source |-> "", received |-> "", raw |-> NoFields]

MixedLines == {Login, Strange, LogLine}

Fitted == {<<10, 90>>}

DecisionOn == [l \in MixedLines |-> IF l = Strange THEN 20 ELSE 80]

LoginRule == Rule(<<Entry("event_class", "", <<Text("auth")>>)>>, <<"selection">>)

\* A modifier that the matcher does not know: it raises.
RaisingRule == Rule(<<Entry("severity", "regex", <<Text("emergency")>>)>>, <<"selection">>)

LoginRules == {<<LoginRule>>, <<LoginRule, RaisingRule>>}

(* sigma/*.yml and examples/payloads.                                         *)
ShippedRules ==
    {<<Rule(<<Entry("event_class", "", <<Text("dns")>>),
              Entry("query", "endswith", <<Text(".zip"), Text(".top"), Text(".xyz")>>)>>,
            <<"selection">>),
       Rule(<<Entry("event_class", "", <<Text("auth")>>), Entry("outcome", "", <<Text("failure")>>),
              Entry("service", "", <<Text("ssh")>>)>>,
            <<"selection">>)>>}

RelatedTexts == {<<"endswith", "free.zip", ".zip">>}

ExamplePayloads ==
    {RawEvent("auth-service", [event_class |-> Text("auth"), outcome |-> Text("failure"),
                               service |-> Text("ssh"), user |-> Text("root")]),
     RawEvent("dns-resolver", [event_class |-> Text("dns"), query |-> Text("free.zip")])}

NothingStandsOut == [l \in ExamplePayloads |-> 80]
============================================================================
