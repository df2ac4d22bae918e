----------------------------- MODULE MCDemoSeed -----------------------------
(* demo-seed with a burst of two logins and a scan of one port, and rules    *)
(* that look at the payload, at enriched fields, that raise or do not load.  *)
EXTENDS DemoSeed

NoCapitals == [x \in {} |-> ""]

Instants == [night |-> "night", noon |-> "noon", created |-> "now", now |-> "now"]

KeywordsOf == {<<"auth-service", "auth">>, <<"edge-firewall", "firewall">>, <<"dns-resolver", "dns">>}

Starts == {<<"startswith", "203.0.113.66", "203.0.113.">>,
           <<"startswith", "203.0.113.77", "203.0.113.">>, <<"startswith", "203.0.113.9", "203.0.113.">>}

NoOddWords == {}

Selecting(field, modifier, value, condition) ==
    [shaped |-> TRUE, condition |-> condition,
     selections |-> [s \in {"sel"} |-> <<[field |-> field, modifier |-> modifier, values |-> <<value>>]>>]]

LoginFailure == Selecting("outcome", "", Text("failure"), <<"sel">>)
LowPort == Selecting("dst_port", "lte", Number(20), <<"sel">>)
NotPublic == Selecting("src_ip", "startswith", Text("203.0.113."), <<"not", "sel">>)
BadBound == Selecting("dst_port", "gte", Text("high"), <<"sel">>)
Shapeless == [LowPort EXCEPT !.shaped = FALSE]

RuleDirectories ==
    {<<>>, <<LoginFailure, LowPort>>, <<NotPublic>>, <<BadBound>>, <<LowPort, Shapeless>>}

OneFit == {<<10, 90>>}

SomeTotals == {0-1, 0, 2, 4}

\* Resolvers at night, and whatever is a warning.
DecisionOn(e) ==
    CASE e.source = "dns-resolver" /\ e.received = "night" -> 5
      [] e.raw.severity = Text("warning") -> 38
      [] OTHER -> 60
============================================================================
