------------------------------ MODULE MCParser ------------------------------
(* sentinel-parser with payloads that differ in one respect at a time.       *)
EXTENDS Parser

Capitals == [WARN |-> "warn", DNS |-> "dns"]

Instants == [noon |-> "noon", noon_cet |-> "eleven", eleven |-> "eleven", created |-> "now", now |-> "now"]

KeywordsOf == {<<"sshd", "ssh">>, <<"net-auth", "net">>, <<"net-auth", "auth">>,
               <<"edge-firewall", "firewall">>, <<"dns", "dns">>}

Event(source, received, raw) ==
    [kind |-> "text", has |-> Required, source |-> source, received |-> received, raw |-> raw]

Other(kind, has) ==
    [kind |-> kind, has |-> has, source |-> "app", received |-> "noon", raw |-> [f \in {} |-> Null]]

One(field, v) == [f \in {field} |-> v]

Empty == [f \in {} |-> Null]

Payloads ==
    {Empty}
    \cup {One("event_class", v) : v \in {Text("DNS"), Text("file"), Text("odd"), Number(1)}}
    \cup {One("severity", v) : v \in {Text("WARN"), Text("crit"), Text("odd"), Number(1)}}
    \cup {One("src_port", v) : v \in {Number(22), Number(65535), Number(65536), Number(0-1), Text("22")}}
    \cup {One("src_ip", v) : v \in {Text("10.0.0.1"), Number(7), Null}}

MCLines ==
    {Event("sshd", "noon", raw) : raw \in Payloads}
    \cup {Event(s, "noon_cet", Empty) : s \in {"net-auth", "edge-firewall", "DNS", "app"}}
    \cup {Event("app", r, One("@timestamp", v)) :
             r \in {"noon", "today"}, v \in {Text("noon_cet"), Text("today"), Number(5)}}
    \cup {Other(k, {}) : k \in Kinds} \cup {Other("text", Required \ {f}) : f \in {"received_at", "raw"}}
============================================================================
