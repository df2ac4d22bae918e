------------------------------- MODULE Events -------------------------------
(***************************************************************************)
(* The events that sentinel-generator makes (events.py, scenarios.py):     *)
(* their source and payload.  Names, addresses and ports that are drawn at *)
(* random are one value each; "created" is the instant of the making, in   *)
(* UTC with microseconds.                                                  *)
(***************************************************************************)
EXTENDS Values, Sequences

Created == [f \in {"@timestamp"} |-> Text("created")]

AuthEvent(success) ==
    [source |-> "auth-service",
     raw |-> With(Created,
        [event_class |-> Text("auth"),
         outcome  |-> Text(IF success THEN "success" ELSE "failure"),
         user     |-> Text("alice"),
         host     |-> Text("db-1"),
         src_ip   |-> Text("203.0.113.9"),
         severity |-> Text(IF success THEN "info" ELSE "warning"),
         message  |-> Text("login")])]

NetworkEvent(accepted, port) ==
    [source |-> "edge-firewall",
     raw |-> With(Created,
        [event_class |-> Text("network"),
         action   |-> Text(IF accepted THEN "accept" ELSE "drop"),
         src_ip   |-> Text("203.0.113.9"),
         dst_ip   |-> Text("10.0.0.1"),
         src_port |-> Number(65535),
         dst_port |-> Number(port),
         protocol |-> Text("tcp"),
         severity |-> Text(IF accepted THEN "info" ELSE "notice"),
         message  |-> Text("fw")])]

DnsEvent ==
    [source |-> "dns-resolver",
     raw |-> With(Created,
        [event_class |-> Text("dns"),
         query    |-> Text("github.com"),
         src_ip   |-> Text("10.0.0.1"),
         severity |-> Text("debug"),
         message  |-> Text("dns query")])]

RandomEvents ==
    {AuthEvent(s) : s \in BOOLEAN} \cup {NetworkEvent(a, 443) : a \in BOOLEAN} \cup {DnsEvent}

\* Failed logins from one address, then a successful one.
BruteForceSsh(attempts) ==
    [k \in 1..attempts + 1 |->
        LET login == AuthEvent(k > attempts)
        IN  [login EXCEPT !.raw = With([src_ip |-> Text("203.0.113.66"), service |-> Text("ssh")], @)]]

\* One address against many ports, fewer than 3855.
PortScan(ports) ==
    [k \in 1..ports |->
        LET probe == NetworkEvent(FALSE, 17 * k)
        IN  [probe EXCEPT !.raw = With([src_ip |-> Text("203.0.113.77")], @)]]
============================================================================
