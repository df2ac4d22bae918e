------------------------------- MODULE Enrich -------------------------------
(***************************************************************************)
(* enrich.rs of sentinel-parser: what becomes of the fields of one event.  *)
(* An event has a source, a received (the text of received_at) and a raw,  *)
(* the fields of its payload.                                              *)
(***************************************************************************)
EXTENDS Values

CONSTANTS Lowercase,   \* the words with capitals, and what they are without
          Utc,         \* the texts parse_from_rfc3339 takes, and the same
                       \* instants in UTC with milliseconds
          Mentions     \* <<source, keyword>>: the source name holds the keyword

ASSUME EnrichAssumption ==
    \A t \in DOMAIN Utc : Utc[t] \in DOMAIN Utc /\ Utc[Utc[t]] = Utc[t]

Timestamps == DOMAIN Utc

Classes == {"auth", "network", "dns", "process", "file", "other"}

Severities == {"debug", "info", "notice", "warning", "error", "critical",
               "alert", "emergency"}

-----------------------------------------------------------------------------
(* Plausible mistakes in the code; nothing below uses them.                *)

\* A port is cut to 16 bits.
U16FieldCut(raw, key) ==
    LET v == Get(raw, key) IN
    IF ~v.str /\ v.numeric /\ v.num >= 0 THEN Number(v.num % 65536) ELSE Null

\* The instant is written as it was found, in whatever zone.
TsVerbatim(l) == IF Get(l.raw, "@timestamp").str THEN Get(l.raw, "@timestamp") ELSE Text(l.received)

-----------------------------------------------------------------------------

Lower(word) == IF word \in DOMAIN Lowercase THEN Lowercase[word] ELSE word

\* parse_ts: raw["@timestamp"] if it parses, else received_at.
Dated(l) == \/ Get(l.raw, "@timestamp").str /\ Get(l.raw, "@timestamp").atom \in Timestamps
            \/ l.received \in Timestamps

Ts(l) == LET own == Get(l.raw, "@timestamp") IN
         Text(Utc[IF own.str /\ own.atom \in Timestamps THEN own.atom ELSE l.received])

MentionsOneOf(source, words) == \E w \in words : <<Lower(source), w>> \in Mentions

\* classify: an explicit class, "other" if it is unknown; else by the source.
Classify(l) ==
    LET own == Get(l.raw, "event_class") IN
    IF own.str
    THEN IF Lower(own.atom) \in Classes THEN Lower(own.atom) ELSE "other"
    ELSE CASE MentionsOneOf(l.source, {"auth", "login", "ssh"}) -> "auth"
           [] ~MentionsOneOf(l.source, {"auth", "login", "ssh"})
                /\ MentionsOneOf(l.source, {"firewall", "net"}) -> "network"
           [] ~MentionsOneOf(l.source, {"auth", "login", "ssh", "firewall", "net"})
                /\ MentionsOneOf(l.source, {"dns"}) -> "dns"
           [] OTHER -> "other"

Aliases == [informational |-> "info", warn |-> "warning", err |-> "error",
            crit |-> "critical", emerg |-> "emergency"]

Severity(raw) ==
    LET word == Lower(IF Get(raw, "severity").str THEN Get(raw, "severity").atom ELSE "info")
    IN  CASE word \in DOMAIN Aliases -> Aliases[word]
          [] word \in Severities -> word
          [] OTHER -> "info"

StringField(raw, key) == IF Get(raw, key).str THEN Get(raw, key) ELSE Null

U16 == {n \in Nat : n < 65536}

U16Field(raw, key) ==
    LET v == Get(raw, key) IN
    IF ~v.str /\ v.numeric /\ v.num \in U16 THEN v ELSE Null

StringFields == {"host", "user", "src_ip", "dst_ip", "message"}

PortFields == {"src_port", "dst_port"}

\* attach_geo_placeholder: an object without a value in it.
Geo(raw) == IF StringField(raw, "src_ip") # Null
            THEN Value(FALSE, "geo", FALSE, 0) ELSE Null

\* enrich: every field is written, null where there is no value; the payload
\* itself is not.
Enrich(l) ==
    [f \in StringFields \cup PortFields \cup {"ts", "event_class", "severity", "geo"} |->
        CASE f \in StringFields -> StringField(l.raw, f)
          [] f \in PortFields   -> U16Field(l.raw, f)
          [] f = "ts"           -> Ts(l)
          [] f = "event_class"  -> Text(Classify(l))
          [] f = "severity"     -> Text(Severity(l.raw))
          [] f = "geo"          -> Geo(l.raw)]
============================================================================
