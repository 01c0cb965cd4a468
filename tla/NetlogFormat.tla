---------------------------- MODULE NetlogFormat ----------------------------
(***************************************************************************)
(* The syslog message formatter of netlog-network.c (format_rfc5424,      *)
(* format_rfc3339, format_rfc3339_timestamp) and what a collector reads   *)
(* back from the transport.                                                *)
(*                                                                         *)
(* A formatted message is the gather list handed to protocol_send: a      *)
(* sequence of tokens.  A token is an atom (a configured or journal       *)
(* string, a separator such as " " or "]: ", the line feed NL), a         *)
(* priority header or a timestamp header; no string is spelt out          *)
(* character by character.  A message body is itself a sequence of atoms  *)
(* and may contain NL: journal messages may span several lines.           *)
(*                                                                         *)
(* The collector sees one datagram per message over UDP and DTLS, and one *)
(* byte stream per connection over TCP and TLS, which it splits at NL     *)
(* (the de facto framing the code's comment names).                        *)
(***************************************************************************)
EXTENDS Integers, Sequences, SequencesExt

CONSTANTS
    Protocol,        \* m->protocol: "udp", "tcp", "dtls" or "tls"
    LogFormat,       \* m->log_format: "rfc5424" or "rfc3339"
    Text,            \* journal field values (identifier, hostname, pid, ...)
    Messages,        \* message bodies: non-empty sequences of atoms
    Severities,      \* the severities records carry, within 0..7
    Facilities,      \* the facilities records carry, within 0..23
    StructuredData,  \* m->structured_data: a member of Text, or Nil
    MaxSent          \* bound on the messages sent on one connection

Nil == "(null)"            \* a NULL const char * argument
NILVALUE == "-"            \* RFC_5424_NILVALUE
NL == "\n"
Opt == Text \cup {Nil}

ASSUME FormatAssumption ==
    /\ Protocol \in {"udp", "tcp", "dtls", "tls"}
    /\ LogFormat \in {"rfc5424", "rfc3339"}
    /\ Severities \subseteq 0 .. 7 /\ Facilities \subseteq 0 .. 23
    /\ StructuredData \notin {NILVALUE, NL}
    /\ \A msg \in Messages : msg \in Seq(Text \cup {NL}) /\ Len(msg) > 0
    /\ MaxSent \in Nat

\* The arguments of manager_push_to_network: one journal record.  tv is
\* either the record's realtime timestamp or NULL.
LogRecord == [severity : Severities, facility : Facilities,
              identifier : Opt, message : Messages, hostname : Opt,
              pid : Opt, tv : {"tv", Nil}, structured_data : Opt,
              msgid : Opt]

VARIABLES
    datagrams,   \* the gather lists protocol_send was handed, in order
    sent         \* the records they were formatted from

vars == <<datagrams, sent>>

MakePriShift2(rec) == (rec.facility * 4 + rec.severity) % 256

\* makepri is a uint8_t: (facility << 3) + severity, modulo 2^8.
MakePri(rec) == (rec.facility * 8 + rec.severity) % 256

\* Every token has one shape, so that the collector can compare any two:
\* a string, a priority header or a timestamp header.
Atom(x) == [tag |-> "str", n |-> 0, s |-> x]
Atoms(msg) == [i \in DOMAIN msg |-> Atom(msg[i])]

\* "<%i>%i " for RFC 5424 (version "1"), "<%i>" for RFC 3339 (version "").
PriorityHeader(rec, version) == [tag |-> "pri", n |-> MakePri(rec), s |-> version]

\* format_rfc3339_timestamp: the record's time with a fractional part, or
\* the current time, without one, when tv is NULL.
TimestampHeader(rec) ==
    [tag |-> "time", n |-> IF rec.tv = Nil THEN 0 ELSE 1,
     s |-> IF rec.tv = Nil THEN "now" ELSE rec.tv]

OrNilEmpty(v) == Atom(IF v = Nil THEN "" ELSE v)

\* A NULL field is sent as RFC_5424_NILVALUE.
OrNil(v) == Atom(IF v = Nil THEN NILVALUE ELSE v)

SeparatorNone == <<>>

SP == Atom(" ")

\* The trailing separator: appended for TCP only.
Separator == IF Protocol = "tcp" THEN <<Atom(NL)>> ELSE <<>>

\* The structured data: the configured block first, then the record's.
SDOverrideLast(rec) ==
    IF rec.structured_data # Nil THEN Atom(rec.structured_data)
    ELSE OrNil(StructuredData)
SDField(rec) ==
    IF StructuredData # Nil THEN Atom(StructuredData)
    ELSE OrNil(rec.structured_data)

FormatRfc5424(rec) ==
    <<PriorityHeader(rec, "1"), TimestampHeader(rec),
      OrNil(rec.hostname), SP, OrNil(rec.identifier), SP,
      OrNil(rec.pid), SP, OrNil(rec.msgid), SP, SDField(rec), SP>>
    \o Atoms(rec.message) \o Separator

FormatRfc3339(rec) ==
    <<PriorityHeader(rec, ""), TimestampHeader(rec),
      OrNil(rec.hostname), SP, OrNil(rec.identifier), Atom("["),
      OrNil(rec.pid), Atom("]: ")>>
    \o Atoms(rec.message) \o Separator

\* manager_push_to_network on a connected transport: the record is
\* formatted in the configured layout and handed to protocol_send.
PushToNetwork(rec) ==
    /\ Len(sent) < MaxSent
    /\ datagrams' = Append(datagrams,
                       IF LogFormat = "rfc5424" THEN FormatRfc5424(rec)
                       ELSE FormatRfc3339(rec))
    /\ sent' = Append(sent, rec)

\* manager_open_network_socket after a disconnect: the collector sees a new
\* connection, and with it a new stream.
OpenNetworkSocket ==
    /\ datagrams' = <<>>
    /\ sent' = <<>>

Init == datagrams = <<>> /\ sent = <<>>

Next == \/ \E rec \in LogRecord : PushToNetwork(rec)
        \/ OpenNetworkSocket

Spec == Init /\ [][Next]_vars

-----------------------------------------------------------------------------
(* The collector.                                                          *)

\* The NL-terminated lines of a stream; an unterminated tail is still
\* in flight and is not a line yet.
RECURSIVE Lines(_)
Lines(s) ==
    IF \E i \in 1 .. Len(s) : s[i] = Atom(NL)
    THEN LET j == CHOOSE i \in 1 .. Len(s) :
                     s[i] = Atom(NL) /\ \A h \in 1 .. i - 1 : s[h] # Atom(NL)
         IN <<SubSeq(s, 1, j - 1)>> \o Lines(SubSeq(s, j + 1, Len(s)))
    ELSE <<>>

\* The messages the collector receives on the current connection.
Received ==
    IF Protocol \in {"tcp", "tls"} THEN Lines(FlattenSeq(datagrams))
    ELSE datagrams

FromNil(tok) == IF tok.s = NILVALUE THEN Nil ELSE tok.s

\* An RFC 5424 or RFC 3339 parser: the fields it recovers from a message.
Parse(msg) ==
    LET hdr == IF LogFormat = "rfc5424" THEN 12 ELSE 8
    IN [facility |-> msg[1].n \div 8, severity |-> msg[1].n % 8,
        time |-> msg[2], hostname |-> FromNil(msg[3]),
        identifier |-> FromNil(msg[5]), pid |-> FromNil(msg[7]),
        msgid |-> IF LogFormat = "rfc5424" THEN FromNil(msg[9]) ELSE Nil,
        sd |-> IF LogFormat = "rfc5424" THEN FromNil(msg[11]) ELSE Nil,
        message |-> [i \in 1 .. Len(msg) - hdr |-> msg[hdr + i].s]]

\* What the collector should recover from a record.
Expected(rec) ==
    [facility |-> rec.facility, severity |-> rec.severity,
     time |-> TimestampHeader(rec), hostname |-> rec.hostname,
     identifier |-> rec.identifier, pid |-> rec.pid,
     msgid |-> IF LogFormat = "rfc5424" THEN rec.msgid ELSE Nil,
     sd |-> IF LogFormat # "rfc5424" THEN Nil
            ELSE IF StructuredData # Nil THEN StructuredData
            ELSE rec.structured_data,
     message |-> rec.message]

-----------------------------------------------------------------------------
(* Properties.                                                             *)

\* The atoms, headers and separators a formatted message is made of.
Token == {Atom(x) : x \in Text \cup {StructuredData, NL, NILVALUE, " ", "[", "]: "}}
         \cup [tag : {"pri"}, n : 0 .. 255, s : {"1", ""}]
         \cup [tag : {"time"}, n : {0, 1}, s : {"now", "tv"}]

\* Every message handed to protocol_send is made of the tokens above, one
\* per record sent.
TypeOK ==
    /\ datagrams \in Seq(Seq(Token))
    /\ sent \in Seq(LogRecord)
    /\ Len(datagrams) = Len(sent)

\* The collector recovers, on every connection, exactly the records the
\* forwarder pushed, in order and field by field: the framing (a datagram per
\* message, or an NL after each message on a stream), the uint8_t priority,
\* the NIL values and the structured-data precedence of format_rfc5424 and
\* format_rfc3339 together make each message parse back to its record.
RecordsRecovered ==
    LET hdr == IF LogFormat = "rfc5424" THEN 12 ELSE 8
    IN /\ Len(Received) = Len(sent)
       /\ \A i \in 1 .. Len(sent) :
             /\ Len(Received[i]) > hdr
             /\ Parse(Received[i]) = Expected(sent[i])

====
