----------------------------- MODULE MCExpansion -----------------------------
(* Small instances of Expansion. *)
EXTENDS Expansion

Zeros(n) == [i \in 1..n |-> 0]

NoHost == [kind |-> "none", v4 |-> Zeros(4), v6 |-> Zeros(16), labels |-> << >>]
Ipv4(octets) == [NoHost EXCEPT !.kind = "ipv4", !.v4 = octets]
Ipv6(octets) == [NoHost EXCEPT !.kind = "ipv6", !.v6 = octets]
Domain(labels) == [NoHost EXCEPT !.kind = "domain", !.labels = labels]

Public == Domain(<<"api", "example", "com">>)
Private == Ipv4(<<10, 1, 2, 3>>)

AUrl == [is |-> "url", userinfo |-> FALSE, scheme |-> "https", host |-> Public]

\* A letter and a dash in the name, letters, a space and a tab in the value.
HeaderOf(lower) ==
    [lower |-> lower, outbox |-> FALSE, bytes |-> {45, 97}, string |-> TRUE,
     value |-> {9, 32, 97}]

Callback ==
    [object |-> TRUE, name |-> "mail", url |-> AUrl, mode |-> "absent", signing_key_id |-> 1,
     headers |-> [is |-> "absent", list |-> << >>], max_attempts |-> Absent,
     backoff |-> [is |-> "absent", list |-> << >>], timeout |-> Absent,
     external_timeout |-> Absent, max_completion_cycles |-> Absent]

\* The environment: two keys as the receivers know them, one that went wrong.
Variable(material, alphabet, bytes) ==
    [set |-> TRUE, utf8 |-> TRUE, alphabet |-> alphabet, bytes |-> bytes, material |-> material]

Environment ==
    [MAIL_SECRET |-> Variable("mail", "standard", 32),
     NEW_SECRET |-> Variable("new", "url_safe_no_pad", 256),
     OTHER_SECRET |-> Variable("other", "standard_no_pad", 48),
     SHORT |-> Variable("short", "standard", 31),
     GARBAGE |-> Variable("garbage", "none", 48),
     LATIN1 |-> [Variable("latin1", "standard", 48) EXCEPT !.utf8 = FALSE],
     UNSET |-> [Variable("unset", "none", 0) EXCEPT !.set = FALSE]]

TrustedKeys == <<"mail", "new">>

Strict ==
    [database_url |-> "postgres", max_connections |-> 20, poll_interval_secs |-> 5,
     batch_size |-> 50, max_attempts |-> 6, backoff_secs |-> <<30, 120>>,
     handler_timeout_secs |-> 30, lock_buffer_secs |-> 10,
     external_timeout_sweep_interval_secs |-> 60, max_completion_cycles |-> 20,
     payload_size_limit_bytes |-> 1048576, notify_channel |-> "outbox_events_new",
     log_format |-> "json", log_filter |-> "info", auth_token |-> "token",
     max_callbacks_per_event |-> 2, signing_keys |-> <<"MAIL_SECRET">>] @@ Defaults

Lax ==
    [Strict EXCEPT !.allow_insecure_urls = TRUE, !.allow_private_ip_targets = TRUE,
                   !.allow_unsigned_callbacks = TRUE,
                   !.signing_keys = <<"MAIL_SECRET", "NEW_SECRET">>]

Narrow == [Strict EXCEPT !.max_callbacks_per_event = 1]

\* The least and the greatest values, and the wrong secret for key 2.
Extreme ==
    [Strict EXCEPT !.signing_keys = <<"MAIL_SECRET", "OTHER_SECRET">>, !.max_attempts = 50,
                   !.backoff_secs = <<1, 604800>>, !.handler_timeout_secs = 300,
                   !.max_completion_cycles = 1]

\* Settings one value beyond a limit.
Beyond ==
    {[Strict EXCEPT !.max_attempts = n] : n \in {0, 51}}
    \cup {[Strict EXCEPT !.handler_timeout_secs = n] : n \in {0, 301}}
    \cup {[Strict EXCEPT !.max_completion_cycles = n] : n \in {0, 1001}}
    \cup {[Strict EXCEPT !.backoff_secs = b] : b \in {<< >>, <<30, 0>>, <<604801>>}}
    \cup {[Strict EXCEPT !.signing_keys = k] :
            k \in {<<"">>, <<"MAIL_SECRET", "MAIL_SECRET">>, <<"UNSET">>, <<"SHORT">>,
                   <<"MAIL_SECRET", "LATIN1">>, <<"GARBAGE">>}}
    \cup {[Strict EXCEPT !.lock_buffer_secs = 0], [Strict EXCEPT !.max_callbacks_per_event = 0]}

StrictLax == {Strict, Lax}
AllSettings == {Strict, Lax, Narrow, Extreme} \cup Beyond

\* The first and the last address of each network and their neighbours, as IPv4
\* addresses and embedded in IPv6 ones; names with up to two trailing dots.
Octets ==
    {<<a, b, 0, 1>> : a \in {9, 10, 11, 126, 127, 128}, b \in {0, 255}}
    \cup {<<169, b, 0, 1>> : b \in {253, 254, 255}}
    \cup {<<172, b, 0, 1>> : b \in {15, 16, 31, 32}}
    \cup {<<192, b, 0, 1>> : b \in {167, 168, 169}}
    \cup {<<0, 0, 0, 0>>, <<0, 0, 1, 0>>}

Ipv6Octets ==
    {Zeros(10) \o <<x, y>> \o o : x \in {0, 255}, y \in {0, 255}, o \in Octets}
    \cup {[Zeros(16) EXCEPT ![1] = a, ![2] = b, ![16] = last] :
            a \in {0, 251, 252, 253, 254, 255}, b \in {0, 127, 128, 191, 192}, last \in {0, 1, 2}}

Names ==
    {<<"localhost">>, <<"local">>, <<"db", "localhost">>, <<"db", "internal">>, <<"internal">>,
     <<"printer", "lan">>, <<"a", "b", "local">>, <<"nas", "home", "arpa">>, <<"home", "arpa">>,
     <<"example", "arpa">>, <<"internal", "example", "com">>, <<"">>}

HostVariants ==
    {Ipv4(o) : o \in Octets} \cup {Ipv6(o) : o \in Ipv6Octets}
    \cup {Domain(l \o dots) : l \in Names, dots \in {<< >>, <<"">>, <<"", "">>}}

\* One field away from Callback.
UrlVariants ==
    {[Callback EXCEPT !.url.is = k] : k \in {"absent", "nonstring", "malformed"}}
    \cup {[Callback EXCEPT !.url.userinfo = TRUE]}
    \cup {[Callback EXCEPT !.url.scheme = s, !.url.host = h] :
            s \in {"https", "http", "other"}, h \in {NoHost, Public, Private}}
    \cup {[Callback EXCEPT !.url.host = h] : h \in HostVariants}

HeaderVariants ==
    {[Callback EXCEPT !.headers.is = k] : k \in {"other", "object"}}
    \cup {[Callback EXCEPT !.headers = [is |-> "object", list |-> l]] :
            l \in {<<HeaderOf("x-a")>>, <<HeaderOf("x-a"), HeaderOf("x-a")>>,
                   <<HeaderOf("x-a"), HeaderOf("x-b")>>,
                   <<HeaderOf("x-b"), [HeaderOf("x-outbox-a") EXCEPT !.outbox = TRUE]>>,
                   <<[HeaderOf("x-a") EXCEPT !.bytes = {}]>>,
                   <<HeaderOf("x-b"), [HeaderOf("x-a") EXCEPT !.string = FALSE]>>}
                  \cup {<<HeaderOf(name)>> : name \in DocumentedHeaders \cup ConnectionHeaders}
                  \cup {<<[HeaderOf("x-a") EXCEPT !.bytes = b]>> :
                            b \in {Tchar} \cup {{97, d} : d \in (0..255) \ Tchar}}
                  \cup {<<[HeaderOf("x-a") EXCEPT !.value = {97, b}]>> :
                            b \in {0, 8, 9, 10, 31, 32, 126, 127, 128, 255}}}

NumberVariants ==
    {[Callback EXCEPT !.max_attempts = n] : n \in {-1, 0, 1, 50, 51}}
    \cup {[Callback EXCEPT !.timeout = n] : n \in {-1, 0, 1, 300, 301}}
    \cup {[Callback EXCEPT !.max_completion_cycles = n] : n \in {-1, 0, 1, 1000, 1001}}
    \cup {[Callback EXCEPT !.mode = m, !.external_timeout = n] :
            m \in {"absent", "nonstring", "managed", "external", "unknown"},
            n \in {-2, -1, 0, 1, 604800, 604801}}
    \cup {[Callback EXCEPT !.backoff.is = "other"]}
    \cup {[Callback EXCEPT !.backoff = [is |-> "array", list |-> l]] :
            l \in {<< >>, <<1>>, <<0>>, <<1, 604800>>, <<1, 604801>>, <<5, -1>>}}

NameVariants ==
    {[Callback EXCEPT !.name = n] : n \in {"absent", "nonstring", "Mail", "[1]", "audit"}}
    \cup {[Callback EXCEPT !.object = FALSE], [Callback EXCEPT !.signing_key_id = Absent]}

FieldArrays ==
    {<<e>> : e \in {Callback} \cup UrlVariants \cup HeaderVariants \cup NumberVariants
                        \cup NameVariants}

External == [Callback EXCEPT !.mode = "external", !.external_timeout = 60]

\* Callbacks that some configurations refuse.
Several(name) ==
    {[Callback EXCEPT !.name = name], [External EXCEPT !.name = name],
     [External EXCEPT !.name = name, !.signing_key_id = Absent],
     [Callback EXCEPT !.name = name, !.url.scheme = "http", !.signing_key_id = 2]}

Nameless == {[Callback EXCEPT !.object = FALSE], [Callback EXCEPT !.name = "Mail"]}

\* Two or three callbacks with labels of their own.
DistinctArrays ==
    {<<a, [External EXCEPT !.name = "audit", !.signing_key_id = 2]>> :
        a \in Several("mail") \cup Nameless}
    \cup {<<a, [Callback EXCEPT !.name = "audit"]>> : a \in Nameless}
    \cup {<<Callback, [External EXCEPT !.name = "audit", !.signing_key_id = Absent],
            [Callback EXCEPT !.name = "sms"]>>}

\* Callbacks that share a label: two valid ones, a rejected one before or after a
\* valid one, a name that looks like a position.
SameNameArrays ==
    {<<a, b>> : a \in Several("mail"), b \in Several("mail")}
    \cup {<<[Callback EXCEPT !.name = "[1]"], [Callback EXCEPT !.object = FALSE]>>}

AllArrays == FieldArrays \cup DistinctArrays \cup SameNameArrays
==============================================================================
