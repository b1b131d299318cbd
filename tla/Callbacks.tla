------------------------------ MODULE Callbacks ------------------------------
(***************************************************************************)
(* Structural validation of an event's callbacks array                     *)
(* (crates/core/src/callbacks.rs).                                         *)
(*                                                                         *)
(* An element is a record with one component per JSON field.  A field the  *)
(* publisher left out is "absent" (Absent for integers), one of the wrong  *)
(* JSON type is "nonstring", "other" or an integer as_u64 refuses.  A URL  *)
(* is what url::Url parses it to, with an address as its octets and a      *)
(* domain as its lower-case labels.  A header has its name in lower case,  *)
(* whether that starts with x-outbox-, and the bytes that occur in its     *)
(* name and in its value.                                                  *)
(***************************************************************************)
EXTENDS Integers, Sequences, FiniteSetsExt, TLC

Absent == -2 \* an integer field that is missing

NotInteger == -1 \* a value as_u64 refuses

\* An element of the array.
Integer == Nat \cup {Absent, NotInteger}

Host == [kind : {"none", "ipv4", "ipv6", "domain"}, v4 : [1..4 -> 0..255],
         v6 : [1..16 -> 0..255], labels : Seq(STRING)]

Url == [is : {"absent", "nonstring", "malformed", "url"}, userinfo : BOOLEAN, scheme : STRING,
        host : Host]

Header == [lower : STRING, outbox : BOOLEAN, bytes : SUBSET (0..255), string : BOOLEAN,
           value : SUBSET (0..255)]

Element ==
    [object : BOOLEAN, name : STRING, url : Url, mode : STRING, signing_key_id : Nat \cup {Absent},
     headers : [is : {"absent", "object", "other"}, list : Seq(Header)],
     max_attempts : Integer,
     backoff : [is : {"absent", "array", "other"}, list : Seq(Int)],
     timeout : Integer, external_timeout : Integer, max_completion_cycles : Integer]

MAX_EXTERNAL_TIMEOUT_SECS == 7 * 86400
MAX_PER_CALLBACK_ATTEMPTS == 50
MAX_HANDLER_TIMEOUT_SECS == 300
MAX_COMPLETION_CYCLES_LIMIT == 1000
MAX_BACKOFF_ELEMENT_SECS == 7 * 86400
MAX_CALLBACKS_PER_EVENT_LIMIT == 1000

\* The headers the dispatcher or the HTTP stack controls.
RESERVED_HEADERS ==
    {"authorization", "cookie", "host", "content-length", "content-type", "transfer-encoding",
     "connection", "upgrade", "expect", "te", "trailer", "proxy-authorization"}

\* InvalidReason, by its metric_label.
InvalidReason ==
    {"not_array", "too_many_callbacks", "not_an_object", "missing_name", "name_not_string",
     "name_invalid", "missing_url", "url_not_string", "url_malformed", "url_has_userinfo",
     "url_bad_scheme", "url_no_host", "url_private_host", "missing_signing_key_id",
     "invalid_mode", "headers_not_object", "header_name_invalid", "header_reserved",
     "header_duplicate", "header_value_invalid", "max_attempts_not_integer",
     "max_attempts_out_of_range", "backoff_not_array", "backoff_empty",
     "backoff_element_invalid", "backoff_element_out_of_range", "timeout_not_integer",
     "timeout_out_of_range", "external_timeout_not_integer", "external_timeout_out_of_range",
     "max_completion_cycles_not_integer", "max_completion_cycles_out_of_range",
     "external_missing_timeout", "duplicate_name", "other"}

\* A check returns Err(reason) when it fails, and "ok" otherwise.
Check(reason, fails) == IF fails THEN reason ELSE "ok"

\* The ? after each check: the first one that fails decides.
FirstFailure(results) ==
    LET failed == {i \in 1..Len(results) : results[i] # "ok"} IN
    IF failed = {} THEN "ok" ELSE results[Min(failed)]

\* The label of an element, in extract_callback_names and parse_one_callback
\* alike: its name, or its position when it has none.
Label(element, i) ==
    IF ~element.object \/ element.name \in {"absent", "nonstring"}
    THEN "[" \o ToString(i - 1) \o "]"
    ELSE element.name

\* ^[a-z][a-z0-9_]{2,63}$; every other name of the model starts upper case or is
\* positional.
is_valid_callback_name(name) == name \in {"mail", "audit", "sms"}

parse_mode(mode) ==
    IF mode \in {"absent", "nonstring"} THEN "managed" ELSE mode

\* is_loopback, is_private, is_link_local and is_unspecified of std::net.
is_private_ipv4(ip) ==
    \/ ip[1] = 127
    \/ ip[1] = 10 \/ (ip[1] = 172 /\ ip[2] \in 16..31) \/ (ip[1] = 192 /\ ip[2] = 168)
    \/ ip[1] = 169 /\ ip[2] = 254
    \/ \A i \in 1..4 : ip[i] = 0

\* to_ipv4: is there an address in a mapped or a compatible one, and which.
HoldsIpv4(ip) == (\A i \in 1..10 : ip[i] = 0) /\ ip[11] \in {0, 255} /\ ip[12] = ip[11]

to_ipv4(ip) == [i \in 1..4 |-> ip[12 + i]]

\* is_loopback, is_unspecified, is_unique_local (fc00::/7) and
\* is_unicast_link_local (fe80::/10) of std::net.
is_private_ipv6_native(ip) ==
    \/ (\A i \in 1..15 : ip[i] = 0) /\ ip[16] \in {0, 1}
    \/ ip[1] \div 2 = 126
    \/ ip[1] = 254 /\ ip[2] \div 64 = 2

is_private_ipv6(ip) ==
    \/ HoldsIpv4(ip) /\ is_private_ipv4(to_ipv4(ip))
    \/ is_private_ipv6_native(ip)

\* trim_end_matches('.'): how many labels are left, each trailing dot being an
\* empty last one.
Trimmed(labels) ==
    Min({n \in 0..Len(labels) : \A i \in (n + 1)..Len(labels) : labels[i] = ""})

\* ends_with a dot and the suffix, of the first n labels.
ends_with(labels, n, suffix) ==
    /\ n > Len(suffix)
    /\ \A i \in 1..Len(suffix) : labels[(n - Len(suffix)) + i] = suffix[i]

is_blocked_domain(labels) ==
    LET n == Trimmed(labels) IN
    \/ n = 1 /\ labels[n] = "localhost"
    \/ \E suffix \in {<<"local">>, <<"localhost">>, <<"internal">>, <<"lan">>, <<"home", "arpa">>} :
          ends_with(labels, n, suffix)

is_private_host(host) ==
    \/ host.kind = "ipv4" /\ is_private_ipv4(host.v4)
    \/ host.kind = "ipv6" /\ is_private_ipv6(host.v6)
    \/ host.kind = "domain" /\ is_blocked_domain(host.labels)

validate_url(url, config) ==
    FirstFailure(
        <<Check("url_malformed", url.is = "malformed"),
          Check("url_has_userinfo", url.userinfo),
          Check("url_bad_scheme",
                ~(url.scheme = "https" \/ (url.scheme = "http" /\ config.allow_insecure_urls))),
          Check("url_no_host", url.host.kind = "none"),
          Check("url_private_host", ~config.allow_private_ip_targets /\ is_private_host(url.host))>>)

\* RFC 7230 tchar: !#$%&'*+-.^_`|~, the digits and the letters.
Tchar ==
    {33, 35, 36, 37, 38, 39, 42, 43, 45, 46, 94, 95, 96, 124, 126}
    \cup 48..57 \cup 65..90 \cup 97..122

is_valid_header_name(bytes) == bytes # {} /\ bytes \subseteq Tchar

\* The checks on header i, in the order of the object's keys.
parse_header(headers, i) ==
    LET h == headers[i] IN
    FirstFailure(
        <<Check("header_name_invalid", ~is_valid_header_name(h.bytes)),
          Check("header_reserved", h.lower \in RESERVED_HEADERS \/ h.outbox),
          Check("header_duplicate", \E j \in 1..(i - 1) : headers[j].lower = h.lower),
          Check("header_value_invalid", ~h.string),
          Check("header_value_invalid", \E b \in h.value : (b < 32 /\ b # 9) \/ b >= 127)>>)

parse_headers(headers) ==
    FirstFailure(
        <<Check("headers_not_object", headers.is = "other"),
          FirstFailure([i \in 1..Len(headers.list) |-> parse_header(headers.list, i)])>>)

\* An optional integer that has to be in 1..max.
parse_integer(n, max, not_integer, out_of_range) ==
    FirstFailure(<<Check(not_integer, n = NotInteger),
                   Check(out_of_range, n # Absent /\ n \notin 1..max)>>)

parse_max_attempts(n) ==
    parse_integer(n, MAX_PER_CALLBACK_ATTEMPTS,
                  "max_attempts_not_integer", "max_attempts_out_of_range")

parse_backoff_element(n) ==
    FirstFailure(<<Check("backoff_element_invalid", n < 1),
                   Check("backoff_element_out_of_range", n > MAX_BACKOFF_ELEMENT_SECS)>>)

parse_backoff(backoff) ==
    FirstFailure(
        <<Check("backoff_not_array", backoff.is = "other"),
          Check("backoff_empty", backoff.is = "array" /\ backoff.list = << >>),
          FirstFailure([i \in 1..Len(backoff.list) |-> parse_backoff_element(backoff.list[i])])>>)

parse_timeout(n) ==
    parse_integer(n, MAX_HANDLER_TIMEOUT_SECS, "timeout_not_integer", "timeout_out_of_range")

parse_external_timeout(n) ==
    parse_integer(n, MAX_EXTERNAL_TIMEOUT_SECS,
                  "external_timeout_not_integer", "external_timeout_out_of_range")

parse_max_completion_cycles(n) ==
    parse_integer(n, MAX_COMPLETION_CYCLES_LIMIT,
                  "max_completion_cycles_not_integer", "max_completion_cycles_out_of_range")

\* parse_one_callback: "ok", or the InvalidReason.
Reason(e, config) ==
    FirstFailure(
        <<Check("not_an_object", ~e.object),
          Check("missing_name", e.name = "absent"),
          Check("name_not_string", e.name = "nonstring"),
          Check("name_invalid", ~is_valid_callback_name(e.name)),
          Check("missing_url", e.url.is = "absent"),
          Check("url_not_string", e.url.is = "nonstring"),
          validate_url(e.url, config),
          Check("invalid_mode", parse_mode(e.mode) \notin {"managed", "external"}),
          Check("missing_signing_key_id",
                ~config.allow_unsigned_callbacks /\ e.signing_key_id = Absent),
          parse_headers(e.headers),
          parse_max_attempts(e.max_attempts),
          parse_backoff(e.backoff),
          parse_timeout(e.timeout),
          parse_external_timeout(e.external_timeout),
          parse_max_completion_cycles(e.max_completion_cycles),
          Check("external_missing_timeout",
                parse_mode(e.mode) = "external" /\ e.external_timeout = Absent)>>)

OrDefault(n, default) == IF n = Absent THEN default ELSE n

\* The CallbackTarget of an element that passes.
Target(e, config) ==
    [name |-> e.name,
     mode |-> parse_mode(e.mode),
     signing_key_id |-> e.signing_key_id,
     url |-> e.url,
     max_attempts |-> OrDefault(e.max_attempts, config.max_attempts),
     backoff |-> IF e.backoff.is = "absent" THEN config.backoff ELSE e.backoff.list,
     timeout |-> OrDefault(e.timeout, config.handler_timeout),
     external_timeout |-> e.external_timeout,
     max_completion_cycles |-> OrDefault(e.max_completion_cycles, config.max_completion_cycles)]

TooMany(array, config) == Len(array) > config.max_callbacks_per_event

Accepted(array, i, config) == Reason(array[i], config) = "ok"

\* seen_names: an accepted element before this one has its name.
SeenName(array, i, config) ==
    \E j \in 1..(i - 1) : Accepted(array, j, config) /\ array[j].name = array[i].name

\* parse_callbacks, the indices of `valid`.
ValidIndices(array, config) ==
    IF TooMany(array, config)
    THEN {}
    ELSE {i \in DOMAIN array : Accepted(array, i, config) /\ ~SeenName(array, i, config)}

\* The reason_code of an element that is not valid.
RejectedFor(array, i, config) ==
    IF TooMany(array, config)
    THEN "too_many_callbacks"
    ELSE IF Accepted(array, i, config) THEN "duplicate_name" ELSE Reason(array[i], config)

\* The position of the first element of that name, or 0.
FirstNamed(array, name) ==
    LET named == {i \in 1..Len(array) : array[i].object /\ array[i].name = name} IN
    IF named = {} THEN 0 ELSE Min(named)

\* A lookup that trusts the check made when the row was written.
validate_named_callback_trusting(array, name, config) ==
    FirstNamed(array, name)

\* A lookup that refuses an array at the limit.
validate_named_callback_full(array, name, config) ==
    LET i == FirstNamed(array, name) IN
    IF \/ Len(array) >= config.max_callbacks_per_event
       \/ i = 0
       \/ ~Accepted(array, i, config)
    THEN 0
    ELSE i

\* validate_named_callback: the index of the target, or 0 when the array, the
\* first element of that name, or the lack of one is an error.
validate_named_callback(array, name, config) ==
    LET i == FirstNamed(array, name) IN
    IF TooMany(array, config) \/ i = 0 \/ ~Accepted(array, i, config) THEN 0 ELSE i
==============================================================================
