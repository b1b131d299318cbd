------------------------------ MODULE Expansion ------------------------------
(***************************************************************************)
(* One event's callbacks from the array to the receiver: the rows the      *)
(* scheduler writes for it, the second validation every row passes when it *)
(* is fetched for dispatch, possibly under another configuration, the      *)
(* signed request, and what the receiver and the dispatcher make of it.    *)
(* Interleavings of the scheduler's writes are module Scheduler's and the  *)
(* leases of dispatchers module Dispatch's; here they are one step.        *)
(***************************************************************************)
EXTENDS Webhook, FiniteSets

CONSTANTS
    Arrays,   \* the callbacks arrays publishers write
    Settings, \* the settings operators write
    EnvVars,  \* the environment variables with the secrets
    Trusted,  \* Trusted[key]: the secret the receivers know it by
    MaxAge,   \* the receivers' replay window
    MaxDelay  \* bound: time a request is under way

\* The process gets past its start-up checks.
Deployable(s) == validate(s) = {} /\ KeyErrors(s.signing_keys, EnvVars) = {}

ASSUME ExpansionAssumption ==
    /\ Arrays \subseteq Seq(Element)
    /\ \A a \in Arrays : Len(a) > 0  \* CHECK outbox_events_callbacks_nonempty
    /\ \A s \in Settings : s.backoff_secs \in Seq(Nat)  \* Vec<u64>
    /\ \E s \in Settings : Deployable(s)
    /\ NULL \notin Int
    /\ MaxAge \in Nat /\ MaxDelay \in Nat

\* What a process runs with: its DispatchConfig and its keyring.
Configs ==
    {[dispatch |-> DispatchConfig(s), keyring |-> KeysResolved(s.signing_keys, EnvVars)] :
        s \in {x \in Settings : Deployable(x)}}

VARIABLES
    array,     \* outbox_events.callbacks
    oversized, \* payload_size_bytes > payload_size_limit_bytes
    config,    \* the configuration the dispatcher runs with
    used,      \* the configurations the event was scheduled with: none or one
    rows,      \* the event's rows; `from` is the element a row was written for
    sent,      \* <<row name, element sent>>
    flight,    \* requests under way, with their age and the receiver's answer
    accepted   \* rows a receiver accepted a request for since they were last retried

event == <<array, oversized, used>>
requests == <<sent, flight, accepted>>
vars == <<event, config, rows, requests>>

Labels == {Label(array[i], i) : i \in DOMAIN array}

Row == [name : Labels, from : DOMAIN array, mode : {"managed", "external"},
        state : {"pending", "dead_letter", "dispatched"}]

TypeOK ==
    /\ array \in Arrays
    /\ oversized \in BOOLEAN
    /\ config \in Configs
    /\ used \subseteq Configs /\ Cardinality(used) =< 1
    /\ rows \subseteq Row
    /\ \A x, y \in rows : x.name = y.name => x = y
    /\ \A m \in sent : m[2] \in DOMAIN array
    /\ \A m \in flight : m.age \in 0..MaxDelay /\ <<m.name, m.element>> \in sent
    /\ accepted \subseteq {m[1] : m \in sent}
    /\ \A i \in DOMAIN array \ ValidIndices(array, config.dispatch) :
          RejectedFor(array, i, config.dispatch) \in InvalidReason

Init ==
    /\ array \in Arrays
    /\ oversized \in BOOLEAN
    /\ config \in Configs
    /\ used = {}
    /\ rows = {}
    /\ sent = {} /\ flight = {} /\ accepted = {}

-----------------------------------------------------------------------------
\* The elements that become pending rows.
Pending == IF oversized THEN {} ELSE ValidIndices(array, config.dispatch)

\* ensure_deliveries
PendingRows ==
    {[name |-> array[i].name, from |-> i, mode |-> parse_mode(array[i].mode),
      state |-> "pending"] : i \in Pending}

\* create_invalid_deliveries: the rest, always 'managed'; of two elements with one
\* label the first is written, and a label that has a row already is skipped.
DeadRows ==
    LET rejected == DOMAIN array \ Pending
        taken(i) == \/ \E j \in rejected : j < i /\ Label(array[j], j) = Label(array[i], i)
                    \/ \E x \in PendingRows : x.name = Label(array[i], i)
    IN  {[name |-> Label(array[i], i), from |-> i, mode |-> "managed",
          state |-> "dead_letter"] : i \in {k \in rejected : ~taken(k)}}

\* A scheduler that forgets the callbacks it rejected.
ScheduleValidOnly ==
    /\ used = {}
    /\ rows' = PendingRows
    /\ used' = {config}
    /\ UNCHANGED <<array, oversized, config, requests>>

\* schedule_new_deliveries reaches the event.
Schedule ==
    /\ used = {}
    /\ rows' = PendingRows \cup DeadRows
    /\ used' = {config}
    /\ UNCHANGED <<array, oversized, config, requests>>

\* The operator restarts the dispatcher with another configuration.  It has
\* finished its requests, or lost them.
Reconfigure(c) ==
    /\ c # config
    /\ flight = {}
    /\ config' = c
    /\ UNCHANGED <<event, rows, requests>>

\* An update that inserts.
UpdateInsert(x, state) == rows' = rows \cup {[x EXCEPT !.state = state]}

Update(x, state) == rows' = (rows \ {x}) \cup {[x EXCEPT !.state = state]}

Waiting(x) == x.state = "pending" /\ ~\E m \in flight : m.name = x.name

\* fetch_due_deliveries accepts the row and deliver sends its request.  With an
\* unknown signing key the attempt fails here and the row stays as it is.
Send(x) ==
    LET i == validate_named_callback(array, x.name, config.dispatch) IN
    /\ Waiting(x)
    /\ i # 0
    /\ LET target == Target(array[i], config.dispatch) IN
        /\ KeyResolves(target, config.keyring)
        /\ flight' = flight \cup {Request(target, i, config.keyring, 0)}
    /\ sent' = sent \cup {<<x.name, i>>}
    /\ UNCHANGED <<event, config, rows, accepted>>

Change(m, n) == flight' = (flight \ {m}) \cup {n}

\* The request takes its time; its time stamp is time 0.
Delay(m) ==
    /\ m.status = NULL /\ m.age < MaxDelay
    /\ Change(m, [m EXCEPT !.age = m.age + 1])
    /\ UNCHANGED <<event, config, rows, sent, accepted>>

\* A proxy writes the JSON body anew.
Reencode(m) ==
    /\ m.status = NULL
    /\ Change(m, [m EXCEPT !.body = <<"reencoded">>])
    /\ UNCHANGED <<event, config, rows, sent, accepted>>

\* A receiver verifies what is signed before it accepts it.
Verifies(m) ==
    m.key # Absent => verify_header(Trusted[m.key], m.body, m.signature, MaxAge, m.age)

Receive(m) ==
    /\ m.status = NULL
    /\ Change(m, [m EXCEPT !.status = IF Verifies(m) THEN 200 ELSE 401])
    /\ accepted' = IF Verifies(m) THEN accepted \cup {m.name} ELSE accepted
    /\ UNCHANGED <<event, config, rows, sent>>

\* It sends the dispatcher elsewhere or away.
Refuse(m) ==
    /\ m.status = NULL
    /\ \E s \in {307, 503} : Change(m, [m EXCEPT !.status = s])
    /\ UNCHANGED <<event, config, rows, sent, accepted>>

\* The answer arrives; a failure leaves the row for the next attempt.
Respond(x, m) ==
    /\ m.name = x.name /\ m.status # NULL
    /\ flight' = flight \ {m}
    /\ IF Delivered(m.status) THEN Update(x, "dispatched") ELSE UNCHANGED rows
    /\ UNCHANGED <<event, config, sent, accepted>>

\* A connection error, the timeout or the end of the process.
Lose(m) ==
    /\ flight' = flight \ {m}
    /\ UNCHANGED <<event, config, rows, sent, accepted>>

\* fetch_due_deliveries dead-letters a row that fails revalidation.
DeadLetterPoison(x) ==
    /\ Waiting(x)
    /\ validate_named_callback(array, x.name, config.dispatch) = 0
    /\ Update(x, "dead_letter")
    /\ UNCHANGED <<event, config, requests>>

\* retry_delivery leaves completion_mode as it is.
RetryDelivery(x) ==
    /\ x.state # "pending"
    /\ Update(x, "pending")
    /\ accepted' = accepted \ {x.name}
    /\ UNCHANGED <<event, config, sent, flight>>

Next ==
    \/ Schedule
    \/ \E c \in Configs : Reconfigure(c)
    \/ \E x \in rows : Send(x) \/ DeadLetterPoison(x) \/ RetryDelivery(x)
    \/ \E m \in flight : Delay(m) \/ Reencode(m) \/ Receive(m) \/ Refuse(m) \/ Lose(m)
    \/ \E x \in rows, m \in flight : Respond(x, m)

Spec == Init /\ [][Next]_vars

-----------------------------------------------------------------------------
Week == 604800 \* seconds

\* The documented ranges.
AttemptRange == 1..50
TimeoutRange == 1..300
CycleRange == 1..1000
WeekRange == 1..Week

\* The networks of RFC 1918, 1122 and 3927, by their first two octets.
LocalNetworks ==
    {<<10..10, 0..255>>, <<127..127, 0..255>>, <<169..169, 254..254>>, <<172..172, 16..31>>,
     <<192..192, 168..168>>}

\* An IPv4 address of the local host or network, or the unspecified one.
LocalIpv4(ip) ==
    \/ \E n \in LocalNetworks : ip[1] \in n[1] /\ ip[2] \in n[2]
    \/ ip = [i \in 1..4 |-> 0]

\* fc00::/7, fe80::/10, :: and ::1, and the local IPv4 addresses as ::a.b.c.d and
\* ::ffff:a.b.c.d.
LocalIpv6(ip) ==
    \/ ip[1] \in {252, 253}
    \/ ip[1] = 254 /\ ip[2] \in 128..191
    \/ \E last \in {0, 1} : ip = [i \in 1..16 |-> IF i = 16 THEN last ELSE 0]
    \/ \E fill \in {0, 255} :
          /\ \A i \in 1..12 : ip[i] = IF i > 10 THEN fill ELSE 0
          /\ LocalIpv4([i \in 1..4 |-> ip[12 + i]])

\* A name of the local network: its last label that is not empty, the n-th, is a
\* local top-level name below which something stands, or it is home.arpa's.
LocalName(labels) ==
    \E n \in 1..Len(labels) :
        /\ labels[n] # "" /\ \A i \in (n + 1)..Len(labels) : labels[i] = ""
        /\ \/ labels[n] = "localhost"
           \/ n > 1 /\ labels[n] \in {"local", "internal", "lan"}
           \/ n > 2 /\ labels[n] = "arpa" /\ labels[n - 1] = "home"

Local(host) ==
    \/ host.kind = "ipv4" /\ LocalIpv4(host.v4)
    \/ host.kind = "ipv6" /\ LocalIpv6(host.v6)
    \/ host.kind = "domain" /\ LocalName(host.labels)

\* An HTTP token is made of visible characters other than the delimiters
\* "(),/:;<=>?@[\]{}, a field value of visible characters, spaces and tabs.
Delimiters == {34, 40, 41, 44, 47, 123, 125} \cup 58..64 \cup 91..93
Token(bytes) == bytes # {} /\ bytes \subseteq (33..126) \ Delimiters
FieldValue(bytes) == bytes \subseteq {9} \cup 32..126

\* The headers docs/webhook-protocol.md reserves, and those of HTTP that concern
\* the connection or its proxies.  Of the former the code lets User-Agent through.
DocumentedHeaders ==
    {"authorization", "cookie", "content-type", "content-length", "host", "user-agent"}

ConnectionHeaders ==
    {"connection", "upgrade", "te", "trailer", "transfer-encoding", "expect", "proxy-authorization"}

Settable(h) ==
    ~h.outbox /\ h.lower \notin (DocumentedHeaders \ {"user-agent"}) \cup ConnectionHeaders

\* What an acceptable callback is: no order of checks, addresses by network, names
\* by their last labels, headers by the grammar of HTTP.
WellFormed(e, c) ==
    /\ e.object
    /\ e.name \in {"mail", "audit", "sms"}
    /\ e.url.is = "url" /\ ~e.url.userinfo
    /\ e.url.scheme \in {"https"} \cup (IF c.allow_insecure_urls THEN {"http"} ELSE {})
    /\ e.url.host.kind # "none" /\ (c.allow_private_ip_targets \/ ~Local(e.url.host))
    /\ e.mode \in {"absent", "nonstring", "managed", "external"}
    /\ e.signing_key_id # Absent \/ c.allow_unsigned_callbacks
    /\ e.headers.is \in {"absent", "object"}
    /\ \A h \in Range(e.headers.list) :
          Token(h.bytes) /\ Settable(h) /\ h.string /\ FieldValue(h.value)
    /\ IsInjective([i \in DOMAIN e.headers.list |-> e.headers.list[i].lower])
    /\ e.max_attempts \in {Absent} \cup AttemptRange
    /\ e.backoff.is = "absent" \/ (e.backoff.is = "array" /\ Len(e.backoff.list) > 0)
    /\ Range(e.backoff.list) \subseteq WeekRange
    /\ e.timeout \in {Absent} \cup TimeoutRange
    /\ e.external_timeout = Absent \/ e.external_timeout \in WeekRange
    /\ e.max_completion_cycles \in {Absent} \cup CycleRange
    /\ e.mode = "external" => e.external_timeout # Absent

(* parse_one_callback accepts exactly the well-formed callbacks, whatever    *)
(* the order in which its checks run and default values are filled in.       *)
AcceptsExactly ==
    \A i \in DOMAIN array : Accepted(array, i, config.dispatch) <=> WellFormed(array[i], config.dispatch)

(* An accepted callback's delivery parameters are within the documented      *)
(* limits and its backoff schedule is not empty, whether they come from the  *)
(* callback or from the settings, so the dispatcher never computes a lease   *)
(* or a retry time from an out-of-range value.                               *)
TargetWithinLimits ==
    \A i \in ValidIndices(array, config.dispatch) :
        LET t == Target(array[i], config.dispatch) IN
        /\ t.max_attempts \in AttemptRange
        /\ t.timeout \in TimeoutRange
        /\ t.max_completion_cycles \in CycleRange
        /\ t.backoff # << >> /\ Range(t.backoff) \subseteq WeekRange
        /\ t.mode = "external" => t.external_timeout \in WeekRange

(* schedule_new_deliveries leaves no callback without a trace: every element *)
(* of the array, accepted or rejected, is covered by the row of its label.   *)
(* The row is an element's own when it was accepted first of its name, or    *)
(* when no other element has its label.                                      *)
RowPerCallback ==
    \A c \in used : \A i \in DOMAIN array :
        \E x \in rows :
            /\ x.name = Label(array[i], i)
            /\ \/ i \in ValidIndices(array, c.dispatch) /\ ~oversized
               \/ \A j \in DOMAIN array \ {i} : Label(array[j], j) # x.name
               => x.from = i

(* The lookup at dispatch finds the very element a pending row was written   *)
(* for: under the configuration it was scheduled with, a valid callback      *)
(* passes validate_named_callback again, unless a rejected callback of the   *)
(* same name stands before it.                                               *)
LookupFindsOwn ==
    \A c \in used : \A x \in rows :
        /\ ~oversized
        /\ x.from \in ValidIndices(array, c.dispatch)
        /\ \A j \in 1..(x.from - 1) : Label(array[j], j) # x.name
        => validate_named_callback(array, x.name, c.dispatch) = x.from

(* Nothing is sent that the configuration in force refuses, even when the    *)
(* row was written under another one or an operator retried a dead letter.   *)
SentIsAllowed ==
    [][\A m \in sent' \ sent : WellFormed(array[m[2]], config.dispatch)]_vars

(* The row's completion_mode is the mode its callback is dispatched with, so *)
(* that the sweeper watches every external delivery.                         *)
ModeMatches ==
    \A m \in sent, x \in rows : x.name = m[1] => x.mode = parse_mode(array[m[2]].mode)

(* A receiver that verifies takes a signed request exactly when it carries   *)
(* the body the dispatcher signed with the secret the receiver knows by that *)
(* key, and has been under way no longer than the replay window.             *)
VerifiesExactly ==
    \A m \in flight : m.status \in {200, 401} =>
        (m.status = 200 <=>
            m.key # Absent =>
                /\ m.body = <<m.name, m.element>>
                /\ m.age =< MaxAge
                /\ config.keyring[m.key] = Trusted[m.key])

(* deliver reports success only for a request its receiver accepted: a row   *)
(* is dispatched only when one of its requests since the last retry was      *)
(* accepted, whatever redirects, failures and lost answers there were.       *)
DispatchedWasAccepted ==
    \A x \in rows : x.state = "dispatched" => x.name \in accepted
==============================================================================
