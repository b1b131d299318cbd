--------------------------- MODULE ExpansionProofs ---------------------------
(* From a callbacks array to its receivers, for any arrays, settings, keys   *)
(* and receivers: what is accepted, which rows are written, what is sent and *)
(* what counts as delivered.                                                 *)
EXTENDS Expansion, FiniteSetTheorems, SequenceTheorems, WellFoundedInduction, TLAPS

-----------------------------------------------------------------------------
(* A set of positions that is not empty has a first one.                     *)
LEMMA MinIsLeast ==
    ASSUME NEW S \in SUBSET Nat, S # {}
    PROVE  Min(S) \in S /\ \A i \in S : Min(S) =< i
<1>1. PICK m \in S : \A n \in S : ~(<<n, m>> \in OpToRel(<, Nat))
  BY NatLessThanWellFounded, WFMin, Zenon
<1>2. ASSUME NEW n \in S PROVE m =< n
  <2>1. ~(n < m)
    BY <1>1, Zenon DEF OpToRel
  <2> QED BY <2>1
<1> QED BY <1>2, Zenon DEF Min

(* A sequence of ?: it is "ok" when every result is, and else one of them.   *)
LEMMA FirstFailureValue ==
    ASSUME NEW results, Len(results) \in Nat
    PROVE  /\ FirstFailure(results) = "ok" <=> \A i \in 1..Len(results) : results[i] = "ok"
           /\ FirstFailure(results) # "ok" =>
                 \E i \in 1..Len(results) : FirstFailure(results) = results[i]
<1> DEFINE failed == {i \in 1..Len(results) : results[i] # "ok"}
<1>1. FirstFailure(results) = IF failed = {} THEN "ok" ELSE results[Min(failed)]
  BY DEF FirstFailure
<1>2. CASE failed = {}
  BY <1>1, <1>2 DEF FirstFailure
<1>3. CASE failed # {}
  <2>1. failed \in SUBSET Nat
    OBVIOUS
  <2>2. Min(failed) \in failed
    BY <1>3, <2>1, MinIsLeast
  <2>3. Min(failed) # 0 /\ Min(failed) \in 1..Len(results) /\ results[Min(failed)] # "ok"
    BY <2>2
  <2>4. FirstFailure(results) = results[Min(failed)]
    BY <1>1, <1>3, <2>3 DEF FirstFailure
  <2> QED BY <2>3, <2>4, Zenon
<1> QED BY <1>2, <1>3

(* Two checks in a row.                                                      *)
LEMMA TwoChecks ==
    ASSUME NEW a, NEW b
    PROVE  /\ FirstFailure(<<a, b>>) = "ok" <=> a = "ok" /\ b = "ok"
           /\ FirstFailure(<<a, b>>) \in {"ok", a, b}
<1> DEFINE t == <<a, b>>
<1>1. Len(t) = 2 /\ t[1] = a /\ t[2] = b
  OBVIOUS
<1> HIDE DEF t
<1>2. Len(t) \in Nat /\ 1..Len(t) = {1, 2}
  BY <1>1
<1>3. /\ FirstFailure(t) = "ok" <=> \A i \in 1..Len(t) : t[i] = "ok"
      /\ FirstFailure(t) # "ok" => \E i \in 1..Len(t) : FirstFailure(t) = t[i]
  BY <1>2, FirstFailureValue, Zenon
<1>4. FirstFailure(t) = "ok" <=> a = "ok" /\ b = "ok"
  BY <1>1, <1>2, <1>3, Zenon
<1>5. FirstFailure(t) \in {"ok", a, b}
  BY <1>1, <1>2, <1>3, Zenon
<1> QED BY <1>4, <1>5 DEF t

(* Three checks in a row.                                                    *)
LEMMA ThreeChecks ==
    ASSUME NEW a, NEW b, NEW c
    PROVE  /\ FirstFailure(<<a, b, c>>) = "ok" <=> a = "ok" /\ b = "ok" /\ c = "ok"
           /\ FirstFailure(<<a, b, c>>) \in {"ok", a, b, c}
<1> DEFINE t == <<a, b, c>>
<1>1. Len(t) = 3 /\ t[1] = a /\ t[2] = b /\ t[3] = c
  OBVIOUS
<1> HIDE DEF t
<1>2. Len(t) \in Nat /\ 1..Len(t) = {1, 2, 3}
  BY <1>1
<1>3. /\ FirstFailure(t) = "ok" <=> \A i \in 1..Len(t) : t[i] = "ok"
      /\ FirstFailure(t) # "ok" => \E i \in 1..Len(t) : FirstFailure(t) = t[i]
  BY <1>2, FirstFailureValue, Zenon
<1>4. FirstFailure(t) = "ok" <=> a = "ok" /\ b = "ok" /\ c = "ok"
  BY <1>1, <1>2, <1>3, Zenon
<1>5. FirstFailure(t) \in {"ok", a, b, c}
  BY <1>1, <1>2, <1>3, Zenon
<1> QED BY <1>4, <1>5 DEF t

(* Five checks in a row.                                                     *)
LEMMA FiveChecks ==
    ASSUME NEW a, NEW b, NEW c, NEW d, NEW e
    PROVE  /\ FirstFailure(<<a, b, c, d, e>>) = "ok" <=> a = "ok" /\ b = "ok" /\ c = "ok" /\ d = "ok" /\ e = "ok"
           /\ FirstFailure(<<a, b, c, d, e>>) \in {"ok", a, b, c, d, e}
<1> DEFINE t == <<a, b, c, d, e>>
<1>1. Len(t) = 5 /\ t[1] = a /\ t[2] = b /\ t[3] = c /\ t[4] = d /\ t[5] = e
  OBVIOUS
<1> HIDE DEF t
<1>2. Len(t) \in Nat /\ 1..Len(t) = {1, 2, 3, 4, 5}
  BY <1>1
<1>3. /\ FirstFailure(t) = "ok" <=> \A i \in 1..Len(t) : t[i] = "ok"
      /\ FirstFailure(t) # "ok" => \E i \in 1..Len(t) : FirstFailure(t) = t[i]
  BY <1>2, FirstFailureValue, Zenon
<1>4. FirstFailure(t) = "ok" <=> a = "ok" /\ b = "ok" /\ c = "ok" /\ d = "ok" /\ e = "ok"
  BY <1>1, <1>2, <1>3, Zenon
<1>5. FirstFailure(t) \in {"ok", a, b, c, d, e}
  BY <1>1, <1>2, <1>3, Zenon
<1> QED BY <1>4, <1>5 DEF t

-----------------------------------------------------------------------------
\* What a parser may return.
Outcome == InvalidReason \cup {"ok"}

(* A failed check has a reason other than "ok".                              *)
LEMMA CheckValue ==
    ASSUME NEW reason \in InvalidReason, NEW fails \in BOOLEAN
    PROVE  /\ Check(reason, fails) = "ok" <=> ~fails
           /\ Check(reason, fails) \in Outcome
  BY DEF Check, InvalidReason, Outcome

(* parse_max_attempts, parse_timeout and their like accept a missing integer *)
(* and one from 1 to the limit.                                              *)
LEMMA IntegerValue ==
    ASSUME NEW n \in Integer, NEW max \in Nat, NEW r1 \in InvalidReason, NEW r2 \in InvalidReason
    PROVE  /\ parse_integer(n, max, r1, r2) = "ok" <=> n = Absent \/ n \in 1..max
           /\ parse_integer(n, max, r1, r2) \in Outcome
<1> DEFINE a == Check(r1, n = NotInteger)
           b == Check(r2, n # Absent /\ n \notin 1..max)
<1>1. /\ a = "ok" <=> n # NotInteger
      /\ b = "ok" <=> n = Absent \/ n \in 1..max
      /\ a \in Outcome /\ b \in Outcome
  BY CheckValue, Zenon
<1>2. parse_integer(n, max, r1, r2) = FirstFailure(<<a, b>>)
  BY DEF parse_integer
<1> HIDE DEF a, b
<1>3. n \in 1..max => n # NotInteger
  BY DEF NotInteger
<1>4. Absent # NotInteger
  BY DEF Absent, NotInteger
<1> QED BY <1>1, <1>2, <1>3, <1>4, TwoChecks DEF Outcome

(* The constants of callbacks.rs are the ends of the documented ranges.      *)
LEMMA Limits ==
    /\ MAX_PER_CALLBACK_ATTEMPTS \in Nat /\ 1..MAX_PER_CALLBACK_ATTEMPTS = AttemptRange
    /\ MAX_HANDLER_TIMEOUT_SECS \in Nat /\ 1..MAX_HANDLER_TIMEOUT_SECS = TimeoutRange
    /\ MAX_EXTERNAL_TIMEOUT_SECS \in Nat /\ 1..MAX_EXTERNAL_TIMEOUT_SECS = WeekRange
    /\ MAX_COMPLETION_CYCLES_LIMIT \in Nat /\ 1..MAX_COMPLETION_CYCLES_LIMIT = CycleRange
    /\ MAX_BACKOFF_ELEMENT_SECS \in Nat /\ 1..MAX_BACKOFF_ELEMENT_SECS = WeekRange
<1>1. MAX_EXTERNAL_TIMEOUT_SECS = Week /\ MAX_BACKOFF_ELEMENT_SECS = Week /\ Week \in Nat
  BY SMT DEF MAX_EXTERNAL_TIMEOUT_SECS, MAX_BACKOFF_ELEMENT_SECS, Week
<1>2. /\ MAX_PER_CALLBACK_ATTEMPTS \in Nat /\ MAX_HANDLER_TIMEOUT_SECS \in Nat
      /\ MAX_COMPLETION_CYCLES_LIMIT \in Nat
  BY SMT DEF MAX_PER_CALLBACK_ATTEMPTS, MAX_HANDLER_TIMEOUT_SECS, MAX_COMPLETION_CYCLES_LIMIT
<1>3. 1..MAX_PER_CALLBACK_ATTEMPTS = AttemptRange
  BY DEF MAX_PER_CALLBACK_ATTEMPTS, AttemptRange
<1>4. 1..MAX_HANDLER_TIMEOUT_SECS = TimeoutRange
  BY DEF MAX_HANDLER_TIMEOUT_SECS, TimeoutRange
<1>5. 1..MAX_COMPLETION_CYCLES_LIMIT = CycleRange
  BY DEF MAX_COMPLETION_CYCLES_LIMIT, CycleRange
<1> QED BY <1>1, <1>2, <1>3, <1>4, <1>5, Zenon DEF WeekRange

(* The four integer fields, against the documented ranges.                   *)
LEMMA NumberFields ==
    ASSUME NEW n \in Integer
    PROVE  /\ parse_max_attempts(n) = "ok" <=> n \in {Absent} \cup AttemptRange
           /\ parse_timeout(n) = "ok" <=> n \in {Absent} \cup TimeoutRange
           /\ parse_external_timeout(n) = "ok" <=> n \in {Absent} \cup WeekRange
           /\ parse_max_completion_cycles(n) = "ok" <=> n \in {Absent} \cup CycleRange
           /\ parse_max_attempts(n) \in Outcome /\ parse_timeout(n) \in Outcome
           /\ parse_external_timeout(n) \in Outcome
           /\ parse_max_completion_cycles(n) \in Outcome
<1>1. /\ "max_attempts_not_integer" \in InvalidReason
      /\ "max_attempts_out_of_range" \in InvalidReason
      /\ "timeout_not_integer" \in InvalidReason
      /\ "timeout_out_of_range" \in InvalidReason
      /\ "external_timeout_not_integer" \in InvalidReason
      /\ "external_timeout_out_of_range" \in InvalidReason
      /\ "max_completion_cycles_not_integer" \in InvalidReason
      /\ "max_completion_cycles_out_of_range" \in InvalidReason
  BY DEF InvalidReason
<1>2. \A max \in Nat, r1 \in InvalidReason, r2 \in InvalidReason :
        /\ parse_integer(n, max, r1, r2) = "ok" <=> n \in {Absent} \cup 1..max
        /\ parse_integer(n, max, r1, r2) \in Outcome
  BY IntegerValue, Zenon
<1>3. /\ parse_max_attempts(n) = "ok" <=> n \in {Absent} \cup AttemptRange
      /\ parse_max_attempts(n) \in Outcome
  BY <1>1, <1>2, Limits, Zenon DEF parse_max_attempts
<1>4. /\ parse_timeout(n) = "ok" <=> n \in {Absent} \cup TimeoutRange
      /\ parse_timeout(n) \in Outcome
  BY <1>1, <1>2, Limits, Zenon DEF parse_timeout
<1>5. /\ parse_external_timeout(n) = "ok" <=> n \in {Absent} \cup WeekRange
      /\ parse_external_timeout(n) \in Outcome
  BY <1>1, <1>2, Limits, Zenon DEF parse_external_timeout
<1>6. /\ parse_max_completion_cycles(n) = "ok" <=> n \in {Absent} \cup CycleRange
      /\ parse_max_completion_cycles(n) \in Outcome
  BY <1>1, <1>2, Limits, Zenon DEF parse_max_completion_cycles
<1> QED BY <1>3, <1>4, <1>5, <1>6

(* validate_url accepts an address without userinfo, of an allowed scheme    *)
(* and host.                                                                 *)
LEMMA UrlValue ==
    ASSUME NEW url \in Url, NEW dc
    PROVE  /\ validate_url(url, dc) = "ok" <=>
                /\ url.is # "malformed" /\ ~url.userinfo
                /\ url.scheme = "https" \/ (url.scheme = "http" /\ dc.allow_insecure_urls)
                /\ url.host.kind # "none"
                /\ is_private_host(url.host) => dc.allow_private_ip_targets
           /\ validate_url(url, dc) \in Outcome
<1> DEFINE scheme == url.scheme = "https" \/ (url.scheme = "http" /\ dc.allow_insecure_urls)
           private == ~dc.allow_private_ip_targets /\ is_private_host(url.host)
           a == Check("url_malformed", url.is = "malformed")
           b == Check("url_has_userinfo", url.userinfo)
           c == Check("url_bad_scheme", ~scheme)
           d == Check("url_no_host", url.host.kind = "none")
           e == Check("url_private_host", private)
<1>1. url.userinfo \in BOOLEAN
  BY DEF Url
<1>2. /\ (a = "ok" <=> url.is # "malformed") /\ (b = "ok" <=> ~url.userinfo)
      /\ (c = "ok" <=> scheme) /\ (d = "ok" <=> url.host.kind # "none")
      /\ (e = "ok" <=> ~private)
  BY <1>1 DEF Check
<1>3. {a, b, c, d, e} \subseteq Outcome
  BY DEF Check, Outcome, InvalidReason
<1>4. validate_url(url, dc) = FirstFailure(<<a, b, c, d, e>>)
  BY DEF validate_url
<1> HIDE DEF a, b, c, d, e
<1>5. validate_url(url, dc) = "ok" <=>
        a = "ok" /\ b = "ok" /\ c = "ok" /\ d = "ok" /\ e = "ok"
  BY <1>4, FiveChecks
<1>6. validate_url(url, dc) \in Outcome
  <2>1. validate_url(url, dc) \in {"ok", a, b, c, d, e}
    BY <1>4, FiveChecks
  <2> QED BY <1>3, <2>1 DEF Outcome
<1> QED BY <1>2, <1>5, <1>6

\* A header parse_headers takes.
HeaderFine(list, i) ==
    /\ is_valid_header_name(list[i].bytes)
    /\ list[i].lower \notin RESERVED_HEADERS /\ ~list[i].outbox
    /\ \A j \in 1..(i - 1) : list[j].lower # list[i].lower
    /\ list[i].string /\ \A b \in list[i].value : ~((b < 32 /\ b # 9) \/ b >= 127)

(* parse_headers takes an object of fine headers.                            *)
LEMMA HeadersValue ==
    ASSUME NEW headers \in [is : {"absent", "object", "other"}, list : Seq(Header)]
    PROVE  /\ parse_headers(headers) = "ok" <=>
                /\ headers.is # "other"
                /\ \A i \in 1..Len(headers.list) : HeaderFine(headers.list, i)
           /\ parse_headers(headers) \in Outcome
<1> DEFINE list == headers.list
           results == [i \in 1..Len(list) |-> parse_header(list, i)]
           object == Check("headers_not_object", headers.is = "other")
<1>1. Len(list) \in Nat
  BY LenProperties, Zenon
<1>2. ASSUME NEW i \in 1..Len(list)
      PROVE  /\ parse_header(list, i) = "ok" <=> HeaderFine(list, i)
             /\ parse_header(list, i) \in Outcome
  <2> DEFINE h == list[i]
             a == Check("header_name_invalid", ~is_valid_header_name(h.bytes))
             b == Check("header_reserved", h.lower \in RESERVED_HEADERS \/ h.outbox)
             c == Check("header_duplicate", \E j \in 1..(i - 1) : list[j].lower = h.lower)
             d == Check("header_value_invalid", ~h.string)
             e == Check("header_value_invalid", \E x \in h.value : (x < 32 /\ x # 9) \/ x >= 127)
  <2>1. /\ (a = "ok" <=> is_valid_header_name(h.bytes))
        /\ (b = "ok" <=> h.lower \notin RESERVED_HEADERS /\ ~h.outbox)
        /\ (c = "ok" <=> \A j \in 1..(i - 1) : list[j].lower # h.lower)
        /\ (d = "ok" <=> h.string)
        /\ (e = "ok" <=> \A x \in h.value : ~((x < 32 /\ x # 9) \/ x >= 127))
    BY Zenon DEF Check
  <2>2. {a, b, c, d, e} \subseteq Outcome
    BY DEF Check, Outcome, InvalidReason
  <2>3. parse_header(list, i) = FirstFailure(<<a, b, c, d, e>>)
    BY DEF parse_header
  <2> HIDE DEF a, b, c, d, e
  <2>4. parse_header(list, i) = "ok" <=> a = "ok" /\ b = "ok" /\ c = "ok" /\ d = "ok" /\ e = "ok"
    BY <2>3, FiveChecks
  <2>5. parse_header(list, i) \in Outcome
    BY <2>2, <2>3, FiveChecks DEF Outcome
  <2> QED BY <2>1, <2>4, <2>5 DEF HeaderFine
<1>3. Len(results) = Len(list) /\ \A i \in 1..Len(list) : results[i] = parse_header(list, i)
  BY <1>1
<1>4. parse_headers(headers) = FirstFailure(<<object, FirstFailure(results)>>)
  BY DEF parse_headers
<1> HIDE DEF results, list
<1>5. /\ FirstFailure(results) = "ok" <=> \A i \in 1..Len(list) : HeaderFine(list, i)
      /\ FirstFailure(results) \in Outcome
  BY <1>1, <1>2, <1>3, FirstFailureValue DEF Outcome
<1>6. (object = "ok" <=> headers.is # "other") /\ object \in Outcome
  BY DEF Check, Outcome, InvalidReason
<1> HIDE DEF object
<1> QED BY <1>4, <1>5, <1>6, TwoChecks DEF Outcome, list

(* parse_backoff takes a missing schedule and an array of one or more delays *)
(* in range.                                                                 *)
LEMMA BackoffValue ==
    ASSUME NEW backoff \in [is : {"absent", "array", "other"}, list : Seq(Int)]
    PROVE  /\ parse_backoff(backoff) = "ok" <=>
                /\ backoff.is # "other"
                /\ backoff.is = "array" => Len(backoff.list) > 0
                /\ \A i \in 1..Len(backoff.list) : backoff.list[i] \in WeekRange
           /\ parse_backoff(backoff) \in Outcome
<1> DEFINE list == backoff.list
           results == [i \in 1..Len(list) |-> parse_backoff_element(list[i])]
           a == Check("backoff_not_array", backoff.is = "other")
           b == Check("backoff_empty", backoff.is = "array" /\ list = << >>)
<1>1. list \in Seq(Int) /\ Len(list) \in Nat /\ (list = << >> <=> Len(list) = 0)
  <2>1. list \in Seq(Int)
    OBVIOUS
  <2> HIDE DEF list
  <2> QED BY <2>1, LenProperties, EmptySeq
<1>2. ASSUME NEW n \in Int
      PROVE  /\ parse_backoff_element(n) = "ok" <=> n \in WeekRange
             /\ parse_backoff_element(n) \in Outcome
  <2> DEFINE c == Check("backoff_element_invalid", n < 1)
             d == Check("backoff_element_out_of_range", n > MAX_BACKOFF_ELEMENT_SECS)
  <2>1. c = "ok" /\ d = "ok" <=> n \in 1..MAX_BACKOFF_ELEMENT_SECS
    BY Limits DEF Check
  <2>2. c = "ok" /\ d = "ok" <=> n \in WeekRange
    BY <2>1, Limits, Zenon
  <2>3. c \in Outcome /\ d \in Outcome
    BY DEF Check, Outcome, InvalidReason
  <2>4. parse_backoff_element(n) = FirstFailure(<<c, d>>)
    BY DEF parse_backoff_element
  <2> HIDE DEF c, d
  <2> QED BY <2>2, <2>3, <2>4, TwoChecks DEF Outcome
<1>3. /\ Len(results) = Len(list)
      /\ \A i \in 1..Len(list) : list[i] \in Int /\ results[i] = parse_backoff_element(list[i])
  <2> HIDE DEF list
  <2> QED BY <1>1
<1>4. parse_backoff(backoff) = FirstFailure(<<a, b, FirstFailure(results)>>)
  BY DEF parse_backoff
<1>5. (a = "ok" <=> backoff.is # "other") /\ (b = "ok" <=> ~(backoff.is = "array" /\ list = << >>))
  BY DEF Check
<1>6. a \in Outcome /\ b \in Outcome
  BY DEF Check, Outcome, InvalidReason
<1> HIDE DEF results, list, a, b
<1>7. /\ FirstFailure(results) = "ok" <=> \A i \in 1..Len(list) : list[i] \in WeekRange
      /\ FirstFailure(results) \in Outcome
  <2>1. /\ FirstFailure(results) = "ok" <=> \A i \in 1..Len(list) : results[i] = "ok"
        /\ FirstFailure(results) # "ok" => \E i \in 1..Len(list) : FirstFailure(results) = results[i]
    <3>1. Len(results) \in Nat
      BY <1>1, <1>3
    <3> QED BY <1>3, <3>1, FirstFailureValue, Zenon
  <2>2. \A i \in 1..Len(list) : /\ results[i] = "ok" <=> list[i] \in WeekRange
                                /\ results[i] \in Outcome
    BY <1>2, <1>3, Zenon
  <2> QED BY <2>1, <2>2 DEF Outcome
<1>8. /\ parse_backoff(backoff) = "ok" <=> a = "ok" /\ b = "ok" /\ FirstFailure(results) = "ok"
      /\ parse_backoff(backoff) \in Outcome
  BY <1>4, <1>6, <1>7, ThreeChecks DEF Outcome
<1> QED BY <1>1, <1>5, <1>7, <1>8 DEF list

\* The fields parse_one_callback looks at, each on its own.
FieldsFine(e, dc) ==
    /\ e.object /\ e.name \in {"mail", "audit", "sms"}
    /\ e.url.is # "absent" /\ e.url.is # "nonstring"
    /\ validate_url(e.url, dc) = "ok"
    /\ parse_mode(e.mode) \in {"managed", "external"}
    /\ e.signing_key_id = Absent => dc.allow_unsigned_callbacks
    /\ parse_headers(e.headers) = "ok"
    /\ parse_max_attempts(e.max_attempts) = "ok"
    /\ parse_backoff(e.backoff) = "ok"
    /\ parse_timeout(e.timeout) = "ok"
    /\ parse_external_timeout(e.external_timeout) = "ok"
    /\ parse_max_completion_cycles(e.max_completion_cycles) = "ok"
    /\ parse_mode(e.mode) = "external" => e.external_timeout # Absent

(* parse_one_callback accepts an element when every field passes on its own, *)
(* and names one of the documented reasons otherwise.                        *)
LEMMA ReasonValue ==
    ASSUME NEW e \in Element, NEW dc
    PROVE  /\ Reason(e, dc) = "ok" <=> FieldsFine(e, dc)
           /\ Reason(e, dc) \in Outcome
<1> DEFINE r1 == Check("not_an_object", ~e.object)
           r2 == Check("missing_name", e.name = "absent")
           r3 == Check("name_not_string", e.name = "nonstring")
           r4 == Check("name_invalid", ~is_valid_callback_name(e.name))
           r5 == Check("missing_url", e.url.is = "absent")
           r6 == Check("url_not_string", e.url.is = "nonstring")
           r7 == validate_url(e.url, dc)
           r8 == Check("invalid_mode", parse_mode(e.mode) \notin {"managed", "external"})
           r9 == Check("missing_signing_key_id",
                       ~dc.allow_unsigned_callbacks /\ e.signing_key_id = Absent)
           r10 == parse_headers(e.headers)
           r11 == parse_max_attempts(e.max_attempts)
           r12 == parse_backoff(e.backoff)
           r13 == parse_timeout(e.timeout)
           r14 == parse_external_timeout(e.external_timeout)
           r15 == parse_max_completion_cycles(e.max_completion_cycles)
           r16 == Check("external_missing_timeout",
                        parse_mode(e.mode) = "external" /\ e.external_timeout = Absent)
           t == <<r1, r2, r3, r4, r5, r6, r7, r8, r9, r10, r11, r12, r13, r14, r15, r16>>
<1>1. /\ e.object \in BOOLEAN /\ e.url \in Url
      /\ e.headers \in [is : {"absent", "object", "other"}, list : Seq(Header)]
      /\ e.backoff \in [is : {"absent", "array", "other"}, list : Seq(Int)]
      /\ {e.max_attempts, e.timeout, e.external_timeout, e.max_completion_cycles} \subseteq Integer
  BY Zenon DEF Element
<1>2. /\ (r1 = "ok" <=> e.object)
      /\ (r2 = "ok" /\ r3 = "ok" /\ r4 = "ok" <=> e.name \in {"mail", "audit", "sms"})
      /\ (r5 = "ok" <=> e.url.is # "absent") /\ (r6 = "ok" <=> e.url.is # "nonstring")
  BY <1>1 DEF Check, is_valid_callback_name
<1>3. /\ (r8 = "ok" <=> parse_mode(e.mode) \in {"managed", "external"})
      /\ (r9 = "ok" <=> (e.signing_key_id = Absent => dc.allow_unsigned_callbacks))
      /\ (r16 = "ok" <=> (parse_mode(e.mode) = "external" => e.external_timeout # Absent))
  BY DEF Check
<1>4. {r1, r2, r3, r4, r5, r6, r8, r9, r16} \subseteq Outcome
  BY DEF Check, Outcome, InvalidReason
<1>5. {r7, r10, r12} \subseteq Outcome
  BY <1>1, UrlValue, HeadersValue, BackoffValue
<1>6. {r11, r13, r14, r15} \subseteq Outcome
  BY <1>1, NumberFields, Zenon
<1>7. Reason(e, dc) = FirstFailure(t)
  BY DEF Reason
<1> HIDE DEF r1, r2, r3, r4, r5, r6, r7, r8, r9, r10, r11, r12, r13, r14, r15, r16
<1>8. /\ Len(t) = 16
      /\ t[1] = r1 /\ t[2] = r2 /\ t[3] = r3 /\ t[4] = r4 /\ t[5] = r5 /\ t[6] = r6
      /\ t[7] = r7 /\ t[8] = r8 /\ t[9] = r9 /\ t[10] = r10 /\ t[11] = r11 /\ t[12] = r12
      /\ t[13] = r13 /\ t[14] = r14 /\ t[15] = r15 /\ t[16] = r16
  OBVIOUS
<1> HIDE DEF t
<1>9. Len(t) \in Nat /\ 1..Len(t) = {1, 2, 3, 4, 5, 6, 7, 8, 9, 10, 11, 12, 13, 14, 15, 16}
  BY <1>8
<1>10. /\ FirstFailure(t) = "ok" <=> \A i \in 1..Len(t) : t[i] = "ok"
       /\ FirstFailure(t) # "ok" => \E i \in 1..Len(t) : FirstFailure(t) = t[i]
  BY <1>9, FirstFailureValue, Zenon
<1>11. FirstFailure(t) = "ok" <=>
         /\ r1 = "ok" /\ r2 = "ok" /\ r3 = "ok" /\ r4 = "ok" /\ r5 = "ok" /\ r6 = "ok"
         /\ r7 = "ok" /\ r8 = "ok" /\ r9 = "ok" /\ r10 = "ok" /\ r11 = "ok" /\ r12 = "ok"
         /\ r13 = "ok" /\ r14 = "ok" /\ r15 = "ok" /\ r16 = "ok"
  BY <1>8, <1>9, <1>10, Zenon
<1>12. \A i \in 1..Len(t) : t[i] \in Outcome
  BY <1>4, <1>5, <1>6, <1>8, <1>9, Zenon
<1>13. Reason(e, dc) \in Outcome
  BY <1>7, <1>10, <1>12 DEF Outcome
<1>14. Reason(e, dc) = "ok" <=> FieldsFine(e, dc)
  BY <1>2, <1>3, <1>7, <1>11, SMTT(20) DEF FieldsFine, r7, r10, r11, r12, r13, r14, r15
<1> QED BY <1>13, <1>14

-----------------------------------------------------------------------------
(* is_loopback, is_private, is_link_local and is_unspecified cover the local *)
(* networks.                                                                 *)
LEMMA Ipv4Value ==
    ASSUME NEW ip \in [1..4 -> 0..255]
    PROVE  is_private_ipv4(ip) <=> LocalIpv4(ip)
<1>1. ip[1] \in 0..255 /\ ip[2] \in 0..255
  OBVIOUS
<1>2. (\A i \in 1..4 : ip[i] = 0) <=> ip = [i \in 1..4 |-> 0]
  OBVIOUS
<1>3. (\E n \in LocalNetworks : ip[1] \in n[1] /\ ip[2] \in n[2]) <=>
        \/ ip[1] \in 10..10 /\ ip[2] \in 0..255
        \/ ip[1] \in 127..127 /\ ip[2] \in 0..255
        \/ ip[1] \in 169..169 /\ ip[2] \in 254..254
        \/ ip[1] \in 172..172 /\ ip[2] \in 16..31
        \/ ip[1] \in 192..192 /\ ip[2] \in 168..168
  BY SMTT(20) DEF LocalNetworks
<1> QED BY <1>1, <1>2, <1>3 DEF is_private_ipv4, LocalIpv4

(* With to_ipv4, the IPv6 checks cover those networks in mapped and in       *)
(* compatible addresses as well.                                             *)
LEMMA Ipv6Value ==
    ASSUME NEW ip \in [1..16 -> 0..255]
    PROVE  is_private_ipv6(ip) <=> LocalIpv6(ip)
<1>1. ip[1] \in 0..255 /\ ip[2] \in 0..255 /\ ip[11] \in 0..255 /\ ip[12] \in 0..255
  BY SMTT(20)
<1>2. to_ipv4(ip) \in [1..4 -> 0..255]
  BY DEF to_ipv4
<1>3. is_private_ipv4(to_ipv4(ip)) <=> LocalIpv4([i \in 1..4 |-> ip[12 + i]])
  BY <1>2, Ipv4Value, ZenonT(30) DEF to_ipv4
<1>4. ip[1] \div 2 = 126 <=> ip[1] \in {252, 253}
  BY <1>1, SMTT(20)
<1>5. ip[2] \div 64 = 2 <=> ip[2] \in 128..191
  BY <1>1
<1>6. (\A i \in 1..15 : ip[i] = 0) /\ ip[16] \in {0, 1} <=>
        \E last \in {0, 1} : ip = [i \in 1..16 |-> IF i = 16 THEN last ELSE 0]
  <2>1. ASSUME NEW last
        PROVE  (\A i \in 1..15 : ip[i] = 0) /\ ip[16] = last <=>
                 ip = [i \in 1..16 |-> IF i = 16 THEN last ELSE 0]
    BY SMTT(20)
  <2> QED BY <2>1, Zenon
<1>7. ASSUME NEW fill
      PROVE  (\A i \in 1..12 : ip[i] = IF i > 10 THEN fill ELSE 0) <=>
               (\A i \in 1..10 : ip[i] = 0) /\ ip[11] = fill /\ ip[12] = fill
  BY SMTT(20)
<1>8. HoldsIpv4(ip) <=> \E fill \in {0, 255} : \A i \in 1..12 : ip[i] = IF i > 10 THEN fill ELSE 0
  BY <1>7 DEF HoldsIpv4
<1>9. is_private_ipv6_native(ip) <=>
        \/ ip[1] \in {252, 253}
        \/ ip[1] = 254 /\ ip[2] \in 128..191
        \/ \E last \in {0, 1} : ip = [i \in 1..16 |-> IF i = 16 THEN last ELSE 0]
  BY <1>4, <1>5, <1>6, ZenonT(30) DEF is_private_ipv6_native
<1> DEFINE Filled(fill) == \A i \in 1..12 : ip[i] = IF i > 10 THEN fill ELSE 0
           Inner == [i \in 1..4 |-> ip[12 + i]]
           Native == is_private_ipv6_native(ip)
<1>10. LocalIpv6(ip) <=> Native \/ \E fill \in {0, 255} : Filled(fill) /\ LocalIpv4(Inner)
  <2> HIDE DEF Filled, Inner
  <2> QED BY <1>9, ZenonT(30) DEF LocalIpv6, Filled, Inner
<1>11. is_private_ipv6(ip) <=>
         \/ (\E fill \in {0, 255} : Filled(fill)) /\ LocalIpv4(Inner)
         \/ Native
  BY <1>3, <1>8, Zenon DEF is_private_ipv6
<1> HIDE DEF Filled, Inner, Native
<1> QED BY <1>10, <1>11, Zenon

(* is_blocked_domain, with every trailing dot trimmed, refuses the names of  *)
(* the local network.                                                        *)
LEMMA DomainValue ==
    ASSUME NEW labels, Len(labels) \in Nat
    PROVE  is_blocked_domain(labels) <=> LocalName(labels)
<1> DEFINE count == Len(labels)
           Empty(i) == labels[i] = ""
           Unnamed(n) == \A i \in (n + 1)..count : Empty(i)
           Ends == {n \in 0..count : Unnamed(n)}
           m == Min(Ends)
           Named == /\ m > 0
                    /\ \/ labels[m] = "localhost"
                       \/ m > 1 /\ labels[m] \in {"local", "internal", "lan"}
                       \/ m > 2 /\ labels[m] = "arpa" /\ labels[m - 1] = "home"
<1>1. count \in Nat
  OBVIOUS
<1>2. m = Trimmed(labels)
  BY DEF Trimmed
<1>3. LocalName(labels) <=>
        \E n \in 1..count :
           /\ ~Empty(n) /\ Unnamed(n)
           /\ \/ labels[n] = "localhost"
              \/ n > 1 /\ labels[n] \in {"local", "internal", "lan"}
              \/ n > 2 /\ labels[n] = "arpa" /\ labels[n - 1] = "home"
  BY Zenon DEF LocalName
<1> HIDE DEF count, Empty
<1>4. Unnamed(count)
  BY <1>1
<1>5. ASSUME NEW n \in Nat, n # 0, n =< count, Unnamed(n), Empty(n) PROVE Unnamed(n - 1)
  <2> SUFFICES ASSUME NEW i \in ((n - 1) + 1)..count PROVE Empty(i)
    OBVIOUS
  <2>1. i = n \/ i \in (n + 1)..count
    BY <1>1, <1>5
  <2> QED BY <1>5, <2>1, Zenon
<1>6. ASSUME NEW n \in Nat, NEW k \in 1..count, n < k, Unnamed(n) PROVE Empty(k)
  <2>1. k \in (n + 1)..count
    BY <1>1, <1>6
  <2> QED BY <1>6, <2>1, Zenon
<1> HIDE DEF Unnamed
<1>7. m \in Ends /\ \A n \in Ends : m =< n
  <2>1. Ends # {}
    <3>1. count \in 0..count
      BY <1>1
    <3> QED BY <1>4, <3>1, Zenon
  <2>2. Ends \subseteq 0..count
    BY Zenon
  <2>3. 0..count \subseteq Nat
    BY <1>1
  <2>4. Ends \in SUBSET Nat
    BY <2>2, <2>3, Zenon
  <2> HIDE DEF Ends
  <2> QED BY <2>1, <2>4, MinIsLeast, Zenon
<1> HIDE DEF m
<1>8. m \in Nat /\ m =< count /\ Unnamed(m)
  <2>1. m \in 0..count /\ Unnamed(m)
    BY <1>7, Zenon
  <2> QED BY <1>1, <2>1
<1>9. m # 0 => ~Empty(m)
  <2> SUFFICES ASSUME m # 0, Empty(m) PROVE FALSE
    OBVIOUS
  <2>1. Unnamed(m - 1)
    BY <1>5, <1>8, Zenon
  <2>2. m - 1 \in 0..count
    BY <1>1, <1>8
  <2>3. m =< m - 1
    BY <1>7, <2>1, <2>2, Zenon
  <2> QED BY <1>8, <2>3
<1>10. ASSUME NEW n \in 1..count, ~Empty(n), Unnamed(n) PROVE n = m
  <2>1. n \in 0..count /\ n \in Nat
    BY <1>1
  <2>2. m =< n
    BY <1>7, <1>10, <2>1, Zenon
  <2>3. ~(m < n)
    BY <1>6, <1>8, <1>10, Zenon
  <2> QED BY <1>8, <2>1, <2>2, <2>3
<1>11. LocalName(labels) <=> Named
  <2>1. ASSUME LocalName(labels) PROVE Named
    <3>1. PICK n \in 1..count :
             /\ ~Empty(n) /\ Unnamed(n)
             /\ \/ labels[n] = "localhost"
                \/ n > 1 /\ labels[n] \in {"local", "internal", "lan"}
                \/ n > 2 /\ labels[n] = "arpa" /\ labels[n - 1] = "home"
      BY <1>3, <2>1, Zenon
    <3>2. n = m
      BY <1>10, <3>1, Zenon
    <3>3. n > 0
      BY <1>1
    <3> QED BY <3>1, <3>2, <3>3, Zenon
  <2>2. ASSUME Named PROVE LocalName(labels)
    <3>1. m \in 1..count /\ m # 0
      BY <1>1, <1>8, <2>2
    <3> QED BY <1>3, <1>8, <1>9, <2>2, <3>1, Zenon
  <2> QED BY <2>1, <2>2, Zenon
<1>12. ASSUME NEW x PROVE ends_with(labels, m, <<x>>) <=> m > 1 /\ labels[m] = x
  <2> DEFINE s == <<x>>
  <2>1. Len(s) = 1 /\ s[1] = x
    OBVIOUS
  <2> HIDE DEF s
  <2>2. 1..Len(s) = {1} /\ (m - Len(s)) + 1 = m
    BY <1>8, <2>1
  <2>3. ends_with(labels, m, s) <=> m > 1 /\ labels[m] = x
    BY <2>1, <2>2, Zenon DEF ends_with
  <2> QED BY <2>3 DEF s
<1>13. ends_with(labels, m, <<"home", "arpa">>) <=>
         m > 2 /\ labels[m] = "arpa" /\ labels[m - 1] = "home"
  <2> DEFINE s == <<"home", "arpa">>
  <2>1. Len(s) = 2 /\ s[1] = "home" /\ s[2] = "arpa"
    OBVIOUS
  <2> HIDE DEF s
  <2>2. 1..Len(s) = {1, 2} /\ (m - Len(s)) + 1 = m - 1 /\ (m - Len(s)) + 2 = m
    BY <1>8, <2>1
  <2>3. ends_with(labels, m, s) <=> m > 2 /\ labels[m] = "arpa" /\ labels[m - 1] = "home"
    BY <2>1, <2>2, Zenon DEF ends_with
  <2> QED BY <2>3 DEF s
<1>14. is_blocked_domain(labels) <=>
         \/ m = 1 /\ labels[m] = "localhost"
         \/ ends_with(labels, m, <<"local">>) \/ ends_with(labels, m, <<"localhost">>)
         \/ ends_with(labels, m, <<"internal">>) \/ ends_with(labels, m, <<"lan">>)
         \/ ends_with(labels, m, <<"home", "arpa">>)
  BY <1>2, Zenon DEF is_blocked_domain
<1>15. m = 1 \/ m > 1 <=> m > 0
  BY <1>8
<1>16. m > 2 => m > 0
  BY <1>8
<1>17. /\ labels[m] = "localhost" <=> labels[m] \in {"localhost"}
       /\ labels[m] \in {"local", "internal", "lan"} <=>
            labels[m] = "local" \/ labels[m] = "internal" \/ labels[m] = "lan"
  BY Zenon
<1>18. /\ ends_with(labels, m, <<"local">>) <=> m > 1 /\ labels[m] = "local"
       /\ ends_with(labels, m, <<"localhost">>) <=> m > 1 /\ labels[m] = "localhost"
       /\ ends_with(labels, m, <<"internal">>) <=> m > 1 /\ labels[m] = "internal"
       /\ ends_with(labels, m, <<"lan">>) <=> m > 1 /\ labels[m] = "lan"
  BY <1>12, Zenon
<1>19. is_blocked_domain(labels) <=>
         \/ m > 0 /\ labels[m] = "localhost"
         \/ m > 1 /\ (labels[m] = "local" \/ labels[m] = "internal" \/ labels[m] = "lan")
         \/ m > 2 /\ labels[m] = "arpa" /\ labels[m - 1] = "home"
  <2> DEFINE One == m = 1
             Two == m > 1
             Three == m > 2
             Some == m > 0
  <2>1. /\ Some <=> One \/ Two
    BY <1>15
  <2> HIDE DEF One, Two, Three, Some
  <2>2. is_blocked_domain(labels) <=>
           \/ One /\ labels[m] = "localhost"
           \/ Two /\ labels[m] = "local"
           \/ Two /\ labels[m] = "localhost"
           \/ Two /\ labels[m] = "internal"
           \/ Two /\ labels[m] = "lan"
           \/ Three /\ labels[m] = "arpa" /\ labels[m - 1] = "home"
    BY <1>13, <1>14, <1>18, Zenon DEF One, Two, Three
  <2>3. is_blocked_domain(labels) <=>
           \/ Some /\ labels[m] = "localhost"
           \/ Two /\ (labels[m] = "local" \/ labels[m] = "internal" \/ labels[m] = "lan")
           \/ Three /\ labels[m] = "arpa" /\ labels[m - 1] = "home"
    BY <2>1, <2>2, Zenon
  <2> QED BY <2>3 DEF Two, Three, Some
<1> QED BY <1>11, <1>15, <1>16, <1>17, <1>19, Zenon

(* is_private_host refuses the local addresses and names.                    *)
LEMMA HostValue ==
    ASSUME NEW host \in Host
    PROVE  is_private_host(host) <=> Local(host)
<1>1. /\ host.v4 \in [1..4 -> 0..255] /\ host.v6 \in [1..16 -> 0..255]
      /\ Len(host.labels) \in Nat
  <2>1. host.labels \in Seq(STRING)
    BY Zenon DEF Host
  <2>2. Len(host.labels) \in Nat
    BY <2>1, LenProperties, Zenon
  <2> QED BY <2>2, Zenon DEF Host
<1> QED BY <1>1, Ipv4Value, Ipv6Value, DomainValue, Zenon DEF is_private_host, Local

\* A header that is well-formed on its own.
Sound(h) == Token(h.bytes) /\ Settable(h) /\ h.string /\ FieldValue(h.value)

(* The bytes of is_valid_header_name are those of a token, and what is left  *)
(* after parse_headers' exclusions are a field value's; RESERVED_HEADERS are *)
(* the documented and the connection headers but for User-Agent.             *)
LEMMA HeaderValue ==
    ASSUME NEW h \in Header
    PROVE  /\ is_valid_header_name(h.bytes) <=> Token(h.bytes)
           /\ (\A b \in h.value : ~((b < 32 /\ b # 9) \/ b >= 127)) <=> FieldValue(h.value)
           /\ h.lower \notin RESERVED_HEADERS /\ ~h.outbox <=> Settable(h)
<1>1. h.bytes \in SUBSET (0..255) /\ h.value \in SUBSET (0..255)
  BY Zenon DEF Header
<1>2. \A b \in 0..255 : b \in Tchar <=> b \in (33..126) \ Delimiters
  BY SMTT(20) DEF Tchar, Delimiters
<1>3. \A b \in 0..255 : ~((b < 32 /\ b # 9) \/ b >= 127) <=> b \in {9} \cup 32..126
  OBVIOUS
<1>4. is_valid_header_name(h.bytes) <=> Token(h.bytes)
  <2> DEFINE Byte == 0..255
             Visible == (33..126) \ Delimiters
  <2>1. h.bytes \subseteq Byte /\ \A b \in Byte : b \in Tchar <=> b \in Visible
    BY <1>1, <1>2
  <2>2. is_valid_header_name(h.bytes) <=> h.bytes # {} /\ \A b \in h.bytes : b \in Tchar
    BY DEF is_valid_header_name
  <2>3. Token(h.bytes) <=> h.bytes # {} /\ \A b \in h.bytes : b \in Visible
    BY DEF Token
  <2> HIDE DEF Byte, Visible
  <2> QED BY <2>1, <2>2, <2>3
<1>5. (\A b \in h.value : ~((b < 32 /\ b # 9) \/ b >= 127)) <=> FieldValue(h.value)
  <2> DEFINE Byte == 0..255
             Allowed == {9} \cup 32..126
             Fine(b) == ~((b < 32 /\ b # 9) \/ b >= 127)
  <2>1. h.value \subseteq Byte /\ \A b \in Byte : Fine(b) <=> b \in Allowed
    BY <1>1, <1>3
  <2>2. FieldValue(h.value) <=> \A b \in h.value : b \in Allowed
    BY DEF FieldValue
  <2> HIDE DEF Byte, Allowed, Fine
  <2>3. (\A b \in h.value : Fine(b)) <=> FieldValue(h.value)
    BY <2>1, <2>2
  <2> QED BY <2>3 DEF Fine
<1>6. RESERVED_HEADERS = (DocumentedHeaders \ {"user-agent"}) \cup ConnectionHeaders
  BY SMTT(20) DEF RESERVED_HEADERS, DocumentedHeaders, ConnectionHeaders
<1>7. h.lower \notin RESERVED_HEADERS /\ ~h.outbox <=> Settable(h)
  BY <1>6, Zenon DEF Settable
<1> QED BY <1>4, <1>5, <1>7

(* Every header is fine when each is sound and no two names agree.           *)
LEMMA HeadersFine ==
    ASSUME NEW list \in Seq(Header)
    PROVE  (\A i \in 1..Len(list) : HeaderFine(list, i)) <=>
             /\ \A h \in Range(list) : Sound(h)
             /\ IsInjective([i \in DOMAIN list |-> list[i].lower])
<1> DEFINE n == Len(list)
           Unlike(i) == \A j \in 1..(i - 1) : list[j].lower # list[i].lower
<1>1. n \in Nat /\ DOMAIN list = 1..n
  BY LenProperties, Zenon
<1>2. \A i \in 1..n : list[i] \in Header
  OBVIOUS
<1>3. \A i \in 1..n : HeaderFine(list, i) <=> Sound(list[i]) /\ Unlike(i)
  BY <1>2, HeaderValue, Zenon DEF HeaderFine, Sound
<1> HIDE DEF n
<1>4. (\A i \in 1..n : Sound(list[i])) <=> \A h \in Range(list) : Sound(h)
  <2>1. \A i \in 1..n : list[i] \in Range(list)
    BY <1>1 DEF Range
  <2>2. \A h \in Range(list) : \E i \in 1..n : h = list[i]
    BY <1>1 DEF Range
  <2> QED BY <2>1, <2>2, Zenon
<1>5. (\A i \in 1..n : Unlike(i)) <=> \A i, j \in 1..n : list[i].lower = list[j].lower => i = j
  <2>1. ASSUME \A i \in 1..n : Unlike(i), NEW i \in 1..n, NEW j \in 1..n,
               list[i].lower = list[j].lower, i # j
        PROVE  FALSE
    <3>1. i \in 1..(j - 1) \/ j \in 1..(i - 1)
      BY <1>1, <2>1
    <3> QED BY <2>1, <3>1
  <2>2. ASSUME \A i, j \in 1..n : list[i].lower = list[j].lower => i = j, NEW i \in 1..n,
               NEW j \in 1..(i - 1)
        PROVE  list[j].lower # list[i].lower
    <3>1. j \in 1..n /\ i # j
      BY <1>1
    <3> QED BY <2>2, <3>1
  <2> QED BY <2>1, <2>2, Zenon
<1>6. IsInjective([i \in DOMAIN list |-> list[i].lower]) <=>
        \A i, j \in 1..n : list[i].lower = list[j].lower => i = j
  BY <1>1, Zenon DEF IsInjective
<1>7. (\A i \in 1..n : HeaderFine(list, i)) <=>
        (\A i \in 1..n : Sound(list[i])) /\ (\A i \in 1..n : Unlike(i))
  BY <1>3, Zenon
<1> QED BY <1>4, <1>5, <1>6, <1>7, Zenon DEF n

(* parse_one_callback accepts exactly the well-formed callbacks.             *)
LEMMA AcceptedIsWellFormed ==
    ASSUME NEW e \in Element, NEW dc
    PROVE  Reason(e, dc) = "ok" <=> WellFormed(e, dc)
<1>1. /\ e.object \in BOOLEAN /\ e.url \in Url
      /\ e.headers \in [is : {"absent", "object", "other"}, list : Seq(Header)]
      /\ e.backoff \in [is : {"absent", "array", "other"}, list : Seq(Int)]
      /\ e.max_attempts \in Integer /\ e.timeout \in Integer
      /\ e.external_timeout \in Integer /\ e.max_completion_cycles \in Integer
  BY Zenon DEF Element
<1>2. e.url.is \notin {"absent", "nonstring"} /\ validate_url(e.url, dc) = "ok" <=>
        /\ e.url.is = "url" /\ ~e.url.userinfo
        /\ e.url.scheme \in {"https"} \cup (IF dc.allow_insecure_urls THEN {"http"} ELSE {})
        /\ e.url.host.kind # "none" /\ (dc.allow_private_ip_targets \/ ~Local(e.url.host))
  <2>1. e.url.is \in {"absent", "nonstring", "malformed", "url"}
    BY <1>1 DEF Url
  <2>2. Local(e.url.host) <=> is_private_host(e.url.host)
    <3>1. e.url.host \in Host
      BY <1>1, Zenon DEF Url
    <3> QED BY <3>1, HostValue, Zenon
  <2> QED BY <1>1, <2>1, <2>2, UrlValue
<1>3. parse_headers(e.headers) = "ok" <=>
        /\ e.headers.is \in {"absent", "object"}
        /\ \A h \in Range(e.headers.list) : Sound(h)
        /\ IsInjective([i \in DOMAIN e.headers.list |-> e.headers.list[i].lower])
  <2>1. e.headers.is \in {"absent", "object", "other"} /\ e.headers.list \in Seq(Header)
    BY <1>1, Zenon
  <2>2. parse_headers(e.headers) = "ok" <=>
          e.headers.is # "other" /\ \A i \in 1..Len(e.headers.list) : HeaderFine(e.headers.list, i)
    BY <1>1, HeadersValue, Zenon
  <2>3. (\A i \in 1..Len(e.headers.list) : HeaderFine(e.headers.list, i)) <=>
          /\ \A h \in Range(e.headers.list) : Sound(h)
          /\ IsInjective([i \in DOMAIN e.headers.list |-> e.headers.list[i].lower])
    BY <2>1, HeadersFine, Zenon
  <2>4. e.headers.is # "other" <=> e.headers.is \in {"absent", "object"}
    BY <2>1
  <2> QED BY <2>2, <2>3, <2>4, Zenon
<1>4. parse_backoff(e.backoff) = "ok" <=>
        /\ e.backoff.is = "absent" \/ (e.backoff.is = "array" /\ Len(e.backoff.list) > 0)
        /\ Range(e.backoff.list) \subseteq WeekRange
  <2>1. e.backoff.is \in {"absent", "array", "other"} /\ e.backoff.list \in Seq(Int)
    BY <1>1, Zenon
  <2>2. DOMAIN e.backoff.list = 1..Len(e.backoff.list)
    BY <2>1, LenProperties, Zenon
  <2>3. Range(e.backoff.list) \subseteq WeekRange <=>
          \A i \in 1..Len(e.backoff.list) : e.backoff.list[i] \in WeekRange
    BY <2>2, Zenon DEF Range
  <2>4. parse_backoff(e.backoff) = "ok" <=>
          /\ e.backoff.is # "other"
          /\ e.backoff.is = "array" => Len(e.backoff.list) > 0
          /\ \A i \in 1..Len(e.backoff.list) : e.backoff.list[i] \in WeekRange
    BY <1>1, BackoffValue, Zenon
  <2> QED BY <2>1, <2>3, <2>4, Zenon
<1>5. /\ parse_max_attempts(e.max_attempts) = "ok" <=> e.max_attempts \in {Absent} \cup AttemptRange
      /\ parse_timeout(e.timeout) = "ok" <=> e.timeout \in {Absent} \cup TimeoutRange
      /\ parse_external_timeout(e.external_timeout) = "ok" <=>
           e.external_timeout \in {Absent} \cup WeekRange
      /\ parse_max_completion_cycles(e.max_completion_cycles) = "ok" <=>
           e.max_completion_cycles \in {Absent} \cup CycleRange
  BY <1>1, NumberFields, Zenon
<1>6. /\ parse_mode(e.mode) \in {"managed", "external"} <=>
           e.mode \in {"absent", "nonstring", "managed", "external"}
      /\ parse_mode(e.mode) = "external" <=> e.mode = "external"
  BY DEF parse_mode
<1>7. FieldsFine(e, dc) <=> WellFormed(e, dc)
  BY <1>2, <1>3, <1>4, <1>5, <1>6, Zenon DEF FieldsFine, WellFormed, Sound
<1> QED BY <1>7, ReasonValue, Zenon

(* The settings of a process that runs are within the limits.                *)
LEMMA DeployedLimits ==
    ASSUME NEW c \in Configs
    PROVE  /\ c.dispatch.max_attempts \in AttemptRange
           /\ c.dispatch.handler_timeout \in TimeoutRange
           /\ c.dispatch.max_completion_cycles \in CycleRange
           /\ c.dispatch.backoff # << >>
           /\ Range(c.dispatch.backoff) \subseteq WeekRange
<1>1. PICK s \in Settings :
        Deployable(s) /\ c = [dispatch |-> DispatchConfig(s),
                              keyring |-> KeysResolved(s.signing_keys, EnvVars)]
  BY DEF Configs
<1>2. c.dispatch = DispatchConfig(s)
  BY <1>1
<1>3. /\ c.dispatch.max_attempts = s.max_attempts
      /\ c.dispatch.handler_timeout = s.handler_timeout_secs
      /\ c.dispatch.max_completion_cycles = s.max_completion_cycles
      /\ c.dispatch.backoff = s.backoff_secs
  BY <1>2 DEF DispatchConfig
<1> DEFINE rules ==
             {<<"max_attempts", s.max_attempts \notin 1..MAX_PER_CALLBACK_ATTEMPTS>>,
              <<"handler_timeout_secs", s.handler_timeout_secs \notin 1..MAX_HANDLER_TIMEOUT_SECS>>,
              <<"lock_buffer_secs", s.lock_buffer_secs = 0>>,
              <<"max_completion_cycles",
                s.max_completion_cycles \notin 1..MAX_COMPLETION_CYCLES_LIMIT>>,
              <<"backoff_secs",
                \/ s.backoff_secs = << >>
                \/ \E d \in Range(s.backoff_secs) : d = 0 \/ d > MAX_BACKOFF_ELEMENT_SECS>>}
<1>4. Broken(rules) = {}
  BY <1>1, Zenon DEF Deployable, validate, DeliveryErrors
<1>5. ASSUME NEW q \in rules PROVE ~q[2]
  BY <1>4, <1>5, Zenon DEF Broken
<1>6. /\ s.max_attempts \in 1..MAX_PER_CALLBACK_ATTEMPTS
      /\ s.handler_timeout_secs \in 1..MAX_HANDLER_TIMEOUT_SECS
      /\ s.max_completion_cycles \in 1..MAX_COMPLETION_CYCLES_LIMIT
      /\ s.backoff_secs # << >>
      /\ \A d \in Range(s.backoff_secs) : ~(d = 0 \/ d > MAX_BACKOFF_ELEMENT_SECS)
  BY <1>5, Zenon
<1>7. Range(s.backoff_secs) \subseteq WeekRange
  <2>1. s.backoff_secs \in Seq(Nat)
    BY <1>1, ExpansionAssumption
  <2>2. \A d \in Range(s.backoff_secs) : d \in Nat
    BY <2>1, LenProperties DEF Range
  <2>3. ASSUME NEW d \in Nat, ~(d = 0 \/ d > MAX_BACKOFF_ELEMENT_SECS)
        PROVE  d \in 1..MAX_BACKOFF_ELEMENT_SECS
    BY <2>3, Limits
  <2> QED BY <1>6, <2>2, <2>3, Limits, Zenon
<1> QED BY <1>3, <1>6, <1>7, Limits, Zenon

-----------------------------------------------------------------------------
(* A callbacks array is a sequence of elements.                              *)
LEMMA ArrayShape ==
    ASSUME NEW a \in Arrays
    PROVE  /\ Len(a) \in Nat /\ DOMAIN a = 1..Len(a) /\ DOMAIN a \subseteq Nat \ {0}
           /\ \A i \in DOMAIN a : a[i] \in Element
<1>1. a \in Seq(Element)
  BY ExpansionAssumption
<1>2. Len(a) \in Nat /\ DOMAIN a = 1..Len(a)
  BY <1>1, LenProperties, Zenon
<1>3. \A i \in 1..Len(a) : a[i] \in Element
  BY <1>1
<1> QED BY <1>2, <1>3

(* An accepted element has a name of its own, which is its label, and a mode.*)
LEMMA AcceptedElement ==
    ASSUME NEW a \in Arrays, NEW dc, NEW i \in DOMAIN a, Accepted(a, i, dc)
    PROVE  /\ a[i].object /\ a[i].name \in {"mail", "audit", "sms"}
           /\ Label(a[i], i) = a[i].name
           /\ parse_mode(a[i].mode) \in {"managed", "external"}
<1>1. FieldsFine(a[i], dc)
  BY ArrayShape, ReasonValue, Zenon DEF Accepted
<1>2. a[i].object /\ a[i].name \in {"mail", "audit", "sms"}
      /\ parse_mode(a[i].mode) \in {"managed", "external"}
  BY <1>1, Zenon DEF FieldsFine
<1> QED BY <1>2 DEF Label

(* validate_named_callback returns an accepted element of the name it was    *)
(* asked for.                                                                *)
LEMMA LookupValue ==
    ASSUME NEW a \in Arrays, NEW name, NEW dc, validate_named_callback(a, name, dc) # 0
    PROVE  LET i == validate_named_callback(a, name, dc)
           IN  i \in DOMAIN a /\ Accepted(a, i, dc) /\ a[i].name = name
<1> DEFINE same == {i \in 1..Len(a) : a[i].object /\ a[i].name = name}
           i == validate_named_callback(a, name, dc)
           first == FirstNamed(a, name)
<1>1. first = IF same # {} THEN Min(same) ELSE 0
  BY DEF FirstNamed
<1> HIDE DEF first
<1>2. i = IF TooMany(a, dc) \/ first = 0 \/ ~Accepted(a, first, dc) THEN 0 ELSE first
  BY DEF validate_named_callback, first
<1>3. i = first /\ first # 0 /\ Accepted(a, first, dc)
  BY <1>2
<1>4. first \in same
  <2>1. same # {} /\ first = Min(same)
    BY <1>1, <1>3
  <2>2. same \in SUBSET Nat
    OBVIOUS
  <2> QED BY <2>1, <2>2, MinIsLeast, Zenon
<1> QED BY <1>3, <1>4, ArrayShape

(* It returns a valid callback that no element of its label precedes.        *)
LEMMA LookupFirst ==
    ASSUME NEW a \in Arrays, NEW dc, NEW i \in ValidIndices(a, dc),
           \A j \in 1..(i - 1) : Label(a[j], j) # a[i].name
    PROVE  validate_named_callback(a, a[i].name, dc) = i
<1> DEFINE name == a[i].name
           same == {j \in 1..Len(a) : a[j].object /\ a[j].name = name}
           first == FirstNamed(a, name)
<1>1. i \in DOMAIN a /\ Accepted(a, i, dc) /\ ~TooMany(a, dc)
  BY DEF ValidIndices
<1>2. i \in 1..Len(a) /\ Len(a) \in Nat
  BY <1>1, ArrayShape
<1>3. i \in same
  BY <1>1, <1>2, AcceptedElement
<1>4. ASSUME NEW j \in same, j < i PROVE FALSE
  <2>1. j \in 1..(i - 1)
    BY <1>2, <1>4
  <2>2. a[j].object /\ a[j].name = name /\ name \notin {"absent", "nonstring"}
    BY <1>1, <1>4, AcceptedElement
  <2>3. Label(a[j], j) = name
    BY <2>2, Zenon DEF Label
  <2> QED BY <2>1, <2>3
<1>5. Min(same) = i
  <2>1. same \in SUBSET Nat
    OBVIOUS
  <2> HIDE DEF same
  <2>2. Min(same) \in same /\ Min(same) =< i
    BY <1>3, <2>1, MinIsLeast
  <2>3. Min(same) \in Nat /\ i \in Nat
    <3>1. Min(same) \in Nat
      BY <2>1, <2>2, Zenon
    <3> QED BY <1>2, <3>1
  <2> QED BY <1>4, <2>2, <2>3
<1>6. first = IF same # {} THEN Min(same) ELSE 0
  BY DEF FirstNamed
<1> HIDE DEF first, same
<1>7. first = i /\ i # 0
  BY <1>2, <1>3, <1>5, <1>6
<1>8. validate_named_callback(a, name, dc)
        = IF TooMany(a, dc) \/ first = 0 \/ ~Accepted(a, first, dc) THEN 0 ELSE first
  BY DEF validate_named_callback, first
<1> QED BY <1>1, <1>7, <1>8

(* What parse_callbacks rejects it rejects for a documented reason.          *)
LEMMA RejectedReason ==
    ASSUME NEW a \in Arrays, NEW dc, NEW i \in DOMAIN a
    PROVE  RejectedFor(a, i, dc) \in InvalidReason
<1>1. Reason(a[i], dc) \in Outcome
  BY ArrayShape, ReasonValue, Zenon
<1> QED BY <1>1 DEF RejectedFor, Accepted, Outcome, InvalidReason

(* The delivery parameters of a valid callback are within the limits.        *)
LEMMA TargetLimits ==
    ASSUME NEW a \in Arrays, NEW c \in Configs, NEW i \in ValidIndices(a, c.dispatch)
    PROVE  LET t == Target(a[i], c.dispatch) IN
           /\ t.max_attempts \in AttemptRange
           /\ t.timeout \in TimeoutRange
           /\ t.max_completion_cycles \in CycleRange
           /\ t.backoff # << >> /\ Range(t.backoff) \subseteq WeekRange
           /\ t.mode = "external" => t.external_timeout \in WeekRange
<1> DEFINE e == a[i]
           dc == c.dispatch
           t == Target(e, dc)
<1>1. i \in DOMAIN a /\ Reason(e, dc) = "ok" /\ e \in Element
  BY ArrayShape DEF ValidIndices, Accepted
<1> HIDE DEF e, dc
<1>2. FieldsFine(e, dc)
  BY <1>1, ReasonValue
<1>3. /\ e.backoff \in [is : {"absent", "array", "other"}, list : Seq(Int)]
      /\ e.max_attempts \in Integer /\ e.timeout \in Integer
      /\ e.external_timeout \in Integer /\ e.max_completion_cycles \in Integer
  BY <1>1, Zenon DEF Element
<1>4. /\ e.max_attempts = Absent \/ e.max_attempts \in AttemptRange
      /\ e.timeout = Absent \/ e.timeout \in TimeoutRange
      /\ e.external_timeout = Absent \/ e.external_timeout \in WeekRange
      /\ e.max_completion_cycles = Absent \/ e.max_completion_cycles \in CycleRange
  BY <1>2, <1>3, NumberFields, Zenon DEF FieldsFine
<1>5. /\ t.max_attempts = OrDefault(e.max_attempts, dc.max_attempts)
      /\ t.timeout = OrDefault(e.timeout, dc.handler_timeout)
      /\ t.max_completion_cycles = OrDefault(e.max_completion_cycles, dc.max_completion_cycles)
      /\ t.backoff = IF e.backoff.is = "absent" THEN dc.backoff ELSE e.backoff.list
      /\ t.mode = parse_mode(e.mode) /\ t.external_timeout = e.external_timeout
  BY DEF Target
<1> HIDE DEF t
<1>6. /\ dc.max_attempts \in AttemptRange /\ dc.handler_timeout \in TimeoutRange
      /\ dc.max_completion_cycles \in CycleRange
      /\ dc.backoff # << >> /\ Range(dc.backoff) \subseteq WeekRange
  BY DeployedLimits, Zenon DEF dc
<1>7. t.max_attempts \in AttemptRange /\ t.timeout \in TimeoutRange /\ t.max_completion_cycles \in CycleRange
  BY <1>4, <1>5, <1>6, Zenon DEF OrDefault
<1>8. t.mode = "external" => t.external_timeout \in WeekRange
  BY <1>2, <1>4, <1>5, Zenon DEF FieldsFine
<1>9. e.backoff.is # "absent" =>
        e.backoff.list # << >> /\ Range(e.backoff.list) \subseteq WeekRange
  <2> SUFFICES ASSUME e.backoff.is # "absent"
               PROVE  e.backoff.list # << >> /\ Range(e.backoff.list) \subseteq WeekRange
    OBVIOUS
  <2> DEFINE list == e.backoff.list
  <2>1. list \in Seq(Int) /\ e.backoff.is \in {"absent", "array", "other"}
    BY <1>3, Zenon
  <2>2. e.backoff.is # "other" /\ (e.backoff.is = "array" => Len(list) > 0)
        /\ \A k \in 1..Len(list) : list[k] \in WeekRange
    BY <1>2, <1>3, BackoffValue, Zenon DEF FieldsFine
  <2> HIDE DEF list
  <2>3. DOMAIN list = 1..Len(list)
    BY <2>1, LenProperties, Zenon
  <2>4. list # << >>
    BY <2>1, <2>2
  <2>5. Range(list) \subseteq WeekRange
    BY <2>2, <2>3, Zenon DEF Range
  <2> QED BY <2>4, <2>5 DEF list
<1>10. t.backoff # << >> /\ Range(t.backoff) \subseteq WeekRange
  BY <1>5, <1>6, <1>9, Zenon
<1> QED BY <1>7, <1>8, <1>10, Zenon DEF t, e, dc

-----------------------------------------------------------------------------
(* Every element of array a is covered by a row in R, when the event was     *)
(* scheduled under a configuration in u: RowPerCallback, of given values.    *)
Covered(R, a, o, u) ==
    \A c \in u : \A i \in DOMAIN a :
        \E x \in R :
            /\ x.name = Label(a[i], i)
            /\ \/ i \in ValidIndices(a, c.dispatch) /\ ~o
               \/ \A j \in DOMAIN a \ {i} : Label(a[j], j) # x.name
               => x.from = i

(* The rows of the event: written once, one per label, each for an element   *)
(* of its label, and for every element.                                      *)
RowsInv ==
    /\ used = {} \/ \E c \in Configs : used = {c}
    /\ used = {} => rows = {}
    /\ rows \subseteq Row
    /\ \A x, y \in rows : x.name = y.name => x = y
    /\ \A x \in rows : x.name = Label(array[x.from], x.from)
    /\ Covered(rows, array, oversized, used)

Answers == {200, 307, 401, 503}

(* A request for an element of array a, signed with the key its element      *)
(* names in the keyring of configuration c.                                  *)
OnWire(m, a, c) ==
    /\ m = [name |-> m.name, element |-> m.element, body |-> m.body, key |-> m.key,
            signature |-> m.signature, age |-> m.age, status |-> m.status]
    /\ m.element \in DOMAIN a
    /\ m.key = a[m.element].signing_key_id
    /\ m.key # Absent => contains(c.keyring, m.key)
    /\ m.signature = IF m.key = Absent
                     THEN {}
                     ELSE {sign(c.keyring[m.key], 0, <<m.name, m.element>>)}
    /\ m.age \in 0..MaxDelay
    /\ m.status \in {NULL} \cup Answers

(* The answer to a request says what the receiver did with it.               *)
Answered(m, acc) ==
    /\ m.status = 200 => Verifies(m) /\ m.name \in acc
    /\ m.status = 401 => ~Verifies(m)

(* At most one request of a row is under way, and only while the row is      *)
(* pending.                                                                  *)
WireInv ==
    /\ \A m \in flight :
        /\ OnWire(m, array, config) /\ Answered(m, accepted)
        /\ <<m.name, m.element>> \in sent
        /\ \E x \in rows : x.name = m.name /\ x.state = "pending"
    /\ \A m, n \in flight : m.name = n.name => m = n
    /\ \A m \in sent : m[2] \in DOMAIN array
    /\ accepted \subseteq {m[1] : m \in sent}
    /\ DispatchedWasAccepted

ExpansionInv ==
    /\ array \in Arrays /\ oversized \in BOOLEAN /\ config \in Configs
    /\ RowsInv
    /\ WireInv

-----------------------------------------------------------------------------
(* schedule_new_deliveries: a valid callback gets a row of its own.          *)
LEMMA PendingWritten ==
    ASSUME array \in Arrays, NEW x \in PendingRows
    PROVE  /\ x.from \in Pending /\ x.from \in DOMAIN array /\ x.state = "pending"
           /\ x.name = array[x.from].name /\ x.name = Label(array[x.from], x.from)
           /\ x \in Row
<1>1. PICK i \in Pending : x = [name |-> array[i].name, from |-> i, mode |-> parse_mode(array[i].mode),
                                state |-> "pending"]
  BY Zenon DEF PendingRows
<1>2. i \in DOMAIN array /\ Accepted(array, i, config.dispatch)
  BY DEF Pending, ValidIndices
<1>3. /\ array[i].name = Label(array[i], i)
      /\ parse_mode(array[i].mode) \in {"managed", "external"}
  BY <1>2, AcceptedElement
<1>4. array[i].name \in Labels
  BY <1>2, <1>3 DEF Labels
<1>5. x.name = array[i].name /\ x.from = i /\ x.state = "pending"
  BY <1>1
<1>6. x \in Row
  BY <1>1, <1>2, <1>3, <1>4 DEF Row
<1> QED BY <1>2, <1>3, <1>5, <1>6, Zenon

(* Rejected elements get a dead letter under their label.                    *)
LEMMA DeadWritten ==
    ASSUME array \in Arrays, NEW x \in DeadRows
    PROVE  /\ x.from \in DOMAIN array \ Pending /\ x.state = "dead_letter"
           /\ x.name = Label(array[x.from], x.from)
           /\ x \in Row
           /\ \A j \in DOMAIN array \ Pending : j < x.from => Label(array[j], j) # x.name
           /\ \A y \in PendingRows : y.name # x.name
<1>1. PICK i \in DOMAIN array \ Pending :
          /\ x = [name |-> Label(array[i], i), from |-> i, mode |-> "managed", state |-> "dead_letter"]
          /\ ~\E j \in DOMAIN array \ Pending : j < i /\ Label(array[j], j) = Label(array[i], i)
          /\ ~\E y \in PendingRows : y.name = Label(array[i], i)
  BY Zenon DEF DeadRows
<1>2. x.name = Label(array[i], i) /\ x.from = i /\ x.state = "dead_letter"
  BY <1>1
<1>3. Label(array[i], i) \in Labels
  BY DEF Labels
<1>4. x \in Row
  BY <1>1, <1>3 DEF Row
<1> QED BY <1>1, <1>2, <1>4, Zenon

(* Of the accepted elements of a name the first alone is valid.              *)
LEMMA ValidNamesDiffer ==
    ASSUME array \in Arrays, NEW i \in Pending, NEW j \in Pending, array[i].name = array[j].name
    PROVE  i = j
<1>1. /\ i \in DOMAIN array /\ Accepted(array, i, config.dispatch) /\ ~SeenName(array, i, config.dispatch)
      /\ j \in DOMAIN array /\ Accepted(array, j, config.dispatch) /\ ~SeenName(array, j, config.dispatch)
  BY DEF Pending, ValidIndices
<1>2. i \in Nat \ {0} /\ j \in Nat \ {0}
  BY <1>1, ArrayShape
<1>3. ~(i < j)
  <2>1. i < j => i \in 1..(j - 1)
    BY <1>2
  <2> QED BY <1>1, <2>1, Zenon DEF SeenName
<1>4. ~(j < i)
  <2>1. j < i => j \in 1..(i - 1)
    BY <1>2
  <2> QED BY <1>1, <2>1, Zenon DEF SeenName
<1> QED BY <1>2, <1>3, <1>4

(* No two rows have one name.                                                *)
LEMMA RowNamesDiffer ==
    ASSUME array \in Arrays, NEW x \in PendingRows \cup DeadRows,
           NEW y \in PendingRows \cup DeadRows, x.name = y.name
    PROVE  x = y
<1>1. CASE x \in PendingRows /\ y \in PendingRows
  <2>1. PICK i \in Pending : x = [name |-> array[i].name, from |-> i,
                                  mode |-> parse_mode(array[i].mode), state |-> "pending"]
    BY <1>1, Zenon DEF PendingRows
  <2>2. PICK j \in Pending : y = [name |-> array[j].name, from |-> j,
                                  mode |-> parse_mode(array[j].mode), state |-> "pending"]
    BY <1>1, Zenon DEF PendingRows
  <2>3. i = j
    BY <2>1, <2>2, ValidNamesDiffer
  <2> QED BY <2>1, <2>2, <2>3, Zenon
<1>2. CASE x \in DeadRows /\ y \in DeadRows
  <2>1. /\ x.from \in DOMAIN array \ Pending /\ x.name = Label(array[x.from], x.from)
        /\ \A j \in DOMAIN array \ Pending : j < x.from => Label(array[j], j) # x.name
    BY <1>2, DeadWritten, Zenon
  <2>2. /\ y.from \in DOMAIN array \ Pending /\ y.name = Label(array[y.from], y.from)
        /\ \A j \in DOMAIN array \ Pending : j < y.from => Label(array[j], j) # y.name
    BY <1>2, DeadWritten, Zenon
  <2>3. ~(x.from < y.from) /\ ~(y.from < x.from)
    BY <2>1, <2>2, Zenon
  <2>4. x.from \in Nat /\ y.from \in Nat
    BY <2>1, <2>2, ArrayShape
  <2>5. x.from = y.from
    BY <2>3, <2>4
  <2>6. PICK i \in DOMAIN array : x = [name |-> Label(array[i], i), from |-> i, mode |-> "managed",
                                       state |-> "dead_letter"]
    BY <1>2, Zenon DEF DeadRows
  <2>7. PICK j \in DOMAIN array : y = [name |-> Label(array[j], j), from |-> j, mode |-> "managed",
                                       state |-> "dead_letter"]
    BY <1>2, Zenon DEF DeadRows
  <2>8. i = j
    BY <2>5, <2>6, <2>7
  <2> QED BY <2>6, <2>7, <2>8, Zenon
<1>3. CASE x \in PendingRows /\ y \in DeadRows
  BY <1>3, DeadWritten, Zenon
<1>4. CASE x \in DeadRows /\ y \in PendingRows
  BY <1>4, DeadWritten, Zenon
<1> QED BY <1>1, <1>2, <1>3, <1>4

(* Every element has a row of its label: of the rejected elements of a label *)
(* there is a first, and it is written unless a valid one has the label.     *)
LEMMA EveryLabelWritten ==
    ASSUME array \in Arrays, NEW i \in DOMAIN array
    PROVE  \E x \in PendingRows \cup DeadRows :
              x.name = Label(array[i], i) /\ (i \in Pending => x.from = i)
<1>1. CASE i \in Pending
  <2> DEFINE x == [name |-> array[i].name, from |-> i, mode |-> parse_mode(array[i].mode),
                   state |-> "pending"]
  <2>1. x \in PendingRows
    BY <1>1, Zenon DEF PendingRows
  <2>2. x.from = i /\ x.name = array[i].name
    OBVIOUS
  <2> HIDE DEF x
  <2>3. x.name = Label(array[i], i)
    BY <2>1, <2>2, PendingWritten
  <2> QED BY <2>1, <2>2, <2>3
<1>2. CASE i \notin Pending /\ \E x \in PendingRows : x.name = Label(array[i], i)
  BY <1>2
<1>3. CASE i \notin Pending /\ ~\E x \in PendingRows : x.name = Label(array[i], i)
  <2> DEFINE same == {j \in DOMAIN array \ Pending : Label(array[j], j) = Label(array[i], i)}
             f == Min(same)
  <2>1. same # {} /\ same \in SUBSET Nat
    BY <1>3, ArrayShape
  <2>2. f \in same /\ \A j \in same : f =< j
    BY <2>1, MinIsLeast
  <2>3. f \in DOMAIN array \ Pending /\ Label(array[f], f) = Label(array[i], i)
    BY <2>2
  <2>4. ~\E j \in DOMAIN array \ Pending : j < f /\ Label(array[j], j) = Label(array[f], f)
    <3> SUFFICES ASSUME NEW j \in DOMAIN array \ Pending, j < f, Label(array[j], j) = Label(array[f], f)
                 PROVE  FALSE
      BY Zenon
    <3>1. f =< j
      BY <2>2, <2>3
    <3>2. f \in Nat /\ j \in Nat
      BY <2>3, ArrayShape
    <3> HIDE DEF f, same
    <3> QED BY <3>1, <3>2
  <2> HIDE DEF f, same
  <2> DEFINE x == [name |-> Label(array[f], f), from |-> f, mode |-> "managed", state |-> "dead_letter"]
  <2>5. x \in DeadRows
    BY <1>3, <2>3, <2>4, Zenon DEF DeadRows
  <2>6. x.name = Label(array[i], i)
    BY <2>3
  <2> QED BY <1>3, <2>5, <2>6, Zenon
<1> QED BY <1>1, <1>2, <1>3

-----------------------------------------------------------------------------
(* Scheduling the event establishes the invariant of its rows.               *)
LEMMA ScheduleRows ==
    ASSUME ExpansionInv, Schedule
    PROVE  RowsInv' /\ \A x \in rows' : x.state # "dispatched"
<1>1. /\ array \in Arrays /\ config \in Configs
      /\ array' = array /\ oversized' = oversized
      /\ rows' = PendingRows \cup DeadRows /\ used' = {config}
  BY DEF ExpansionInv, Schedule
<1>2. Row' = Row
  BY <1>1, Zenon DEF Row, Labels
<1>3. \A x \in rows' : /\ x \in Row /\ x.from \in DOMAIN array
                       /\ x.name = Label(array[x.from], x.from) /\ x.state # "dispatched"
  <2>1. \A x \in PendingRows : /\ x \in Row /\ x.from \in DOMAIN array
                               /\ x.name = Label(array[x.from], x.from) /\ x.state = "pending"
    BY <1>1, PendingWritten, Zenon
  <2>2. \A x \in DeadRows : /\ x \in Row /\ x.from \in DOMAIN array
                            /\ x.name = Label(array[x.from], x.from) /\ x.state = "dead_letter"
    BY <1>1, DeadWritten, Zenon
  <2> QED BY <1>1, <2>1, <2>2
<1>4. \A x, y \in rows' : x.name = y.name => x = y
  BY <1>1, RowNamesDiffer, Zenon
<1>5. Covered(rows', array, oversized, {config})
  <2> SUFFICES ASSUME NEW i \in DOMAIN array
               PROVE  \E x \in rows' :
                        /\ x.name = Label(array[i], i)
                        /\ \/ i \in ValidIndices(array, config.dispatch) /\ ~oversized
                           \/ \A j \in DOMAIN array \ {i} : Label(array[j], j) # x.name
                           => x.from = i
    BY Zenon DEF Covered
  <2>1. PICK x \in rows' : x.name = Label(array[i], i) /\ (i \in Pending => x.from = i)
    BY <1>1, EveryLabelWritten, Zenon
  <2>2. i \in ValidIndices(array, config.dispatch) /\ ~oversized => x.from = i
    BY <2>1, Zenon DEF Pending
  <2>3. (\A j \in DOMAIN array \ {i} : Label(array[j], j) # x.name) => x.from = i
    BY <1>3, <2>1, Zenon
  <2> QED BY <2>1, <2>2, <2>3, Zenon
<1>6. \A x \in rows' : x.name = Label(array[x.from], x.from)'
  BY <1>1, <1>3, Zenon
<1> QED BY <1>1, <1>2, <1>3, <1>4, <1>5, <1>6, Zenon DEF RowsInv

(* Setting a row's state leaves the rest of the rows' invariant as it is.    *)
LEMMA UpdateRows ==
    ASSUME RowsInv, NEW x \in rows, NEW s \in {"pending", "dead_letter", "dispatched"},
           Update(x, s), UNCHANGED event
    PROVE  /\ RowsInv'
           /\ \E z \in rows' : /\ z.name = x.name /\ z.state = s
                               /\ \A y \in rows' : y = z \/ (y \in rows /\ y # x)
           /\ \A y \in rows : y # x => y \in rows'
<1>1. array' = array /\ oversized' = oversized /\ used' = used
  BY DEF event
<1>2. /\ rows \subseteq Row /\ Covered(rows, array, oversized, used) /\ used # {}
      /\ used = {} \/ \E c \in Configs : used = {c}
      /\ \A y, w \in rows : y.name = w.name => y = w
      /\ \A y \in rows : y.name = Label(array[y.from], y.from)
  BY Zenon DEF RowsInv
<1> DEFINE z == [x EXCEPT !.state = s]
<1>3. rows' = (rows \ {x}) \cup {z}
  BY DEF Update
<1>4. x \in Row
  BY <1>2
<1>5. z \in Row /\ z.name = x.name /\ z.from = x.from /\ z.state = s
  BY <1>4 DEF Row
<1> HIDE DEF z
<1>6. Row' = Row
  BY <1>1, Zenon DEF Row, Labels
<1>7. rows' \subseteq Row'
  BY <1>2, <1>3, <1>5, <1>6, Zenon
<1>8. \A y, w \in rows' : y.name = w.name => y = w
  <2> SUFFICES ASSUME NEW y \in rows', NEW w \in rows', y.name = w.name PROVE y = w
    OBVIOUS
  <2>1. \A v \in rows' : v = z \/ (v \in rows /\ v # x)
    BY <1>3, Zenon
  <2>2. \A v \in rows : v # x => v.name # z.name
    BY <1>2, <1>5, Zenon
  <2>3. y \in rows /\ w \in rows => y = w
    BY <1>2, Zenon
  <2> QED BY <2>1, <2>2, <2>3, Zenon
<1>9. \A y \in rows' : y.name = Label(array[y.from], y.from)'
  BY <1>1, <1>2, <1>3, <1>5, Zenon
<1>10. \A y \in rows : \E w \in rows' : w.name = y.name /\ w.from = y.from
  BY <1>3, <1>5, Zenon
<1>11. Covered(rows', array, oversized, used)
  <2> SUFFICES ASSUME NEW c \in used, NEW i \in DOMAIN array
               PROVE  \E w \in rows' :
                        /\ w.name = Label(array[i], i)
                        /\ \/ i \in ValidIndices(array, c.dispatch) /\ ~oversized
                           \/ \A j \in DOMAIN array \ {i} : Label(array[j], j) # w.name
                           => w.from = i
    BY Zenon DEF Covered
  <2>1. PICK y \in rows : /\ y.name = Label(array[i], i)
                          /\ \/ i \in ValidIndices(array, c.dispatch) /\ ~oversized
                             \/ \A j \in DOMAIN array \ {i} : Label(array[j], j) # y.name
                             => y.from = i
    BY <1>2, Zenon DEF Covered
  <2>2. PICK w \in rows' : w.name = y.name /\ w.from = y.from
    BY <1>10
  <2> QED BY <2>1, <2>2, Zenon
<1>12. RowsInv'
  BY <1>1, <1>2, <1>7, <1>8, <1>9, <1>11, Zenon DEF RowsInv
<1> QED BY <1>3, <1>5, <1>12, Zenon

(* A step that leaves event and rows alone leaves their invariant alone.     *)
LEMMA SameRows ==
    ASSUME RowsInv, UNCHANGED <<event, rows>>
    PROVE  RowsInv'
<1>1. array' = array /\ oversized' = oversized /\ used' = used /\ rows' = rows
  BY DEF event
<1>2. Row' = Row
  BY <1>1, Zenon DEF Row, Labels
<1> QED BY <1>1, <1>2, Zenon DEF RowsInv

-----------------------------------------------------------------------------
(* A receiver's verdict, in terms of what is signed and what it knows.       *)
LEMMA Verdict ==
    ASSUME NEW m, NEW a, NEW c, OnWire(m, a, c)
    PROVE  Verifies(m) <=>
              (m.key # Absent =>
                  /\ m.body = <<m.name, m.element>>
                  /\ m.age =< MaxAge
                  /\ c.keyring[m.key] = Trusted[m.key])
<1> DEFINE k == m.key
           g == m.age
           h == sign(c.keyring[k], 0, <<m.name, m.element>>)
<1>1. CASE k = Absent
  BY <1>1 DEF Verifies
<1>2. CASE k # Absent
  <2>1. m.signature = {h} /\ g \in Int
    BY <1>2 DEF OnWire
  <2>2. h.t = 0 /\ h.v1 = <<c.keyring[k], 0, <<m.name, m.element>>>>
    BY DEF sign, Hmac
  <2>3. Verifies(m) <=> verify_header(Trusted[k], m.body, {h}, MaxAge, g)
    BY <1>2, <2>1 DEF Verifies
  <2> HIDE DEF h, k, g
  <2>4. verify_header(Trusted[k], m.body, {h}, MaxAge, g) <=>
          g - h.t =< MaxAge /\ h.v1 = <<Trusted[k], h.t, m.body>>
    BY DEF verify_header, verify, Hmac
  <2>5. h.v1 = <<Trusted[k], h.t, m.body>> <=>
          m.body = <<m.name, m.element>> /\ c.keyring[k] = Trusted[k]
    BY <2>2
  <2>6. g - h.t = g
    BY <2>1, <2>2
  <2> QED BY <1>2, <2>3, <2>4, <2>5, <2>6, Zenon DEF k, g
<1> QED BY <1>1, <1>2

(* What can become of a request under way: it takes longer, its body is      *)
(* written anew, or it is answered.                                          *)
LEMMA WireChanges ==
    ASSUME NEW m, NEW a, NEW c, OnWire(m, a, c), NEW acc
    PROVE  /\ m.status = NULL /\ m.age < MaxDelay =>
                LET n == [m EXCEPT !.age = m.age + 1] IN
                OnWire(n, a, c) /\ Answered(n, acc) /\ n.name = m.name /\ n.element = m.element
           /\ m.status = NULL =>
                LET n == [m EXCEPT !.body = <<"reencoded">>] IN
                OnWire(n, a, c) /\ Answered(n, acc) /\ n.name = m.name /\ n.element = m.element
           /\ \A s \in Answers :
                LET n == [m EXCEPT !.status = s] IN
                /\ OnWire(n, a, c) /\ n.name = m.name /\ n.element = m.element /\ n.status = s
                /\ Verifies(n) <=> Verifies(m)
<1>1. m = [name |-> m.name, element |-> m.element, body |-> m.body, key |-> m.key,
           signature |-> m.signature, age |-> m.age, status |-> m.status]
  BY Zenon DEF OnWire
<1>2. NULL # 200 /\ NULL # 401
  BY ExpansionAssumption
<1>3. ASSUME m.status = NULL, m.age < MaxDelay
      PROVE  LET n == [m EXCEPT !.age = m.age + 1] IN
             OnWire(n, a, c) /\ Answered(n, acc) /\ n.name = m.name /\ n.element = m.element
  <2> DEFINE n == [m EXCEPT !.age = m.age + 1]
  <2>1. n = [name |-> m.name, element |-> m.element, body |-> m.body, key |-> m.key,
             signature |-> m.signature, age |-> m.age + 1, status |-> m.status]
    BY <1>1
  <2> HIDE DEF n
  <2>2. /\ n.name = m.name /\ n.element = m.element /\ n.body = m.body /\ n.key = m.key
        /\ n.signature = m.signature /\ n.age = m.age + 1 /\ n.status = m.status
    BY <2>1
  <2>3. m.age + 1 \in 0..MaxDelay
    BY <1>3, ExpansionAssumption DEF OnWire
  <2>4. OnWire(n, a, c)
    BY <2>1, <2>2, <2>3, Zenon DEF OnWire
  <2>5. Answered(n, acc)
    BY <1>2, <1>3, <2>2 DEF Answered
  <2> QED BY <2>2, <2>4, <2>5 DEF n
<1>4. ASSUME m.status = NULL
      PROVE  LET n == [m EXCEPT !.body = <<"reencoded">>] IN
             OnWire(n, a, c) /\ Answered(n, acc) /\ n.name = m.name /\ n.element = m.element
  <2> DEFINE n == [m EXCEPT !.body = <<"reencoded">>]
  <2>1. n = [name |-> m.name, element |-> m.element, body |-> <<"reencoded">>, key |-> m.key,
             signature |-> m.signature, age |-> m.age, status |-> m.status]
    BY <1>1
  <2> HIDE DEF n
  <2>2. /\ n.name = m.name /\ n.element = m.element /\ n.body = <<"reencoded">> /\ n.key = m.key
        /\ n.signature = m.signature /\ n.age = m.age /\ n.status = m.status
    BY <2>1
  <2>3. OnWire(n, a, c)
    BY <2>1, <2>2, Zenon DEF OnWire
  <2>4. Answered(n, acc)
    BY <1>2, <1>4, <2>2 DEF Answered
  <2> QED BY <2>2, <2>3, <2>4 DEF n
<1>5. ASSUME NEW s \in Answers
      PROVE  LET n == [m EXCEPT !.status = s] IN
             /\ OnWire(n, a, c) /\ n.name = m.name /\ n.element = m.element /\ n.status = s
             /\ Verifies(n) <=> Verifies(m)
  <2> DEFINE n == [m EXCEPT !.status = s]
  <2>1. n = [name |-> m.name, element |-> m.element, body |-> m.body, key |-> m.key,
             signature |-> m.signature, age |-> m.age, status |-> s]
    BY <1>1
  <2> HIDE DEF n
  <2>2. /\ n.name = m.name /\ n.element = m.element /\ n.body = m.body /\ n.key = m.key
        /\ n.signature = m.signature /\ n.age = m.age /\ n.status = s
    BY <2>1
  <2>3. OnWire(n, a, c)
    BY <2>1, <2>2, Zenon DEF OnWire
  <2>4. Verifies(n) <=> Verifies(m)
    BY <2>2 DEF Verifies
  <2> QED BY <2>2, <2>3, <2>4 DEF n
<1> QED BY <1>3, <1>4, <1>5, Zenon

(* A request stays answered while the receivers' acceptance of it stands.    *)
LEMMA StaysAnswered ==
    ASSUME NEW m, NEW acc, NEW acc2, Answered(m, acc), m.name \in acc => m.name \in acc2
    PROVE  Answered(m, acc2)
  BY DEF Answered

-----------------------------------------------------------------------------
(* What a request's replacement must satisfy: same row and element, and an   *)
(* answer that says what the receiver did.                                   *)
LEMMA ChangeWire ==
    ASSUME ExpansionInv, NEW m \in flight, NEW n, Change(m, n),
           OnWire(n, array, config), Answered(n, accepted'),
           n.name = m.name, n.element = m.element,
           accepted \subseteq accepted', accepted' \subseteq accepted \cup {m.name},
           UNCHANGED <<event, config, rows, sent>>
    PROVE  ExpansionInv'
<1>1. /\ array' = array /\ oversized' = oversized /\ config' = config /\ rows' = rows
      /\ sent' = sent /\ flight' = (flight \ {m}) \cup {n}
  BY DEF event, Change
<1>2. RowsInv'
  BY SameRows DEF ExpansionInv
<1>3. WireInv
  BY DEF ExpansionInv
<1>4. \A k \in flight' :
        /\ OnWire(k, array, config) /\ Answered(k, accepted')
        /\ <<k.name, k.element>> \in sent
        /\ \E x \in rows : x.name = k.name /\ x.state = "pending"
  <2>1. \A k \in flight :
        /\ OnWire(k, array, config) /\ Answered(k, accepted)
        /\ <<k.name, k.element>> \in sent
        /\ \E x \in rows : x.name = k.name /\ x.state = "pending"
    BY <1>3, Zenon DEF WireInv
  <2>2. \A k \in flight : Answered(k, accepted')
    BY <2>1, StaysAnswered, Zenon
  <2> QED BY <1>1, <2>1, <2>2, Zenon
<1>5. \A k, l \in flight' : k.name = l.name => k = l
  <2>1. \A k, l \in flight : k.name = l.name => k = l
    BY <1>3, Zenon DEF WireInv
  <2>2. \A k \in flight' : k = n \/ (k \in flight /\ k # m)
    BY <1>1, Zenon
  <2>3. \A k \in flight : k # m => k.name # n.name
    BY <2>1, Zenon
  <2> QED BY <2>1, <2>2, <2>3, Zenon
<1>6. accepted' \subseteq {k[1] : k \in sent}
  <2>1. <<m.name, m.element>> \in sent
    BY <1>3, Zenon DEF WireInv
  <2>2. m.name = <<m.name, m.element>>[1]
    OBVIOUS
  <2>3. m.name \in {k[1] : k \in sent}
    BY <2>1, <2>2, Zenon
  <2> QED BY <1>3, <2>3, Zenon DEF WireInv
<1>7. DispatchedWasAccepted'
  BY <1>1, <1>3, Zenon DEF WireInv, DispatchedWasAccepted
<1>8. \A k \in sent : k[2] \in DOMAIN array
  BY <1>3, Zenon DEF WireInv
<1>9. WireInv'
  BY <1>1, <1>4, <1>5, <1>6, <1>7, <1>8, Zenon DEF WireInv
<1> QED BY <1>1, <1>2, <1>9, Zenon DEF ExpansionInv

(* A request that is no longer under way.                                    *)
LEMMA DropWire ==
    ASSUME ExpansionInv, NEW m \in flight, flight' = flight \ {m},
           UNCHANGED <<event, config, rows, sent, accepted>>
    PROVE  ExpansionInv'
<1>1. /\ array' = array /\ oversized' = oversized /\ config' = config /\ rows' = rows
      /\ sent' = sent /\ accepted' = accepted
  BY DEF event
<1>2. RowsInv'
  BY SameRows DEF ExpansionInv
<1>3. WireInv /\ flight' \subseteq flight
  BY DEF ExpansionInv
<1>4. DispatchedWasAccepted'
  BY <1>1, <1>3, Zenon DEF WireInv, DispatchedWasAccepted
<1>5. \A k \in flight' :
        /\ OnWire(k, array, config) /\ Answered(k, accepted)
        /\ <<k.name, k.element>> \in sent
        /\ \E x \in rows : x.name = k.name /\ x.state = "pending"
  BY <1>3, Zenon DEF WireInv
<1>6. \A k, l \in flight' : k.name = l.name => k = l
  BY <1>3, Zenon DEF WireInv
<1>7. (\A k \in sent : k[2] \in DOMAIN array) /\ accepted \subseteq {k[1] : k \in sent}
  BY <1>3, Zenon DEF WireInv
<1>8. WireInv'
  BY <1>1, <1>4, <1>5, <1>6, <1>7, Zenon DEF WireInv
<1> QED BY <1>1, <1>2, <1>8, Zenon DEF ExpansionInv

(* A row changes state while no request of it is left under way, and is      *)
(* dispatched only when it was accepted.                                     *)
LEMMA UpdateWire ==
    ASSUME ExpansionInv, NEW x \in rows, NEW s \in {"pending", "dead_letter", "dispatched"},
           Update(x, s), flight' \subseteq flight, \A m \in flight' : m.name # x.name,
           s = "dispatched" => x.name \in accepted',
           accepted' \subseteq accepted, \A a \in accepted : a # x.name => a \in accepted',
           UNCHANGED <<event, config, sent>>
    PROVE  ExpansionInv'
<1>1. array' = array /\ oversized' = oversized /\ config' = config /\ sent' = sent
  BY DEF event
<1>2. RowsInv /\ WireInv
  BY DEF ExpansionInv
<1>3. /\ RowsInv'
      /\ \E z \in rows' : /\ z.name = x.name /\ z.state = s
                          /\ \A y \in rows' : y = z \/ (y \in rows /\ y # x)
      /\ \A y \in rows : y # x => y \in rows'
  <2>1. UNCHANGED event
    OBVIOUS
  <2> QED BY <1>2, <2>1, UpdateRows
<1>4. \A k, l \in flight' : k.name = l.name => k = l
  BY <1>2, Zenon DEF WireInv
<1>5. \A k \in flight' :
        /\ OnWire(k, array, config) /\ Answered(k, accepted')
        /\ <<k.name, k.element>> \in sent
        /\ \E y \in rows' : y.name = k.name /\ y.state = "pending"
  <2> SUFFICES ASSUME NEW k \in flight'
               PROVE  /\ OnWire(k, array, config) /\ Answered(k, accepted')
                      /\ <<k.name, k.element>> \in sent
                      /\ \E y \in rows' : y.name = k.name /\ y.state = "pending"
    BY Zenon
  <2>1. k \in flight /\ k.name # x.name
    OBVIOUS
  <2>2. /\ OnWire(k, array, config) /\ Answered(k, accepted)
        /\ <<k.name, k.element>> \in sent
        /\ \E y \in rows : y.name = k.name /\ y.state = "pending"
    BY <1>2, <2>1, Zenon DEF WireInv
  <2>3. Answered(k, accepted')
    BY <2>1, <2>2, StaysAnswered, Zenon
  <2> QED BY <1>3, <2>1, <2>2, <2>3, Zenon
<1>6. \A y \in rows : y.name = x.name => y = x
  BY <1>2, Zenon DEF RowsInv
<1>7. DispatchedWasAccepted'
  BY <1>2, <1>3, <1>6, Zenon DEF WireInv, DispatchedWasAccepted
<1>8. accepted' \subseteq {k[1] : k \in sent'} /\ \A k \in sent' : k[2] \in DOMAIN array'
  BY <1>1, <1>2, Zenon DEF WireInv
<1>9. WireInv'
  BY <1>1, <1>4, <1>5, <1>7, <1>8, Zenon DEF WireInv
<1> QED BY <1>1, <1>3, <1>9, Zenon DEF ExpansionInv

(* deliver sends one signed request for a row that had none under way.       *)
LEMMA SendWire ==
    ASSUME ExpansionInv, NEW x \in rows, Send(x)
    PROVE  /\ ExpansionInv'
           /\ \A m \in sent' \ sent : m[2] \in DOMAIN array /\ Accepted(array, m[2], config.dispatch)
<1> DEFINE i == validate_named_callback(array, x.name, config.dispatch)
           k == array[i].signing_key_id
           r == Request(Target(array[i], config.dispatch), i, config.keyring, 0)
<1>1. /\ array \in Arrays /\ RowsInv /\ WireInv
      /\ array' = array /\ oversized' = oversized /\ config' = config /\ rows' = rows
      /\ accepted' = accepted /\ used' = used
  BY Zenon DEF ExpansionInv, Send, event
<1>2. /\ Waiting(x) /\ i # 0 /\ KeyResolves(Target(array[i], config.dispatch), config.keyring)
      /\ flight' = flight \cup {r} /\ sent' = sent \cup {<<x.name, i>>}
  BY Zenon DEF Send
<1> HIDE DEF r
<1>3. i \in DOMAIN array /\ Accepted(array, i, config.dispatch) /\ array[i].name = x.name
  BY <1>1, <1>2, LookupValue, SMTT(20)
<1> HIDE DEF i
<1>4. /\ Target(array[i], config.dispatch).name = x.name
      /\ Target(array[i], config.dispatch).signing_key_id = k
  BY <1>3 DEF Target
<1>5. k # Absent => contains(config.keyring, k)
  BY <1>2, <1>4, Zenon DEF KeyResolves
<1>6. r = [name |-> x.name, element |-> i, body |-> <<x.name, i>>, key |-> k,
           signature |-> IF k = Absent THEN {} ELSE {sign(config.keyring[k], 0, <<x.name, i>>)},
           age |-> 0, status |-> NULL]
  BY <1>4, Zenon DEF r, Request
<1>7. 0 \in 0..MaxDelay
  BY ExpansionAssumption
<1>8. /\ r.name = x.name /\ r.element = i /\ r.status = NULL /\ r.key = k /\ r.age = 0
       /\ r.body = <<x.name, i>>
       /\ r.signature = IF k = Absent THEN {} ELSE {sign(config.keyring[k], 0, <<x.name, i>>)}
  BY <1>6, Zenon
<1>9. r = [name |-> r.name, element |-> r.element, body |-> r.body, key |-> r.key,
            signature |-> r.signature, age |-> r.age, status |-> r.status]
  BY <1>6, <1>8, Zenon
<1>10. OnWire(r, array, config)
  BY <1>3, <1>5, <1>7, <1>8, <1>9, Zenon DEF OnWire
<1> HIDE DEF k
<1>11. \A m, n \in flight' : m.name = n.name => m = n
  <2>1. \A m, n \in flight : m.name = n.name => m = n
    BY <1>1, Zenon DEF WireInv
  <2>2. \A m \in flight : m.name # r.name
    BY <1>2, <1>8, Zenon DEF Waiting
  <2> QED BY <1>2, <2>1, <2>2, Zenon
<1>12. Answered(r, accepted)
  BY <1>8, ExpansionAssumption DEF Answered
<1>13. x.state = "pending"
  BY <1>2 DEF Waiting
<1>14. \A m \in flight' :
        /\ OnWire(m, array, config) /\ Answered(m, accepted)
        /\ <<m.name, m.element>> \in sent'
        /\ \E y \in rows : y.name = m.name /\ y.state = "pending"
  <2>1. \A m \in flight :
        /\ OnWire(m, array, config) /\ Answered(m, accepted)
        /\ <<m.name, m.element>> \in sent'
        /\ \E y \in rows : y.name = m.name /\ y.state = "pending"
    BY <1>1, <1>2, Zenon DEF WireInv
  <2>2. /\ <<r.name, r.element>> \in sent'
        /\ \E y \in rows : y.name = r.name /\ y.state = "pending"
    BY <1>2, <1>8, <1>13, Zenon
  <2> QED BY <1>2, <1>10, <1>12, <2>1, <2>2, Zenon
<1>15. <<x.name, i>>[2] = i
  OBVIOUS
<1>16. \A m \in sent' : m[2] \in DOMAIN array'
  BY <1>1, <1>2, <1>3, <1>15, Zenon DEF WireInv
<1>17. accepted' \subseteq {m[1] : m \in sent'}
  <2>1. accepted \subseteq {m[1] : m \in sent} /\ sent \subseteq sent'
    BY <1>1, <1>2, Zenon DEF WireInv
  <2> QED BY <1>1, <2>1
<1>18. DispatchedWasAccepted'
  BY <1>1, Zenon DEF WireInv, DispatchedWasAccepted
<1>19. WireInv'
  BY <1>1, <1>11, <1>14, <1>16, <1>17, <1>18, Zenon DEF WireInv
<1>20. RowsInv'
  BY <1>1, SameRows DEF event
<1>21. ExpansionInv'
  BY <1>1, <1>19, <1>20, Zenon DEF ExpansionInv
<1>22. \A m \in sent' \ sent : m[2] \in DOMAIN array /\ Accepted(array, m[2], config.dispatch)
  BY <1>2, <1>3, <1>15, Zenon
<1> QED BY <1>21, <1>22

-----------------------------------------------------------------------------
(* The invariant holds of an event no scheduler has seen.                    *)
LEMMA ExpansionInit ==
    ASSUME Init
    PROVE  ExpansionInv
  BY Zenon DEF Init, ExpansionInv, RowsInv, Covered, WireInv, DispatchedWasAccepted

(* Every step keeps the invariant, and sends only what is accepted.          *)
LEMMA ExpansionStep ==
    ASSUME ExpansionInv, [Next]_vars
    PROVE  /\ ExpansionInv'
           /\ \A m \in sent' \ sent : m[2] \in DOMAIN array /\ Accepted(array, m[2], config.dispatch)
<1> DEFINE Allowed == \A m \in sent' \ sent :
                        m[2] \in DOMAIN array /\ Accepted(array, m[2], config.dispatch)
<1>1. RowsInv /\ WireInv
  BY DEF ExpansionInv
<1>2. sent' = sent => Allowed
  OBVIOUS
<1>3. \A m \in flight : /\ OnWire(m, array, config) /\ Answered(m, accepted)
                         /\ \E x \in rows : x.name = m.name /\ x.state = "pending"
  BY <1>1, Zenon DEF WireInv
<1>4. \A m \in flight, s \in Answers :
        /\ OnWire([m EXCEPT !.status = s], array, config)
        /\ [m EXCEPT !.status = s].name = m.name /\ [m EXCEPT !.status = s].element = m.element
        /\ [m EXCEPT !.status = s].status = s
        /\ Verifies([m EXCEPT !.status = s]) <=> Verifies(m)
  BY <1>3, WireChanges, ZenonT(30)
<1>5. CASE Schedule
  <2>1. /\ rows = {} /\ array' = array /\ oversized' = oversized /\ config' = config
        /\ sent' = sent /\ flight' = flight /\ accepted' = accepted
    BY <1>1, <1>5, Zenon DEF Schedule, RowsInv, requests
  <2>2. flight' = {}
    BY <1>3, <2>1, Zenon
  <2>3. DispatchedWasAccepted'
    BY <1>5, ScheduleRows, Zenon DEF DispatchedWasAccepted
  <2>4. WireInv'
    BY <1>1, <2>1, <2>2, <2>3, Zenon DEF WireInv
  <2>5. ExpansionInv'
    BY <1>5, <2>1, <2>4, ScheduleRows, Zenon DEF ExpansionInv
  <2> QED BY <1>2, <2>1, <2>5
<1>6. ASSUME NEW c \in Configs, Reconfigure(c)
      PROVE  ExpansionInv' /\ Allowed
  <2>1. /\ config' = c /\ flight' = {} /\ array' = array /\ oversized' = oversized
        /\ rows' = rows /\ sent' = sent /\ accepted' = accepted /\ UNCHANGED <<event, rows>>
    BY <1>6, Zenon DEF Reconfigure, event, requests
  <2>2. RowsInv'
    BY <1>1, <2>1, SameRows
  <2>3. WireInv'
    BY <1>1, <2>1, Zenon DEF WireInv, DispatchedWasAccepted
  <2>4. ExpansionInv'
    BY <2>1, <2>2, <2>3, Zenon DEF ExpansionInv
  <2> QED BY <1>2, <2>1, <2>4
<1>7. ASSUME NEW x \in rows, DeadLetterPoison(x)
      PROVE  ExpansionInv' /\ Allowed
  <2>1. /\ Update(x, "dead_letter") /\ flight' = flight /\ accepted' = accepted
        /\ sent' = sent /\ UNCHANGED <<event, config, sent>>
        /\ \A m \in flight : m.name # x.name
    BY <1>7, Zenon DEF DeadLetterPoison, Waiting, requests
  <2>2. ExpansionInv'
    BY <2>1, UpdateWire
  <2> QED BY <1>2, <2>1, <2>2, SMTT(20)
<1>8. ASSUME NEW x \in rows, RetryDelivery(x)
      PROVE  ExpansionInv' /\ Allowed
  <2>1. /\ x.state # "pending" /\ Update(x, "pending") /\ flight' = flight
        /\ accepted' = accepted \ {x.name} /\ sent' = sent /\ UNCHANGED <<event, config, sent>>
    BY <1>8, Zenon DEF RetryDelivery
  <2>2. \A m \in flight : m.name # x.name
    BY <1>1, <1>3, <2>1, Zenon DEF RowsInv
  <2>3. ExpansionInv'
    BY <2>1, <2>2, UpdateWire, SMTT(20)
  <2> QED BY <1>2, <2>1, <2>3
<1>9. ASSUME NEW m \in flight, Delay(m)
      PROVE  ExpansionInv' /\ Allowed
  <2> DEFINE n == [m EXCEPT !.age = m.age + 1]
  <2>1. /\ m.status = NULL /\ m.age < MaxDelay /\ Change(m, n) /\ accepted' = accepted
        /\ sent' = sent /\ UNCHANGED <<event, config, rows, sent>>
    BY <1>9, Zenon DEF Delay
  <2>2. /\ OnWire(n, array, config) /\ Answered(n, accepted)
        /\ n.name = m.name /\ n.element = m.element
    BY <1>3, <2>1, WireChanges, Zenon
  <2> HIDE DEF n
  <2>3. ExpansionInv'
    BY <2>1, <2>2, ChangeWire, SMTT(20)
  <2> QED BY <1>2, <2>1, <2>3
<1>10. ASSUME NEW m \in flight, Reencode(m)
       PROVE  ExpansionInv' /\ Allowed
  <2> DEFINE n == [m EXCEPT !.body = <<"reencoded">>]
  <2>1. /\ m.status = NULL /\ Change(m, n) /\ accepted' = accepted
        /\ sent' = sent /\ UNCHANGED <<event, config, rows, sent>>
    BY <1>10, Zenon DEF Reencode
  <2>2. /\ OnWire(n, array, config) /\ Answered(n, accepted)
        /\ n.name = m.name /\ n.element = m.element
    BY <1>3, <2>1, WireChanges, Zenon
  <2> HIDE DEF n
  <2>3. ExpansionInv'
    BY <2>1, <2>2, ChangeWire, SMTT(20)
  <2> QED BY <1>2, <2>1, <2>3
<1>11. ASSUME NEW m \in flight, Receive(m)
       PROVE  ExpansionInv' /\ Allowed
  <2> DEFINE s == IF Verifies(m) THEN 200 ELSE 401
             n == [m EXCEPT !.status = s]
  <2>1. /\ Change(m, n) /\ sent' = sent /\ UNCHANGED <<event, config, rows, sent>>
        /\ accepted' = IF Verifies(m) THEN accepted \cup {m.name} ELSE accepted
    BY <1>11, Zenon DEF Receive
  <2>2. s \in Answers /\ (s = 200 => Verifies(m)) /\ (s = 401 => ~Verifies(m))
    BY DEF Answers
  <2> HIDE DEF s
  <2>3. /\ OnWire(n, array, config) /\ n.name = m.name /\ n.element = m.element /\ n.status = s
        /\ Verifies(n) <=> Verifies(m)
    BY <1>4, <2>2
  <2> HIDE DEF n
  <2>4. accepted \subseteq accepted' /\ accepted' \subseteq accepted \cup {m.name}
        /\ (Verifies(m) => m.name \in accepted')
    BY <2>1, Zenon
  <2>5. Answered(n, accepted')
    BY <2>2, <2>3, <2>4, SMTT(20) DEF Answered
  <2>6. ExpansionInv'
    BY <2>1, <2>3, <2>4, <2>5, ChangeWire, SMTT(20)
  <2> QED BY <1>2, <2>1, <2>6
<1>12. ASSUME NEW m \in flight, Refuse(m)
       PROVE  ExpansionInv' /\ Allowed
  <2>1. PICK s \in {307, 503} : Change(m, [m EXCEPT !.status = s])
    BY <1>12, Zenon DEF Refuse
  <2> DEFINE n == [m EXCEPT !.status = s]
  <2>2. accepted' = accepted /\ sent' = sent /\ UNCHANGED <<event, config, rows, sent>>
    BY <1>12, Zenon DEF Refuse
  <2>3. s \in Answers /\ s # 200 /\ s # 401
    BY DEF Answers
  <2>4. OnWire(n, array, config) /\ n.name = m.name /\ n.element = m.element /\ n.status = s
    BY <2>3, <1>4
  <2>5. Change(m, n)
    BY <2>1
  <2> HIDE DEF n
  <2>6. Answered(n, accepted)
    BY <2>3, <2>4, SMTT(20) DEF Answered
  <2>7. ExpansionInv'
    BY <2>2, <2>4, <2>5, <2>6, ChangeWire, SMTT(20)
  <2> QED BY <1>2, <2>2, <2>7
<1>13. ASSUME NEW m \in flight, Lose(m)
       PROVE  ExpansionInv' /\ Allowed
  BY <1>2, <1>13, DropWire, SMTT(20) DEF Lose
<1>14. ASSUME NEW x \in rows, NEW m \in flight, Respond(x, m)
       PROVE  ExpansionInv' /\ Allowed
  <2>1. /\ m.name = x.name /\ flight' = flight \ {m} /\ sent' = sent /\ accepted' = accepted
        /\ UNCHANGED <<event, config, sent, accepted>>
        /\ IF Delivered(m.status) THEN Update(x, "dispatched") ELSE UNCHANGED rows
    BY <1>14, Zenon DEF Respond
  <2>2. CASE ~Delivered(m.status)
    BY <1>2, <2>1, <2>2, DropWire, SMTT(20)
  <2>3. CASE Delivered(m.status)
    <3>1. m.status \in Answers
      BY <1>3, <1>14, Zenon DEF Respond, OnWire
    <3>2. m.status = 200
      BY <2>3, <3>1, SMTT(20) DEF Delivered, Answers
    <3>3. x.name \in accepted
      BY <1>3, <2>1, <3>2 DEF Answered
    <3>4. \A k \in flight \ {m} : k.name # x.name
      BY <1>1, <2>1, Zenon DEF WireInv
    <3>5. Update(x, "dispatched") /\ UNCHANGED <<event, config, sent>>
      BY <2>1, <2>3
    <3>6. ExpansionInv'
      BY <2>1, <3>3, <3>5, <3>4, UpdateWire, SMTT(20)
    <3> QED BY <1>2, <2>1, <3>6
  <2> QED BY <2>2, <2>3
<1>15. CASE UNCHANGED vars
  <2>1. /\ array' = array /\ oversized' = oversized /\ used' = used /\ config' = config
        /\ rows' = rows /\ sent' = sent /\ flight' = flight /\ accepted' = accepted
    BY <1>15 DEF vars, event, requests
  <2>2. RowsInv'
    BY <1>1, <1>15, SameRows DEF vars
  <2>3. WireInv'
    BY <1>1, <2>1, Zenon DEF WireInv, DispatchedWasAccepted
  <2>4. ExpansionInv'
    BY <2>1, <2>2, <2>3, Zenon DEF ExpansionInv
  <2> QED BY <1>2, <2>1, <2>4
<1> QED
  BY <1>5, <1>6, <1>7, <1>8, <1>9, <1>10, <1>11, <1>12, <1>13, <1>14, <1>15, SendWire, ZenonT(30) DEF Next

(* The invariant implies each of the state properties.                       *)
LEMMA ExpansionImplies ==
    ASSUME ExpansionInv
    PROVE  /\ TypeOK /\ TargetWithinLimits /\ RowPerCallback /\ LookupFindsOwn
           /\ VerifiesExactly /\ DispatchedWasAccepted
<1>1. /\ array \in Arrays /\ oversized \in BOOLEAN /\ config \in Configs /\ RowsInv /\ WireInv
  BY DEF ExpansionInv
<1>2. used \subseteq Configs /\ Cardinality(used) =< 1
  <2>1. CASE used = {}
    BY <2>1, FS_EmptySet
  <2>2. ASSUME NEW c \in Configs, used = {c}
        PROVE  used \subseteq Configs /\ Cardinality(used) =< 1
    BY <2>2, FS_Singleton
  <2> QED BY <1>1, <2>1, <2>2 DEF RowsInv
<1>3. \A m \in flight : m.age \in 0..MaxDelay /\ <<m.name, m.element>> \in sent
  BY <1>1, Zenon DEF WireInv, OnWire
<1>4. \A i \in DOMAIN array \ ValidIndices(array, config.dispatch) :
          RejectedFor(array, i, config.dispatch) \in InvalidReason
  BY <1>1, RejectedReason, Zenon
<1>5. TypeOK
  BY <1>1, <1>2, <1>3, <1>4, Zenon DEF TypeOK, RowsInv, WireInv
<1>6. TargetWithinLimits
  BY <1>1, TargetLimits, Zenon DEF TargetWithinLimits
<1>7. LookupFindsOwn
  <2> SUFFICES ASSUME NEW c \in used, NEW x \in rows, x.from \in ValidIndices(array, c.dispatch),
                      \A j \in 1..(x.from - 1) : Label(array[j], j) # x.name
               PROVE  validate_named_callback(array, x.name, c.dispatch) = x.from
    BY DEF LookupFindsOwn
  <2>1. x.from \in DOMAIN array /\ Accepted(array, x.from, c.dispatch)
    BY DEF ValidIndices
  <2>2. x.name = array[x.from].name
    BY <1>1, <2>1, AcceptedElement, Zenon DEF RowsInv
  <2> QED BY <1>1, <2>2, LookupFirst, Zenon
<1>8. \A m \in flight : Verifies(m) <=>
          (m.key # Absent =>
              /\ m.body = <<m.name, m.element>>
              /\ m.age =< MaxAge
              /\ config.keyring[m.key] = Trusted[m.key])
  <2>1. \A m \in flight : OnWire(m, array, config)
    BY <1>1, Zenon DEF WireInv
  <2> QED BY <2>1, Verdict, Zenon
<1>9. VerifiesExactly
  <2> SUFFICES ASSUME NEW m \in flight, m.status \in {200, 401}
               PROVE  m.status = 200 <=>
                        (m.key # Absent =>
                            /\ m.body = <<m.name, m.element>>
                            /\ m.age =< MaxAge
                            /\ config.keyring[m.key] = Trusted[m.key])
    BY DEF VerifiesExactly
  <2>1. OnWire(m, array, config) /\ Answered(m, accepted)
    BY <1>1, Zenon DEF WireInv
  <2>2. m.status = 200 <=> Verifies(m)
    BY <2>1 DEF Answered
  <2> QED BY <1>8, <2>2
<1>10. RowPerCallback
  BY <1>1, Zenon DEF RowsInv, Covered, RowPerCallback
<1> QED BY <1>1, <1>5, <1>6, <1>7, <1>9, <1>10, SMTT(20) DEF WireInv

-----------------------------------------------------------------------------
(* The invariant holds in every reachable state.                             *)
LEMMA ExpansionInvariant == Spec => []ExpansionInv
<1>1. Init => ExpansionInv
  BY ExpansionInit
<1>2. ExpansionInv /\ [Next]_vars => ExpansionInv'
  BY ExpansionStep
<1> QED BY <1>1, <1>2, PTL DEF Spec

(* One event's rows, requests and answers keep their types: no two rows have *)
(* one name, whatever names the callbacks have, and every rejection has a    *)
(* reason code of invalid_callbacks.                                         *)
THEOREM ExpansionTypeCorrect == Spec => []TypeOK
  BY ExpansionInvariant, ExpansionImplies, PTL

(* No accepted callback, whatever it says and whatever the settings default  *)
(* to, is dispatched with a parameter beyond the limits of callbacks.rs.     *)
THEOREM LimitsHold == Spec => []TargetWithinLimits
  BY ExpansionInvariant, ExpansionImplies, PTL

(* schedule_new_deliveries leaves no element of any array without a row.     *)
THEOREM NoCallbackLost == Spec => []RowPerCallback
  BY ExpansionInvariant, ExpansionImplies, PTL

(* fetch_due_deliveries finds the element a row was written for.             *)
THEOREM LookupSound == Spec => []LookupFindsOwn
  BY ExpansionInvariant, ExpansionImplies, PTL

(* verify_header accepts what sign signed, unaltered, with the receiver's    *)
(* own secret and within its window, and nothing else the dispatcher sends.  *)
THEOREM VerificationExact == Spec => []VerifiesExactly
  BY ExpansionInvariant, ExpansionImplies, PTL

(* deliver's Ok is a receiver's acceptance.                                  *)
THEOREM DispatchIsAcceptance == Spec => []DispatchedWasAccepted
  BY ExpansionInvariant, ExpansionImplies, PTL

(* parse_one_callback's checks, in the order in which they run, accept the   *)
(* well-formed elements of any array under any configuration.                *)
THEOREM ValidationExact == Spec => []AcceptsExactly
<1>1. ExpansionInv => AcceptsExactly
  <2> SUFFICES ASSUME ExpansionInv, NEW i \in DOMAIN array
               PROVE  Accepted(array, i, config.dispatch)
                        <=> WellFormed(array[i], config.dispatch)
    BY DEF AcceptsExactly
  <2>1. array \in Arrays
    BY DEF ExpansionInv
  <2>2. array[i] \in Element
    BY <2>1, ArrayShape, Zenon
  <2> QED BY <2>2, AcceptedIsWellFormed DEF Accepted
<1> QED BY <1>1, ExpansionInvariant, PTL

(* Every request is for an element that is well-formed under the             *)
(* configuration in force when it is sent.                                   *)
THEOREM OnlyAllowedSent == Spec => SentIsAllowed
<1>1. ExpansionInv /\ [Next]_vars =>
        [\A m \in sent' \ sent : WellFormed(array[m[2]], config.dispatch)]_vars
  <2> SUFFICES ASSUME ExpansionInv, [Next]_vars, NEW m \in sent' \ sent
               PROVE  WellFormed(array[m[2]], config.dispatch)
    OBVIOUS
  <2>1. array \in Arrays
    BY DEF ExpansionInv
  <2>2. m[2] \in DOMAIN array /\ Accepted(array, m[2], config.dispatch)
    BY ExpansionStep, Zenon
  <2>3. array[m[2]] \in Element
    BY <2>1, <2>2, ArrayShape, Zenon
  <2> QED BY <2>2, <2>3, AcceptedIsWellFormed, SMTT(20) DEF Accepted
<1> QED BY <1>1, ExpansionInvariant, PTL DEF Spec, SentIsAllowed
===============================================================================
