------------------------------- MODULE Webhook -------------------------------
(***************************************************************************)
(* The webhook request (crates/http-callback): the signature a dispatcher  *)
(* puts on it and a receiver verifies, and what deliver makes of the       *)
(* answer.                                                                 *)
(*                                                                         *)
(* An HMAC is the tuple of what it covers: two are equal when key, text    *)
(* and time are.  The signature headers of a request are a set, empty when *)
(* it is not signed.                                                       *)
(***************************************************************************)
EXTENDS Config, KeyRing

Hmac(material, timestamp, body) == <<material, timestamp, body>>

\* The header t=<ts>,v1=<hex>
sign(material, timestamp, body) == [t |-> timestamp, v1 |-> Hmac(material, timestamp, body)]

verify(material, timestamp, body, header) == header.v1 = Hmac(material, timestamp, body)

\* A receiver that forgets the replay window.
verify_header_ageless(material, body, signature, max_age, clock) ==
    \E header \in signature : verify(material, header.t, body, header)

\* parse_t_field, now.saturating_sub(ts) > max_age, verify: a time stamp ahead of
\* the receiver's clock has age zero.
verify_header(material, body, signature, max_age, clock) ==
    \E header \in signature :
        /\ clock - header.t =< max_age
        /\ verify(material, header.t, body, header)

\* extract_retry_after and parse_retry_after: seconds, or the time to a date, which
\* is zero when the date has passed.
parse_retry_after(header, clock) ==
    IF header.is = "seconds"
    THEN header.value
    ELSE IF header.is = "date"
         THEN IF header.value > clock THEN header.value - clock ELSE 0
         ELSE NULL

\* status.is_success() that takes a redirect for an answer.
Delivered_redirect(status) == status \in 200..399

\* deliver returns Ok.  The client follows no redirect.
Delivered(status) == status \in 200..299

\* The signing key of a target that names one is looked up at every attempt.  An
\* unknown id is a transient error before anything is sent.
KeyResolves(target, keyring) ==
    target.signing_key_id # Absent => contains(keyring, target.signing_key_id)

\* The request deliver builds, before it is under way; custom headers come last
\* and are never reserved.
Request(target, element, keyring, timestamp) ==
    LET body == <<target.name, element>> IN
    [name |-> target.name,
     element |-> element,
     body |-> body,
     key |-> target.signing_key_id,
     signature |-> IF target.signing_key_id = Absent
                   THEN {}
                   ELSE {sign(keyring[target.signing_key_id], timestamp, body)},
     age |-> 0,
     status |-> NULL]
==============================================================================
