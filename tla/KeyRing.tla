------------------------------- MODULE KeyRing -------------------------------
(***************************************************************************)
(* The signing keys (crates/core/src/keyring.rs).  A key id is its rank in *)
(* the order of the ids.  A secret in the environment is a record: what    *)
(* std::env::var says of the variable, the base64 alphabet of its value    *)
(* once white space is stripped, the decoded length, and the key material. *)
(***************************************************************************)
EXTENDS Integers

MIN_SECRET_BYTES == 32
MAX_SECRET_BYTES == 256

\* The decoders tried in turn; a value more than one accepts decodes alike.
Alphabets == {"standard", "standard_no_pad", "url_safe", "url_safe_no_pad"}

Decodes(secret) == secret.set /\ secret.utf8 /\ secret.alphabet \in Alphabets

LongEnough(secret) == secret.bytes >= MIN_SECRET_BYTES /\ secret.bytes =< MAX_SECRET_BYTES

\* A variable that an earlier id has already taken.
AlreadyUsed(signing_keys, id) ==
    \E prior \in DOMAIN signing_keys : prior < id /\ signing_keys[prior] = signing_keys[id]

\* The ids with an error.
KeyErrors(signing_keys, env) ==
    {id \in DOMAIN signing_keys :
        \/ signing_keys[id] \in {"", " "}
        \/ AlreadyUsed(signing_keys, id)
        \/ ~Decodes(env[signing_keys[id]])
        \/ ~LongEnough(env[signing_keys[id]])}

\* load_internal, when it succeeds: key id to secret.
KeysResolved(signing_keys, env) ==
    [id \in DOMAIN signing_keys |-> env[signing_keys[id]].material]

contains(keyring, id) == id \in DOMAIN keyring
==============================================================================
