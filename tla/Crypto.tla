------------------------------- MODULE Crypto -------------------------------
(***************************************************************************)
(* Keys, hostnames and signatures (crates/protocol/src/crypto.rs) as terms *)
(* that only equal terms are equal to.  A key names the private key and    *)
(* its public key alike.  Assumed of the library and of chance: a          *)
(* signature can be made with the private key only, 64 random bytes are    *)
(* drawn once, and no two keys share the first 20 characters of their      *)
(* hash.                                                                   *)
(***************************************************************************)
EXTENDS Integers

CONSTANT Keys

PREFIX == "CraftIPServerHost"

\* The free function: what is signed is never the bare challenge.
create_challenge(data) == [prefix |-> PREFIX, data |-> data]

sign(key, data) == [by |-> key, of |-> create_challenge(data)]

verify(key, data, signature) ==
    signature.by = key /\ signature.of = create_challenge(data)

\* Variant: always the same bytes.
random_challenge_Constant(drawn) == 1

\* The method create_challenge: 64 random bytes are a number not drawn before.
random_challenge(drawn) == drawn + 1

\* Prefix, hash, base 36, truncation and suffix.
get_hostname(key) == [prefix |-> PREFIX, key |-> key]
=============================================================================
