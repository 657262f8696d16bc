---------------------------- MODULE ContainerFile ----------------------------
(***************************************************************************)
(* The container file: how a set of profiles is sealed under a passphrase  *)
(* and opened again (core/src/profile/format.rs, set.rs, policy.rs,        *)
(* rotation.rs, core/src/crypto).                                          *)
(*                                                                         *)
(* Cryptography is ideal: a key is the passphrase, salt and parameters it  *)
(* was derived from, and a ciphertext opens under the key it was made with *)
(* and under no other.  A salt is one of the members of Salts, chosen      *)
(* afresh by the caller; nonces and base64 are left out, a field that does *)
(* not decode is the field "bad" of the header.                            *)
(*                                                                         *)
(* A provider entry is a tag and a body.  A build knows KnownTags; entries *)
(* under any other tag were written by a newer build and are carried in    *)
(* RAM as [tag |-> Carrier, body |-> the whole foreign entry].             *)
(***************************************************************************)
EXTENDS Naturals, Sequences, FiniteSets, SequencesExt

CONSTANTS KnownTags,    \* KNOWN_PROVIDER_TAGS
          Carrier,      \* UNKNOWN_PROVIDER_TAG
          Policy,       \* POLICY_V1: [memory, iterations, parallelism]
          MaxMemory, MaxIterations, MaxParallelism

ASSUME ContainerFileAssumption ==
    /\ Carrier \notin KnownTags
    /\ MaxMemory \in Nat /\ MaxIterations \in Nat /\ MaxParallelism \in Nat
    /\ Policy \in [memory : 0..MaxMemory, iterations : 1..MaxIterations,
                   parallelism : 1..MaxParallelism]

-------------------------------------------------------------------------------
(***************************************************************************)
(* Keys.                                                                   *)
(***************************************************************************)

validate(cfg) ==
    /\ cfg.memory <= MaxMemory
    /\ cfg.iterations \in 1..MaxIterations
    /\ cfg.parallelism \in 1..MaxParallelism

\* ProfileKek: the key and what it was derived from.
derive_key(passphrase, salt, cfg) ==
    [passphrase |-> passphrase, salt |-> salt, cfg |-> cfg]

needs_rotation(cfg, policy) == \E p \in DOMAIN policy : cfg[p] < policy[p]

-------------------------------------------------------------------------------
(***************************************************************************)
(* Sets of profiles.  schema is 2 or more; a payload of the first format   *)
(* is one profile without a set around it.                                 *)
(***************************************************************************)

Aliases(set) == [i \in DOMAIN set.profiles |-> set.profiles[i].alias]

contains_alias(set, alias) == alias \in ToSet(Aliases(set))

Entries(set) == UNION {ToSet(p.providers) : p \in ToSet(set.profiles)}

IsEntry(e) == e = [tag |-> e.tag, body |-> e.body]

\* Profiles in an order, each with its entries in an order.
IsProfileSet(set) ==
    /\ set = [schema |-> set.schema, profiles |-> set.profiles]
    /\ set.profiles \in Seq(ToSet(set.profiles))
    /\ \A p \in ToSet(set.profiles) :
          /\ p = [alias |-> p.alias, providers |-> p.providers]
          /\ p.providers \in Seq(ToSet(p.providers))
          /\ \A e \in ToSet(p.providers) : IsEntry(e)

\* Nobody writes a carrier to a file.
Stored(set) == IsProfileSet(set) /\ \A e \in Entries(set) : e.tag # Carrier

\* Every entry of the profile, or of the set, as the function has it.
Rewritten(p, entries) ==
    [p EXCEPT !.providers = [j \in DOMAIN p.providers |-> entries[p.providers[j]]]]

ForEachEntry(set, entries) ==
    [set EXCEPT !.profiles =
        [i \in DOMAIN set.profiles |-> Rewritten(set.profiles[i], entries)]]

\* What this build's typed decode accepts.
Typed(set) == \A e \in Entries(set) : e.tag \in KnownTags \cup {Carrier}

Shielded(e) == IF e.tag \in KnownTags \cup {Carrier} THEN e
               ELSE [tag |-> Carrier, body |-> e]

\* fault: a carrier is written as it stands in RAM.
CarrierWritten(e) == e

Restored(e) == IF e.tag = Carrier THEN e.body ELSE e

shield_unknown_providers(set) ==
    ForEachEntry(set, [e \in Entries(set) |-> Shielded(e)])
restore_unknown_providers(set) ==
    ForEachEntry(set, [e \in Entries(set) |-> Restored(e)])

\* A carrier around a known or reserved tag would not decode again.
Writable(set) == \A e \in Entries(set) :
                    e.tag = Carrier => e.body.tag \notin KnownTags \cup {Carrier}

-------------------------------------------------------------------------------
(***************************************************************************)
(* Sealing and opening.                                                    *)
(***************************************************************************)

Fail(e) == [ok |-> FALSE, error |-> e]

encrypt_set_with_kek(set, kek) ==
    IF ~Writable(set) THEN Fail("PayloadEncode")
    ELSE [ok |-> TRUE,
          envelope |-> [header |-> "v1", cfg |-> kek.cfg, salt |-> kek.salt,
                        key |-> kek,
                        payload |-> [is |-> "set",
                                     set |-> restore_unknown_providers(set)]]]

encrypt_set_with_config(set, passphrase, salt, cfg) ==
    IF ~validate(cfg) THEN Fail("Kdf")
    ELSE LET kek    == derive_key(passphrase, salt, cfg)
             sealed == encrypt_set_with_kek(set, kek)
         IN  IF sealed.ok THEN [ok |-> TRUE, kek |-> kek, envelope |-> sealed.envelope]
             ELSE sealed

\* The headers a build refuses before any key is derived, in the order of the
\* checks.
HeaderErrors == {"InvalidEnvelope", "UnsupportedVersion", "UnsupportedKdf",
                 "UnsupportedCipher", "UnsupportedPayloadFormat", "Base64Decode",
                 "InvalidLength"}

Decoded(payload) ==
    CASE payload.is = "set" /\ payload.set.schema >= 2 ->
            LET set == IF Typed(payload.set) THEN payload.set
                       ELSE shield_unknown_providers(payload.set)
            IN  IF Typed(set) THEN [ok |-> TRUE, set |-> set]
                ELSE Fail("PayloadDecode")
      [] payload.is = "profile" -> Fail("LegacyFormat")
      [] OTHER                  -> Fail("PayloadDecode")

decrypt_set(envelope, passphrase) ==
    LET kek     == derive_key(passphrase, envelope.salt, envelope.cfg)
        decoded == Decoded(envelope.payload)
    IN  IF envelope.header \in HeaderErrors THEN Fail(envelope.header)
        ELSE IF ~validate(envelope.cfg) THEN Fail("Kdf")
        ELSE IF envelope.key # kek THEN Fail("Aead")
        ELSE IF decoded.ok THEN [ok |-> TRUE, kek |-> kek, set |-> decoded.set]
        ELSE decoded

\* None written: the file is at the policy already.
rotate_set_if_needed(set, kek, passphrase, salt) ==
    IF needs_rotation(kek.cfg, Policy)
    THEN encrypt_set_with_config(set, passphrase, salt, Policy)
    ELSE Fail("AtPolicy")
===============================================================================
