------------------------------- MODULE Signing -------------------------------
(***************************************************************************)
(* The keys that sign tokens.  An instance of the finalizer or of the      *)
(* generator resolves the alias of the key once, when it starts, and keeps *)
(* what it found; the finalizer signs with it, and the generator publishes *)
(* it.  The development gateway is both, and may generate a key of its own *)
(* instead.                                                                *)
(***************************************************************************)
EXTENDS Naturals, FiniteSets

CONSTANTS
  Keys,         \* keys of KMS, or keys that NewInMemory may generate
  Finalizers,   \* instances that sign
  Generators,   \* instances that publish
  MaxMoves      \* bound: how often the alias is moved, or a key generated anew

NoKey == "none"
Instances == Finalizers \union Generators

ASSUME SigningAssumption ==
  /\ NoKey \notin Keys
  /\ MaxMoves \in Nat

RsaSpecs == {"RSA_2048", "RSA_3072", "RSA_4096"}
EccSpecs == {"ECC_NIST_P256", "ECC_NIST_P384", "ECC_NIST_P521"}
KeySpecs == RsaSpecs \union EccSpecs \union {"ECC_SECG_P256K1"}

RsaSchemes == {"PKCS1_V1_5_SHA_256", "PKCS1_V1_5_SHA_384", "PKCS1_V1_5_SHA_512"}

\* The largest number of octets of the two integers of a signature.
CurveOctets == [ECC_NIST_P256 |-> 32, ECC_NIST_P384 |-> 48, ECC_NIST_P521 |-> 66]
EcdsaScheme == [ECC_NIST_P256 |-> "ECDSA_SHA_256", ECC_NIST_P384 |-> "ECDSA_SHA_384",
                ECC_NIST_P521 |-> "ECDSA_SHA_512"]

\* What RFC 7518 means by an algorithm: the scheme, and for ECDSA the octets
\* of the signature.
Jwa == [RS256 |-> [scheme |-> "PKCS1_V1_5_SHA_256", octets |-> 0],
        RS384 |-> [scheme |-> "PKCS1_V1_5_SHA_384", octets |-> 0],
        RS512 |-> [scheme |-> "PKCS1_V1_5_SHA_512", octets |-> 0],
        ES256 |-> [scheme |-> "ECDSA_SHA_256", octets |-> 64],
        ES384 |-> [scheme |-> "ECDSA_SHA_384", octets |-> 96],
        ES512 |-> [scheme |-> "ECDSA_SHA_512", octets |-> 132]]

\* A length of 0 stands for a key without a transformer.
newKmsKey ==
  [RSA_2048 |-> [scheme |-> "PKCS1_V1_5_SHA_256", length |-> 0, algorithm |-> "RS256"],
   RSA_3072 |-> [scheme |-> "PKCS1_V1_5_SHA_384", length |-> 0, algorithm |-> "RS384"],
   RSA_4096 |-> [scheme |-> "PKCS1_V1_5_SHA_512", length |-> 0, algorithm |-> "RS512"],
   ECC_NIST_P256 |-> [scheme |-> "ECDSA_SHA_256", length |-> 32, algorithm |-> "ES256"],
   ECC_NIST_P384 |-> [scheme |-> "ECDSA_SHA_384", length |-> 48, algorithm |-> "ES384"],
   ECC_NIST_P521 |-> [scheme |-> "ECDSA_SHA_512", length |-> 66, algorithm |-> "ES512"]]

\* The algorithms with which jose lets a key of KMS sign.
Algs == {"RS256", "RS384", "RS512", "ES256", "ES384", "ES512"}

\* The algorithms of the discovery document; ES256 is listed twice.
signingAlgorithms == {"RS256", "RS384", "RS512", "ES256", "ES384"}

VARIABLES
  backend,    \* the backend that is configured, "kms" or "memory"
  keys,       \* the metadata of each key
  alias,      \* the key that the alias names
  moves,      \* how often the alias was moved, or a key generated anew
  signer,     \* the key that each instance resolved
  jwks,       \* jwks.json: the key it lists
  discovery,  \* openid-configuration: the algorithms it lists
  tokens      \* history: the tokens that were signed

signingVars == <<backend, keys, alias, moves, signer, jwks, discovery, tokens>>

SigningInit ==
  /\ backend \in {"kms", "memory"}
  /\ keys \in [Keys -> [spec : KeySpecs, usage : {"SIGN_VERIFY", "OTHER"},
                        enabled : BOOLEAN]]
  /\ backend = "memory" =>
       \A k \in Keys : keys[k] = [spec |-> "RSA_2048", usage |-> "SIGN_VERIFY",
                                  enabled |-> TRUE]
  /\ alias \in Keys
  /\ moves = 0
  /\ signer = [i \in Instances |-> NoKey]
  /\ jwks = {} /\ discovery = {} /\ tokens = {}

-------------------------------------------------------------------------------
(* KMS.                                                                    *)

MoveAlias ==
  /\ backend = "kms"
  /\ moves < MaxMoves
  /\ alias' \in Keys \ {alias}
  /\ moves' = moves + 1
  /\ UNCHANGED <<backend, keys, signer, jwks, discovery, tokens>>

Toggle(k) ==
  /\ backend = "kms"
  /\ keys' = [keys EXCEPT ![k].enabled = ~@]
  /\ UNCHANGED <<backend, alias, moves, signer, jwks, discovery, tokens>>

\* The signatures that KMS gives for a message, and a key in memory likewise.
\* KMS refuses a key that is not enabled and a scheme that is not one of the
\* key; an integer of an ECDSA signature may be short.
KmsSignatures(k, scheme) ==
  IF ~keys[k].enabled THEN {}
  ELSE IF keys[k].spec \in RsaSpecs /\ scheme \in RsaSchemes
    THEN {[key |-> k, scheme |-> scheme, octets |-> 0]}
  ELSE IF keys[k].spec \in EccSpecs /\ scheme = EcdsaScheme[keys[k].spec]
    THEN {[key |-> k, scheme |-> scheme, octets |-> CurveOctets[keys[k].spec] - short] :
            short \in {0, 1}}
  ELSE {}

-------------------------------------------------------------------------------
(* An instance.                                                            *)

Resolvable(k) ==
  /\ keys[k].enabled
  /\ keys[k].usage = "SIGN_VERIFY"
  /\ keys[k].spec \in DOMAIN newKmsKey
  /\ newKmsKey[keys[k].spec].algorithm \in Algs

\* NewKMS; when it fails, the process exits and is started again.
NewKMS(i) ==
  /\ backend = "kms"
  /\ signer[i] = NoKey
  /\ Resolvable(alias)
  /\ signer' = [signer EXCEPT ![i] = alias]
  /\ UNCHANGED <<backend, keys, alias, moves, jwks, discovery, tokens>>

\* The keys that an instance holds, or that a token or a document names.
KnownKeys ==
  {signer[i] : i \in Instances} \union {t.kid : t \in tokens}
    \union {jwk.kid : jwk \in jwks}

\* NewInMemory generates a key that nobody had before.  Only the development
\* gateway, which signs and publishes, may be configured to use it.
NewInMemory(i) ==
  /\ backend = "memory"
  /\ i \in Finalizers \intersect Generators
  /\ signer[i] = NoKey
  /\ moves < MaxMoves
  /\ \E k \in Keys \ KnownKeys : signer' = [signer EXCEPT ![i] = k]
  /\ moves' = IF KnownKeys = {NoKey} THEN moves ELSE moves + 1
  /\ UNCHANGED <<backend, keys, alias, jwks, discovery, tokens>>

\* The instance is discarded, and with it what it resolved.
Discard(i) ==
  /\ signer[i] # NoKey
  /\ signer' = [signer EXCEPT ![i] = NoKey]
  /\ UNCHANGED <<backend, keys, alias, moves, jwks, discovery, tokens>>

\* Mutant: the key is published under its alias, and not its resolved name.
PublicKeyByAlias(k) ==
  [kid |-> NoKey, key |-> k, alg |-> newKmsKey[keys[k].spec].algorithm]

\* What PublicKey returns of the key that was resolved.
PublicKey(k) == [kid |-> k, key |-> k, alg |-> newKmsKey[keys[k].spec].algorithm]

\* GetPublicKey fails for a key that is not enabled; jwks.json is left then.
WriteJwkSet(i) ==
  /\ i \in Generators
  /\ signer[i] # NoKey
  /\ keys[signer[i]].enabled
  /\ jwks' = {PublicKey(signer[i])}
  /\ UNCHANGED <<backend, keys, alias, moves, signer, discovery, tokens>>

WriteDiscoveryDocument(i) ==
  /\ i \in Generators
  /\ signer[i] # NoKey
  /\ discovery' = signingAlgorithms
  /\ UNCHANGED <<backend, keys, alias, moves, signer, jwks, tokens>>

\* FillBytes panics when an integer does not fit, and pads it otherwise.
transformEcdsaSignature(length, signature) ==
  IF length = 0 THEN {signature}
  ELSE IF signature.octets > length THEN {}
  ELSE {[signature EXCEPT !.octets = 2 * length]}

\* Mutant: the key is asked for by its alias, and not by its resolved name.
SignByAlias(i) ==
  /\ i \in Finalizers
  /\ signer[i] # NoKey
  /\ LET key == newKmsKey[keys[signer[i]].spec] IN
       \E raw \in KmsSignatures(alias, key.scheme) :
         \E signature \in transformEcdsaSignature(key.length, raw) :
           tokens' = tokens \union
             {[kid |-> signer[i], alg |-> key.algorithm, signature |-> signature]}
  /\ UNCHANGED <<backend, keys, alias, moves, signer, jwks, discovery>>

Sign(i) ==
  /\ i \in Finalizers
  /\ signer[i] # NoKey
  /\ LET key == newKmsKey[keys[signer[i]].spec] IN
       \E raw \in KmsSignatures(signer[i], key.scheme) :
         \E signature \in transformEcdsaSignature(key.length, raw) :
           tokens' = tokens \union
             {[kid |-> signer[i], alg |-> key.algorithm, signature |-> signature]}
  /\ UNCHANGED <<backend, keys, alias, moves, signer, jwks, discovery>>

-------------------------------------------------------------------------------
InstanceStep(i) ==
  \/ NewKMS(i) \/ NewInMemory(i) \/ Discard(i)
  \/ WriteJwkSet(i) \/ WriteDiscoveryDocument(i) \/ Sign(i)

SigningNext ==
  \/ MoveAlias
  \/ \E k \in Keys : Toggle(k)
  \/ \E i \in Instances : InstanceStep(i)

SigningSpec == SigningInit /\ [][SigningNext]_signingVars
-------------------------------------------------------------------------------
(* Properties.                                                             *)

\* Types; an instance only ever holds a key that is one for signing.
SigningTypeOK ==
  /\ backend \in {"kms", "memory"}
  /\ alias \in Keys
  /\ moves \in 0 .. MaxMoves
  /\ signer \in [Instances -> Keys \union {NoKey}]
  /\ \A i \in Instances :
       signer[i] # NoKey => keys[signer[i]].usage = "SIGN_VERIFY"
  /\ Cardinality(jwks) <= 1
  /\ discovery \in {{}, signingAlgorithms}
  /\ \A t \in tokens : t.kid \in Keys /\ t.alg \in DOMAIN Jwa

\* How a relying party verifies a token with a published key.
Verifies(t, jwk) ==
  /\ t.kid = jwk.kid /\ t.alg = jwk.alg
  /\ t.signature.key = jwk.key
  /\ t.signature.scheme = Jwa[t.alg].scheme
  /\ t.signature.octets = Jwa[t.alg].octets

\* A token that names the published key verifies with it, whatever happened to
\* the alias between the start of the instance that signed and that of the one
\* that published.
PublishedKeyVerifies ==
  \A t \in tokens, jwk \in jwks : t.kid = jwk.kid => Verifies(t, jwk)

\* The discovery document lists the algorithm of a token, but for the keys on
\* P-521: their ES512 is not in the list, which has ES256 twice.
Advertised(t) ==
  discovery # {} => t.alg \in discovery \/ keys[t.kid].spec = "ECC_NIST_P521"

\* As long as the alias was not moved and no key generated anew, whoever reads
\* the published documents can verify every token, also those that were signed
\* before the documents were written.
UnverifiableOnlyAfterMove ==
  moves = 0 =>
    \A t \in tokens, jwk \in jwks : Verifies(t, jwk) /\ Advertised(t)
=============================================================================
