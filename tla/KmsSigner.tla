----------------------------- MODULE KmsSigner ------------------------------
(***************************************************************************)
(* Signatures with a key of a key management service                       *)
(* (common/gcp_kms_signer.go): the service signs a digest with a nonce of  *)
(* its own choice, and the signer makes of its answer what Ethereum and    *)
(* the Pocket chain take.  The curve is a cyclic group of prime order; a   *)
(* point is given by its multiple of the generator.                        *)
(***************************************************************************)
EXTENDS Integers

CONSTANTS
    Order,      \* the order of the group, an odd prime
    PrivateKey  \* the private key; as a point, the public key

Scalars == 1 .. Order - 1

ASSUME OrderAssumption ==
    /\ Order \in Nat /\ Order > 2
    /\ \A a, b \in Scalars : (a * b) % Order # 0
ASSUME KeyAssumption == PrivateKey \in Scalars

InverseOf(a) == CHOOSE b \in Scalars : (a * b) % Order = 1

\* A point and its opposite have the same x coordinate, and y coordinates of
\* different parity.
XCoord(point) == IF point <= Order \div 2 THEN point ELSE Order - point
Parity(point) == IF point <= Order \div 2 THEN 0 ELSE 1

\* AsymmetricSign: for a digest and a nonce the parameters R and S, unless S
\* is zero, when the service chooses another nonce.
AsymmetricSign(digest, nonce) ==
    [ r |-> XCoord(nonce),
      s |-> (InverseOf(nonce) * (digest + XCoord(nonce) * PrivateKey)) % Order ]

\* Verify of the curve library.
Verifies(sig, digest, publicKey) ==
    LET w == InverseOf(sig.s)
        point == (digest * w + sig.r * w * publicKey) % Order
    IN  point # 0 /\ XCoord(point) = sig.r

\* RecoverCompact of the curve library: the public key for which the
\* signature is valid and its point has the parity; 0 if there is none.
RecoverCompact(sig, recoveryID, digest) ==
    LET point == CHOOSE p \in Scalars : XCoord(p) = sig.r /\ Parity(p) = recoveryID
    IN  (InverseOf(sig.r) * (sig.s * point + (Order - 1) * digest)) % Order

IsOverHalfOrder(s) == s > Order \div 2

-----------------------------------------------------------------------------

\* No signature, but an error.
NoSignature == [r |-> 0, s |-> 0, v |-> 0]

\* Mutant of EthSignHash: only the first recovery ID is tried.
EthSignHashFirst(sig, digest) ==
    IF RecoverCompact(sig, 0, digest) = PrivateKey
    THEN [r |-> sig.r, s |-> sig.s, v |-> 27]
    ELSE NoSignature

\* ethSignHash: both recovery IDs are tried until one gives the own address,
\* and the last byte is that ID plus 27.
EthSignHash(sig, digest) ==
    LET ids == {id \in {0, 1} : RecoverCompact(sig, id, digest) = PrivateKey}
    IN  IF ids = {} THEN NoSignature
        ELSE [r |-> sig.r, s |-> sig.s, v |-> 27 + CHOOSE id \in ids : \A other \in ids : id <= other]

\* Mutant of CosmosSignHash: an S over half the order is handed out.
CosmosSignHashAnyS(sig, digest) ==
    IF Verifies(sig, digest, PrivateKey) THEN [r |-> sig.r, s |-> sig.s, v |-> 0] ELSE NoSignature

\* cosmosSignHash: what has an S over half the order is refused, not negated,
\* and what does not verify is refused as well.
CosmosSignHash(sig, digest) ==
    IF ~IsOverHalfOrder(sig.s) /\ Verifies(sig, digest, PrivateKey)
    THEN [r |-> sig.r, s |-> sig.s, v |-> 0]
    ELSE NoSignature

=============================================================================
