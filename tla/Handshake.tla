----------------------------- MODULE Handshake -----------------------------
(***************************************************************************)
(* HandshakeValidator.requireValid: the checks of a received handshake are *)
(* made at once, its signature is verified asynchronously, and its nonce   *)
(* is recorded after that.  Several attempts are under way at a time; the  *)
(* set of nonces lives as long as the process.                             *)
(***************************************************************************)
EXTENDS Naturals, FiniteSets

CONSTANTS Messages, Attempts,
          NonceOf,     \* [Messages -> nonces]
          SentAt,      \* [Messages -> Nat], the message's timestamp
          Compatible,  \* application, organisation and version are the expected ones
          WellFormed,  \* nonce, public key and signature have their formats
          Signed,      \* the signature is the signer's, over these very fields
          MaxSkew,     \* maxTimestampSkewMs
          Horizon      \* bound on the clock

ASSUME SentAtAssumption == SentAt \in [Messages -> Nat]
ASSUME SkewAssumption == MaxSkew \in Nat /\ Horizon \in Nat

VARIABLES seenNonces,  \* options.seenNonces
          attempts,    \* the calls of requireValid
          clock

shakeVars == <<seenNonces, attempts, clock>>

Idle == [pc |-> "idle"]

HandshakeInit ==
    /\ seenNonces = {}
    /\ attempts = [a \in Attempts |-> Idle]
    /\ clock = 0

Skew(m) == IF clock >= SentAt[m] THEN clock - SentAt[m] ELSE SentAt[m] - clock

\* HandshakeValidator.validate; the first check that fails decides.
Validate(m) ==
    /\ m \in Compatible
    /\ Skew(m) <= MaxSkew
    /\ m \in WellFormed
    /\ NonceOf[m] \notin seenNonces

\* Calls already accepted when an attempt began.
Accepted == {a \in Attempts : attempts[a].pc = "accepted"}

\* (Recording the nonce before the signature is verified.)
ReceiveRecording(a, m) ==
    /\ attempts[a] = Idle
    /\ attempts' = [attempts EXCEPT ![a] =
                       [pc |-> IF Validate(m) THEN "verifying" ELSE "rejected",
                        message |-> m, after |-> Accepted]]
    /\ seenNonces' = seenNonces \cup {NonceOf[x] : x \in {y \in {m} : Validate(y)}}
    /\ UNCHANGED clock

\* requireValid up to its await of verifyFn.
Receive(a, m) ==
    /\ attempts[a] = Idle
    /\ attempts' = [attempts EXCEPT ![a] =
                       [pc |-> IF Validate(m) THEN "verifying" ELSE "rejected",
                        message |-> m, after |-> Accepted]]
    /\ UNCHANGED <<seenNonces, clock>>

\* verifyFn answers; only then is the nonce recorded.
Verified(a) ==
    /\ attempts[a].pc = "verifying"
    /\ IF attempts[a].message \in Signed
       THEN /\ attempts' = [attempts EXCEPT ![a].pc = "accepted"]
            /\ seenNonces' = seenNonces \cup {NonceOf[attempts[a].message]}
       ELSE /\ attempts' = [attempts EXCEPT ![a].pc = "rejected"]
            /\ UNCHANGED seenNonces
    /\ UNCHANGED clock

VerifyFails(a) ==
    /\ attempts[a].pc = "verifying"
    /\ attempts' = [attempts EXCEPT ![a].pc = "rejected"]
    /\ UNCHANGED <<seenNonces, clock>>

\* A restarted process has seen no nonce.
ProcessRestarts ==
    /\ seenNonces /= {}
    /\ seenNonces' = {}
    /\ attempts' = [a \in Attempts |-> Idle]
    /\ UNCHANGED clock

TimePasses == clock < Horizon /\ clock' = clock + 1 /\ UNCHANGED <<seenNonces, attempts>>

HandshakeNext ==
    \/ \E a \in Attempts, m \in Messages : Receive(a, m)
    \/ \E a \in Attempts : Verified(a)
    \/ \E a \in Attempts : VerifyFails(a)
    \/ ProcessRestarts
    \/ TimePasses

HandshakeSpec == HandshakeInit /\ [][HandshakeNext]_shakeVars

----------------------------------------------------------------------------
HandshakeTypeOK ==
    /\ seenNonces \subseteq {NonceOf[m] : m \in Messages}
    /\ attempts \in [Attempts -> {Idle} \cup
                        [pc : {"verifying", "accepted", "rejected"}, message : Messages,
                         after : SUBSET Attempts]]
    /\ clock \in Nat

\* "Replayed nonces are rejected" (HandshakeProtocol.ts) holds only so far: the
\* nonce is looked for before the awaited verification and recorded after it, so
\* attempts that overlap may all be accepted with one nonce.  One that begins after
\* another was accepted is refused its nonce, for as long as the process lives.
ReplaysOverlap ==
    \A a, b \in Accepted :
        a /= b /\ NonceOf[attempts[a].message] = NonceOf[attempts[b].message]
            => b \notin attempts[a].after

\* A message that nobody signed uses up no nonce, however its verification is
\* interleaved with others: the genuine message is still accepted.
OnlySignedNoncesBurn ==
    \A n \in seenNonces : \E a \in Accepted :
        attempts[a].message \in Signed /\ NonceOf[attempts[a].message] = n
============================================================================
