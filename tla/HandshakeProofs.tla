--------------------------- MODULE HandshakeProofs ---------------------------
(***************************************************************************)
(* Handshake: what the set of nonces guarantees although a nonce is looked *)
(* up before its signature is verified and recorded after.  The inductive  *)
(* invariant relates the set to the accepted attempts in both directions   *)
(* and keeps, for every attempt that passed its checks, the nonces of the  *)
(* attempts accepted before it apart from its own.                         *)
(***************************************************************************)
EXTENDS Handshake, TLAPS

Began == [pc : {"verifying", "accepted", "rejected"}, message : Messages,
          after : SUBSET Attempts]

Nonce(a) == NonceOf[attempts[a].message]

AttemptsOK == attempts \in [Attempts -> {Idle} \cup Began]

\* Every recorded nonce is that of a signed message that was accepted.
BurntBySigned ==
    \A n \in seenNonces : \E a \in Attempts :
        attempts[a].pc = "accepted" /\ attempts[a].message \in Signed /\ Nonce(a) = n

\* Every accepted attempt's nonce is recorded.
AcceptedIsSeen == \A a \in Attempts : attempts[a].pc = "accepted" => Nonce(a) \in seenNonces

\* What was accepted before an attempt that passed its checks had another nonce.
EarlierDiffer ==
    \A a \in Attempts : attempts[a].pc \in {"verifying", "accepted"} =>
        \A b \in attempts[a].after : attempts[b].pc = "accepted" /\ Nonce(b) /= Nonce(a)

HandshakeInv == AttemptsOK /\ BurntBySigned /\ AcceptedIsSeen /\ EarlierDiffer

LEMMA BeganFields ==
    ASSUME AttemptsOK, NEW a \in Attempts, attempts[a].pc /= "idle"
    PROVE  /\ attempts[a].pc \in {"verifying", "accepted", "rejected"}
           /\ attempts[a].message \in Messages /\ attempts[a].after \subseteq Attempts
           /\ attempts[a] \in Began
BY DEF AttemptsOK, Idle, Began

\* An attempt that starts: the others' records stay, and the accepted ones too.
LEMMA ReceiveKeeps ==
    ASSUME HandshakeInv, NEW a \in Attempts, NEW m \in Messages, Receive(a, m)
    PROVE  HandshakeInv'
<1>0. AttemptsOK /\ BurntBySigned /\ AcceptedIsSeen /\ EarlierDiffer  BY DEF HandshakeInv
<1> DEFINE new == [pc |-> IF Validate(m) THEN "verifying" ELSE "rejected",
                   message |-> m, after |-> Accepted]
<1>1. /\ attempts[a] = Idle /\ attempts[a].pc = "idle" /\ seenNonces' = seenNonces
      /\ attempts' = [attempts EXCEPT ![a] = new]
  BY DEF Receive, Idle
<1>2. /\ new.pc = IF Validate(m) THEN "verifying" ELSE "rejected"
      /\ new.message = m /\ new.after = Accepted /\ new \in Began
  BY DEF Began, Accepted
<1> HIDE DEF new
<1>3. /\ attempts'[a] = new
      /\ \A b \in Attempts \ {a} : attempts'[b] = attempts[b]
  BY <1>0, <1>1 DEF AttemptsOK
<1>4. AttemptsOK'  BY <1>0, <1>1, <1>2 DEF AttemptsOK
<1>5. new.pc /= "accepted"  BY <1>2
<1>6. \A b \in Attempts : attempts[b].pc = "accepted" =>
          attempts'[b] = attempts[b] /\ Nonce(b)' = Nonce(b)
  BY <1>1, <1>3 DEF Nonce
<1>7. BurntBySigned'
  BY <1>0, <1>1, <1>6 DEF BurntBySigned
<1>8. AcceptedIsSeen'
  BY <1>0, <1>1, <1>3, <1>5, <1>6 DEF AcceptedIsSeen
<1>9. EarlierDiffer'
  <2> SUFFICES ASSUME NEW x \in Attempts, attempts'[x].pc \in {"verifying", "accepted"},
                      NEW b \in attempts'[x].after
               PROVE  attempts'[b].pc = "accepted" /\ Nonce(b)' /= Nonce(x)'
    BY DEF EarlierDiffer
  <2>1. CASE x = a
    <3>1. Validate(m) /\ b \in Accepted /\ Nonce(a)' = NonceOf[m]
      BY <1>2, <1>3, <2>1 DEF Nonce
    <3>2. b \in Attempts /\ attempts[b].pc = "accepted"  BY <3>1 DEF Accepted
    <3>3. Nonce(b) \in seenNonces  BY <1>0, <3>2 DEF AcceptedIsSeen
    <3>4. NonceOf[m] \notin seenNonces  BY <3>1 DEF Validate
    <3> QED BY <1>6, <2>1, <3>1, <3>2, <3>3, <3>4
  <2>2. CASE x /= a
    <3>1. attempts'[x] = attempts[x] /\ Nonce(x)' = Nonce(x)  BY <1>3, <2>2 DEF Nonce
    <3>2. attempts[b].pc = "accepted" /\ Nonce(b) /= Nonce(x)
      BY <1>0, <3>1 DEF EarlierDiffer
    <3>3. b \in Attempts
      <4>1. attempts[x].pc /= "idle"  BY <3>1
      <4> QED BY <1>0, <3>1, <4>1, BeganFields
    <3> QED BY <1>6, <3>1, <3>2, <3>3
  <2> QED BY <2>1, <2>2
<1> QED BY <1>4, <1>7, <1>8, <1>9 DEF HandshakeInv

\* An answer of verifyFn: one attempt under verification is accepted or not.
LEMMA AnswerKeeps ==
    ASSUME HandshakeInv, NEW a \in Attempts, Verified(a) \/ VerifyFails(a)
    PROVE  HandshakeInv'
<1>0. AttemptsOK /\ BurntBySigned /\ AcceptedIsSeen /\ EarlierDiffer  BY DEF HandshakeInv
<1>1. PICK pc \in {"accepted", "rejected"} :
         /\ attempts' = [attempts EXCEPT ![a].pc = pc]
         /\ seenNonces' = IF pc = "accepted" THEN seenNonces \cup {Nonce(a)} ELSE seenNonces
         /\ pc = "accepted" => attempts[a].message \in Signed
  BY DEF Verified, VerifyFails, Nonce
<1>2. attempts[a].pc = "verifying"  BY DEF Verified, VerifyFails
<1>3. attempts[a] \in Began  BY <1>0, <1>2, BeganFields
<1>4. /\ attempts'[a].pc = pc /\ attempts'[a].message = attempts[a].message
      /\ attempts'[a].after = attempts[a].after /\ attempts'[a] \in Began
      /\ \A b \in Attempts \ {a} : attempts'[b] = attempts[b]
  BY <1>0, <1>1, <1>3 DEF AttemptsOK, Began
<1>5. AttemptsOK'
  <2>1. attempts' = [attempts EXCEPT ![a] = attempts'[a]]  BY <1>0, <1>1 DEF AttemptsOK
  <2> QED BY <1>0, <1>4, <2>1 DEF AttemptsOK
<1>6. \A b \in Attempts : Nonce(b)' = Nonce(b)  BY <1>4 DEF Nonce
<1>7. \A b \in Attempts : attempts[b].pc = "accepted" =>
          attempts'[b] = attempts[b] /\ attempts'[b].pc = "accepted"
  BY <1>2, <1>4
<1>8. seenNonces \subseteq seenNonces'  BY <1>1
<1>9. BurntBySigned'
  <2> SUFFICES ASSUME NEW n \in seenNonces'
               PROVE  \E b \in Attempts : /\ attempts'[b].pc = "accepted"
                                          /\ attempts'[b].message \in Signed /\ Nonce(b)' = n
    BY DEF BurntBySigned
  <2>1. CASE n \in seenNonces
    <3>1. PICK b \in Attempts : /\ attempts[b].pc = "accepted"
                                /\ attempts[b].message \in Signed /\ Nonce(b) = n
      BY <1>0, <2>1 DEF BurntBySigned
    <3> QED BY <1>6, <1>7, <3>1
  <2>2. CASE n \notin seenNonces
    <3>1. pc = "accepted" /\ n = Nonce(a)  BY <1>1, <2>2
    <3> QED BY <1>1, <1>4, <1>6, <3>1
  <2> QED BY <2>1, <2>2
<1>10. AcceptedIsSeen'
  <2> SUFFICES ASSUME NEW b \in Attempts, attempts'[b].pc = "accepted"
               PROVE  Nonce(b)' \in seenNonces'
    BY DEF AcceptedIsSeen
  <2>1. CASE b = a  BY <1>1, <1>4, <1>6, <2>1
  <2>2. CASE b /= a  BY <1>0, <1>4, <1>6, <1>8, <2>2 DEF AcceptedIsSeen
  <2> QED BY <2>1, <2>2
<1>11. EarlierDiffer'
  <2> SUFFICES ASSUME NEW x \in Attempts, attempts'[x].pc \in {"verifying", "accepted"},
                      NEW b \in attempts'[x].after
               PROVE  attempts'[b].pc = "accepted" /\ Nonce(b)' /= Nonce(x)'
    BY DEF EarlierDiffer
  <2>1. attempts[x].pc \in {"verifying", "accepted"} /\ b \in attempts[x].after
    BY <1>2, <1>4
  <2>2. attempts[b].pc = "accepted" /\ Nonce(b) /= Nonce(x)
    BY <1>0, <2>1 DEF EarlierDiffer
  <2>3. b \in Attempts
    <3>1. attempts[x].pc /= "idle"  BY <2>1
    <3> QED BY <1>0, <2>1, <3>1, BeganFields
  <2> QED BY <1>6, <1>7, <2>2, <2>3
<1> QED BY <1>5, <1>9, <1>10, <1>11 DEF HandshakeInv

LEMMA RestartKeeps == ASSUME ProcessRestarts PROVE HandshakeInv'
<1>1. /\ seenNonces' = {} /\ attempts' = [a \in Attempts |-> Idle]
      /\ \A a \in Attempts : attempts'[a].pc = "idle"
  BY DEF ProcessRestarts, Idle
<1> QED BY <1>1 DEF HandshakeInv, AttemptsOK, BurntBySigned, AcceptedIsSeen, EarlierDiffer

LEMMA StandingKeeps ==
    ASSUME HandshakeInv, UNCHANGED <<seenNonces, attempts>>
    PROVE  HandshakeInv'
BY DEF HandshakeInv, AttemptsOK, BurntBySigned, AcceptedIsSeen, EarlierDiffer, Nonce

LEMMA HandshakeInduction == HandshakeSpec => []HandshakeInv
<1>1. HandshakeInit => HandshakeInv
  <2> SUFFICES ASSUME HandshakeInit PROVE HandshakeInv  OBVIOUS
  <2>1. /\ seenNonces = {} /\ attempts = [a \in Attempts |-> Idle]
        /\ \A a \in Attempts : attempts[a].pc = "idle"
    BY DEF HandshakeInit, Idle
  <2> QED BY <2>1 DEF HandshakeInv, AttemptsOK, BurntBySigned, AcceptedIsSeen, EarlierDiffer
<1>2. HandshakeInv /\ [HandshakeNext]_shakeVars => HandshakeInv'
  <2> SUFFICES ASSUME HandshakeInv, [HandshakeNext]_shakeVars PROVE HandshakeInv'  OBVIOUS
  <2>1. CASE \E a \in Attempts, m \in Messages : Receive(a, m)  BY <2>1, ReceiveKeeps
  <2>2. CASE \E a \in Attempts : Verified(a)  BY <2>2, AnswerKeeps
  <2>3. CASE \E a \in Attempts : VerifyFails(a)  BY <2>3, AnswerKeeps
  <2>4. CASE ProcessRestarts  BY <2>4, RestartKeeps
  <2>5. CASE TimePasses  BY <2>5, StandingKeeps DEF TimePasses
  <2>6. CASE UNCHANGED shakeVars  BY <2>6, StandingKeeps DEF shakeVars
  <2> QED BY <2>1, <2>2, <2>3, <2>4, <2>5, <2>6 DEF HandshakeNext
<1> QED BY <1>1, <1>2, PTL DEF HandshakeSpec

\* For any messages and number of attempts, whatever order their verifications
\* end in: a nonce is accepted twice only by attempts that overlapped.
THEOREM OnlyOverlapsReplay == HandshakeSpec => []ReplaysOverlap
<1>1. HandshakeInv => ReplaysOverlap
  <2> SUFFICES ASSUME HandshakeInv, NEW a \in Accepted, NEW b \in Accepted,
                      NonceOf[attempts[a].message] = NonceOf[attempts[b].message]
               PROVE  b \notin attempts[a].after
    BY DEF ReplaysOverlap
  <2>1. a \in Attempts /\ attempts[a].pc = "accepted"  BY DEF Accepted
  <2> QED BY <2>1 DEF HandshakeInv, EarlierDiffer, Nonce
<1> QED BY <1>1, HandshakeInduction, PTL

\* Only a signed message that was accepted uses up its nonce.
THEOREM NoncesBurnBySignature == HandshakeSpec => []OnlySignedNoncesBurn
<1>1. HandshakeInv => OnlySignedNoncesBurn
  BY DEF HandshakeInv, BurntBySigned, OnlySignedNoncesBurn, Accepted, Nonce
<1> QED BY <1>1, HandshakeInduction, PTL
=============================================================================
