--------------------------- MODULE RotationProofs ---------------------------
(***************************************************************************)
(* Proofs about password rotation, for any accounts, devices, passwords,   *)
(* salts and parameters, and any number of delayed requests.               *)
(***************************************************************************)
EXTENDS Telemetry, TLAPS

(***************************************************************************)
(* Facts about the ciphers.                                                *)
(***************************************************************************)

\* The wrap holds account a's master key under password and a's Secret Key.
WrapsFor(wrap, a, password) ==
  wrap.master_key_wrapped =
    seal(derive_kek(password, a, wrap.kdf_salt, wrap.kdf_params), a)

\* A re-wrap is such a wrap.
LEMMA RewrapWraps ==
  ASSUME NEW a, NEW password, NEW salt, NEW params
  PROVE  WrapsFor(rewrap_master_key(a, a, password, salt, params), a, password)
  BY DEF WrapsFor, rewrap_master_key

\* A bundle with such a wrap opens with that password and key and no others,
\* to a's keys.
LEMMA UnlockIff ==
  ASSUME NEW a \in Accounts, NEW b, NEW password, NEW p, NEW k,
         b.private_wrapped = seal(a, a), WrapsFor(b.wrap, a, password)
  PROVE  /\ unlock_identity(b, password, a) = [master_key |-> a, private |-> a]
         /\ unlock_identity(b, p, k) # None =>
              /\ p = password /\ k = a
              /\ unlock_identity(b, p, k) = [master_key |-> a, private |-> a]
<1> DEFINE Kek(q, j) == derive_kek(q, j, b.wrap.kdf_salt, b.wrap.kdf_params)
<1>1. \A q, j : Kek(q, j) = Kek(password, a) => q = password /\ j = a
  BY DEF derive_kek
<1>2. /\ b.wrap.master_key_wrapped.key = Kek(password, a)
      /\ b.wrap.master_key_wrapped.plaintext = a
      /\ b.private_wrapped.key = a /\ b.private_wrapped.plaintext = a
  BY DEF WrapsFor, seal
<1>3. a # None
  BY RotationAssumption
<1>4. \A q, j : unlock_identity(b, q, j) =
                 IF Kek(password, a) = Kek(q, j) THEN [master_key |-> a, private |-> a] ELSE None
  BY <1>2, <1>3 DEF unlock_identity, open
<1> HIDE DEF Kek
<1>5. QED
  BY <1>1, <1>4

(***************************************************************************)
(* The invariant.  What the server keeps and every request that may still  *)
(* reach it wraps the account's own master key under its own Secret Key,   *)
(* whatever else the device had read.                                      *)
(***************************************************************************)

RequestOK(r) == r \in Requests /\ WrapsFor(r.wrap, r.account, r.new_password)

RotationInv ==
  /\ \A a \in Accounts :
       /\ bundle[a].private_wrapped = seal(a, a)
       /\ WrapsFor(bundle[a].wrap, a, verifier[a])
  /\ \A r \in delayed : RequestOK(r)
  /\ \A d \in Devices : At(d, "sent") => RequestOK(call[d].request)
  /\ SignInUnlocksOwn

LEMMA InitRotation == Init => TypeOK /\ RotationInv
<1> SUFFICES ASSUME Init PROVE TypeOK /\ RotationInv
  OBVIOUS
<1>1. PICK salt \in [Accounts -> Salts], params \in [Accounts -> Params] :
        bundle = [a \in Accounts |-> bootstrap_identity(a, verifier[a], salt[a], params[a])]
  BY DEF Init
<1>2. \A a \in Accounts :
        /\ bundle[a] = bootstrap_identity(a, verifier[a], salt[a], params[a])
        /\ bundle[a].private_wrapped = seal(a, a)
        /\ bundle[a].wrap = rewrap_master_key(a, a, verifier[a], salt[a], params[a])
  BY <1>1 DEF bootstrap_identity
<1>3. \A a \in Accounts : WrapsFor(bundle[a].wrap, a, verifier[a])
  BY <1>2, RewrapWraps
<1>4. \A a \in Accounts : bundle[a] \in Bundles
  <2> TAKE a \in Accounts
  <2>1. verifier[a] \in Passwords /\ salt[a] \in Salts /\ params[a] \in Params
    BY DEF Init
  <2>2. rewrap_master_key(a, a, verifier[a], salt[a], params[a]) \in Wraps
    BY <2>1 DEF rewrap_master_key, seal, derive_kek, Wraps, Keks
  <2>3. seal(a, a) \in [key : Accounts, plaintext : Accounts]
    BY DEF seal
  <2>4. bundle[a] = [private_wrapped |-> seal(a, a),
                     wrap |-> rewrap_master_key(a, a, verifier[a], salt[a], params[a])]
    BY <1>2 DEF bootstrap_identity
  <2>5. QED
    BY <2>2, <2>3, <2>4 DEF Bundles
<1>5. bundle \in [Accounts -> Bundles]
  BY <1>1, <1>4
<1>6. TypeOK
  BY <1>5 DEF Init, TypeOK, Idle, Calls, PCs, Option
<1>7. QED
  BY <1>2, <1>3, <1>6 DEF Init, RotationInv, SignInUnlocksOwn, At, Idle

\* What a call of any device gets from unlocking the bundle it has fetched.
LEMMA UnlockedIsOwn ==
  ASSUME TypeOK, RotationInv, NEW d \in Devices, call[d].account \in Accounts,
         Unlocked(d) # None
  PROVE  /\ call[d].key = call[d].account
         /\ Unlocked(d) = [master_key |-> call[d].account, private |-> call[d].account]
<1>1. /\ bundle[call[d].account].private_wrapped = seal(call[d].account, call[d].account)
      /\ WrapsFor(bundle[call[d].account].wrap, call[d].account, verifier[call[d].account])
  BY DEF RotationInv
<1>2. QED
  BY <1>1, UnlockIff DEF Unlocked

\* A request built from it is in order.
LEMMA SentOK ==
  ASSUME TypeOK, RotationInv, NEW d \in Devices, NEW salt \in Salts, SendChange(d, salt)
  PROVE  RequestOK(ChangeRequest(call[d], Unlocked(d), salt))
<1> DEFINE k == call[d]
<1>1. /\ k.account \in Accounts /\ k.password \in Passwords /\ k.new \in Passwords
      /\ k.key = k.account /\ Unlocked(d).master_key = k.account
  BY UnlockedIsOwn DEF SendChange, TypeOK, At
<1> DEFINE w == rewrap_master_key(k.account, k.account, k.new, salt, DefaultParams)
<1>2. WrapsFor(w, k.account, k.new)
  BY RewrapWraps
<1>3. w \in Wraps
  BY <1>1, RotationAssumption DEF rewrap_master_key, seal, derive_kek, Wraps, Keks
<1>4. ChangeRequest(k, Unlocked(d), salt) =
        [account |-> k.account, current_password |-> k.password,
         new_password |-> k.new, wrap |-> w]
  BY <1>1 DEF ChangeRequest
<1> HIDE DEF w
<1>5. QED
  BY <1>1, <1>2, <1>3, <1>4 DEF RequestOK, Requests

\* Taking a request that is in order leaves the server in order.
LEMMA ChangeOK ==
  ASSUME TypeOK, RotationInv, NEW r, RequestOK(r), Change(r)
  PROVE  /\ verifier' \in [Accounts -> Passwords]
         /\ bundle' \in [Accounts -> Bundles]
         /\ \A a \in Accounts :
              /\ bundle'[a].private_wrapped = seal(a, a)
              /\ WrapsFor(bundle'[a].wrap, a, verifier'[a])
<1>1. /\ r.account \in Accounts /\ r.new_password \in Passwords /\ r.wrap \in Wraps
      /\ WrapsFor(r.wrap, r.account, r.new_password)
  BY DEF RequestOK, Requests
<1>2. /\ verifier' = [verifier EXCEPT ![r.account] = r.new_password]
      /\ bundle' = [bundle EXCEPT ![r.account] = [bundle[r.account] EXCEPT !.wrap = r.wrap]]
  BY <1>1 DEF Change, TypeOK
<1>3. \A a \in Accounts : bundle[a] \in Bundles
  BY DEF TypeOK
<1>4. /\ [bundle[r.account] EXCEPT !.wrap = r.wrap] \in Bundles
      /\ [bundle[r.account] EXCEPT !.wrap = r.wrap].wrap = r.wrap
      /\ [bundle[r.account] EXCEPT !.wrap = r.wrap].private_wrapped
           = bundle[r.account].private_wrapped
  BY <1>1, <1>3 DEF Bundles
<1>5. QED
  BY <1>1, <1>2, <1>3, <1>4 DEF TypeOK, RotationInv

LEMMA NextRotation == TypeOK /\ RotationInv /\ [Next]_vars => TypeOK' /\ RotationInv'
<1> SUFFICES ASSUME TypeOK, RotationInv, [Next]_vars PROVE TypeOK' /\ RotationInv'
  OBVIOUS
<1> DEFINE ServerOK ==
      /\ verifier \in [Accounts -> Passwords]
      /\ bundle \in [Accounts -> Bundles]
      /\ \A a \in Accounts :
           /\ bundle[a].private_wrapped = seal(a, a)
           /\ WrapsFor(bundle[a].wrap, a, verifier[a])
    CallOK(d) ==
      /\ call[d] \in Calls
      /\ call[d].pc \in {"fetch", "login", "material"} =>
           call[d].account \in Accounts /\ call[d].password \in Passwords
                                       /\ call[d].key \in Accounts
      /\ call[d].pc = "fetch" => call[d].new \in Passwords
      /\ call[d].pc = "sent" => RequestOK(call[d].request)
      /\ call[d].pc = "unlocked" =>
           /\ call[d].account \in Accounts /\ call[d].key = call[d].account
           /\ call[d].identity = [master_key |-> call[d].account, private |-> call[d].account]
<1>1. ServerOK /\ \A d \in Devices : CallOK(d)
  BY DEF TypeOK, RotationInv, SignInUnlocksOwn, At
<1>2. \A r \in delayed : RequestOK(r)
  BY DEF RotationInv
\* Each step keeps the server, the calls and the delayed requests in order.
<1>3. ASSUME ServerOK', call' \in [Devices -> Calls], \A d \in Devices : CallOK(d)',
             \A r \in delayed' : RequestOK(r)
      PROVE  TypeOK' /\ RotationInv'
  <2>1. \A d \in Devices : LET k == call'[d] IN
          /\ k.pc \in {"fetch", "login", "material"} =>
               k.account \in Accounts /\ k.password \in Passwords /\ k.key \in Accounts
          /\ k.pc = "fetch" => k.new \in Passwords
          /\ k.pc = "sent" => k.request \in Requests
          /\ k.pc = "unlocked" => k.account \in Accounts /\ k.identity \in Identities
    <3> TAKE d \in Devices
    <3>1. CallOK(d)'
      BY <1>3
    <3>2. \A a \in Accounts : [master_key |-> a, private |-> a] \in Identities
      BY DEF Identities
    <3>3. QED
      BY <3>1, <3>2 DEF RequestOK
  <2>2. delayed' \subseteq Requests
    BY <1>3 DEF RequestOK
  <2>3. TypeOK'
    BY <1>3, <2>1, <2>2 DEF TypeOK
  <2>4. RotationInv'
    BY <1>3 DEF RotationInv, SignInUnlocksOwn, At
  <2>5. QED
    BY <2>3, <2>4
<1>4. ASSUME UNCHANGED <<verifier, bundle>> PROVE ServerOK'
  BY <1>1, <1>4
\* A step of one device moves its own call only.
<1>5. ASSUME NEW d \in Devices, NEW k, call' = [call EXCEPT ![d] = k],
             k \in Calls,
             k.pc \in {"fetch", "login", "material"} =>
               k.account \in Accounts /\ k.password \in Passwords /\ k.key \in Accounts,
             k.pc = "fetch" => k.new \in Passwords,
             k.pc = "sent" => RequestOK(k.request),
             k.pc = "unlocked" =>
               /\ k.account \in Accounts /\ k.key = k.account
               /\ k.identity = [master_key |-> k.account, private |-> k.account]
      PROVE  call' \in [Devices -> Calls] /\ \A e \in Devices : CallOK(e)'
  BY <1>1, <1>5 DEF TypeOK
<1> HIDE DEF ServerOK, CallOK
\* A call that returns.
<1>6. ASSUME NEW d \in Devices, Return(d)
      PROVE  call' \in [Devices -> Calls] /\ \A e \in Devices : CallOK(e)'
  BY <1>5, <1>6 DEF Return, Idle, Calls, PCs, Option
<1>7. ASSUME NEW d \in Devices, NEW a \in Accounts, NEW key \in Accounts,
             NEW password \in Passwords, BeginSignIn(d, a, password, key)
      PROVE  TypeOK' /\ RotationInv'
  <2> DEFINE k == [Idle EXCEPT !.pc = "login", !.account = a,
                               !.password = password, !.key = key]
  <2>1. k \in Calls /\ k.pc = "login" /\ k.account = a /\ k.password = password /\ k.key = key
    BY DEF Idle, Calls, PCs, Option
  <2>2. call' = [call EXCEPT ![d] = k] /\ UNCHANGED <<verifier, bundle, delayed>>
    BY <1>7 DEF BeginSignIn
  <2> HIDE DEF k
  <2>3. QED
    BY <1>2, <1>3, <1>4, <1>5, <2>1, <2>2
<1>8. ASSUME NEW d \in Devices, NEW a \in Accounts, NEW key \in Accounts,
             NEW password \in Passwords, NEW new \in Passwords,
             BeginChange(d, a, password, new, key)
      PROVE  TypeOK' /\ RotationInv'
  <2> DEFINE k == [Idle EXCEPT !.pc = "fetch", !.account = a, !.password = password,
                               !.new = new, !.key = key]
  <2>1. /\ k \in Calls /\ k.pc = "fetch" /\ k.account = a /\ k.password = password
        /\ k.new = new /\ k.key = key
    BY DEF Idle, Calls, PCs, Option
  <2>2. call' = [call EXCEPT ![d] = k] /\ UNCHANGED <<verifier, bundle, delayed>>
    BY <1>8 DEF BeginChange
  <2> HIDE DEF k
  <2>3. QED
    BY <1>2, <1>3, <1>4, <1>5, <2>1, <2>2
<1>9. ASSUME NEW d \in Devices, NEW salt \in Salts, SendChange(d, salt)
      PROVE  TypeOK' /\ RotationInv'
  <2> DEFINE r == ChangeRequest(call[d], Unlocked(d), salt)
             k == [call[d] EXCEPT !.pc = "sent", !.request = r]
  <2>1. RequestOK(r)
    BY <1>9, SentOK
  <2>2. call' = [call EXCEPT ![d] = k] /\ UNCHANGED <<verifier, bundle, delayed>>
    BY <1>9 DEF SendChange, TypeOK
  <2> HIDE DEF r
  <2>3. k \in Calls /\ k.pc = "sent" /\ k.request = r
    BY <2>1 DEF TypeOK, Calls, PCs, Option, RequestOK
  <2> HIDE DEF k
  <2>4. QED
    BY <1>2, <1>3, <1>4, <1>5, <2>1, <2>2, <2>3
<1>10. ASSUME NEW d \in Devices, UnlockRejected(d) \/ ChangeRejected(d) \/ SignedIn(d) \/ CallFails(d)
       PROVE  TypeOK' /\ RotationInv'
  BY <1>2, <1>3, <1>4, <1>6, <1>10 DEF UnlockRejected, ChangeRejected, SignedIn, CallFails
<1>11. ASSUME NEW d \in Devices, ChangeAccepted(d) PROVE TypeOK' /\ RotationInv'
  <2>1. RequestOK(call[d].request) /\ Change(call[d].request)
    BY <1>11 DEF ChangeAccepted, RotationInv
  <2>2. ServerOK'
    BY <2>1, ChangeOK DEF ServerOK
  <2>3. QED
    BY <1>2, <1>3, <1>6, <1>11, <2>2 DEF ChangeAccepted
<1>12. ASSUME NEW d \in Devices, GiveUp(d) PROVE TypeOK' /\ RotationInv'
  <2>1. RequestOK(call[d].request)
    BY <1>12 DEF GiveUp, RotationInv
  <2>2. QED
    BY <1>2, <1>3, <1>4, <1>6, <1>12, <2>1 DEF GiveUp
<1>13. ASSUME NEW d \in Devices, LoginAccepted(d) PROVE TypeOK' /\ RotationInv'
  <2> DEFINE k == [call[d] EXCEPT !.pc = "material"]
  <2>1. call' = [call EXCEPT ![d] = k] /\ UNCHANGED <<verifier, bundle, delayed>>
    BY <1>13 DEF LoginAccepted, TypeOK
  <2>2. /\ k \in Calls /\ k.pc = "material"
        /\ k.account \in Accounts /\ k.password \in Passwords /\ k.key \in Accounts
    BY <1>13 DEF LoginAccepted, At, TypeOK, Calls, PCs
  <2> HIDE DEF k
  <2>3. QED
    BY <1>2, <1>3, <1>4, <1>5, <2>1, <2>2
<1>14. ASSUME NEW d \in Devices, UnlockMaterial(d) PROVE TypeOK' /\ RotationInv'
  <2> DEFINE i == Unlocked(d)
             k == [call[d] EXCEPT !.pc = "unlocked", !.identity = i]
  <2>1. call' = [call EXCEPT ![d] = k] /\ UNCHANGED <<verifier, bundle, delayed>>
    BY <1>14 DEF UnlockMaterial, TypeOK
  <2>2. /\ call[d].account \in Accounts /\ call[d].key = call[d].account
        /\ Unlocked(d) = [master_key |-> call[d].account, private |-> call[d].account]
    BY <1>14, UnlockedIsOwn DEF UnlockMaterial, TypeOK, At
  <2>3. i \in Identities
    BY <2>2 DEF Identities
  <2> HIDE DEF i
  <2>4. /\ k \in Calls /\ k.pc = "unlocked" /\ k.account = call[d].account
        /\ k.key = call[d].key /\ k.identity = i
    BY <2>3 DEF TypeOK, Calls, PCs, Option
  <2> HIDE DEF k
  <2>5. QED
    BY <1>2, <1>3, <1>4, <1>5, <2>1, <2>2, <2>4 DEF i
<1>15. ASSUME NEW r \in delayed, DelayedArrives(r) PROVE TypeOK' /\ RotationInv'
  <2>1. ServerOK'
    <3>1. CASE Accepts(r)
      BY <1>2, <1>15, <3>1, ChangeOK DEF DelayedArrives, ServerOK
    <3>2. CASE ~ Accepts(r)
      BY <1>4, <1>15, <3>2 DEF DelayedArrives
    <3>3. QED
      BY <3>1, <3>2
  <2>2. call' = call /\ \A q \in delayed' : RequestOK(q)
    BY <1>2, <1>15 DEF DelayedArrives
  <2>3. call' \in [Devices -> Calls] /\ \A d \in Devices : CallOK(d)'
    BY <1>1, <2>2 DEF TypeOK, CallOK
  <2>4. QED
    BY <1>3, <2>1, <2>2, <2>3
<1>16. ASSUME NEW r \in delayed, DelayedLost(r) PROVE TypeOK' /\ RotationInv'
  <2>1. /\ call' = call /\ \A q \in delayed' : RequestOK(q)
        /\ UNCHANGED <<verifier, bundle>>
    BY <1>2, <1>16 DEF DelayedLost
  <2>2. call' \in [Devices -> Calls] /\ \A d \in Devices : CallOK(d)'
    BY <1>1, <2>1 DEF TypeOK, CallOK
  <2>3. QED
    BY <1>3, <1>4, <2>1, <2>2
<1>17. CASE UNCHANGED vars
  <2>1. call' = call /\ delayed' = delayed /\ UNCHANGED <<verifier, bundle>>
    BY <1>17 DEF vars
  <2>2. call' \in [Devices -> Calls] /\ \A d \in Devices : CallOK(d)'
    BY <1>1, <2>1 DEF TypeOK, CallOK
  <2>3. QED
    BY <1>2, <1>3, <1>4, <2>1, <2>2
<1>18. QED
  BY <1>7, <1>8, <1>9, <1>10, <1>11, <1>12, <1>13, <1>14, <1>15, <1>16, <1>17
     DEF Next, Begin, Advance

LEMMA Rotation == Spec => [](TypeOK /\ RotationInv)
<1>1. Init => TypeOK /\ RotationInv
  BY InitRotation
<1>2. TypeOK /\ RotationInv /\ [Next]_vars => TypeOK' /\ RotationInv'
  BY NextRotation
<1>3. QED
  BY <1>1, <1>2, PTL DEF Spec

\* Every state is well typed (all of KeyRotation).
THEOREM RotationTypeCorrect == Spec => []TypeOK
<1>1. TypeOK /\ RotationInv => TypeOK
  OBVIOUS
<1>2. QED
  BY <1>1, Rotation, PTL

\* However devices, failures and late requests interleave, the password the
\* server accepts and the account's own Secret Key are the one pair that opens
\* its bundle (change_password, rewrap_master_key, unlock_identity).
THEOREM CredentialStaysOne == Spec => []OneCredential
<1>1. TypeOK /\ RotationInv => OneCredential
  <2> SUFFICES ASSUME TypeOK, RotationInv, NEW a \in Accounts
               PROVE  /\ unlock_identity(bundle[a], verifier[a], a)
                           = [master_key |-> a, private |-> a]
                      /\ \A password \in Passwords, key \in Accounts :
                           unlock_identity(bundle[a], password, key) # None =>
                             password = verifier[a] /\ key = a
    BY DEF OneCredential
  <2>1. bundle[a].private_wrapped = seal(a, a) /\ WrapsFor(bundle[a].wrap, a, verifier[a])
    BY DEF RotationInv
  <2>2. QED
    BY <2>1, UnlockIff
<1>2. QED
  BY <1>1, Rotation, PTL

\* A sign_in caches keys of the account it has a session of (login).
THEOREM SignInUnlocks == Spec => []SignInUnlocksOwn
<1>1. RotationInv => SignInUnlocksOwn
  BY DEF RotationInv
<1>2. QED
  BY <1>1, Rotation, PTL

(***************************************************************************)
(* The sealed box.                                                         *)
(***************************************************************************)

\* A sealed box opens with the recipient's secret, and with no other.
LEMMA SealedBoxOpens ==
  ASSUME NEW ephemeral, NEW recipient, NEW secret, NEW plaintext
  PROVE  open_sealed(secret, seal_to(ephemeral, public_key(recipient), plaintext)) =
           IF secret = recipient THEN plaintext ELSE None
<1> DEFINE blob == seal_to(ephemeral, public_key(recipient), plaintext)
           sealed_under == sealbox_key(diffie_hellman(ephemeral, public_key(recipient)),
                                       public_key(ephemeral), public_key(recipient))
           opened_with == sealbox_key(diffie_hellman(secret, public_key(ephemeral)),
                                      public_key(ephemeral), public_key(secret))
<1>1. /\ blob.ephemeral_public = public_key(ephemeral)
      /\ blob.sealed.key = sealed_under /\ blob.sealed.plaintext = plaintext
  BY DEF seal_to, seal
<1>2. sealed_under = opened_with <=> secret = recipient
  <2>1. {ephemeral, recipient} = {recipient, ephemeral}
    OBVIOUS
  <2>2. public_key(secret) = public_key(recipient) => secret = recipient
    BY DEF public_key
  <2>3. sealed_under.recipient_public = public_key(recipient)
        /\ opened_with.recipient_public = public_key(secret)
    BY DEF sealbox_key
  <2>4. ASSUME secret = recipient PROVE sealed_under = opened_with
    BY <2>1, <2>4 DEF diffie_hellman, public_key
  <2>5. QED
    BY <2>2, <2>3, <2>4
<1>3. open_sealed(secret, blob) =
        IF sealed_under = opened_with THEN plaintext ELSE None
  BY <1>1 DEF open_sealed, open
<1>4. QED
  BY <1>2, <1>3

\* Through every password change, and for any number of groups and machines,
\* an admin who signs in reads what was sent to the groups it has been given
\* the secret of, and nothing else.
THEOREM TelemetryStaysReadable == Spec => []TelemetryReadable
<1>1. RotationInv => TelemetryReadable
  <2> SUFFICES ASSUME RotationInv, NEW d \in Devices, At(d, "unlocked"),
                      NEW a \in Accounts, NEW g \in GroupSecrets, NEW h \in GroupSecrets,
                      NEW e \in Ephemerals, NEW f \in Ephemerals, NEW report \in Reports
               PROVE  Reads(call[d].identity, Grant(e, a, g), Sent(f, h, report)) =
                        IF a = call[d].account /\ g = h THEN report ELSE None
    BY DEF TelemetryReadable
  <2>1. call[d].identity.private = call[d].account
    <3>1. call[d].identity = [master_key |-> call[d].account, private |-> call[d].account]
      BY DEF RotationInv, SignInUnlocksOwn
    <3>2. QED
      BY <3>1
  <2>2. open_sealed(call[d].account, Grant(e, a, g)) = IF call[d].account = a THEN g ELSE None
    BY SealedBoxOpens DEF Grant
  <2>3. open_sealed(g, Sent(f, h, report)) = IF g = h THEN report ELSE None
    BY SealedBoxOpens DEF Sent
  <2>4. g # None
    BY GroupAssumption
  <2>5. QED
    BY <2>1, <2>2, <2>3, <2>4 DEF Reads
<1>2. QED
  BY <1>1, Rotation, PTL
=============================================================================
