-------------------------- MODULE DiscoveryProofs --------------------------
(***************************************************************************)
(* Proofs about discovery and failover, for any servers, histories,        *)
(* callers, endpoints and lists, and fields of any content.                *)
(***************************************************************************)
EXTENDS Discovery, TLAPS

(***************************************************************************)
(* The signed bytes determine every field.                                 *)
(***************************************************************************)

\* A number is its lowest byte and the rest.
LEMMA Division ==
  ASSUME NEW n \in Nat
  PROVE  /\ n \div 256 \in Nat
         /\ n < 256 => n % 256 = n
  OBVIOUS

LEMMA SameDigits ==
  ASSUME NEW m \in Nat, NEW n \in Nat, m \div 256 = n \div 256, m % 256 = n % 256
  PROVE  m = n
  OBVIOUS

\* Dividing by 256 twice is dividing by its square.
LEMMA DivisionTwice ==
  ASSUME NEW n \in Nat
  PROVE  /\ n \div (256 * 256) = (n \div 256) \div 256
         /\ n \div (256 * 256 * 256) = ((n \div 256) \div 256) \div 256
  OBVIOUS

LEMMA Bytes ==
  ASSUME NEW n \in Nat
  PROVE  /\ be_bytes_u16(n) \in Seq(Byte) /\ Len(be_bytes_u16(n)) = 2
         /\ be_bytes_u32(n) \in Seq(Byte) /\ Len(be_bytes_u32(n)) = 4
<1>1. \A k \in Nat : k % 256 \in Byte
  BY DEF Byte
<1>2. n \div 256 \in Nat /\ n \div (256 * 256) \in Nat /\ n \div (256 * 256 * 256) \in Nat
  OBVIOUS
<1>3. QED
  BY <1>1, <1>2 DEF be_bytes_u16, be_bytes_u32

\* to_be_bytes loses nothing.
LEMMA BytesInjective ==
  /\ \A m, n \in u32 : be_bytes_u32(m) = be_bytes_u32(n) => m = n
  /\ \A m, n \in u16 : be_bytes_u16(m) = be_bytes_u16(n) => m = n
<1>1. ASSUME NEW m \in u32, NEW n \in u32, be_bytes_u32(m) = be_bytes_u32(n) PROVE m = n
  <2>1. /\ (m \div (256 * 256 * 256)) % 256 = (n \div (256 * 256 * 256)) % 256
        /\ (m \div (256 * 256)) % 256 = (n \div (256 * 256)) % 256
        /\ (m \div 256) % 256 = (n \div 256) % 256
        /\ m % 256 = n % 256
    BY <1>1 DEF be_bytes_u32
  <2> DEFINE m1 == m \div 256
             m2 == m1 \div 256
             n1 == n \div 256
             n2 == n1 \div 256
  <2>2. m \in Nat /\ n \in Nat
    BY DEF u32
  <2>3. m1 \in Nat /\ n1 \in Nat
    BY <2>2, Division
  <2>4. m2 \in Nat /\ n2 \in Nat
    BY <2>3, Division
  <2>5. /\ m2 \div 256 \in Nat /\ m2 \div 256 < 256
        /\ n2 \div 256 \in Nat /\ n2 \div 256 < 256
    BY <2>2, <2>4, Division, DivisionTwice DEF u32
  <2>6. (m2 \div 256) % 256 = (n2 \div 256) % 256 /\ m2 % 256 = n2 % 256
    BY <2>1, <2>2, DivisionTwice
  <2>7. m2 = n2
    BY <2>4, <2>5, <2>6, Division, SameDigits
  <2>8. m1 = n1
    BY <2>1, <2>3, <2>7, SameDigits
  <2>9. QED
    BY <2>1, <2>2, <2>8, SameDigits
<1>2. ASSUME NEW m \in u16, NEW n \in u16, be_bytes_u16(m) = be_bytes_u16(n)
      PROVE m = n
  <2>1. (m \div 256) % 256 = (n \div 256) % 256 /\ m % 256 = n % 256
    BY <1>2 DEF be_bytes_u16
  <2>2. /\ m \in Nat /\ m \div 256 \in Nat /\ m \div 256 < 256
        /\ n \in Nat /\ n \div 256 \in Nat /\ n \div 256 < 256
    BY Division DEF u16
  <2>3. m \div 256 = n \div 256
    BY <2>1, <2>2, Division
  <2>4. QED
    BY <2>1, <2>2, <2>3, SameDigits
<1>3. QED
  BY <1>1, <1>2

\* Concatenation of byte strings.
LEMMA Associative ==
  ASSUME NEW s \in Seq(Byte), NEW t \in Seq(Byte), NEW u \in Seq(Byte)
  PROVE  (s \o t) \o u = s \o (t \o u)
  OBVIOUS

\* Sequences of one length that agree everywhere are the same.
LEMMA SameSequence ==
  ASSUME NEW t \in Seq(Byte), NEW u \in Seq(Byte), Len(t) = Len(u),
         \A i \in 1 .. Len(t) : t[i] = u[i]
  PROVE  t = u
  OBVIOUS

LEMMA CancelLeft ==
  ASSUME NEW s \in Seq(Byte), NEW t \in Seq(Byte), NEW u \in Seq(Byte), s \o t = s \o u
  PROVE  t = u
<1>1. Len(t) = Len(u)
  OBVIOUS
<1>2. \A i \in 1 .. Len(t) : t[i] = (s \o t)[Len(s) + i] /\ u[i] = (s \o u)[Len(s) + i]
  BY <1>1
<1>3. \A i \in 1 .. Len(t) : t[i] = u[i]
  BY <1>2
<1> DEFINE st == s \o t
           su == s \o u
<1> HIDE DEF st, su
<1>4. QED
  BY <1>1, <1>3, SameSequence

\* Heads of one length can be taken off.
LEMMA SameHead ==
  \A a, b, s, t \in Seq(Byte) : Len(a) = Len(b) /\ a \o s = b \o t => a = b /\ s = t
<1> SUFFICES ASSUME NEW a \in Seq(Byte), NEW b \in Seq(Byte), NEW s \in Seq(Byte),
                    NEW t \in Seq(Byte), Len(a) = Len(b), a \o s = b \o t
             PROVE  a = b /\ s = t
  OBVIOUS
<1>1. \A i \in 1 .. Len(a) : a[i] = (a \o s)[i] /\ b[i] = (b \o t)[i]
  OBVIOUS
<1>2. a = b
  BY <1>1
<1>3. QED
  BY <1>2, CancelLeft

\* Concatenation, where the provers need to know nothing else of it.
Then(out, rest) == out \o rest

LEMMA ThenAssociative ==
  \A a, b, s \in Seq(Byte) : /\ Then(a, b) \in Seq(Byte)
                            /\ Then(Then(a, b), s) = Then(a, Then(b, s))
<1>1. \A a, b \in Seq(Byte) : Then(a, b) \in Seq(Byte)
  BY DEF Then
<1>2. ASSUME NEW a \in Seq(Byte), NEW b \in Seq(Byte), NEW s \in Seq(Byte)
      PROVE  Then(Then(a, b), s) = Then(a, Then(b, s))
  <2>1. (a \o b) \o s = a \o (b \o s)
    BY Associative
  <2>2. QED
    BY <2>1, Zenon DEF Then
<1>3. QED
  BY <1>1, <1>2

LEMMA ThenHead ==
  \A a, b, s, t \in Seq(Byte) :
    Len(a) = Len(b) /\ Then(a, s) = Then(b, t) => a = b /\ s = t
  BY SameHead DEF Then

\* One field behind its length, and what follows.
prefixed(field) == be_bytes_u32(Len(field)) \o field
Before(field, rest) == prefixed(field) \o rest

LEMMA FieldTypes ==
  /\ \A f \in Seq(Byte) : prefixed(f) \in Seq(Byte)
  /\ \A f, s \in Seq(Byte) : Before(f, s) \in Seq(Byte)
<1>1. \A f \in Seq(Byte) : prefixed(f) \in Seq(Byte)
  BY Bytes DEF prefixed
<1>2. QED
  BY <1>1 DEF Before

\* A field can be taken off the front: its length says where it ends.
LEMMA SameField ==
  \A f, g \in Field : \A s, t \in Seq(Byte) :
    Before(f, s) = Before(g, t) => f = g /\ s = t
<1> SUFFICES ASSUME NEW f \in Field, NEW g \in Field, NEW s \in Seq(Byte),
                    NEW t \in Seq(Byte), Before(f, s) = Before(g, t)
             PROVE  f = g /\ s = t
  OBVIOUS
<1> DEFINE lf == be_bytes_u32(Len(f))
           lg == be_bytes_u32(Len(g))
<1>1. /\ f \in Seq(Byte) /\ g \in Seq(Byte)
      /\ Len(f) \in u32 /\ Len(g) \in u32 /\ Len(f) \in Nat /\ Len(g) \in Nat
  BY DEF Field
<1>2. lf \in Seq(Byte) /\ lg \in Seq(Byte) /\ Len(lf) = 4 /\ Len(lg) = 4
  BY <1>1, Bytes
<1>3. Before(f, s) = Then(Then(lf, f), s) /\ Before(g, t) = Then(Then(lg, g), t)
  BY DEF prefixed, Before, Then
<1>4. Len(lf) = Len(lg)
  BY <1>2
<1> HIDE DEF lf, lg
<1>5. lf = lg /\ Then(f, s) = Then(g, t)
  <2>1. Then(lf, Then(f, s)) = Then(lg, Then(g, t))
    <3>1. Then(Then(lf, f), s) = Then(lf, Then(f, s))
      BY <1>1, <1>2, ThenAssociative
    <3>2. Then(Then(lg, g), t) = Then(lg, Then(g, t))
      BY <1>1, <1>2, ThenAssociative
    <3>3. QED
      BY <1>3, <3>1, <3>2
  <2>2. Then(f, s) \in Seq(Byte) /\ Then(g, t) \in Seq(Byte)
    BY <1>1, ThenAssociative
  <2>3. QED
    BY <1>2, <1>4, <2>1, <2>2, ThenHead
<1>6. Len(f) = Len(g)
  BY <1>1, <1>5, BytesInjective DEF lf, lg
<1>7. QED
  BY <1>1, <1>5, <1>6, ThenHead

\* Pushing a field to the end, behind others.
LEMMA PushField ==
  ASSUME NEW out \in Seq(Byte), NEW field \in Seq(Byte), NEW rest \in Seq(Byte)
  PROVE  /\ push_field(out, field) \in Seq(Byte)
         /\ Then(push_field(out, field), rest) = Then(out, Before(field, rest))
<1>1. prefixed(field) \in Seq(Byte)
  BY FieldTypes
<1>2. push_field(out, field) = out \o prefixed(field)
  BY DEF push_field, prefixed
<1>3. (out \o prefixed(field)) \o rest = out \o (prefixed(field) \o rest)
  BY <1>1, Associative
<1>4. QED
  BY <1>1, <1>2, <1>3 DEF Before, Then

\* The payload, field after field.
LEMMA PayloadFields ==
  ASSUME NEW version \in Nat, NEW nonce \in Seq(Byte), NEW public \in Seq(Byte),
         NEW grpc_port \in Nat, NEW name \in Seq(Byte)
  PROVE  payload(version, nonce, public, grpc_port, name) =
           Before(DOMAIN_TAG, Before(be_bytes_u32(version), Before(nonce,
             Before(public, Before(be_bytes_u16(grpc_port), Before(name, <<>>))))))
<1> DEFINE start == <<>>
           tag == DOMAIN_TAG
           v == be_bytes_u32(version)
           port == be_bytes_u16(grpc_port)
           o1 == push_field(start, tag)
           o2 == push_field(o1, v)
           o3 == push_field(o2, nonce)
           o4 == push_field(o3, public)
           o5 == push_field(o4, port)
           o6 == push_field(o5, name)
           r6 == Before(name, start)
           r5 == Before(port, r6)
           r4 == Before(public, r5)
           r3 == Before(nonce, r4)
           r2 == Before(v, r3)
           r1 == Before(tag, r2)
<1>1. /\ start \in Seq(Byte) /\ tag \in Seq(Byte)
      /\ v \in Seq(Byte) /\ port \in Seq(Byte)
  BY Bytes DEF DOMAIN_TAG, Byte
<1>2. payload(version, nonce, public, grpc_port, name) = o6
  BY DEF payload
<1> HIDE DEF start, tag, v, port
<1>3. r6 \in Seq(Byte)
  BY <1>1, FieldTypes
<1> HIDE DEF r6
<1>4. r5 \in Seq(Byte)
  BY <1>1, <1>3, FieldTypes
<1> HIDE DEF r5
<1>5. r4 \in Seq(Byte)
  BY <1>1, <1>4, FieldTypes
<1> HIDE DEF r4
<1>6. r3 \in Seq(Byte)
  BY <1>1, <1>5, FieldTypes
<1> HIDE DEF r3
<1>7. r2 \in Seq(Byte)
  BY <1>1, <1>6, FieldTypes
<1> HIDE DEF r2
<1>8. o1 \in Seq(Byte) /\ Then(o1, r2) = Then(start, r1)
  BY <1>1, <1>7, PushField
<1> HIDE DEF o1, r1
<1>9. o2 \in Seq(Byte) /\ Then(o2, r3) = Then(o1, r2)
  BY <1>1, <1>6, <1>8, PushField DEF r2
<1> HIDE DEF o2
<1>10. o3 \in Seq(Byte) /\ Then(o3, r4) = Then(o2, r3)
  BY <1>1, <1>5, <1>9, PushField DEF r3
<1> HIDE DEF o3
<1>11. o4 \in Seq(Byte) /\ Then(o4, r5) = Then(o3, r4)
  BY <1>1, <1>4, <1>10, PushField DEF r4
<1> HIDE DEF o4
<1>12. o5 \in Seq(Byte) /\ Then(o5, r6) = Then(o4, r5)
  BY <1>1, <1>3, <1>11, PushField DEF r5
<1> HIDE DEF o5
<1>13. Then(o6, start) = Then(o5, r6)
  BY <1>1, <1>12, PushField DEF r6
<1> HIDE DEF o6
<1>14. Then(o6, start) = Then(start, r1)
  BY <1>8, <1>9, <1>10, <1>11, <1>12, <1>13
<1>15. o6 \in Seq(Byte) /\ r1 \in Seq(Byte)
  BY <1>1, <1>7, <1>12, PushField, FieldTypes DEF o6, r1
<1>16. o6 = r1
  BY <1>14, <1>15 DEF Then, start
<1>17. QED
  BY <1>2, <1>16 DEF r1, r2, r3, r4, r5, r6, start, tag, v, port

\* What a payload describes, with fields of any content and length.
Described == [key : Field, nonce : Field, payload_version : u32, grpc_port : u16, name : Field]

\* canonical_bytes: two payloads are the same bytes only if they agree in every
\* field, whatever the lengths of the nonce, the key and the name.  A signature
\* over one response is never a signature over another.
THEOREM CanonicalInjective ==
  ASSUME NEW a \in Described, NEW b \in Described,
         payload(a.payload_version, a.nonce, a.key, a.grpc_port, a.name) =
         payload(b.payload_version, b.nonce, b.key, b.grpc_port, b.name)
  PROVE  a = b
<1> DEFINE v1 == a.payload_version
           v2 == b.payload_version
           n1 == a.nonce
           n2 == b.nonce
           k1 == a.key
           k2 == b.key
           p1 == a.grpc_port
           p2 == b.grpc_port
           m1 == a.name
           m2 == b.name
<1>0. /\ v1 \in u32 /\ v2 \in u32 /\ p1 \in u16 /\ p2 \in u16
      /\ n1 \in Field /\ n2 \in Field /\ k1 \in Field /\ k2 \in Field
      /\ m1 \in Field /\ m2 \in Field
      /\ payload(v1, n1, k1, p1, m1) = payload(v2, n2, k2, p2, m2)
  BY DEF Described
<1> HIDE DEF v1, v2, n1, n2, k1, k2, p1, p2, m1, m2
<1> DEFINE e1 == Before(m1, <<>>)
           e2 == Before(m2, <<>>)
           d1 == Before(be_bytes_u16(p1), e1)
           d2 == Before(be_bytes_u16(p2), e2)
           c1 == Before(k1, d1)
           c2 == Before(k2, d2)
           b1 == Before(n1, c1)
           b2 == Before(n2, c2)
           a1 == Before(be_bytes_u32(v1), b1)
           a2 == Before(be_bytes_u32(v2), b2)
<1>1. /\ v1 \in Nat /\ v2 \in Nat /\ p1 \in Nat /\ p2 \in Nat /\ <<>> \in Seq(Byte)
      /\ n1 \in Seq(Byte) /\ n2 \in Seq(Byte) /\ k1 \in Seq(Byte) /\ k2 \in Seq(Byte)
      /\ m1 \in Seq(Byte) /\ m2 \in Seq(Byte)
  BY <1>0 DEF u32, u16, Field
<1>2. Before(DOMAIN_TAG, a1) = Before(DOMAIN_TAG, a2)
  <2>1. payload(v1, n1, k1, p1, m1) = Before(DOMAIN_TAG, a1)
    BY <1>1, PayloadFields
  <2>2. payload(v2, n2, k2, p2, m2) = Before(DOMAIN_TAG, a2)
    BY <1>1, PayloadFields
  <2>3. QED
    BY <1>0, <2>1, <2>2
<1>3. /\ DOMAIN_TAG \in Field
      /\ be_bytes_u32(v1) \in Field /\ be_bytes_u32(v2) \in Field
      /\ be_bytes_u16(p1) \in Field /\ be_bytes_u16(p2) \in Field
  <2>1. DOMAIN_TAG \in Seq(Byte) /\ Len(DOMAIN_TAG) = 18
    BY DEF DOMAIN_TAG, Byte
  <2>2. 2 \in u32 /\ 4 \in u32 /\ 18 \in u32
    BY DEF u32
  <2>3. QED
    BY <1>1, <2>1, <2>2, Bytes DEF Field
<1>4. /\ be_bytes_u32(v1) \in Seq(Byte) /\ be_bytes_u32(v2) \in Seq(Byte)
      /\ be_bytes_u16(p1) \in Seq(Byte) /\ be_bytes_u16(p2) \in Seq(Byte)
  BY <1>1, Bytes
<1>5. e1 \in Seq(Byte) /\ e2 \in Seq(Byte)
  BY <1>1, FieldTypes
<1> HIDE DEF e1, e2
<1>6. d1 \in Seq(Byte) /\ d2 \in Seq(Byte)
  BY <1>4, <1>5, FieldTypes
<1> HIDE DEF d1, d2
<1>7. c1 \in Seq(Byte) /\ c2 \in Seq(Byte)
  BY <1>1, <1>6, FieldTypes
<1> HIDE DEF c1, c2
<1>8. b1 \in Seq(Byte) /\ b2 \in Seq(Byte)
  BY <1>1, <1>7, FieldTypes
<1> HIDE DEF b1, b2
<1>9. a1 \in Seq(Byte) /\ a2 \in Seq(Byte)
  BY <1>4, <1>8, FieldTypes
<1> HIDE DEF a1, a2
<1>10. a1 = a2
  BY <1>2, <1>3, <1>9, SameField
<1>11. be_bytes_u32(v1) = be_bytes_u32(v2) /\ b1 = b2
  BY <1>3, <1>8, <1>10, SameField DEF a1, a2
<1>12. n1 = n2 /\ c1 = c2
  BY <1>0, <1>7, <1>11, SameField DEF b1, b2
<1>13. k1 = k2 /\ d1 = d2
  BY <1>0, <1>6, <1>12, SameField DEF c1, c2
<1>14. be_bytes_u16(p1) = be_bytes_u16(p2) /\ e1 = e2
  BY <1>3, <1>5, <1>13, SameField DEF d1, d2
<1>15. m1 = m2
  BY <1>0, <1>1, <1>14, SameField DEF e1, e2
<1>16. v1 = v2 /\ p1 = p2
  BY <1>0, <1>11, <1>14, BytesInjective
<1>17. QED
  BY <1>12, <1>13, <1>15, <1>16 DEF Described, v1, v2, n1, n2, k1, k2, p1, p2, m1, m2

(***************************************************************************)
(* Type correctness.                                                       *)
(***************************************************************************)

LEMMA InitTypeOK == Init => TypeOK
<1> SUFFICES ASSUME Init PROVE TypeOK
  OBVIOUS
<1>1. FailoverTypeOK
  <2>1. NoAttempt \in Attempts
    BY DEF NoAttempt, Attempts, Lists, Option
  <2>2. QED
    BY <2>1 DEF Init, FailoverInit, FailoverTypeOK
<1>2. Idle \in Calls
  BY DEF Idle, Calls, Option
<1>3. \A s \in Servers : Len(History[s]) \in Nat \ {0}
  BY HistoryAssumption
<1>4. QED
  BY <1>1, <1>2, <1>3 DEF Init, TypeOK, At, Idle

\* The steps of connect, whoever calls it.
LEMMA ConnectType ==
  ASSUME FailoverTypeOK, NEW c \in Callers,
         \/ \E endpoints \in Lists : BeginConnect(c, endpoints)
         \/ TryEndpoint(c) \/ ConnectFails(c) \/ TakeResult(c)
  PROVE  FailoverTypeOK'
<1> USE DEF FailoverTypeOK
<1>1. ASSUME NEW endpoints \in Lists, BeginConnect(c, endpoints) PROVE FailoverTypeOK'
  <2>1. [NoAttempt EXCEPT !.endpoints = endpoints, !.at = 1, !.steady = up,
                          !.error = IF endpoints = <<>> THEN "NoEndpoints" ELSE None]
          \in Attempts
    BY <1>1 DEF NoAttempt, Attempts, Option, Errors
  <2>2. QED
    BY <1>1, <2>1 DEF BeginConnect
<1>2. CASE TryEndpoint(c)
  <2> DEFINE k == attempt[c]
             endpoint == k.endpoints[k.at]
  <2>1. k \in Attempts /\ k.at \in 1 .. Len(k.endpoints)
    BY <1>2 DEF TryEndpoint, Trying, Attempts
  <2>2. endpoint \in Endpoints \cup Malformed
    BY <2>1 DEF Attempts, Lists
  <2>3. AfterMalformed(k) \in Attempts /\ AfterRefused(k) \in Attempts
    <3>1. k.at + 1 \in Nat
      BY <2>1 DEF Attempts
    <3>2. \A error \in Errors : [k EXCEPT !.at = k.at + 1, !.last = error] \in Attempts
      BY <2>1, <3>1 DEF Attempts, Option
    <3>3. QED
      BY <3>2 DEF AfterMalformed, AfterRefused, LastError, Errors
  <2>4. endpoint \in up => [k EXCEPT !.channel = endpoint] \in Attempts
    BY <2>1 DEF Attempts, Option
  <2> HIDE DEF k, endpoint
  <2>5. attempt' = [attempt EXCEPT ![c] =
          IF endpoint \in Malformed THEN AfterMalformed(k)
          ELSE IF endpoint \in up THEN [k EXCEPT !.channel = endpoint]
          ELSE AfterRefused(k)]
    BY <1>2 DEF TryEndpoint, k, endpoint
  <2>6. up' = up
    BY <1>2 DEF TryEndpoint
  <2>7. QED
    BY <2>3, <2>4, <2>5, <2>6
<1>3. CASE ConnectFails(c)
  <2> DEFINE k == attempt[c]
             error == IF k.last = None THEN "AllEndpointsFailed" ELSE k.last
  <2>1. k \in Attempts
    OBVIOUS
  <2>2. error \in Option(Errors)
    BY <2>1 DEF Attempts, Option, Errors
  <2>3. up' = up /\ attempt' = [attempt EXCEPT ![c].error = error]
    BY <1>3 DEF ConnectFails
  <2> HIDE DEF error
  <2>4. [k EXCEPT !.error = error] \in Attempts
    BY <2>1, <2>2 DEF Attempts
  <2>5. QED
    BY <2>3, <2>4
<1>4. CASE TakeResult(c)
  BY <1>4 DEF TakeResult, NoAttempt, Attempts, Lists, Option
<1>5. QED
  BY <1>1, <1>2, <1>3, <1>4

\* A call that ends, whatever it has done.
LEMMA IdleStep ==
  ASSUME TypeOK, NEW c \in Callers, call' = [call EXCEPT ![c] = Idle],
         UNCHANGED <<setting, used, signed>>, FailoverTypeOK'
  PROVE  TypeOK'
<1>1. Idle \in Calls /\ Idle.pc = "idle" /\ Idle.verified = None /\ Idle.nonce = None
  BY DEF Idle, Calls, Option
<1>2. call' \in [Callers -> Calls] /\ \A d \in Callers : call'[d] = IF d = c THEN Idle ELSE call[d]
  BY <1>1 DEF TypeOK
<1>3. \A d \in Callers : ~ At(d, "idle") => call[d].nonce # None
  BY NonceAssumption DEF TypeOK
<1>4. QED
  BY <1>1, <1>2, <1>3 DEF TypeOK, At

\* A call that draws a nonce nobody has drawn.
LEMMA FetchStep ==
  ASSUME TypeOK, NEW c \in Callers, NEW nonce \in Nonces, nonce \notin used,
         NEW k \in Calls, k.nonce = nonce, k.host \in Hosts, k.pc = "fetch", k.verified = None,
         call' = [call EXCEPT ![c] = k], used' = used \cup {nonce},
         UNCHANGED <<setting, signed>>, FailoverTypeOK'
  PROVE  TypeOK'
<1>1. call' \in [Callers -> Calls] /\ \A d \in Callers : call'[d] = IF d = c THEN k ELSE call[d]
  BY DEF TypeOK
<1>2. \A d \in Callers : call[d].nonce # nonce
  <2> TAKE d \in Callers
  <2>1. CASE At(d, "idle")
    BY <2>1, NonceAssumption DEF TypeOK, Idle
  <2>2. CASE ~ At(d, "idle")
    BY <2>2 DEF TypeOK
  <2>3. QED
    BY <2>1, <2>2
<1>3. \A b, d \in Callers : call'[b].nonce = call'[d].nonce => b = d \/ At(b, "idle")'
  BY <1>1, <1>2 DEF TypeOK, At
<1>4. \A d \in Callers : IF At(d, "idle")' THEN call'[d] = Idle
                         ELSE call'[d].nonce \in used' /\ call'[d].host \in Hosts
  BY <1>1 DEF TypeOK, At
<1>5. \A d \in Callers : At(d, "connect")' <=> call'[d].verified # None
  BY <1>1 DEF TypeOK, At
<1>6. QED
  BY <1>1, <1>3, <1>4, <1>5 DEF TypeOK

LEMMA NextTypeOK == TypeOK /\ [Next]_vars => TypeOK'
<1> SUFFICES ASSUME TypeOK, [Next]_vars PROVE TypeOK'
  OBVIOUS
<1> USE DEF TypeOK, At
<1>1. ASSUME NEW s \in Servers, Reconfigure(s) PROVE TypeOK'
  <2>1. Len(History[s]) \in Nat
    BY HistoryAssumption
  <2>2. FailoverTypeOK'
    BY <1>1 DEF Reconfigure, failoverVars, FailoverTypeOK
  <2>3. QED
    BY <1>1, <2>1, <2>2 DEF Reconfigure
<1>2. ASSUME NEW s \in Servers, NEW nonce \in used, Answer(s, nonce) PROVE TypeOK'
  <2>1. Signature(s, setting[s], nonce) \in {sig \in Signatures : sig.nonce \in used}
    <3>1. History[s] \in Seq(Settings) /\ setting[s] \in 1 .. Len(History[s])
      BY HistoryAssumption
    <3>2. History[s][setting[s]] \in Settings
      BY <3>1
    <3>3. QED
      BY <3>2 DEF Signature, Signatures, Settings
  <2>2. FailoverTypeOK'
    BY <1>2 DEF Answer, failoverVars, FailoverTypeOK
  <2>3. QED
    BY <1>2, <2>1, <2>2 DEF Answer
<1>3. ASSUME NEW c \in Callers, NEW host \in Hosts, NEW pinned \in Option(Servers),
             NEW nonce \in Nonces, BeginDiscovery(c, host, pinned, nonce)
      PROVE TypeOK'
  <2> DEFINE k == [Idle EXCEPT !.pc = "fetch", !.host = host, !.pinned = pinned,
                               !.nonce = nonce, !.since = setting]
  <2>1. k \in Calls /\ k.nonce = nonce /\ k.host \in Hosts /\ k.pc = "fetch" /\ k.verified = None
    BY DEF Idle, Calls, Option
  <2>2. call' = [call EXCEPT ![c] = k] /\ used' = used \cup {nonce} /\ nonce \notin used
    BY <1>3 DEF BeginDiscovery, random_nonce
  <2>3. UNCHANGED <<setting, signed>> /\ FailoverTypeOK'
    BY <1>3 DEF BeginDiscovery, failoverVars, FailoverTypeOK
  <2> HIDE DEF k
  <2>4. call' \in [Callers -> Calls] /\ \A d \in Callers : call'[d] = IF d = c THEN k ELSE call[d]
    BY <2>1, <2>2
  <2>5. QED
    BY <2>1, <2>2, <2>3, <2>4, FetchStep
<1>4. ASSUME NEW c \in Callers, DiscoveryFails(c) PROVE TypeOK'
  <2>1. call' = [call EXCEPT ![c] = Idle] /\ UNCHANGED <<setting, used, signed>>
    BY <1>4 DEF DiscoveryFails
  <2>2. FailoverTypeOK'
    BY <1>4 DEF DiscoveryFails, failoverVars, FailoverTypeOK
  <2>3. QED
    BY <2>1, <2>2, IdleStep
<1>5. ASSUME NEW c \in Callers, NEW resp \in Responses, DiscoveryVerified(c, resp)
      PROVE TypeOK'
  <2> DEFINE v == [identity_public |-> resp.server_identity_public,
                   grpc_port |-> resp.grpc_port, name |-> resp.name]
             k == [call[c] EXCEPT !.pc = "connect", !.verified = v]
  <2>1. v \in VerifiedServers
    BY <1>5 DEF DiscoveryVerified, verify_discovery, Responses, VerifiedServers, Option
  <2>2. v # None
    BY <2>1, VerifiedAssumption
  <2>3. call[c] \in Calls /\ call[c].pc = "fetch" /\ call[c].nonce \in used
    BY <1>5 DEF DiscoveryVerified
  <2>4. call' = [call EXCEPT ![c] = k] /\ UNCHANGED <<setting, used, signed>>
    BY <1>5 DEF DiscoveryVerified
  <2>5. FailoverTypeOK'
    <3>1. <<<<call[c].host, resp.grpc_port>>>> \in Lists
      BY <1>5, <2>3, ListAssumption DEF Lists, Responses
    <3>2. QED
      BY <1>5, <3>1, ConnectType DEF DiscoveryVerified
  <2> HIDE DEF v
  <2>6. k \in Calls /\ k.pc = "connect" /\ k.nonce = call[c].nonce /\ k.verified # None
    BY <2>1, <2>2, <2>3 DEF Calls, Option
  <2> HIDE DEF k
  <2>7. k.host \in Hosts /\ k.nonce \in used
    BY <1>5, <2>3, <2>6 DEF k
  <2>8. call' \in [Callers -> Calls] /\ \A d \in Callers : call'[d] = IF d = c THEN k ELSE call[d]
    BY <2>4, <2>6
  <2>9. /\ \A d \in Callers : IF At(d, "idle")' THEN call'[d] = Idle
                               ELSE call'[d].nonce \in used' /\ call'[d].host \in Hosts
        /\ \A d \in Callers : At(d, "connect")' <=> call'[d].verified # None
    BY <2>4, <2>6, <2>7, <2>8
  <2>10. \A b, d \in Callers : call'[b].nonce = call'[d].nonce => b = d \/ At(b, "idle")'
    BY <2>3, <2>6, <2>8
  <2>11. QED
    BY <2>4, <2>5, <2>8, <2>9, <2>10
<1>6. ASSUME NEW c \in Callers, NEW endpoints \in ConnectLists, ConnectDirectly(c, endpoints)
      PROVE TypeOK'
  <2>1. FailoverTypeOK'
    BY <1>6, ListAssumption, ConnectType DEF ConnectDirectly
  <2>2. QED
    BY <1>6, <2>1 DEF ConnectDirectly
<1>7. ASSUME NEW c \in Callers, ConnectStep(c) PROVE TypeOK'
  <2>1. FailoverTypeOK'
    BY <1>7, ConnectType DEF ConnectStep
  <2>2. QED
    BY <1>7, <2>1 DEF ConnectStep
<1>8. ASSUME NEW c \in Callers, ConnectReturns(c) PROVE TypeOK'
  <2>1. call' = [call EXCEPT ![c] = Idle] /\ UNCHANGED <<setting, used, signed>>
    BY <1>8 DEF ConnectReturns
  <2>2. FailoverTypeOK'
    BY <1>8, ConnectType DEF ConnectReturns
  <2>3. QED
    BY <2>1, <2>2, IdleStep
<1>9. ASSUME NEW e \in Endpoints, EndpointChanges(e) PROVE TypeOK'
  <2>1. FailoverTypeOK'
    <3>1. CASE GoesUp(e)
      BY <3>1 DEF GoesUp, FailoverTypeOK
    <3>2. CASE GoesDown(e)
      <4>1. \A k \in Attempts : [k EXCEPT !.steady = @ \ {e}] \in Attempts
        BY DEF Attempts
      <4>2. QED
        BY <3>2, <4>1 DEF GoesDown, FailoverTypeOK
    <3>3. QED
      BY <1>9, <3>1, <3>2 DEF EndpointChanges
  <2>2. QED
    BY <1>9, <2>1 DEF EndpointChanges
<1>10. CASE UNCHANGED vars
  BY <1>10 DEF vars, failoverVars, FailoverTypeOK
<1>11. QED
  BY <1>1, <1>2, <1>3, <1>4, <1>5, <1>6, <1>7, <1>8, <1>9, <1>10 DEF Next

\* TypeOK, for any servers, histories, nonces, callers and endpoints.
THEOREM DiscoveryTypeCorrect == Spec => []TypeOK
<1>1. Init => TypeOK
  BY InitTypeOK
<1>2. TypeOK /\ [Next]_vars => TypeOK'
  BY NextTypeOK
<1>3. QED
  BY <1>1, <1>2, PTL DEF Spec

(***************************************************************************)
(* Freshness.  A call can only meet signatures over its nonce that were    *)
(* made after it drew it, for no call draws a nonce that exists; and the   *)
(* signed bytes hold every field.                                          *)
(***************************************************************************)

\* The signatures over the nonce of a call state what was true since it began.
SignedSince ==
  \A c \in Callers : ~ At(c, "idle") =>
    /\ \A s \in Servers : call[c].since[s] \in 1 .. setting[s]
    /\ \A sig \in signed : sig.nonce = call[c].nonce =>
         \E e \in call[c].since[sig.key] .. setting[sig.key] :
           /\ History[sig.key][e].payload_version = sig.payload_version
           /\ History[sig.key][e].grpc_port = sig.grpc_port
           /\ History[sig.key][e].name = sig.name

FreshInv == TypeOK /\ SignedSince /\ Fresh

\* An accepted response has the fields of a signature over the call's nonce.
LEMMA VerifiedIsSigned ==
  ASSUME TypeOK, NEW resp \in Responses, NEW nonce \in Nonces, verify_discovery(resp, nonce)
  PROVE  /\ resp.signature \in signed
         /\ resp.signature.nonce = nonce
         /\ resp.signature.key = resp.server_identity_public
         /\ resp.signature.payload_version = PAYLOAD_VERSION
         /\ resp.signature.grpc_port = resp.grpc_port
         /\ resp.signature.name = resp.name
<1> DEFINE sig == resp.signature
           key == resp.server_identity_public
<1>1. sig \in signed /\ key \in Servers /\ resp.nonce = nonce
  BY DEF verify_discovery, Responses, Option
<1>2. sig \in Signatures
  BY <1>1 DEF TypeOK
<1>3. sig.key = key
  BY DEF verify_discovery, verify_strict
<1> DEFINE stated == [key |-> key, nonce |-> nonce, payload_version |-> PAYLOAD_VERSION,
                        grpc_port |-> resp.grpc_port, name |-> resp.name]
<1>4. payload(PAYLOAD_VERSION, nonce, key, resp.grpc_port, resp.name) =
      payload(sig.payload_version, sig.nonce, sig.key, sig.grpc_port, sig.name)
  BY <1>1 DEF verify_discovery, verify_strict, canonical_bytes
<1>5. stated \in Described /\ sig \in Described
  <2>1. PAYLOAD_VERSION \in u32
    BY DEF PAYLOAD_VERSION, u32
  <2>2. resp.grpc_port \in Ports /\ resp.name \in Names
    BY DEF Responses
  <2>3. QED
    BY <1>1, <1>2, <2>1, <2>2, KeyAssumption, NonceAssumption, FieldAssumption
       DEF Signatures, Described
<1>6. stated = sig
  <2>1. payload(stated.payload_version, stated.nonce, stated.key, stated.grpc_port, stated.name) =
        payload(sig.payload_version, sig.nonce, sig.key, sig.grpc_port, sig.name)
    BY <1>4
  <2> HIDE DEF stated, sig
  <2>2. QED
    BY <1>5, <2>1, CanonicalInjective
<1>7. QED
  BY <1>1, <1>3, <1>6

LEMMA InitFresh == Init => FreshInv
<1> SUFFICES ASSUME Init PROVE FreshInv
  OBVIOUS
<1>1. TypeOK
  BY InitTypeOK
<1>2. SignedSince /\ Fresh
  BY DEF Init, Idle, At, SignedSince, Fresh
<1>3. QED
  BY <1>1, <1>2 DEF FreshInv

\* A step that ends calls or leaves them, and touches no server.
LEMMA QuietFresh ==
  ASSUME FreshInv, UNCHANGED <<setting, signed>>,
         \A c \in Callers : call'[c] \in {call[c], Idle}
  PROVE  (SignedSince /\ Fresh)'
<1>1. \A c \in Callers : call'[c] = call[c] \/ call'[c] = Idle
  OBVIOUS
<1>2. Idle.pc = "idle" /\ Idle.verified = None
  BY DEF Idle
<1>3. SignedSince'
  BY <1>1, <1>2 DEF FreshInv, SignedSince, At
<1>4. Fresh'
  BY <1>1, <1>2 DEF FreshInv, Fresh
<1>5. QED
  BY <1>3, <1>4

LEMMA NextFresh == FreshInv /\ [Next]_vars => FreshInv'
<1> SUFFICES ASSUME FreshInv, [Next]_vars PROVE (SignedSince /\ Fresh)'
  BY NextTypeOK DEF FreshInv
<1> USE DEF FreshInv
<1>0. /\ TypeOK /\ SignedSince /\ Fresh /\ TypeOK'
      /\ call \in [Callers -> Calls] /\ setting \in [Servers -> Nat]
      /\ \A sig \in signed : sig.key \in Servers /\ sig.nonce \in used
  BY NextTypeOK DEF TypeOK, Signatures
<1>1. ASSUME NEW s \in Servers, Reconfigure(s) PROVE (SignedSince /\ Fresh)'
  <2>1. /\ UNCHANGED <<signed, call>>
        /\ \A t \in Servers : setting[t] \in Nat /\ setting'[t] \in Nat /\ setting[t] <= setting'[t]
    BY <1>0, <1>1 DEF Reconfigure
  <2>2. \A m \in Nat : \A t \in Servers : m .. setting[t] \subseteq m .. setting'[t]
    BY <2>1
  <2>3. \A c \in Callers : \A t \in Servers : call[c].since[t] \in Nat
    BY <1>0 DEF Calls
  <2>4. SignedSince'
    BY <1>0, <2>1, <2>2, <2>3 DEF SignedSince, At
  <2>5. \A c \in Callers : call[c].verified # None => call[c].verified.identity_public \in Servers
    BY <1>0 DEF Calls, Option, VerifiedServers
  <2>6. Fresh'
    BY <1>0, <2>1, <2>2, <2>3, <2>5 DEF Fresh
  <2>7. QED
    BY <2>4, <2>6
<1>2. ASSUME NEW s \in Servers, NEW nonce \in used, Answer(s, nonce)
      PROVE (SignedSince /\ Fresh)'
  <2> DEFINE new == Signature(s, setting[s], nonce)
  <2>1. signed' = signed \cup {new} /\ UNCHANGED <<setting, call>>
    BY <1>2 DEF Answer
  <2>2. /\ new.key = s
        /\ History[s][setting[s]].payload_version = new.payload_version
        /\ History[s][setting[s]].grpc_port = new.grpc_port
        /\ History[s][setting[s]].name = new.name
    BY DEF Signature
  <2>3. \A c \in Callers : ~ At(c, "idle") => setting[s] \in call[c].since[s] .. setting[s]
    BY <1>0 DEF SignedSince
  <2> HIDE DEF new
  <2>4. SignedSince'
    BY <1>0, <2>1, <2>2, <2>3 DEF SignedSince, At
  <2>5. Fresh'
    BY <1>0, <2>1 DEF Fresh
  <2>6. QED
    BY <2>4, <2>5
<1>3. ASSUME NEW c \in Callers, NEW host \in Hosts, NEW pinned \in Option(Servers),
             NEW nonce \in Nonces, BeginDiscovery(c, host, pinned, nonce)
      PROVE (SignedSince /\ Fresh)'
  <2> DEFINE k == [Idle EXCEPT !.pc = "fetch", !.host = host, !.pinned = pinned,
                               !.nonce = nonce, !.since = setting]
  <2>1. k.nonce = nonce /\ k.since = setting /\ k.verified = None
    BY DEF Idle
  <2>2. call' = [call EXCEPT ![c] = k] /\ nonce \notin used /\ UNCHANGED <<setting, signed>>
    BY <1>3 DEF BeginDiscovery, random_nonce
  <2>3. \A t \in Servers : setting[t] \in 1 .. setting[t]
    BY <1>0 DEF TypeOK
  <2> HIDE DEF k
  <2>4. \A d \in Callers : call'[d] = IF d = c THEN k ELSE call[d]
    BY <1>0, <2>2
  <2>5. SignedSince'
    BY <1>0, <2>1, <2>2, <2>3, <2>4 DEF SignedSince, At
  <2>6. Fresh'
    BY <1>0, <2>1, <2>2, <2>4 DEF Fresh
  <2>7. QED
    BY <2>5, <2>6
<1>4. ASSUME NEW c \in Callers, DiscoveryFails(c) PROVE (SignedSince /\ Fresh)'
  BY <1>0, <1>4, QuietFresh DEF DiscoveryFails
<1>5. ASSUME NEW c \in Callers, NEW resp \in Responses, DiscoveryVerified(c, resp)
      PROVE (SignedSince /\ Fresh)'
  <2> DEFINE v == [identity_public |-> resp.server_identity_public,
                   grpc_port |-> resp.grpc_port, name |-> resp.name]
             k == [call[c] EXCEPT !.pc = "connect", !.verified = v]
             sig == resp.signature
             key == resp.server_identity_public
  <2>1. /\ call' = [call EXCEPT ![c] = k] /\ UNCHANGED <<setting, signed>>
        /\ call[c].pc = "fetch" /\ verify_discovery(resp, call[c].nonce)
    BY <1>5 DEF DiscoveryVerified, At
  <2>2. call[c].nonce \in Nonces
    BY <1>0, <2>1 DEF TypeOK, At
  <2>3. /\ sig \in signed /\ sig.nonce = call[c].nonce /\ sig.key = key
        /\ sig.payload_version = PAYLOAD_VERSION
        /\ sig.grpc_port = resp.grpc_port /\ sig.name = resp.name
    BY <1>0, <2>1, <2>2, VerifiedIsSigned
  <2>4. PICK e \in call[c].since[key] .. setting[key] :
           /\ History[key][e].payload_version = PAYLOAD_VERSION
           /\ History[key][e].grpc_port = resp.grpc_port
           /\ History[key][e].name = resp.name
    BY <1>0, <2>1, <2>3 DEF SignedSince, At
  <2>5. History[key][e] = [payload_version |-> PAYLOAD_VERSION,
                           grpc_port |-> resp.grpc_port, name |-> resp.name]
    <3>1. key \in Servers
      BY <1>0, <2>3
    <3>2. /\ call[c].since[key] \in 1 .. setting[key] /\ setting[key] \in 1 .. Len(History[key])
          /\ History[key] \in Seq(Settings)
      BY <1>0, <2>1, <3>1, HistoryAssumption DEF TypeOK, SignedSince, At
    <3>3. History[key][e] \in Settings
      BY <2>4, <3>2
    <3>4. QED
      BY <2>4, <3>3 DEF Settings
  <2>6. /\ k.pc = "connect" /\ k.nonce = call[c].nonce /\ k.since = call[c].since
        /\ k.verified = v
    BY <1>0 DEF Calls
  <2>7. v.identity_public = key /\ v.grpc_port = resp.grpc_port /\ v.name = resp.name
    OBVIOUS
  <2> HIDE DEF k, v, key, sig
  <2>8. \A d \in Callers : call'[d] = IF d = c THEN k ELSE call[d]
    BY <1>0, <2>1
  <2>9. SignedSince'
    BY <1>0, <2>1, <2>6, <2>8 DEF SignedSince, At
  <2>10. Fresh'
    BY <1>0, <2>1, <2>5, <2>6, <2>7, <2>8 DEF Fresh
  <2>11. QED
    BY <2>9, <2>10
<1>6. ASSUME NEW c \in Callers,
             \/ \E endpoints \in ConnectLists : ConnectDirectly(c, endpoints)
             \/ ConnectStep(c) \/ ConnectReturns(c)
      PROVE (SignedSince /\ Fresh)'
  BY <1>0, <1>6, QuietFresh DEF ConnectDirectly, ConnectStep, ConnectReturns
<1>7. ASSUME NEW e \in Endpoints, EndpointChanges(e) PROVE (SignedSince /\ Fresh)'
  BY <1>0, <1>7, QuietFresh DEF EndpointChanges
<1>8. CASE UNCHANGED vars
  BY <1>0, <1>8, QuietFresh DEF vars
<1>9. QED
  BY <1>1, <1>2, <1>3, <1>4, <1>5, <1>6, <1>7, <1>8 DEF Next

\* verify_discovery, "signed now by whoever holds this identity key": for any
\* servers, histories, nonces and callers, every field that a call believes was
\* stated by the holder of that key since the call began.
THEOREM DiscoveryFresh == Spec => []Fresh
<1>1. Init => FreshInv
  BY InitFresh
<1>2. FreshInv /\ [Next]_vars => FreshInv'
  BY NextFresh
<1>3. FreshInv => Fresh
  BY DEF FreshInv
<1>4. QED
  BY <1>1, <1>2, <1>3, PTL DEF Spec

(***************************************************************************)
(* Failover.  What is behind a running connect has been tried, the error   *)
(* it holds is that of the entry before, and the endpoints it can count on *)
(* are up.                                                                 *)
(***************************************************************************)

ErrorOf(entry) == IF entry \in Malformed THEN "BadEndpoint" ELSE "Transport"

AttemptInv(k) ==
  /\ k.at \in 0 .. (Len(k.endpoints) + 1)
  /\ k.at > 1 => k.last = ErrorOf(k.endpoints[k.at - 1])
  /\ k.at <= 1 => k.last = None
  /\ \A i \in 1 .. Len(k.endpoints) : i < k.at => k.endpoints[i] \notin k.steady
  /\ k.error # None =>
       /\ k.at = Len(k.endpoints) + 1
       /\ k.error = IF k.endpoints = <<>> THEN "NoEndpoints"
                    ELSE ErrorOf(k.endpoints[Len(k.endpoints)])
  /\ k.at # 0 /\ k.channel = None /\ k.error = None => k.steady \subseteq up
  /\ k.at # 0 /\ k.error = None => k.endpoints # <<>>

FailoverInv == TypeOK /\ \A c \in Callers : AttemptInv(attempt[c])

LEMMA NoAttemptInv == AttemptInv(NoAttempt) /\ AttemptInv(NoAttempt)'
  BY DEF AttemptInv, NoAttempt

LEMMA InitFailover == Init => FailoverInv
  BY InitTypeOK, NoAttemptInv DEF Init, FailoverInit, FailoverInv

\* One attempt changes, or none.
LEMMA OneAttempt ==
  ASSUME FailoverInv, NEW c \in Callers, NEW k, attempt' = [attempt EXCEPT ![c] = k],
         AttemptInv(k), up' = up
  PROVE  \A d \in Callers : AttemptInv(attempt[d])'
<1>1. \A d \in Callers : AttemptInv(attempt'[d])
  BY DEF FailoverInv, TypeOK, FailoverTypeOK
<1>2. QED
  BY <1>1 DEF AttemptInv

LEMMA NextFailover == FailoverInv /\ [Next]_vars => FailoverInv'
<1> SUFFICES ASSUME FailoverInv, [Next]_vars
             PROVE  \A c \in Callers : AttemptInv(attempt[c])'
  BY NextTypeOK DEF FailoverInv
<1>1. /\ \A d \in Callers : AttemptInv(attempt[d]) /\ attempt[d] \in Attempts
      /\ attempt \in [Callers -> Attempts] /\ up \subseteq Endpoints
  BY DEF FailoverInv, TypeOK, FailoverTypeOK
<1>2. ASSUME NEW c \in Callers, NEW endpoints \in Lists, BeginConnect(c, endpoints)
      PROVE \A d \in Callers : AttemptInv(attempt[d])'
  <2> DEFINE k == [NoAttempt EXCEPT !.endpoints = endpoints, !.at = 1, !.steady = up,
                         !.error = IF endpoints = <<>> THEN "NoEndpoints" ELSE None]
  <2>1. /\ k.endpoints = endpoints /\ k.at = 1 /\ k.steady = up /\ k.last = None
        /\ k.error = IF endpoints = <<>> THEN "NoEndpoints" ELSE None
    BY DEF NoAttempt
  <2>2. /\ Len(endpoints) \in Nat
        /\ endpoints = <<>> => Len(endpoints) = 0
        /\ endpoints # <<>> => Len(endpoints) # 0
    BY DEF Lists
  <2> HIDE DEF k
  <2>3. AttemptInv(k)
    <3>1. "NoEndpoints" # None
      BY ErrorAssumption DEF Errors
    <3>2. CASE endpoints = <<>>
      BY <2>1, <2>2, <3>1, <3>2 DEF AttemptInv
    <3>3. CASE endpoints # <<>>
      BY <2>1, <2>2, <3>3 DEF AttemptInv
    <3>4. QED
      BY <3>2, <3>3
  <2>4. QED
    BY <1>2, <2>3, OneAttempt DEF BeginConnect, k
<1>3. ASSUME NEW c \in Callers, TryEndpoint(c)
      PROVE \A d \in Callers : AttemptInv(attempt[d])'
  <2> DEFINE k == attempt[c]
             endpoint == k.endpoints[k.at]
             next == IF endpoint \in Malformed THEN AfterMalformed(k)
                     ELSE IF endpoint \in up THEN [k EXCEPT !.channel = endpoint]
                     ELSE AfterRefused(k)
  <2>1. /\ k \in Attempts /\ AttemptInv(k) /\ k.at \in 1 .. Len(k.endpoints)
        /\ k.channel = None /\ k.error = None /\ k.steady \subseteq up
        /\ k.endpoints \in Seq(Endpoints \cup Malformed)
    BY <1>1, <1>3 DEF TryEndpoint, Trying, Attempts, AttemptInv, Lists
  <2>2. /\ attempt' = [attempt EXCEPT ![c] = next] /\ up' = up
    BY <1>3 DEF TryEndpoint
  <2>3. endpoint \in Endpoints \cup Malformed
    BY <2>1
  <2>4. k.endpoints[k.at] = endpoint
    OBVIOUS
  <2> HIDE DEF k, endpoint
  <2>5. ASSUME NEW error, error = ErrorOf(endpoint), endpoint \notin k.steady
        PROVE  AttemptInv([k EXCEPT !.at = k.at + 1, !.last = error])
    <3> DEFINE m == [k EXCEPT !.at = k.at + 1, !.last = error]
    <3>1. /\ m.endpoints = k.endpoints /\ m.at = k.at + 1 /\ m.last = error
          /\ m.steady = k.steady /\ m.channel = None /\ m.error = None
      BY <2>1 DEF Attempts
    <3>2. Len(k.endpoints) \in Nat /\ k.at \in Nat /\ m.at - 1 = k.at
      BY <2>1, <3>1
    <3> HIDE DEF m
    <3>3. \A i \in 1 .. Len(k.endpoints) : i < m.at => k.endpoints[i] \notin k.steady
      BY <2>1, <2>4, <2>5, <3>1, <3>2 DEF AttemptInv
    <3>4. m.at > 1 /\ m.at \in 0 .. (Len(k.endpoints) + 1) /\ k.endpoints # <<>>
      BY <2>1, <3>1, <3>2
    <3>5. AttemptInv(m)
      BY <2>1, <2>4, <2>5, <3>1, <3>2, <3>3, <3>4 DEF AttemptInv
    <3>6. QED
      BY <3>5 DEF m
  <2>6. ASSUME endpoint \in Malformed PROVE AttemptInv(AfterMalformed(k))
    <3>1. endpoint \notin k.steady
      BY <1>1, <2>1, <2>6, EndpointAssumption
    <3>2. QED
      BY <2>5, <2>6, <3>1 DEF AfterMalformed, LastError, ErrorOf
  <2>7. ASSUME endpoint \notin Malformed, endpoint \notin up PROVE AttemptInv(AfterRefused(k))
    <3>1. endpoint \notin k.steady
      BY <2>1, <2>7
    <3>2. QED
      BY <2>5, <2>7, <3>1 DEF AfterRefused, LastError, ErrorOf
  <2>8. ASSUME endpoint \in up PROVE AttemptInv([k EXCEPT !.channel = endpoint])
    <3>1. endpoint # None
      BY <1>1, <2>8, EndpointAssumption
    <3>2. QED
      BY <2>1, <3>1 DEF AttemptInv, Attempts
  <2>9. AttemptInv(next)
    BY <2>6, <2>7, <2>8
  <2> HIDE DEF next
  <2>10. QED
    BY <2>2, <2>9, OneAttempt
<1>4. ASSUME NEW c \in Callers, ConnectFails(c)
      PROVE \A d \in Callers : AttemptInv(attempt[d])'
  <2> DEFINE k == attempt[c]
             next == [k EXCEPT !.error = IF k.last = None THEN "AllEndpointsFailed" ELSE k.last]
  <2>1. /\ k \in Attempts /\ AttemptInv(k) /\ k.at = Len(k.endpoints) + 1
        /\ k.error = None /\ k.at # 0 /\ Len(k.endpoints) \in Nat
        /\ k.endpoints \in Seq(Endpoints \cup Malformed)
    BY <1>1, <1>4 DEF ConnectFails, Trying, Attempts, AttemptInv, Lists
  <2>2. attempt' = [attempt EXCEPT ![c] = next] /\ up' = up
    BY <1>1, <1>4 DEF ConnectFails
  <2> HIDE DEF k
  <2>3. k.endpoints # <<>> /\ k.at > 1
    BY <2>1 DEF AttemptInv
  <2>4. k.last = ErrorOf(k.endpoints[Len(k.endpoints)])
    BY <2>1, <2>3 DEF AttemptInv
  <2>5. k.last # None => AttemptInv(next)
    BY <2>1, <2>3, <2>4 DEF AttemptInv, Attempts
  <2>6. k.last # None
    BY <2>4, ErrorAssumption DEF ErrorOf, Errors
  <2> HIDE DEF next
  <2>7. QED
    BY <2>2, <2>5, <2>6, OneAttempt
<1>5. ASSUME NEW c \in Callers, TakeResult(c)
      PROVE \A d \in Callers : AttemptInv(attempt[d])'
  BY <1>5, NoAttemptInv, OneAttempt DEF TakeResult
<1>6. ASSUME NEW e \in Endpoints, GoesUp(e)
      PROVE \A d \in Callers : AttemptInv(attempt[d])'
  BY <1>1, <1>6 DEF GoesUp, AttemptInv
<1>7. ASSUME NEW e \in Endpoints, GoesDown(e)
      PROVE \A d \in Callers : AttemptInv(attempt[d])'
  <2> TAKE d \in Callers
  <2>1. CASE Trying(d)
    <3>1. attempt'[d] = [attempt[d] EXCEPT !.steady = @ \ {e}] /\ up' = up \ {e}
      BY <1>1, <1>7, <2>1 DEF GoesDown
    <3>2. QED
      BY <1>1, <3>1 DEF AttemptInv, Attempts
  <2>2. CASE ~ Trying(d)
    <3>1. attempt'[d] = attempt[d]
      BY <1>1, <1>7, <2>2 DEF GoesDown
    <3>2. QED
      BY <1>1, <2>2, <3>1 DEF AttemptInv, Trying
  <2>3. QED
    BY <2>1, <2>2
<1>8. CASE UNCHANGED failoverVars
  BY <1>1, <1>8 DEF failoverVars, AttemptInv
<1>9. ASSUME NEW c \in Callers, NEW resp \in Responses, DiscoveryVerified(c, resp)
      PROVE \A d \in Callers : AttemptInv(attempt[d])'
  <2>1. call[c].host \in Hosts /\ resp.grpc_port \in Ports
    BY <1>9 DEF FailoverInv, TypeOK, DiscoveryVerified, At, Responses
  <2>2. <<<<call[c].host, resp.grpc_port>>>> \in Lists
    BY <2>1, ListAssumption DEF Lists
  <2>3. QED
    BY <1>2, <1>9, <2>2 DEF DiscoveryVerified
<1>10. ASSUME NEW c \in Callers, NEW endpoints \in ConnectLists, ConnectDirectly(c, endpoints)
       PROVE \A d \in Callers : AttemptInv(attempt[d])'
  BY <1>2, <1>10, ListAssumption DEF ConnectDirectly
<1>11. ASSUME NEW c \in Callers, ConnectStep(c)
       PROVE \A d \in Callers : AttemptInv(attempt[d])'
  BY <1>3, <1>4, <1>11 DEF ConnectStep
<1>12. ASSUME NEW c \in Callers, ConnectReturns(c)
       PROVE \A d \in Callers : AttemptInv(attempt[d])'
  BY <1>5, <1>12 DEF ConnectReturns
<1>13. ASSUME NEW e \in Endpoints, EndpointChanges(e)
       PROVE \A d \in Callers : AttemptInv(attempt[d])'
  BY <1>6, <1>7, <1>13 DEF EndpointChanges
<1>14. ASSUME \/ \E s \in Servers : Reconfigure(s) \/ \E nonce \in used : Answer(s, nonce)
              \/ \E c \in Callers, host \in Hosts, pinned \in Option(Servers), nonce \in Nonces :
                   BeginDiscovery(c, host, pinned, nonce)
              \/ \E c \in Callers : DiscoveryFails(c)
       PROVE \A d \in Callers : AttemptInv(attempt[d])'
  BY <1>8, <1>14 DEF Reconfigure, Answer, BeginDiscovery, DiscoveryFails
<1>15. CASE UNCHANGED vars
  BY <1>8, <1>15 DEF vars
<1>16. QED
  BY <1>9, <1>10, <1>11, <1>12, <1>13, <1>14, <1>15 DEF Next

\* connect, "tried in order": for lists of any length, an endpoint that answers
\* all the time is never passed over for what the others do.
THEOREM FailoverSteady == Spec => []SteadyEndpointWins
<1>1. Init => FailoverInv
  BY InitFailover
<1>2. FailoverInv /\ [Next]_vars => FailoverInv'
  BY NextFailover
<1>3. FailoverInv => SteadyEndpointWins
  <2>1. ASSUME FailoverInv, NEW c \in Callers
        PROVE  AttemptInv(attempt[c]) /\ attempt[c] \in Attempts
    BY <2>1 DEF FailoverInv, TypeOK, FailoverTypeOK
  <2>2. QED
    BY <2>1 DEF SteadyEndpointWins, AttemptInv, Attempts, Lists
<1>4. QED
  BY <1>1, <1>2, <1>3, PTL DEF Spec

\* For lists of any length, the error is that of the last entry, and
\* AllEndpointsFailed is never returned.
THEOREM FailoverError == Spec => []ErrorOfLastEndpoint
<1>1. Init => FailoverInv
  BY InitFailover
<1>2. FailoverInv /\ [Next]_vars => FailoverInv'
  BY NextFailover
<1>3. FailoverInv => ErrorOfLastEndpoint
  BY DEF FailoverInv, ErrorOfLastEndpoint, AttemptInv, ErrorOf
<1>4. QED
  BY <1>1, <1>2, <1>3, PTL DEF Spec
=============================================================================
