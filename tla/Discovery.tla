----------------------------- MODULE Discovery -----------------------------
(***************************************************************************)
(* transport/discovery.rs and transport/mod.rs: discover_and_connect asks  *)
(* the server at an address to sign a description of itself, checks it,    *)
(* compares its key with the pin, and connects the port it names.          *)
(*                                                                         *)
(* Requests and responses may be late, come twice or meet the wrong call,  *)
(* and any field may arrive changed; a server is renamed, moved to another *)
(* port or upgraded while calls are under way.  Nobody signs but the       *)
(* holder of a key.                                                        *)
(***************************************************************************)
EXTENDS Canonical, Failover, Trust

CONSTANTS
  Servers,      \* identity keys
  Hosts,
  Ports,
  Names,
  Versions,     \* payload versions
  Nonces,       \* bound: as many discoveries as there are nonces
  History,      \* what each server states of itself, one after the other
  ConnectLists  \* the lists that connect is called with directly

\* Keys and nonces are byte strings; that each kind has one length is not used.
ASSUME KeyAssumption ==
  None \notin Servers /\ Servers \subseteq Field

ASSUME NonceAssumption ==
  None \notin Nonces /\ Nonces \subseteq Field

\* A port is a u16, a payload version a u32, and a name has a u32's length.
ASSUME FieldAssumption ==
  /\ Ports \subseteq u16
  /\ Names \subseteq Field
  /\ Versions \subseteq u32

Settings == [payload_version : Versions, grpc_port : Ports, name : Names]

ASSUME HistoryAssumption == History \in [Servers -> Seq(Settings) \ {<<>>}]

ASSUME ListAssumption ==
  ConnectLists \subseteq Lists /\ Hosts \X Ports \subseteq Endpoints

VARIABLES
  setting,      \* the entry of its history that each server is at
  used,         \* nonces that have been drawn
  signed,       \* signatures servers have made
  call          \* the discovery each caller is doing

vars == <<setting, used, signed, call, failoverVars>>

\* A signature, by what was signed: the signer's key is one of the fields.
Signatures == [key : Servers, nonce : Nonces, payload_version : Versions,
               grpc_port : Ports, name : Names]

VerifiedServers == [identity_public : Servers, grpc_port : Ports, name : Names]

ASSUME VerifiedAssumption == None \notin VerifiedServers

\* The locals of a call; since is where each server was when it drew its nonce.
Idle == [pc |-> "idle", host |-> None, pinned |-> None, nonce |-> None,
         since |-> [s \in Servers |-> 1], verified |-> None]

Calls == [pc : {"idle", "fetch", "connect"}, host : Option(Hosts),
          pinned : Option(Servers), nonce : Option(Nonces),
          since : [Servers -> Nat], verified : Option(VerifiedServers)]

At(c, pc) == call[c].pc = pc

\* Everything has its type, and no two callers wait for the same nonce.
TypeOK ==
  /\ FailoverTypeOK
  /\ setting \in [Servers -> Nat]
  /\ \A s \in Servers : setting[s] \in 1 .. Len(History[s])
  /\ used \subseteq Nonces
  /\ signed \subseteq {sig \in Signatures : sig.nonce \in used}
  /\ call \in [Callers -> Calls]
  /\ \A c \in Callers : IF At(c, "idle") THEN call[c] = Idle
                        ELSE call[c].nonce \in used /\ call[c].host \in Hosts
  /\ \A c, d \in Callers : call[c].nonce = call[d].nonce => c = d \/ At(c, "idle")
  /\ \A c \in Callers : At(c, "connect") <=> call[c].verified # None

Init ==
  /\ FailoverInit
  /\ setting = [s \in Servers |-> 1]
  /\ used = {} /\ signed = {}
  /\ call = [c \in Callers |-> Idle]

(***************************************************************************)
(* The servers.                                                            *)
(***************************************************************************)

Reconfigure(s) ==
  /\ setting[s] < Len(History[s])
  /\ setting' = [setting EXCEPT ![s] = @ + 1]
  /\ UNCHANGED <<used, signed, call, failoverVars>>

\* What server s, at the entry e of its history, signs for a nonce.
Signature(s, e, nonce) ==
  [key |-> s, nonce |-> nonce, payload_version |-> History[s][e].payload_version,
   grpc_port |-> History[s][e].grpc_port, name |-> History[s][e].name]

\* GET /.well-known/sylva-discovery?nonce=...: whatever server it reaches
\* answers, and the request may be older than the call that waits by then.
Answer(s, nonce) ==
  /\ signed' = signed \cup {Signature(s, setting[s], nonce)}
  /\ UNCHANGED <<setting, used, call, failoverVars>>

(***************************************************************************)
(* fetch_and_verify.                                                       *)
(***************************************************************************)

BugRandomNonce(nonce) == TRUE

\* 128 fresh random bits are not drawn twice.
random_nonce(nonce) == nonce \notin used

BeginDiscovery(c, host, pinned, nonce) ==
  /\ At(c, "idle") /\ attempt[c] = NoAttempt
  /\ random_nonce(nonce)
  /\ used' = used \cup {nonce}
  /\ call' = [call EXCEPT ![c] = [Idle EXCEPT
       !.pc = "fetch", !.host = host, !.pinned = pinned, !.nonce = nonce,
       !.since = setting]]
  /\ UNCHANGED <<setting, signed, failoverVars>>

\* A response as it arrives: any fields, around a signature that some server
\* has made.  A key or a signature that does not decode is None.
Responses == [payload_version : Versions, server_identity_public : Option(Servers),
              nonce : used, grpc_port : Ports, name : Names,
              signature : Option(signed)]

\* The signature was made by that key, over exactly these bytes.
verify_strict(public, message, signature) ==
  /\ signature.key = public
  /\ message = payload(signature.payload_version, signature.nonce, signature.key,
                       signature.grpc_port, signature.name)

verify_discovery(resp, expected_nonce) ==
  /\ resp.payload_version = PAYLOAD_VERSION
  /\ resp.nonce = expected_nonce
  /\ resp.server_identity_public # None
  /\ resp.signature # None
  /\ verify_strict(resp.server_identity_public,
                   canonical_bytes(resp.nonce, resp.server_identity_public,
                                   resp.grpc_port, resp.name),
                   resp.signature)

\* No answer, an error status, a body that does not parse or verify, or an
\* identity other than the pinned one: the call fails.
DiscoveryFails(c) ==
  /\ At(c, "fetch")
  /\ call' = [call EXCEPT ![c] = Idle]
  /\ UNCHANGED <<setting, used, signed, failoverVars>>

(***************************************************************************)
(* discover_and_connect goes on to the advertised port of the same host;   *)
(* connect is also called with a list of its own.                          *)
(***************************************************************************)

DiscoveryVerified(c, resp) ==
  /\ At(c, "fetch")
  /\ verify_discovery(resp, call[c].nonce)
  /\ check_pin(resp.server_identity_public, call[c].pinned) # "Mismatch"
  /\ call' = [call EXCEPT ![c].pc = "connect",
                          ![c].verified = [identity_public |-> resp.server_identity_public,
                                           grpc_port |-> resp.grpc_port,
                                           name |-> resp.name]]
  /\ BeginConnect(c, <<<<call[c].host, resp.grpc_port>>>>)
  /\ UNCHANGED <<setting, used, signed>>

ConnectDirectly(c, endpoints) ==
  /\ At(c, "idle") /\ attempt[c] = NoAttempt
  /\ BeginConnect(c, endpoints)
  /\ UNCHANGED <<setting, used, signed, call>>

ConnectStep(c) ==
  /\ TryEndpoint(c) \/ ConnectFails(c)
  /\ UNCHANGED <<setting, used, signed, call>>

ConnectReturns(c) ==
  /\ TakeResult(c)
  /\ call' = [call EXCEPT ![c] = Idle]
  /\ UNCHANGED <<setting, used, signed>>

EndpointChanges(e) ==
  /\ GoesUp(e) \/ GoesDown(e)
  /\ UNCHANGED <<setting, used, signed, call>>

Next ==
  \/ \E s \in Servers : Reconfigure(s) \/ \E nonce \in used : Answer(s, nonce)
  \/ \E c \in Callers :
       \/ \E host \in Hosts, pinned \in Option(Servers), nonce \in Nonces :
            BeginDiscovery(c, host, pinned, nonce)
       \/ DiscoveryFails(c)
       \/ \E resp \in Responses : DiscoveryVerified(c, resp)
       \/ \E endpoints \in ConnectLists : ConnectDirectly(c, endpoints)
       \/ ConnectStep(c) \/ ConnectReturns(c)
  \/ \E e \in Endpoints : EndpointChanges(e)

Spec == Init /\ [][Next]_vars

(***************************************************************************)
(* Properties.                                                             *)
(***************************************************************************)

\* "This response was signed now by whoever holds this identity key": what a
\* call believes of a server is, in every field, what that server stated of
\* itself at some moment since the call began, in the layout this client
\* understands.  No response that was recorded earlier, meant for another call
\* or put together from several passes verify_discovery.
Fresh ==
  \A c \in Callers : LET v == call[c].verified IN
    v # None =>
      \E e \in call[c].since[v.identity_public] .. setting[v.identity_public] :
        History[v.identity_public][e] =
          [payload_version |-> PAYLOAD_VERSION, grpc_port |-> v.grpc_port, name |-> v.name]
=============================================================================
