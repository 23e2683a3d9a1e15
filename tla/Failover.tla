------------------------------ MODULE Failover ------------------------------
(***************************************************************************)
(* transport/client.rs, connect: the endpoints of a list are tried one     *)
(* after the other, and meanwhile endpoints come up and go down.           *)
(***************************************************************************)
EXTENDS Optional, Naturals, Sequences

CONSTANTS
  Callers,
  Endpoints,    \* host:port
  Malformed     \* entries of a list that are no host:port

ASSUME EndpointAssumption == None \notin Endpoints /\ Endpoints \cap Malformed = {}

VARIABLES
  up,           \* the endpoints where a server would answer now
  attempt       \* the connect of each caller

failoverVars == <<up, attempt>>

Lists == Seq(Endpoints \cup Malformed)

\* The list, the entry the loop is at, the error it holds, the result, and
\* the endpoints that have been up ever since the call began.
NoAttempt == [endpoints |-> <<>>, at |-> 0, last |-> None, channel |-> None,
              error |-> None, steady |-> {}]

Errors == {"NoEndpoints", "AllEndpointsFailed", "BadEndpoint", "Transport"}

ASSUME ErrorAssumption == None \notin Errors

Attempts == [endpoints : Lists, at : Nat, last : Option(Errors),
             channel : Option(Endpoints), error : Option(Errors),
             steady : SUBSET Endpoints]

FailoverTypeOK ==
  /\ up \subseteq Endpoints
  /\ attempt \in [Callers -> Attempts]

FailoverInit ==
  /\ up \in SUBSET Endpoints
  /\ attempt = [c \in Callers |-> NoAttempt]

Trying(c) == attempt[c].at # 0 /\ attempt[c].channel = None /\ attempt[c].error = None

Returned(c) == attempt[c].channel # None \/ attempt[c].error # None

\* connect(endpoints): an empty list is refused.
BeginConnect(c, endpoints) ==
  /\ attempt' = [attempt EXCEPT ![c] =
       [NoAttempt EXCEPT !.endpoints = endpoints, !.at = 1, !.steady = up,
                         !.error = IF endpoints = <<>> THEN "NoEndpoints" ELSE None]]
  /\ UNCHANGED up

BugLastError(k, error) == IF k.last # None THEN k.last ELSE error

\* The loop goes on to the next entry and remembers the latest error.
LastError(k, error) == error

BugAfterMalformed(k) == [k EXCEPT !.error = "BadEndpoint"]

\* An entry that is no host:port is skipped.
AfterMalformed(k) == [k EXCEPT !.at = @ + 1, !.last = LastError(k, "BadEndpoint")]

AfterRefused(k) == [k EXCEPT !.at = @ + 1, !.last = LastError(k, "Transport")]

TryEndpoint(c) ==
  LET k == attempt[c]
      endpoint == k.endpoints[k.at]
  IN
  /\ Trying(c) /\ k.at <= Len(k.endpoints)
  /\ attempt' = [attempt EXCEPT ![c] =
       IF endpoint \in Malformed THEN AfterMalformed(k)
       ELSE IF endpoint \in up THEN [k EXCEPT !.channel = endpoint]
       ELSE AfterRefused(k)]
  /\ UNCHANGED up

\* The end of the list.
ConnectFails(c) ==
  LET k == attempt[c] IN
  /\ Trying(c) /\ k.at > Len(k.endpoints)
  /\ attempt' = [attempt EXCEPT ![c].error =
       IF k.last = None THEN "AllEndpointsFailed" ELSE k.last]
  /\ UNCHANGED up

\* The caller takes the result.
TakeResult(c) ==
  /\ Returned(c)
  /\ attempt' = [attempt EXCEPT ![c] = NoAttempt]
  /\ UNCHANGED up

GoesUp(e) ==
  /\ up' = up \cup {e}
  /\ UNCHANGED attempt

\* A running call can no longer count on the endpoint; what has returned is
\* done with it.
GoesDown(e) ==
  /\ up' = up \ {e}
  /\ attempt' = [c \in Callers |->
       IF Trying(c) THEN [attempt[c] EXCEPT !.steady = @ \ {e}] ELSE attempt[c]]

(***************************************************************************)
(* Properties.                                                             *)
(***************************************************************************)

\* An endpoint that answers all the time is not passed over: connect has gone
\* on from an entry, or failed, only if it is malformed or has been down at
\* some moment of the call, whatever happened to the other entries.
SteadyEndpointWins ==
  \A c \in Callers : LET k == attempt[c] IN
    \A i \in 1 .. Len(k.endpoints) :
      i < k.at \/ k.error # None => k.endpoints[i] \notin k.steady

\* The error is that of the last entry of the list, NoEndpoints if there is
\* none: AllEndpointsFailed is never returned, for the loop leaves no error
\* only over an empty list, and that has been refused.
ErrorOfLastEndpoint ==
  \A c \in Callers : LET k == attempt[c] IN
    k.error # None =>
      k.error = IF k.endpoints = <<>> THEN "NoEndpoints"
                ELSE IF k.endpoints[Len(k.endpoints)] \in Malformed THEN "BadEndpoint"
                ELSE "Transport"
=============================================================================
