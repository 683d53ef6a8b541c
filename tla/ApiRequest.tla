------------------------------ MODULE ApiRequest ------------------------------
(***************************************************************************)
(* One HTTP request of the Authentik API client: _request makes up to      *)
(* MaxAttempts attempts and repeats one only after an error that may be    *)
(* transient; _do_request classifies what an attempt can meet.  An attempt *)
(* whose answer never arrives may have been carried out, may be carried    *)
(* out later, while the client already repeats it, or never.               *)
(***************************************************************************)
EXTENDS Naturals

CONSTANTS
  Deployments,  \* the clients; each has one request at a time
  MaxAttempts,  \* tenacity's stop_after_attempt
  MaxFaults     \* bound: attempts that fail

ASSUME AttemptAssumption == MaxAttempts \in Nat \ {0} /\ MaxFaults \in Nat

VARIABLES
  attempt,      \* the attempt each client is in
  late,         \* writes given up by their client that Authentik may still carry out
  faults

requestVars == <<attempt, late, faults>>

\* What _do_request raises: AuthentikConnectionError, AuthentikHttpError with 429 or 5xx, and
\* the AuthentikApiError of an answer that is no JSON.
TransientErrors == {"connection", "overloaded"}
Errors == TransientErrors \union {"garbled"}

ShouldRetry(e) == e \in TransientErrors

\* The next request of client c begins with its first attempt.
NewRequest(c) == attempt' = [attempt EXCEPT ![c] = 1]

Fault == faults < MaxFaults /\ faults' = faults + 1

\* Mutant of Repeats: one attempt more than stop_after_attempt allows.
RepeatsOnceMore(c, e) ==
  /\ Fault
  /\ ShouldRetry(e) /\ attempt[c] <= MaxAttempts
  /\ attempt' = [attempt EXCEPT ![c] = @ + 1]

\* An attempt of c fails with e, and _request makes another.
Repeats(c, e) ==
  /\ Fault
  /\ ShouldRetry(e) /\ attempt[c] < MaxAttempts
  /\ attempt' = [attempt EXCEPT ![c] = @ + 1]

\* An attempt of c fails with e, and _request raises it.
Surrenders(c, e) ==
  /\ Fault
  /\ ~ShouldRetry(e) \/ attempt[c] = MaxAttempts
  /\ NewRequest(c)

=============================================================================
