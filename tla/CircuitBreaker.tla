--------------------------- MODULE CircuitBreaker ---------------------------
(* The circuit breaker of one repository: the settings of the generated        *)
(* constructor on the library's state machine, which is external.  A call that  *)
(* was let in belongs to a generation; a result of an earlier generation does   *)
(* not count.                                                                    *)
EXTENDS Naturals, FiniteSets

CONSTANTS
    Clients,     \* the goroutines that call the repository
    MaxFailures  \* the configured number of consecutive failures, 4 for User

ASSUME FailuresAssumption == MaxFailures \in Nat

VARIABLES
    breaker,    \* closed, open or half-open
    failures,   \* the consecutive failures of this generation
    expired,    \* open for longer than the Timeout
    current     \* whose calls are in progress and of this generation

breakerVars == <<breaker, failures, expired, current>>

Outcomes == {"ok", "notFound", "failed"}

\* Mutant of IsSuccessful: ErrNotFound is a failure like others.
IsSuccessfulIfFound(outcome) == outcome = "ok"

IsSuccessful(outcome) == outcome \in {"ok", "notFound"}

\* Mutant of ReadyToTrip: one failure more.
ReadyToTripLate(n) == n > MaxFailures + 1

ReadyToTrip(n) == n > MaxFailures

BreakerInit == /\ breaker = "closed"
               /\ failures = 0
               /\ expired = FALSE
               /\ current = {}

SetState(state) == /\ breaker' = state
                   /\ failures' = 0
                   /\ expired' = FALSE

\* beforeRequest: half open, with MaxRequests at its default, lets one in.
Admit(c) ==
    \/ /\ breaker = "closed" \/ (breaker = "halfOpen" /\ current = {})
       /\ current' = current \cup {c}
       /\ UNCHANGED <<breaker, failures, expired>>
    \/ /\ breaker = "open" /\ expired
       /\ SetState("halfOpen")
       /\ current' = {c}

Refuses == \/ breaker = "open" /\ ~expired
           \/ breaker = "halfOpen" /\ current # {}

\* afterRequest, for a result of this generation.
Count(c, outcome) ==
    IF IsSuccessful(outcome)
    THEN IF breaker = "halfOpen"
         THEN SetState("closed") /\ current' = {}
         ELSE /\ failures' = 0
              /\ current' = current \ {c}
              /\ UNCHANGED <<breaker, expired>>
    ELSE IF breaker = "halfOpen" \/ ReadyToTrip(failures + 1)
         THEN SetState("open") /\ current' = {}
         ELSE /\ failures' = failures + 1
              /\ current' = current \ {c}
              /\ UNCHANGED <<breaker, expired>>

\* afterRequest: whoever asks for the state finds a breaker half open that has been
\* open for long enough.
Report(c, outcome) ==
    IF c \in current THEN Count(c, outcome)
    ELSE IF breaker = "open" /\ expired
         THEN SetState("halfOpen") /\ UNCHANGED current
         ELSE UNCHANGED breakerVars

\* The Timeout passes.
Expire == /\ breaker = "open" /\ ~expired
          /\ expired' = TRUE
          /\ UNCHANGED <<breaker, failures, current>>
=============================================================================
