------------------------------ MODULE Gateway ------------------------------
(***************************************************************************)
(* One call of the decision provider: Client.Evaluate of                   *)
(* internal/gateway/client.go, with the HTTP client newDecisionClient of   *)
(* cmd/whichrepo/main.go gives it (http.Client.Timeout, 20 s by default).  *)
(*                                                                         *)
(* The clock of the HTTP client, the caller's context and the network may  *)
(* each end the attempt at any point: before the headers of the answer or  *)
(* while its body is read.  The provider may never answer.                 *)
(***************************************************************************)

VARIABLES
    phase,      \* where Evaluate is
    cause,      \* what came first: an answer, or what ended the attempt
    caller,     \* is the caller's context still live?
    status,     \* the class of the answer's status code
    outcome     \* what Evaluate returned

gatewayVars == <<phase, cause, caller, status, outcome>>

Phases == {"idle", "waiting", "reading", "done"}
Causes == {"none", "timeout", "caller", "network", "answer"}

\* Status codes, grouped as the switch of Evaluate groups them.
Statuses == {"success", "unauthorized", "payment", "too_many", "upstream_timeout", "other"}

\* What matters of an answer's body, of which at most 2 MiB are read.
Bodies == {"answers", "no_answers", "not_json", "mentions_billing"}

Kinds == {"auth", "billing", "rate_limit", "timeout", "unavailable"}

\* A plain Go error is not a ProviderError: Route reports "provider_error".
Outcomes == Kinds \cup {"none", "ok", "provider_error"}

GatewayTypeOK ==
    /\ phase \in Phases
    /\ cause \in Causes
    /\ caller \in {"live", "gone"}
    /\ status \in Statuses \cup {"none"}
    /\ outcome \in Outcomes

GatewayInit ==
    /\ phase = "idle"
    /\ cause = "none"
    /\ caller = "live"
    /\ status = "none"
    /\ outcome = "none"

-----------------------------------------------------------------------------
\* The request is sent, or cannot be built for the endpoint configured.
Send ==
    /\ phase = "idle"
    /\ \/ phase' = "waiting" /\ UNCHANGED outcome
       \/ phase' = "done" /\ outcome' = "provider_error"
    /\ UNCHANGED <<cause, caller, status>>

\* The headers arrive: Do returns.
Headers ==
    /\ phase = "waiting" /\ cause = "none"
    /\ phase' = "reading"
    /\ status' \in Statuses
    /\ UNCHANGED <<cause, caller, outcome>>

\* Mutation: the HTTP client has no Timeout.
NoClientTimeout == FALSE /\ UNCHANGED gatewayVars

\* http.Client.Timeout is over: Do, or the reading of the body, will fail.
ClientTimeout ==
    /\ phase \in {"waiting", "reading"} /\ cause = "none"
    /\ cause' = "timeout"
    /\ UNCHANGED <<phase, caller, status, outcome>>

\* The connection cannot be made or breaks.
NetworkFails ==
    /\ phase \in {"waiting", "reading"} /\ cause = "none"
    /\ cause' = "network"
    /\ UNCHANGED <<phase, caller, status, outcome>>

\* The caller's context ends: a dashboard client disconnects, or a deadline.
CallerLeaves ==
    /\ phase \in {"waiting", "reading"} /\ caller = "live"
    /\ caller' = "gone"
    /\ cause' = IF cause = "none" THEN "caller" ELSE cause
    /\ UNCHANGED <<phase, status, outcome>>

\* Do returns an error: only the caller's own context makes it a timeout.
KindOfDoError == IF caller = "gone" THEN "timeout" ELSE "unavailable"

DoFails ==
    /\ phase = "waiting" /\ cause # "none"
    /\ phase' = "done"
    /\ outcome' = KindOfDoError
    /\ UNCHANGED <<cause, caller, status>>

\* Mutation: the status is classified before the error of ReadAll is looked at.
ReadFailsClassified ==
    /\ phase = "reading" /\ cause # "none"
    /\ phase' = "done"
    /\ outcome' = IF status = "unauthorized" THEN "auth" ELSE "provider_error"
    /\ UNCHANGED <<cause, caller, status>>

\* io.ReadAll returns an error, which is passed on as it is.
ReadFails ==
    /\ phase = "reading" /\ cause # "none"
    /\ phase' = "done"
    /\ outcome' = "provider_error"
    /\ UNCHANGED <<cause, caller, status>>

Classify(code, body) ==
    CASE code = "unauthorized" -> IF body = "mentions_billing" THEN "billing" ELSE "auth"
      [] code = "payment" -> "billing"
      [] code = "too_many" -> "rate_limit"
      [] code = "upstream_timeout" -> "timeout"
      [] code = "other" -> "unavailable"
      [] code = "success" -> IF body = "answers" THEN "ok" ELSE "provider_error"

\* The whole body is read, then the status is looked at.
ReadBody ==
    /\ phase = "reading" /\ cause = "none"
    /\ phase' = "done"
    /\ cause' = "answer"
    /\ \E body \in Bodies : outcome' = Classify(status, body)
    /\ UNCHANGED <<caller, status>>

\* The caller of Evaluate takes the result; its client keeps no state.
Take ==
    /\ phase = "done"
    /\ phase' = "idle"
    /\ cause' = "none"
    /\ caller' = "live"
    /\ status' = "none"
    /\ outcome' = "none"

\* What happens by itself once the request was sent.
Evaluate ==
    \/ Headers \/ ClientTimeout \/ NetworkFails \/ CallerLeaves
    \/ DoFails \/ ReadFails \/ ReadBody

\* The clock of the HTTP client runs whatever the provider does, and Go hands
\* its error to the goroutine that waits.
EvaluateFairness ==
    /\ WF_gatewayVars(ClientTimeout)
    /\ WF_gatewayVars(DoFails)
    /\ WF_gatewayVars(ReadFails)

-----------------------------------------------------------------------------
(* Properties *)

\* Success, and the failures that only an answer can tell (authentication,
\* billing, rate limit), are reported only of a provider whose answer was read
\* to its end.  In whatever order the clocks, the network and the caller end the
\* call, a half-read answer is never classified.
KindHasItsCause ==
    phase = "done" /\ outcome \in {"ok", "auth", "billing", "rate_limit"} => cause = "answer"

\* "Authentication, billing, rate-limit, timeout, and availability failures are
\* reported separately" (README.md): a call that was ended by the HTTP client's
\* own clock is reported as a timeout.
TimeoutsAreReported ==
    phase = "done" /\ cause = "timeout" => outcome = "timeout"
=============================================================================
