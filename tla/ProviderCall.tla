---------------------------- MODULE ProviderCall ----------------------------
(***************************************************************************)
(* eval/runners/providers.py: chat_completion, with its retries.  The      *)
(* clock counts ticks of half a second and is set to zero between calls,   *)
(* as only differences are ever looked at.                                 *)
(***************************************************************************)
EXTENDS Integers

CONSTANTS
  Backoff,    \* backoff_base_sec, in ticks
  PostTicks   \* bound: the longest time one request takes

ASSUME CallAssumption == Backoff \in Nat /\ PostTicks \in Nat

VARIABLES call, now

\* backoff_base_sec doubles from retry to retry.
Delay[attempt \in Nat] == IF attempt = 0 THEN Backoff ELSE 2 * Delay[attempt - 1]

NoCall ==
  [phase |-> "idle", budget |-> 0, attempt |-> 0, sent |-> 0, verdict |-> "none", start |-> 0,
   wait |-> 0, latency |-> 0]

CallInit == call = NoCall /\ now = 0

\* The key and the candidate are found; the loop starts.
Ask(max_retries) ==
  /\ call.phase = "idle"
  /\ call' = [call EXCEPT !.phase = "posting", !.budget = max_retries, !.start = now]
  /\ UNCHANGED now

\* _read_api_key raises ProviderError.  For a candidate the yaml does not list
\* _lookup_option raises KeyError, which ends an evaluation like any failed call;
\* answer() meets it before its graph runs, when it resolves its candidates.
CannotAsk ==
  /\ call.phase = "idle"
  /\ call' = [call EXCEPT !.phase = "failed"]
  /\ UNCHANGED now

\* A request takes its time.
Posted(ticks) ==
  /\ call.phase = "posting"
  /\ now' = now + ticks

\* Status 200 with choices[0].message.content.
Answered ==
  \E ticks \in 0..PostTicks :
    /\ Posted(ticks)
    /\ call' = [call EXCEPT !.phase = "answered", !.sent = @ + 1, !.verdict = "ok",
                            !.latency = now' - call.start]

\* Any other 200, 3xx, or 4xx but 429: no retry.
Rejected ==
  \E ticks \in 0..PostTicks :
    /\ Posted(ticks)
    /\ call' = [call EXCEPT !.phase = "failed", !.sent = @ + 1, !.verdict = "permanent"]

\* _is_retryable_status, a timeout or a transport error: give up after the last
\* attempt, or back off; the jitter is less than a tick.
Transient ==
  \E ticks \in 0..PostTicks, jitter \in {0, IF Backoff = 0 THEN 0 ELSE 1} :
    /\ Posted(ticks)
    /\ call' = [call EXCEPT !.sent = @ + 1, !.verdict = "transient",
                            !.phase = IF call.attempt >= call.budget THEN "failed" ELSE "sleeping",
                            !.wait = IF call.attempt >= call.budget THEN 0
                                     ELSE Delay[call.attempt] + jitter]

\* Bug: the time is taken from the last attempt.
TryAgainFromNow ==
  /\ call.phase = "sleeping"
  /\ now' = now + call.wait
  /\ call' = [call EXCEPT !.phase = "posting", !.attempt = @ + 1, !.wait = 0, !.start = now']

TryAgain ==
  /\ call.phase = "sleeping"
  /\ now' = now + call.wait
  /\ call' = [call EXCEPT !.phase = "posting", !.attempt = @ + 1, !.wait = 0]

\* The caller has taken the answer or the ProviderError.
TakeResult == call' = NoCall /\ now' = 0

\* The call as its caller sees it.
Abstract == INSTANCE ModelCall WITH
  phase <- IF call.phase \in {"posting", "sleeping"} THEN "asked" ELSE call.phase,
  budget <- call.budget, posts <- call.sent, verdict <- call.verdict, elapsed <- now, latency <- call.latency

\* Retries, back-off and the clock of chat_completion keep the
\* contract of ModelCall: at most max_retries retries, each after its back-off; a
\* permanent error or a malformed answer never retried, a transient one always
\* while tries remain; the latency covers failed tries and sleeps.
ImplementsCall == Abstract!Spec
=============================================================================
