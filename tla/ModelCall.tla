------------------------------ MODULE ModelCall ------------------------------
(***************************************************************************)
(* What a caller may rely on when it asks a hosted model: at most budget   *)
(* tries after the first, spread out ever more; an answer is reported with *)
(* the whole time it took; and the call fails only if it never left, if    *)
(* the provider turned it down for good, or if every try was used up.      *)
(***************************************************************************)
EXTENDS Integers

CONSTANT Backoff   \* ticks to wait before the first retry

VARIABLES
  phase,    \* "idle", "asked", "answered" or "failed"
  budget,   \* retries the caller allows after the first try
  posts,    \* requests sent
  verdict,  \* what the last of them met: "none", "ok", "transient", "permanent"
  elapsed,  \* ticks since the call began
  latency   \* ticks the caller is told

\* Retry n + 1 waits at least Delay[n]; those before it, Delay[n] - Backoff in all.
Delay[n \in Nat] == IF n = 0 THEN Backoff ELSE 2 * Delay[n - 1]

vars == <<phase, budget, posts, verdict, elapsed, latency>>

Init ==
  /\ phase = "idle" /\ budget = 0 /\ posts = 0
  /\ verdict = "none" /\ elapsed = 0 /\ latency = 0

Begin ==
  /\ phase = "idle"
  /\ phase' = "asked" /\ budget' \in Nat
  /\ UNCHANGED <<posts, verdict, elapsed, latency>>

\* The n-th retry leaves no earlier than all the waits before it allow.
Post ==
  /\ phase = "asked"
  /\ verdict \in {"none", "transient"} /\ posts <= budget
  /\ elapsed' >= elapsed /\ elapsed' >= Delay[posts] - Backoff
  /\ posts' = posts + 1
  /\ verdict' \in {"ok", "transient", "permanent"}
  /\ \/ /\ verdict' = "ok"
        /\ phase' = "answered" /\ latency' = elapsed'
     \/ /\ verdict' = "permanent" \/ (verdict' = "transient" /\ posts = budget)
        /\ phase' = "failed" /\ latency' = 0
     \/ /\ verdict' = "transient" /\ posts < budget
        /\ phase' = "asked" /\ latency' = 0
  /\ UNCHANGED budget

\* Time passes while the caller waits.
Wait ==
  /\ phase = "asked"
  /\ elapsed' > elapsed
  /\ UNCHANGED <<phase, budget, posts, verdict, latency>>

\* Without a key, or for a model nobody configured, nothing is sent.
Refuse ==
  /\ phase = "idle"
  /\ phase' = "failed"
  /\ UNCHANGED <<budget, posts, verdict, elapsed, latency>>

Return ==
  /\ phase \in {"answered", "failed"}
  /\ phase' = "idle" /\ budget' = 0 /\ posts' = 0
  /\ verdict' = "none" /\ elapsed' = 0 /\ latency' = 0

Next == Begin \/ Post \/ Wait \/ Refuse \/ Return

Spec == Init /\ [][Next]_vars
=============================================================================
