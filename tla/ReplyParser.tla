----------------------------- MODULE ReplyParser -----------------------------
(***************************************************************************)
(* generate/parser.py: what is made of a generator's reply.  A reply is    *)
(* what json.loads gives for the text and for the body of its code fence:  *)
(* NotJson, NotObject, or the object's fields.  A claim is its length.     *)
(***************************************************************************)
EXTENDS Integers, Sequences, SequencesExt

CONSTANTS NotJson, NotObject

Failed == [parse_ok |-> FALSE, abstain |-> FALSE, claims |-> <<>>, citations |-> <<>>]

\* AnswerClaim and Citation.
WellFormed(output) ==
  /\ \A i \in DOMAIN output.claims : output.claims[i] > 0
  /\ \A i \in DOMAIN output.citations :
       LET c == output.citations[i] IN c.start >= 0 /\ c.end > 0 /\ c.claim >= 0

\* The fence is tried once, and only if the text is no JSON; what the model
\* says of parse_ok does not count.
ParseGenerationOutput(reply) ==
  LET parsed == IF reply.text = NotJson THEN reply.fenced ELSE reply.text IN
  IF parsed \in {NotJson, NotObject} \/ ~WellFormed(parsed) THEN Failed
  ELSE [parsed EXCEPT !.parse_ok = TRUE]
=============================================================================
