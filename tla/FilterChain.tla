---------------------------- MODULE FilterChain ----------------------------
(* yamp/filters.py: the extension filter chain that scans a request before   *)
(* the router routes it.  A request is [method, tool, arguments, meta]; meta *)
(* is the set of provenance marks it carries.  A filter is                   *)
(* [interest, policy, evaluate]: evaluate gives, for the arguments it is     *)
(* shown, a verdict, or Raises when it raises.                               *)
EXTENDS Integers, Sequences, SequencesExt

CONSTANTS
  Arguments,   \* what a call may be given: values
  Marks        \* what a filter may note of a message: values

Raises == [kind |-> "raises"]

\* The closed verdict set, or an exception.
Verdicts == [kind : {"allow", "deny", "quarantine", "raises"}]
            \cup [kind : {"mutate"}, arguments : Arguments]
            \cup [kind : {"annotate"}, provenance : SUBSET Marks]

\* A name is a sequence of one-letter strings, or of one word that is never
\* taken apart.
Wildcard  == <<"*">>
ToolsCall == <<"tools/call">>
C2U       == <<"c2u">>

Names == Seq(STRING)

Filters ==
  [interest : [methods : SUBSET Names, directions : SUBSET Names, tools : SUBSET Names, content_types : SUBSET Names],
   policy   : {"fail_open", "fail_closed"},
   evaluate : [Arguments -> Verdicts]]

\* _matches: an undeclared dimension (the empty set) matches anything.
Declares(declared, value) == declared = {} \/ Wildcard \in declared \/ value \in declared

\* The context is that of the request as the client sent it.  A request carries
\* no content blocks (content.blocks reads results only), so a filter that
\* declares content types other than "*" is not interested in any request.
interested(filter, request) ==
  LET i == filter.interest
  IN  /\ Declares(i.methods, request.method)
      /\ Declares(i.directions, C2U)
      /\ Declares(i.tools, IF request.method = ToolsCall THEN request.tool ELSE << >>)
      /\ i.content_types = {} \/ Wildcard \in i.content_types

resolve_failure(policy) == IF policy = "fail_closed" THEN "deny" ELSE "allow"

\* A filter that raises is resolved by its policy, by the host.
Verdict(filter, message) ==
  LET v == filter.evaluate[message.arguments]
  IN  IF v = Raises THEN [kind |-> resolve_failure(filter.policy)] ELSE v

Terminal(verdict) == verdict.kind \in {"deny", "quarantine"}

\* _apply_one: what a verdict that is not terminal makes of the message.
ApplyOne(verdict, message) ==
  IF verdict.kind = "mutate" THEN [message EXCEPT !.arguments = verdict.arguments]
  ELSE IF verdict.kind = "annotate" THEN [message EXCEPT !.meta = @ \cup verdict.provenance]
  ELSE message

Decision(action, message, quarantined) ==
  [action |-> action, message |-> message, quarantined |-> quarantined]

\* chain_outcome's loop: one more verdict; the first terminal one ends it.
Reduce(o, v) ==
  IF o.action = "block" THEN o
  ELSE IF Terminal(v) THEN Decision("block", o.message, v.kind = "quarantine")
  ELSE Decision("forward", ApplyOne(v, o.message), FALSE)

Reduced(verdicts, request) ==
  LET out[i \in 0..Len(verdicts)] ==
        IF i = 0 THEN Decision("forward", request, FALSE) ELSE Reduce(out[i - 1], verdicts[i])
  IN  out

chain_outcome(verdicts, request) == Reduced(verdicts, request)[Len(verdicts)]

run_Original(filters, request) ==   \* mutant: every filter is shown the original request
  LET asked == SelectSeq(filters, LAMBDA f : interested(f, request))
  IN  chain_outcome([i \in 1..Len(asked) |-> Verdict(asked[i], request)], request)

\* FilterChain.run's loop: one more filter.  Each interested one sees the message
\* as those before it shaped it, and a terminal verdict ends the loop.
Ask(filter, request, r) ==
  LET v == Verdict(filter, r.message)
  IN  IF r.ended \/ ~interested(filter, request) THEN r
      ELSE [verdicts |-> Append(r.verdicts, v),
            message  |-> IF Terminal(v) THEN r.message ELSE ApplyOne(v, r.message),
            ended    |-> Terminal(v)]

Asked(filters, request) ==
  LET did[i \in 0..Len(filters)] ==
        IF i = 0 THEN [verdicts |-> << >>, message |-> request, ended |-> FALSE]
        ELSE Ask(filters[i], request, did[i - 1])
  IN  did

run(filters, request) == chain_outcome(Asked(filters, request)[Len(filters)].verdicts, request)
=============================================================================
