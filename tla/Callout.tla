------------------------------ MODULE Callout ------------------------------
(***************************************************************************)
(* Out-of-process content scanning: a ContentScanner (icap.py) walks the    *)
(* blocks of a message, a CalloutClient (callout.py) asks the service about *)
(* each of them over one transport, under a byte budget, a verdict cache    *)
(* and a deadline, and the ICAP bridge (icap_to_callout) answers.           *)
(*                                                                         *)
(* The transport is a FIFO in both directions.  A deadline abandons the     *)
(* wait and not the answer: it stays on the wire for the next callout.  It  *)
(* covers the receive alone: a send waits for the transport to drain.       *)
(***************************************************************************)
EXTENDS Naturals, Sequences, SequencesExt, Functions

CONSTANTS
    Contents,     \* payloads, each with its own digest
    Oversize,     \* those over max_bytes
    Link,         \* a block without bytes to scan: a link, or a blob that does not decode
    MaxBlocks,    \* bound: blocks of a message
    MaxMessages   \* bound: messages scanned

ASSUME CalloutAssumption ==
    /\ Oversize \subseteq Contents
    /\ Link \notin Contents
    /\ MaxBlocks \in Nat \ {0} /\ MaxMessages \in Nat

VARIABLES
    policy,    \* the client's failure_policy
    message,   \* the blocks of the message being scanned
    applied,   \* the verdicts of its first blocks, in order
    pc,        \* "idle", "block", the phase being sent or the phase awaited
    outcome,   \* of the last message: "none", "forward", "deny", "quarantine", "raised"
    cache,     \* the VerdictCache: a function from some contents to verdicts
    queue,     \* contents of the requests the service has yet to answer
    wire,      \* its answers not yet received
    service,   \* "reading", "stalled" (connected, but it reads no more) or "closed"
    scanned,   \* number of messages begun
    strays     \* history: deadlines passed and answers that were no frame

vars == <<policy, message, applied, pc, outcome, cache, queue, wire, service, scanned, strays>>

Blocks == Contents \cup {Link}

\* The verdicts after which nothing of the message is forwarded.
Terminal == {"deny", "quarantine"}

resolve_failure_Open(p) == "allow"   \* mutant: every failure lets the message pass
resolve_failure(p) == IF p = "fail_closed" THEN "deny" ELSE "allow"

\* A verdict: its kind, whether it carries replacement bytes (bytes) and
\* whether it annotates the message (provenance).  History: the content it was
\* asked for, and whether it is the failure policy's.
Verdict(kind, bytes, prov, for) ==
    [kind |-> kind, bytes |-> bytes, prov |-> prov, for |-> for, failed |-> FALSE]

Failed(for) ==
    [Verdict(resolve_failure(policy), FALSE, FALSE, for) EXCEPT !.failed = TRUE]

(***************************************************************************)
(* The service: an ICAP response, or an answer no ICAP response stands for. *)
(***************************************************************************)
IcapResponse ==
    [threat : BOOLEAN, status : {200, 204, 403, 500}, modified : {"absent", "base64", "not base64"}]

icap_to_callout(r) ==
    CASE r.threat                                    -> [verdict |-> "quarantine", content |-> "absent"]
      [] ~r.threat /\ r.status = 204                 -> [verdict |-> "allow", content |-> "absent"]
      [] ~r.threat /\ r.status = 200                 ->
            [verdict |-> IF r.modified = "absent" THEN "allow" ELSE "mutate", content |-> r.modified]
      [] OTHER                                       -> [verdict |-> "deny", content |-> "absent"]

\* "unknown" is no verdict, "undecodable" no JSON, "misframed" no frame.
Answers ==
    {icap_to_callout(r) : r \in IcapResponse}
    \cup [verdict : {"annotate", "continue", "unknown", "undecodable", "misframed"}, content : {"absent"}]

parse_verdict(answer, for) ==
    CASE answer.verdict \in {"unknown", "undecodable"} -> Failed(for)
      [] answer.verdict = "mutate" ->
            Verdict("mutate", answer.content = "base64", TRUE, for)
      [] OTHER -> Verdict(answer.verdict, FALSE, answer.verdict = "annotate", for)

(***************************************************************************)
(* The scanner                                                             *)
(***************************************************************************)
Current == message[Len(applied) + 1]

Rewritten(block) == <<"rewritten", block>>

\* The message handed on: a rewrite that decoded replaces its block, and any
\* provenance annotates the whole.
Forwarded ==
    [blocks |-> [i \in DOMAIN message |->
                    IF applied[i].kind = "mutate" /\ applied[i].bytes
                    THEN Rewritten(message[i]) ELSE message[i]],
     annotated |-> \E i \in DOMAIN applied : applied[i].prov]

\* The verdict v of the current block: a terminal one ends the message, as does
\* the last block.
Decide(v) ==
    /\ applied' = Append(applied, v)
    /\ IF v.kind \in Terminal
       THEN outcome' = v.kind /\ pc' = "idle"
       ELSE IF Len(applied) + 1 = Len(message)
       THEN outcome' = "forward" /\ pc' = "idle"
       ELSE outcome' = outcome /\ pc' = "block"

\* VerdictCache.put.
Put(content, v) ==
    [c \in {content} \cup DOMAIN cache |-> IF c = content THEN v ELSE cache[c]]

Conclude_FirstKey(v) ==   \* mutant: the verdict is cached for the message's first block
    /\ Decide(v)
    /\ cache' = IF v.kind = "continue" \/ message[1] = Link THEN cache ELSE Put(message[1], v)

\* What scan does with the verdict of its last call: a failure is cached like
\* any other, a second "continue" is handed on and is not.
Conclude(v) ==
    /\ Decide(v)
    /\ cache' = IF v.kind = "continue" THEN cache ELSE Put(Current, v)

\* The phases of _call: being sent, then awaited.
Sending == {"send_preview", "send_body"}
Waiting == {"preview", "body"}

\* The request is written; on a closed transport that raises.
Send(phase) ==
    IF service # "closed"
    THEN /\ queue' = Append(queue, Current)
         /\ pc' = phase
         /\ UNCHANGED <<applied, outcome, cache>>
    ELSE Conclude(Failed(Current)) /\ UNCHANGED queue

\* A message arrives; one without blocks is forwarded at once.
Begin ==
    /\ pc = "idle" /\ scanned < MaxMessages
    /\ \E m \in SeqOf(Blocks, MaxBlocks) \ {<<>>} : message' = m
    /\ applied' = <<>> /\ outcome' = "none" /\ pc' = "block"
    /\ scanned' = scanned + 1
    /\ UNCHANGED <<policy, cache, queue, wire, service, strays>>

\* No payload: the block is passed over.
SkipLink ==
    /\ pc = "block" /\ Current = Link
    /\ Decide(Verdict("allow", FALSE, FALSE, Link))
    /\ UNCHANGED <<policy, message, cache, queue, wire, service, scanned, strays>>

\* Over the budget: refused without asking, and not cached.
OverBudget ==
    /\ pc = "block" /\ Current \in Oversize
    /\ Decide(Failed(Current))
    /\ UNCHANGED <<policy, message, cache, queue, wire, service, scanned, strays>>

CacheHit ==
    /\ pc = "block" /\ Current \in DOMAIN cache
    /\ Decide(cache[Current])
    /\ UNCHANGED <<policy, message, cache, queue, wire, service, scanned, strays>>

CacheMiss ==
    /\ pc = "block" /\ Current \in Contents \ (Oversize \cup DOMAIN cache)
    /\ Send("send_preview")
    /\ UNCHANGED <<policy, message, wire, service, scanned, strays>>

\* The transport has drained, and only now is the deadline set.
EndSend ==
    /\ pc \in Sending
    /\ pc' = IF pc = "send_preview" THEN "preview" ELSE "body"
    /\ UNCHANGED <<policy, message, applied, outcome, cache, queue, wire, service, scanned, strays>>

\* The connection is lost before that.
FailSend ==
    /\ pc \in Sending /\ service = "closed"
    /\ Conclude(Failed(Current))
    /\ UNCHANGED <<policy, message, queue, wire, service, scanned, strays>>

\* The next answer on the transport, whichever request it answers.
Receive ==
    /\ pc \in Waiting /\ wire # <<>> /\ Head(wire).answer.verdict # "misframed"
    /\ wire' = Tail(wire)
    /\ LET v == parse_verdict(Head(wire).answer, Head(wire).for)
       IN  IF pc = "preview" /\ v.kind = "continue" THEN Send("send_body")
           ELSE Conclude(v) /\ UNCHANGED queue
    /\ UNCHANGED <<policy, message, service, scanned, strays>>

\* A wrong frame raises out of this scan.  What follows its header stays on
\* the transport for a later scan, where it may read as an answer: it lets
\* pass, refuses or is again no frame, which is all that is told apart here.
Remainders == {a \in Answers : a.verdict \in {"allow", "deny", "misframed"} /\ a.content = "absent"}

ReceiveRaises ==
    /\ pc \in Waiting /\ wire # <<>> /\ Head(wire).answer.verdict = "misframed"
    /\ \/ wire' = Tail(wire)
       \/ \E a \in Remainders : wire' = <<[answer |-> a, for |-> Head(wire).for]>> \o Tail(wire)
    /\ outcome' = "raised" /\ pc' = "idle"
    /\ strays' = strays + 1
    /\ UNCHANGED <<policy, message, applied, cache, queue, service, scanned>>

Deadline_PreviewOnly ==   \* mutant: the second receive has no deadline
    /\ pc = "preview"
    /\ Conclude(Failed(Current))
    /\ strays' = strays + 1
    /\ UNCHANGED <<policy, message, queue, wire, service, scanned>>

\* wait_for gives up; the request and its answer stay behind.
Deadline ==
    /\ pc \in Waiting
    /\ Conclude(Failed(Current))
    /\ strays' = strays + 1
    /\ UNCHANGED <<policy, message, queue, wire, service, scanned>>

\* End of stream, after what was sent before it.
Closed ==
    /\ pc \in Waiting /\ wire = <<>> /\ service = "closed"
    /\ Conclude(Failed(Current))
    /\ UNCHANGED <<policy, message, queue, wire, service, scanned, strays>>

(***************************************************************************)
(* The service's end                                                       *)
(***************************************************************************)
Answer ==
    /\ service # "closed" /\ queue # <<>>
    /\ \E a \in Answers : wire' = Append(wire, [answer |-> a, for |-> Head(queue)])
    /\ queue' = Tail(queue)
    /\ UNCHANGED <<policy, message, applied, pc, outcome, cache, service, scanned, strays>>

Stall ==
    /\ service = "reading" /\ service' = "stalled"
    /\ UNCHANGED <<policy, message, applied, pc, outcome, cache, queue, wire, scanned, strays>>

Hangup ==
    /\ service # "closed" /\ service' = "closed" /\ queue' = <<>>
    /\ UNCHANGED <<policy, message, applied, pc, outcome, cache, wire, scanned, strays>>

Init ==
    /\ policy \in {"fail_closed", "fail_open"}
    /\ message = <<>> /\ applied = <<>> /\ pc = "idle" /\ outcome = "none"
    /\ cache = <<>> /\ queue = <<>> /\ wire = <<>> /\ service = "reading"
    /\ scanned = 0 /\ strays = 0

Scanner ==
    Begin \/ SkipLink \/ OverBudget \/ CacheHit \/ CacheMiss
      \/ FailSend \/ Receive \/ ReceiveRaises \/ Deadline \/ Closed

Next == Scanner \/ EndSend \/ Answer \/ Stall \/ Hangup

Spec == Init /\ [][Next]_vars

\* The event loop runs a task that can run, and the timer of wait_for fires.  A
\* transport drains if the service reads; what is small may drain in any case.
FairSpec == Spec /\ WF_vars(Scanner) /\ WF_vars(service # "stalled" /\ EndSend)

(***************************************************************************)
(* Properties                                                              *)
(***************************************************************************)
VerdictType ==
    [kind : {"allow", "deny", "quarantine", "mutate", "annotate", "continue"},
     bytes : BOOLEAN, prov : BOOLEAN, for : Blocks, failed : BOOLEAN]

TypeOK ==
    /\ policy \in {"fail_closed", "fail_open"}
    /\ message \in Seq(Blocks) /\ applied \in Seq(VerdictType) /\ Len(applied) <= Len(message)
    /\ pc \in {"idle", "block"} \cup Sending \cup Waiting
    /\ outcome \in {"none", "forward", "deny", "quarantine", "raised"}
    /\ DOMAIN cache \subseteq Contents /\ Range(cache) \subseteq VerdictType
    /\ queue \in Seq(Contents) /\ wire \in Seq([answer : Answers, for : Contents])
    /\ service \in {"reading", "stalled", "closed"} /\ scanned \in 0..MaxMessages /\ strays \in Nat

\* As long as no deadline has passed and no answer was misframed, the verdict
\* applied to a block was given for that block's content, and so was every one
\* in the cache: neither a preview answered twice nor a cached failure nor a
\* send that failed shifts the answers (scan, _call).
VerdictFits ==
    strays = 0 =>
        /\ \A c \in DOMAIN cache : cache[c].for = c
        /\ \A i \in DOMAIN applied : applied[i].for = message[i]

\* A failed callout (deadline, end of stream, undecodable or unknown answer,
\* budget), also one remembered in the cache, is decided by the failure policy:
\* under fail_closed no message with one is forwarded, under fail_open none is
\* refused for one (_failed, parse_verdict).
FailurePolicyDecides ==
    /\ outcome = "forward" /\ policy = "fail_closed" => \A i \in DOMAIN applied : ~applied[i].failed
    /\ outcome \in Terminal /\ policy = "fail_open" => ~Last(applied).failed

\* In a forwarded message every block the service rewrote carries the rewrite:
\* "200 with a modified body substitutes the CDR-rewritten content" (icap.py).
RewritesApplied ==
    outcome = "forward" =>
        \A i \in DOMAIN applied : applied[i].kind = "mutate" => Forwarded.blocks[i] = Rewritten(message[i])

\* Identical digests share a verdict: once cached it is never replaced or
\* dropped, whatever later scans of that content would have said (VerdictCache).
VerdictSticks ==
    [][\A c \in DOMAIN cache : c \in DOMAIN cache' /\ cache'[c] = cache[c]]_vars

\* A silent, slow or closed service holds up no message forever, unless it no
\* longer reads what it is sent: every scan comes to an outcome, or raises (the
\* deadline of _receive, in both phases).
ScansEnd == []<>(service # "stalled") => (pc = "block" ~> pc = "idle")

\* "a deadline bounds a slow or hung scanner" (callout.py): also one that no
\* longer reads.
DeadlineBounds == pc = "block" ~> pc = "idle"

=============================================================================
