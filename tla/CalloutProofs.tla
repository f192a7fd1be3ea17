--------------------------- MODULE CalloutProofs ---------------------------
(* Theorems about Callout for every set of contents, every length of a       *)
(* message and any number of them, whatever the service answers.             *)
EXTENDS Callout, SequenceTheorems, TLAPS

Scanning == {"block"} \cup Sending \cup Waiting

(* While a message is scanned a block of it is left; one that is asked about *)
(* has bytes and was not in the cache.                                       *)
BlockLeft ==
  /\ pc \in Scanning => Len(applied) < Len(message) /\ outcome = "none"
  /\ pc \in Sending \cup Waiting => Current \in Contents \ DOMAIN cache
  /\ service = "closed" => queue = <<>>

(* Until something has strayed, what is on the transport is the one request  *)
(* the scanner sends or waits for, or its answer; a transport that was lost  *)
(* keeps what nobody will ask for.                                           *)
OneInFlight ==
  strays = 0 =>
    /\ pc \notin Sending \cup Waiting =>
         queue = <<>> /\ (service # "closed" => wire = <<>>)
    /\ pc \in Sending \cup Waiting =>
         \/ queue = <<Current>> /\ wire = <<>>
         \/ queue = <<>> /\ Len(wire) = 1 /\ wire[1].for = Current
         \/ queue = <<>> /\ wire = <<>> /\ service = "closed"

(* A verdict of the failure policy is the one it prescribes, also in the     *)
(* cache; only the last verdict of a message may be a terminal one, and then *)
(* it is the outcome.                                                        *)
PolicyApplied ==
  /\ \A c \in DOMAIN cache : cache[c].failed => cache[c].kind = resolve_failure(policy)
  /\ \A i \in DOMAIN applied : applied[i].failed => applied[i].kind = resolve_failure(policy)
  /\ outcome \notin Terminal => \A i \in DOMAIN applied : applied[i].kind \notin Terminal
  /\ outcome \in Terminal => Len(applied) > 0 /\ applied[Len(applied)].kind = outcome

IndInv == TypeOK /\ BlockLeft /\ OneInFlight /\ VerdictFits /\ PolicyApplied

-----------------------------------------------------------------------------
LEMMA PutTypes ==
  ASSUME NEW c \in Contents, NEW v \in VerdictType,
         DOMAIN cache \subseteq Contents, Range(cache) \subseteq VerdictType
  PROVE  DOMAIN Put(c, v) \subseteq Contents /\ Range(Put(c, v)) \subseteq VerdictType
BY DEF Put, Range

LEMMA VerdictTypes ==
  ASSUME NEW for \in Blocks, policy \in {"fail_closed", "fail_open"}
  PROVE  /\ Failed(for) \in VerdictType
         /\ Failed(for).for = for /\ Failed(for).failed
         /\ Failed(for).kind = resolve_failure(policy)
         /\ resolve_failure(policy) \in {"allow", "deny"}
BY DEF Failed, Verdict, resolve_failure, VerdictType

(* A decoded answer is a verdict for the content it was given for, or a      *)
(* failure.                                                                  *)
LEMMA ParsedTypes ==
  ASSUME NEW answer \in Answers, NEW for \in Blocks, answer.verdict # "misframed",
         policy \in {"fail_closed", "fail_open"}
  PROVE  /\ parse_verdict(answer, for) \in VerdictType
         /\ parse_verdict(answer, for).for = for
         /\ parse_verdict(answer, for).failed =>
              parse_verdict(answer, for).kind = resolve_failure(policy)
<1>1. answer.verdict \in {"quarantine", "allow", "mutate", "deny", "annotate",
                          "continue", "unknown", "undecodable", "misframed"}
  <2>1. ASSUME NEW r \in IcapResponse
        PROVE  icap_to_callout(r).verdict \in {"quarantine", "allow", "mutate", "deny"}
    <3>1. r.threat \in BOOLEAN
      BY DEF IcapResponse
    <3>2. CASE r.threat
      BY <3>2 DEF icap_to_callout
    <3>3. CASE ~r.threat /\ r.status = 204
      BY <3>3 DEF icap_to_callout
    <3>4. CASE ~r.threat /\ r.status = 200
      BY <3>4 DEF icap_to_callout
    <3>5. CASE ~r.threat /\ r.status # 204 /\ r.status # 200
      BY <3>5 DEF icap_to_callout
    <3> QED BY <3>1, <3>2, <3>3, <3>4, <3>5
  <2> QED BY <2>1 DEF Answers
<1>2. CASE answer.verdict \in {"unknown", "undecodable"}
  BY <1>2, VerdictTypes DEF parse_verdict
<1>3. CASE answer.verdict = "mutate"
  BY <1>3 DEF parse_verdict, Verdict, VerdictType
<1>4. CASE answer.verdict \in {"quarantine", "allow", "deny", "annotate", "continue"}
  BY <1>4 DEF parse_verdict, Verdict, VerdictType
<1> QED BY <1>1, <1>2, <1>3, <1>4

-----------------------------------------------------------------------------
(* What a decision makes of the scan, given a verdict for the current block. *)
Judged(v) ==
  /\ v \in VerdictType
  /\ v.failed => v.kind = resolve_failure(policy)

LEMMA DecideKeeps ==
  ASSUME TypeOK, BlockLeft, PolicyApplied, pc \in Scanning, NEW v, Judged(v), Decide(v),
         UNCHANGED <<policy, message>>
  PROVE  /\ applied' \in Seq(VerdictType) /\ Len(applied') = Len(applied) + 1
         /\ Len(applied') <= Len(message)
         /\ applied'[Len(applied) + 1] = v
         /\ \A i \in DOMAIN applied : i \in DOMAIN applied' /\ applied'[i] = applied[i]
         /\ DOMAIN applied' = DOMAIN applied \cup {Len(applied) + 1}
         /\ pc' \in {"idle", "block"}
         /\ outcome' \in {"none", "forward", "deny", "quarantine"}
         /\ pc' = "block" => Len(applied') < Len(message) /\ outcome' = "none"
         /\ \A i \in DOMAIN applied' : applied'[i].failed => applied'[i].kind = resolve_failure(policy)
         /\ outcome' \notin Terminal => \A i \in DOMAIN applied' : applied'[i].kind \notin Terminal
         /\ outcome' \in Terminal => Len(applied') > 0 /\ applied'[Len(applied')].kind = outcome'
<1> USE DEF Scanning, Sending, Waiting
<1>1. /\ applied \in Seq(VerdictType) /\ Len(applied) \in Nat /\ message \in Seq(Blocks)
      /\ Len(applied) < Len(message) /\ outcome = "none" /\ Len(message) \in Nat
  BY DEF TypeOK, BlockLeft
<1>2. applied' = Append(applied, v)
  BY DEF Decide
<1>3. /\ applied' \in Seq(VerdictType) /\ Len(applied') = Len(applied) + 1
      /\ applied'[Len(applied) + 1] = v
      /\ \A i \in DOMAIN applied : i \in DOMAIN applied' /\ applied'[i] = applied[i]
      /\ DOMAIN applied' = DOMAIN applied \cup {Len(applied) + 1}
  BY <1>1, <1>2 DEF Judged
<1>4. /\ pc' \in {"idle", "block"}
      /\ outcome' \in {"none", "forward", "deny", "quarantine"}
      /\ pc' = "block" => Len(applied') < Len(message) /\ outcome' = "none"
  BY <1>1, <1>3 DEF Decide, Terminal
<1>5. \A i \in DOMAIN applied' : applied'[i].failed => applied'[i].kind = resolve_failure(policy)
  BY <1>3 DEF PolicyApplied, Judged
<1>6. \A i \in DOMAIN applied : applied[i].kind \notin Terminal
  BY <1>1 DEF PolicyApplied, Terminal
<1>7. outcome' \notin Terminal => \A i \in DOMAIN applied' : applied'[i].kind \notin Terminal
  BY <1>1, <1>3, <1>6 DEF Decide
<1>8. outcome' \in Terminal => Len(applied') > 0 /\ applied'[Len(applied')].kind = outcome'
  BY <1>1, <1>3 DEF Decide, Terminal
<1> QED BY <1>1, <1>3, <1>4, <1>5, <1>7, <1>8

-----------------------------------------------------------------------------
(* The steps of the scanner keep IndInv.  They differ in the verdict they    *)
(* decide on, in what they cache and in what they take from the transport.   *)

(* A decision that caches nothing: a link, an oversized block, a hit.        *)
LEMMA DecideOnly ==
  ASSUME IndInv, pc = "block", NEW v, Judged(v), Decide(v),
         strays = 0 => v.for = Current,
         UNCHANGED <<policy, message, cache, queue, wire, service, scanned, strays>>
  PROVE  IndInv'
<1>1. pc \in Scanning /\ pc \notin Waiting
  BY DEF Scanning, Sending, Waiting
<1>2. TypeOK'
  BY <1>1, DecideKeeps DEF IndInv, TypeOK
<1>3. BlockLeft' /\ OneInFlight'
  BY <1>1, DecideKeeps DEF IndInv, BlockLeft, OneInFlight, Scanning, Sending, Waiting
<1>4. VerdictFits'
  BY <1>1, DecideKeeps DEF IndInv, VerdictFits, Current
<1>5. PolicyApplied'
  BY <1>1, DecideKeeps DEF IndInv, PolicyApplied
<1> QED BY <1>2, <1>3, <1>4, <1>5 DEF IndInv

(* The end of a callout: nothing may be left in flight unless a deadline has *)
(* passed.                                                                   *)
LEMMA ConcludeKeeps ==
  ASSUME IndInv, pc \in Scanning, Current \in Contents, NEW v, Judged(v), Conclude(v),
         strays' = 0 => v.for = Current /\ queue' = <<>> /\ (service # "closed" => wire' = <<>>),
         strays' = 0 => strays = 0, strays' \in Nat,
         queue' \in Seq(Contents), wire' \in Seq([answer : Answers, for : Contents]),
         service = "closed" => queue' = <<>>,
         UNCHANGED <<policy, message, service, scanned>>
  PROVE  IndInv'
<1>1. Decide(v)
  BY DEF Conclude
<1>2. DOMAIN cache' \subseteq Contents /\ Range(cache') \subseteq VerdictType
  BY PutTypes DEF Conclude, IndInv, TypeOK, Judged
<1>3. \A c \in DOMAIN cache' : \/ c \in DOMAIN cache /\ cache'[c] = cache[c]
                               \/ c = Current /\ cache'[c] = v
  BY DEF Conclude, Put
<1>4. TypeOK'
  BY <1>1, <1>2, DecideKeeps DEF IndInv, TypeOK
<1>5. BlockLeft' /\ OneInFlight'
  BY <1>1, DecideKeeps DEF IndInv, BlockLeft, OneInFlight, Scanning, Sending, Waiting
<1>6. VerdictFits'
  BY <1>1, <1>3, DecideKeeps DEF IndInv, VerdictFits, Current
<1>7. PolicyApplied'
  BY <1>1, <1>3, DecideKeeps DEF IndInv, PolicyApplied, Judged
<1> QED BY <1>4, <1>5, <1>6, <1>7 DEF IndInv

(* A phase of a callout: the request goes out, or the transport is closed.   *)
LEMMA SendKeeps ==
  ASSUME IndInv, NEW phase \in Sending, pc \in Scanning, Current \in Contents \ DOMAIN cache, Send(phase),
         strays = 0 => queue = <<>> /\ (service # "closed" => wire' = <<>>),
         wire' \in Seq([answer : Answers, for : Contents]),
         UNCHANGED <<policy, message, service, scanned, strays>>
  PROVE  IndInv'
<1>1. CASE service # "closed"
  <2>1. /\ queue' = Append(queue, Current) /\ pc' = phase
        /\ UNCHANGED <<applied, outcome, cache>>
    BY <1>1 DEF Send
  <2>2. /\ queue \in Seq(Contents)
        /\ Current' = Current
        /\ pc' \in {"idle", "block"} \cup Sending \cup Waiting
    BY <2>1 DEF IndInv, TypeOK, Current, Waiting
  <2>3. TypeOK'
    BY <2>1, <2>2 DEF IndInv, TypeOK
  <2>4. BlockLeft'
    BY <1>1, <2>1, <2>2 DEF IndInv, BlockLeft, Scanning
  <2>5. OneInFlight'
    <3>1. pc' \in Sending \cup Waiting /\ strays' = strays
      BY <2>1
    <3>2. strays = 0 => queue' = <<Current>> /\ wire' = <<>>
      BY <1>1, <2>1
    <3> QED BY <2>2, <3>1, <3>2 DEF OneInFlight
  <2>6. VerdictFits' /\ PolicyApplied'
    BY <2>1 DEF IndInv, VerdictFits, PolicyApplied
  <2> QED BY <2>3, <2>4, <2>5, <2>6 DEF IndInv
<1>2. CASE service = "closed"
  <2>1. Conclude(Failed(Current)) /\ UNCHANGED queue
    BY <1>2 DEF Send
  <2>2. Judged(Failed(Current)) /\ Failed(Current).for = Current
    BY VerdictTypes DEF Judged, Blocks, IndInv, TypeOK
  <2> QED BY <1>2, <2>1, <2>2, ConcludeKeeps DEF IndInv, TypeOK, BlockLeft
<1> QED BY <1>1, <1>2

LEMMA BeginKeeps ==
  ASSUME IndInv, Begin
  PROVE  IndInv'
<1>1. message' \in Seq(Blocks) /\ message' # <<>>
  BY DEF Begin, SeqOf
<1>2. Len(message') > 0 /\ Len(message') \in Nat
  BY <1>1
<1>3. TypeOK'
  BY <1>1, <1>2, CalloutAssumption DEF Begin, IndInv, TypeOK
<1>4. BlockLeft' /\ OneInFlight'
  BY <1>2 DEF Begin, IndInv, BlockLeft, OneInFlight, Scanning, Sending, Waiting
<1>5. VerdictFits' /\ PolicyApplied'
  BY DEF Begin, IndInv, VerdictFits, PolicyApplied, Terminal
<1> QED BY <1>3, <1>4, <1>5 DEF IndInv

LEMMA BlockKeeps ==
  ASSUME IndInv, SkipLink \/ OverBudget \/ CacheHit \/ CacheMiss
  PROVE  IndInv'
<1>1. pc = "block" /\ pc \in Scanning /\ Current \in Blocks
  <2>1. pc = "block" /\ pc \in Scanning
    BY DEF SkipLink, OverBudget, CacheHit, CacheMiss, Scanning
  <2>2. message \in Seq(Blocks) /\ Len(applied) + 1 \in 1..Len(message)
    BY <2>1 DEF IndInv, TypeOK, BlockLeft
  <2> QED BY <2>1, <2>2 DEF Current
<1>2. CASE SkipLink
  <2>1. /\ Judged(Verdict("allow", FALSE, FALSE, Link))
        /\ Verdict("allow", FALSE, FALSE, Link).for = Link
    BY DEF Judged, Verdict, VerdictType, Blocks
  <2> QED BY <1>1, <1>2, <2>1, DecideOnly DEF SkipLink
<1>3. CASE OverBudget
  <2>1. Judged(Failed(Current)) /\ Failed(Current).for = Current
    BY <1>1, VerdictTypes DEF Judged, IndInv, TypeOK
  <2> QED BY <1>1, <1>3, <2>1, DecideOnly DEF OverBudget
<1>4. CASE CacheHit
  <2>1. Judged(cache[Current]) /\ (strays = 0 => cache[Current].for = Current)
    BY <1>4 DEF CacheHit, Judged, IndInv, TypeOK, PolicyApplied, VerdictFits, Range
  <2> QED BY <1>1, <1>4, <2>1, DecideOnly DEF CacheHit
<1>5. CASE CacheMiss
  <2>1. pc \notin Sending \cup Waiting /\ "send_preview" \in Sending
    BY <1>1 DEF Sending, Waiting
  <2>2. /\ Send("send_preview") /\ Current \in Contents \ DOMAIN cache
        /\ UNCHANGED <<policy, message, wire, service, scanned, strays>>
    BY <1>5 DEF CacheMiss
  <2> QED BY <1>1, <2>1, <2>2, SendKeeps DEF IndInv, TypeOK, OneInFlight
<1> QED BY <1>2, <1>3, <1>4, <1>5

LEMMA ReceiveKeeps ==
  ASSUME IndInv, Receive
  PROVE  IndInv'
<1> DEFINE head == Head(wire)
<1>1. /\ pc \in Waiting /\ pc \in Scanning /\ Current \in Contents \ DOMAIN cache
      /\ wire \in Seq([answer : Answers, for : Contents]) /\ wire # <<>>
      /\ queue \in Seq(Contents) /\ strays \in Nat
  BY DEF Receive, Sending, Waiting, Scanning, IndInv, TypeOK, BlockLeft
<1>2. /\ wire' \in Seq([answer : Answers, for : Contents])
      /\ head.answer \in Answers /\ head.for \in Contents
  <2>1. head \in [answer : Answers, for : Contents]
    BY <1>1, HeadTailProperties
  <2>2. wire' = Tail(wire)
    BY DEF Receive
  <2> QED BY <1>1, <2>1, <2>2
<1>3. strays = 0 => queue = <<>> /\ wire' = <<>> /\ head.for = Current
  BY <1>1 DEF Receive, IndInv, OneInFlight
<1>4. head.answer.verdict # "misframed"
  BY DEF Receive
<1> DEFINE v == parse_verdict(head.answer, head.for)
<1>5. Judged(v) /\ v.for = head.for
  BY <1>2, <1>4, ParsedTypes DEF Judged, Blocks, IndInv, TypeOK
<1>6. CASE pc = "preview" /\ v.kind = "continue"
  <2>1. Send("send_body") /\ UNCHANGED <<policy, message, service, scanned, strays>>
    BY <1>6 DEF Receive
  <2> HIDE DEF v, head
  <2> QED BY <1>1, <1>2, <1>3, <2>1, SendKeeps DEF Sending
<1>7. CASE ~(pc = "preview" /\ v.kind = "continue")
  <2>1. Conclude(v) /\ UNCHANGED <<policy, message, queue, service, scanned, strays>>
    BY <1>7 DEF Receive
  <2>2. service = "closed" => queue' = <<>>
    BY <2>1 DEF IndInv, BlockLeft
  <2> HIDE DEF v, head
  <2> QED BY <1>1, <1>2, <1>3, <1>5, <2>1, <2>2, ConcludeKeeps
<1> QED BY <1>6, <1>7

(* A wrong frame ends the scan, and from then on anything may stray.         *)
LEMMA RaiseKeeps ==
  ASSUME IndInv, ReceiveRaises
  PROVE  IndInv'
<1>1. /\ pc \in Waiting /\ pc \in Scanning
      /\ wire \in Seq([answer : Answers, for : Contents]) /\ wire # <<>>
      /\ strays \in Nat /\ outcome = "none"
  BY DEF ReceiveRaises, Sending, Waiting, Scanning, IndInv, TypeOK, BlockLeft
<1>2. /\ outcome' = "raised" /\ pc' = "idle" /\ strays' = strays + 1
      /\ UNCHANGED <<policy, message, applied, cache, queue, service, scanned>>
  BY DEF ReceiveRaises
<1>3. wire' \in Seq([answer : Answers, for : Contents])
  <2>1. Head(wire).for \in Contents /\ Tail(wire) \in Seq([answer : Answers, for : Contents])
    <3>1. /\ Head(wire) \in [answer : Answers, for : Contents]
          /\ Tail(wire) \in Seq([answer : Answers, for : Contents])
      BY <1>1, HeadTailProperties
    <3> QED BY <3>1
  <2>2. ASSUME NEW a \in Remainders
        PROVE  <<[answer |-> a, for |-> Head(wire).for]>> \in Seq([answer : Answers, for : Contents])
    BY <2>1 DEF Remainders
  <2>3. ASSUME NEW a \in Remainders
        PROVE  <<[answer |-> a, for |-> Head(wire).for]>> \o Tail(wire)
                 \in Seq([answer : Answers, for : Contents])
    BY <2>1, <2>2, ConcatProperties
  <2> QED BY <2>1, <2>3 DEF ReceiveRaises
<1>4. TypeOK'
  BY <1>1, <1>2, <1>3 DEF IndInv, TypeOK
<1>5. BlockLeft' /\ OneInFlight' /\ VerdictFits'
  BY <1>1, <1>2 DEF IndInv, BlockLeft, OneInFlight, VerdictFits, Sending, Waiting, Scanning
<1>6. PolicyApplied'
  BY <1>1, <1>2 DEF IndInv, PolicyApplied, Terminal
<1> QED BY <1>4, <1>5, <1>6 DEF IndInv

(* A send that is over leaves what is in flight in flight.                   *)
LEMMA EndSendKeeps ==
  ASSUME IndInv, EndSend
  PROVE  IndInv'
<1>1. /\ pc \in Sending /\ pc' \in Waiting
      /\ UNCHANGED <<policy, message, applied, outcome, cache, queue, wire, service, scanned, strays>>
  BY DEF EndSend, Sending, Waiting
<1>2. Current' = Current /\ TypeOK'
  BY <1>1 DEF IndInv, TypeOK, Current
<1>3. BlockLeft' /\ OneInFlight'
  BY <1>1, <1>2 DEF IndInv, BlockLeft, OneInFlight, Scanning
<1>4. VerdictFits' /\ PolicyApplied'
  BY <1>1 DEF IndInv, VerdictFits, PolicyApplied
<1> QED BY <1>2, <1>3, <1>4 DEF IndInv

LEMMA GivesUpKeeps ==
  ASSUME IndInv, Deadline \/ Closed \/ FailSend
  PROVE  IndInv'
<1>1. /\ pc \in Sending \cup Waiting /\ pc \in Scanning /\ Current \in Contents /\ strays \in Nat
      /\ queue \in Seq(Contents) /\ wire \in Seq([answer : Answers, for : Contents])
      /\ service = "closed" => queue = <<>>
  BY DEF Deadline, Closed, FailSend, Sending, Waiting, Scanning, IndInv, TypeOK, BlockLeft
<1>2. Judged(Failed(Current)) /\ Failed(Current).for = Current
  BY <1>1, VerdictTypes DEF Judged, Blocks, IndInv, TypeOK
<1>3. CASE Deadline
  <2>1. strays' \in Nat /\ strays' # 0
    BY <1>1, <1>3 DEF Deadline
  <2> QED BY <1>1, <1>2, <1>3, <2>1, ConcludeKeeps DEF Deadline
<1>4. CASE Closed
  BY <1>1, <1>2, <1>4, ConcludeKeeps DEF Closed
<1>5. CASE FailSend
  <2>1. strays = 0 => queue = <<>>
    BY <1>1, <1>5 DEF FailSend
  <2> QED BY <1>1, <1>2, <1>5, <2>1, ConcludeKeeps DEF FailSend
<1> QED BY <1>3, <1>4, <1>5

LEMMA ServiceKeeps ==
  ASSUME IndInv, Answer \/ Stall \/ Hangup
  PROVE  IndInv'
<1> USE DEF IndInv
<1>1. CASE Answer
  <2> PICK a \in Answers : wire' = Append(wire, [answer |-> a, for |-> Head(queue)])
    BY <1>1 DEF Answer
  <2>1. /\ queue \in Seq(Contents) /\ queue # <<>>
        /\ wire \in Seq([answer : Answers, for : Contents])
        /\ service # "closed" /\ queue' = Tail(queue)
        /\ UNCHANGED <<policy, message, applied, pc, outcome, cache, service, scanned, strays>>
    BY <1>1 DEF Answer, TypeOK
  <2>2. TypeOK'
    BY <2>1 DEF TypeOK
  <2>3. BlockLeft' /\ Current' = Current
    BY <2>1 DEF BlockLeft, Current
  <2>4. OneInFlight'
    <3> SUFFICES ASSUME strays = 0
                 PROVE  /\ pc \in Sending \cup Waiting
                        /\ queue' = <<>> /\ Len(wire') = 1 /\ wire'[1].for = Current
      BY <2>1, <2>3 DEF OneInFlight
    <3>1. pc \in Sending \cup Waiting /\ queue = <<Current>> /\ wire = <<>>
      BY <2>1 DEF OneInFlight
    <3>2. wire' = <<[answer |-> a, for |-> Current]>> /\ queue' = <<>>
      BY <2>1, <3>1
    <3> QED BY <3>1, <3>2
  <2>5. VerdictFits' /\ PolicyApplied'
    BY <2>1 DEF VerdictFits, PolicyApplied
  <2> QED BY <2>2, <2>3, <2>4, <2>5
<1>2. CASE Hangup
  <2>1. TypeOK'
    <3>1. TypeOK /\ queue' = <<>> /\ service' = "closed"
          /\ UNCHANGED <<policy, message, applied, pc, outcome, cache, wire, scanned, strays>>
      BY <1>2 DEF Hangup
    <3>2. <<>> \in Seq(Contents)
      OBVIOUS
    <3> QED BY <3>1, <3>2 DEF TypeOK
  <2>2. BlockLeft' /\ Current' = Current
    BY <1>2 DEF Hangup, BlockLeft, Current
  <2>3. OneInFlight'
    BY <1>2, <2>2 DEF Hangup, OneInFlight
  <2>4. VerdictFits' /\ PolicyApplied'
    BY <1>2 DEF Hangup, VerdictFits, PolicyApplied
  <2> QED BY <2>1, <2>2, <2>3, <2>4
<1>3. CASE Stall
  BY <1>3 DEF Stall, TypeOK, BlockLeft, OneInFlight, VerdictFits, PolicyApplied, Current
<1> QED BY <1>1, <1>2, <1>3

-----------------------------------------------------------------------------
(* IndInv is inductive: for the scans of any number of messages, whatever    *)
(* the service answers, however late, and whenever it closes.                *)
THEOREM Invariance == Spec => []IndInv
<1>1. Init => IndInv
  <2> SUFFICES ASSUME Init PROVE IndInv
    OBVIOUS
  <2>1. TypeOK
    BY CalloutAssumption DEF Init, TypeOK, Range
  <2>2. BlockLeft /\ OneInFlight
    BY DEF Init, BlockLeft, OneInFlight, Scanning, Sending, Waiting
  <2>3. VerdictFits /\ PolicyApplied
    BY DEF Init, VerdictFits, PolicyApplied, Terminal
  <2> QED BY <2>1, <2>2, <2>3 DEF IndInv
<1>2. IndInv /\ [Next]_vars => IndInv'
  <2> SUFFICES ASSUME IndInv, [Next]_vars PROVE IndInv'
    OBVIOUS
  <2>1. CASE UNCHANGED vars
    BY <2>1 DEF vars, IndInv, TypeOK, BlockLeft, OneInFlight, VerdictFits, PolicyApplied, Current
  <2> QED BY <2>1, BeginKeeps, BlockKeeps, ReceiveKeeps, RaiseKeeps, EndSendKeeps, GivesUpKeeps, ServiceKeeps
          DEF Next, Scanner
<1> QED BY <1>1, <1>2, PTL DEF Spec

(* TypeOK: in particular no more verdicts are applied than the message has   *)
(* blocks, and everything cached is a verdict.                               *)
THEOREM TypeCorrect == Spec => []TypeOK
<1>1. IndInv => TypeOK
  BY DEF IndInv
<1> QED BY <1>1, Invariance, PTL

(* VerdictFits: as long as no deadline has passed, every verdict applied or  *)
(* cached was given for that very content.                                   *)
THEOREM VerdictsAreForTheirContent == Spec => []VerdictFits
<1>1. IndInv => VerdictFits
  BY DEF IndInv
<1> QED BY <1>1, Invariance, PTL

(* FailurePolicyDecides: under fail_closed no message with a failed callout  *)
(* is forwarded, under fail_open none is refused for one.                    *)
THEOREM FailurePolicyHolds == Spec => []FailurePolicyDecides
<1>1. IndInv => FailurePolicyDecides
  <2> SUFFICES ASSUME IndInv PROVE FailurePolicyDecides
    OBVIOUS
  <2>1. ASSUME outcome = "forward", policy = "fail_closed"
        PROVE  \A i \in DOMAIN applied : ~applied[i].failed
    BY <2>1 DEF IndInv, PolicyApplied, Terminal, resolve_failure
  <2>2. ASSUME outcome \in Terminal, policy = "fail_open"
        PROVE  ~Last(applied).failed
    <3>1. Len(applied) \in DOMAIN applied
      BY <2>2 DEF IndInv, PolicyApplied, TypeOK
    <3>2. applied[Len(applied)].kind \in Terminal
      BY <2>2 DEF IndInv, PolicyApplied
    <3> QED BY <2>2, <3>1, <3>2 DEF IndInv, PolicyApplied, Last, resolve_failure, Terminal
  <2> QED BY <2>1, <2>2 DEF FailurePolicyDecides
<1> QED BY <1>1, Invariance, PTL

(* VerdictSticks: a cached verdict is never replaced.  What is cached is the *)
(* verdict of a callout, and a callout is made for no cached content.        *)
THEOREM VerdictsStick == Spec => VerdictSticks
<1>1. IndInv /\ [Next]_vars => [\A c \in DOMAIN cache : c \in DOMAIN cache' /\ cache'[c] = cache[c]]_vars
  <2> SUFFICES ASSUME IndInv, Next, NEW c \in DOMAIN cache
               PROVE  c \in DOMAIN cache' /\ cache'[c] = cache[c]
    OBVIOUS
  <2>1. ASSUME NEW v, Conclude(v), Current \notin DOMAIN cache
        PROVE  c \in DOMAIN cache' /\ cache'[c] = cache[c]
    BY <2>1 DEF Conclude, Put
  <2>2. ASSUME NEW phase, Send(phase), Current \notin DOMAIN cache
        PROVE  c \in DOMAIN cache' /\ cache'[c] = cache[c]
    BY <2>1, <2>2 DEF Send
  <2>3. pc \in Sending \cup Waiting => Current \notin DOMAIN cache
    BY DEF IndInv, BlockLeft
  <2>4. CASE Begin \/ SkipLink \/ OverBudget \/ CacheHit \/ EndSend \/ ReceiveRaises \/ Answer \/ Stall \/ Hangup
    BY <2>4 DEF Begin, SkipLink, OverBudget, CacheHit, EndSend, ReceiveRaises, Answer, Stall, Hangup
  <2>5. CASE CacheMiss
    BY <2>2, <2>5 DEF CacheMiss
  <2>6. CASE Receive
    <3>1. \/ UNCHANGED cache
          \/ Send("send_body")
          \/ \E v : Conclude(v)
      BY <2>6 DEF Receive
    <3> QED BY <2>1, <2>2, <2>3, <2>6, <3>1 DEF Receive, Waiting
  <2>7. CASE Deadline \/ Closed \/ FailSend
    BY <2>1, <2>3, <2>7 DEF Deadline, Closed, FailSend, Waiting
  <2> QED BY <2>4, <2>5, <2>6, <2>7 DEF Next, Scanner
<1> QED BY <1>1, Invariance, PTL DEF Spec, VerdictSticks

=============================================================================
