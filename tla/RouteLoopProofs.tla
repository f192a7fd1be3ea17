-------------------------- MODULE RouteLoopProofs --------------------------
(***************************************************************************)
(* Theorems about RouteLoop for every set of backends and every number of  *)
(* calls and requests, with and without a request timeout.                 *)
(***************************************************************************)
EXTENDS RouteLoop, SequenceTheorems, TLAPS

Elems(q) == {q[i] : i \in DOMAIN q}

\* A message about a request of a backend bears an id that the proxy has given
\* out, and means the request that this id is correlated with, if it still is.
Routed(msg) ==
    /\ msg.id \in 1 .. requestSeq
    /\ msg.id \in DOMAIN requests => requests[msg.id] = msg.about

RoutedInv ==
    /\ \A msg \in Elems(outbox) : msg.kind = "request" => Routed(msg)
    /\ \A msg \in client.asked : Routed(msg)
    /\ \A msg \in Elems(inbox) : msg.kind # "call" => Routed(msg)

\* A request of a backend has one place: it is on its way to the proxy, or
\* correlated, or on its way back, or settled, and it is there once.
Rare(q, S) == \A i, j \in DOMAIN q : q[i] \in S /\ q[j] \in S => i = j
Free(q, S) == \A i \in DOMAIN q : q[i] \notin S

Ask(k) == [kind |-> "request", id |-> k]

Coming(b, k) == ~Free(fromBack[b], {Ask(k)})
Correlated(b, k) == \E id \in DOMAIN requests : requests[id] = <<b, k>>
Returning(b, k) == ~Free(toBack[b], Outcomes({k}))
Settled(b, k) == ~Free(backend[b].settled, {k})

PlaceOf(b, k) ==
    /\ Rare(fromBack[b], {Ask(k)})
    /\ \A i, j \in DOMAIN requests : requests[i] = <<b, k>> /\ requests[j] = <<b, k>> => i = j
    /\ Rare(toBack[b], Outcomes({k}))
    /\ Rare(backend[b].settled, {k})
    /\ Coming(b, k) => ~Correlated(b, k) /\ ~Returning(b, k) /\ ~Settled(b, k)
    /\ Correlated(b, k) => ~Returning(b, k) /\ ~Settled(b, k)
    /\ Returning(b, k) => ~Settled(b, k)
    /\ Coming(b, k) \/ Correlated(b, k) \/ Returning(b, k) \/ Settled(b, k) => k <= backend[b].asks

PlacesInv == \A b \in Backends, k \in Asks : PlaceOf(b, k)

\* The calls of the client, in their order: answered, on their way back, with
\* the loop, on their way to it.
IdsOf(q, kind) == {q[i].id : i \in {j \in DOMAIN q : q[j].kind = kind}}
Rising(q, kind) ==
    \A i, j \in DOMAIN q : q[i].kind = kind /\ q[j].kind = kind /\ i < j => q[i].id < q[j].id

InOrder(last) ==
    /\ loop.pc # "reading" => loop.call = last + 1
    /\ IdsOf(outbox, "answer") = Len(client.answers) + 1 .. last
    /\ IdsOf(inbox, "call") = (IF loop.pc = "reading" THEN last + 1 ELSE last + 2) .. client.calls
    /\ Len(client.answers) <= last
    /\ (IF loop.pc = "reading" THEN last ELSE last + 1) <= client.calls

OrderInv ==
    /\ \E last \in 0 .. MaxCalls : InOrder(last)
    /\ Rising(outbox, "answer") /\ Rising(inbox, "call")
    /\ AnsweredInOrder

\* An id names one request to the client, which is on its way to it or has been
\* read, and what the client says of it, it says after having read it.
Named(id) == [kind : {"request"}, id : {id}, about : Origins]

AskInv ==
    /\ client.replied \union client.cancelled \subseteq client.asked
    /\ \A id \in 1 .. requestSeq :
          /\ Rare(outbox, Named(id))
          /\ ~Free(outbox, Named(id)) => \A ask \in client.asked : ask.id # id
    /\ \A ask, o \in client.asked : ask.id = o.id => ask = o
    /\ \A msg \in Elems(inbox) : msg.kind # "call" =>
          \E ask \in client.replied \union client.cancelled : ask.id = msg.id
    /\ CorrelationKept

IndInv == TypeOK /\ RoutedInv /\ RepliesGoHome /\ PlacesInv /\ OrderInv /\ AskInv

-----------------------------------------------------------------------------
\* The queues.
LEMMA Joined ==
  ASSUME NEW S, NEW q \in Seq(S), NEW x \in S
  PROVE  /\ Append(q, x) \in Seq(S) /\ DOMAIN Append(q, x) = 1 .. Len(q) + 1
         /\ Append(q, x)[Len(q) + 1] = x
         /\ \A i \in DOMAIN q : i \in DOMAIN Append(q, x) /\ Append(q, x)[i] = q[i] /\ i < Len(q) + 1
         /\ \A i \in DOMAIN Append(q, x) : i = Len(q) + 1 \/ i \in DOMAIN q
         /\ Len(q) \in Nat /\ DOMAIN q = 1 .. Len(q)
<1>1. /\ Append(q, x) \in Seq(S) /\ Len(Append(q, x)) = Len(q) + 1 /\ Len(q) \in Nat
      /\ Append(q, x)[Len(q) + 1] = x /\ \A i \in 1..Len(q) : Append(q, x)[i] = q[i]
  BY AppendProperties
<1> QED BY <1>1

LEMMA Shifted ==
  ASSUME NEW S, NEW q \in Seq(S), q # <<>>
  PROVE  /\ Tail(q) \in Seq(S) /\ DOMAIN Tail(q) = 1 .. Len(q) - 1
         /\ \A i \in DOMAIN Tail(q) : i + 1 \in DOMAIN q /\ Tail(q)[i] = q[i + 1]
         /\ \A i \in DOMAIN q : i = 1 \/ (i - 1 \in DOMAIN Tail(q) /\ Tail(q)[i - 1] = q[i])
         /\ Head(q) = q[1] /\ 1 \in DOMAIN q /\ Head(q) \in S
         /\ Len(q) \in Nat /\ DOMAIN q = 1 .. Len(q)
<1>1. /\ Tail(q) \in Seq(S) /\ Len(Tail(q)) = Len(q) - 1 /\ Len(q) \in Nat /\ Len(q) > 0
      /\ \A i \in 1..Len(Tail(q)) : Tail(q)[i] = q[i + 1]
      /\ Head(q) = q[1]
  BY HeadTailProperties
<1>2. DOMAIN q = 1 .. Len(q) /\ DOMAIN Tail(q) = 1 .. Len(q) - 1
  BY <1>1
<1>3. \A i \in DOMAIN Tail(q) : i + 1 \in DOMAIN q /\ Tail(q)[i] = q[i + 1]
  BY <1>1, <1>2
<1>4. ASSUME NEW i \in DOMAIN q, i # 1
      PROVE  i - 1 \in DOMAIN Tail(q) /\ Tail(q)[i - 1] = q[i]
  <2>1. i - 1 \in 1 .. Len(q) - 1 /\ (i - 1) + 1 = i
    BY <1>1, <1>2, <1>4
  <2> QED BY <1>2, <1>3, <2>1
<1> QED BY <1>1, <1>2, <1>3, <1>4

LEMMA JoinedElems ==
  ASSUME NEW S, NEW q \in Seq(S), NEW x
  PROVE  Elems(Append(q, x)) = Elems(q) \union {x}
<1>1. q \in Seq(S \union {x})
  OBVIOUS
<1> QED BY <1>1, Joined DEF Elems

LEMMA ShiftedElems ==
  ASSUME NEW S, NEW q \in Seq(S), q # <<>>
  PROVE  Elems(Tail(q)) \subseteq Elems(q) /\ Head(q) \in Elems(q)
BY Shifted DEF Elems

LEMMA RareJoined ==
  ASSUME NEW T, NEW q \in Seq(T), NEW x, NEW S
  PROVE  /\ Free(Append(q, x), S) <=> Free(q, S) /\ x \notin S
         /\ Rare(q, S) /\ (x \notin S \/ Free(q, S)) => Rare(Append(q, x), S)
<1>1. q \in Seq(T \union {x})
  OBVIOUS
<1>2. /\ DOMAIN Append(q, x) = 1 .. Len(q) + 1 /\ Append(q, x)[Len(q) + 1] = x
      /\ \A i \in DOMAIN q : i \in DOMAIN Append(q, x) /\ Append(q, x)[i] = q[i] /\ i < Len(q) + 1
      /\ \A i \in DOMAIN Append(q, x) : i = Len(q) + 1 \/ i \in DOMAIN q
      /\ Len(q) + 1 \in DOMAIN Append(q, x)
  BY <1>1, Joined
<1> DEFINE r == Append(q, x)
<1> HIDE DEF r
<1> QED BY <1>2 DEF Free, Rare, r

LEMMA RareShifted ==
  ASSUME NEW T, NEW q \in Seq(T), q # <<>>, NEW S
  PROVE  /\ Rare(q, S) => Rare(Tail(q), S)
         /\ Free(q, S) => Free(Tail(q), S)
         /\ Head(q) \notin S => (Free(Tail(q), S) <=> Free(q, S))
         /\ Head(q) \in S => ~Free(q, S) /\ (Rare(q, S) => Free(Tail(q), S))
<1>1. /\ \A i \in DOMAIN Tail(q) : i + 1 \in DOMAIN q /\ Tail(q)[i] = q[i + 1] /\ i + 1 # 1
      /\ \A i, j \in DOMAIN Tail(q) : i + 1 = j + 1 => i = j
      /\ \A i \in DOMAIN q : i = 1 \/ (i - 1 \in DOMAIN Tail(q) /\ Tail(q)[i - 1] = q[i])
      /\ Head(q) = q[1] /\ 1 \in DOMAIN q
  BY Shifted
<1> DEFINE r == Tail(q)
<1> HIDE DEF r
<1>2. Rare(q, S) => Rare(r, S)
  BY <1>1 DEF Rare, r
<1>3. (Free(q, S) => Free(r, S)) /\ (Head(q) \notin S => (Free(r, S) <=> Free(q, S)))
  BY <1>1 DEF Free, r
<1>4. Head(q) \in S => ~Free(q, S) /\ (Rare(q, S) => Free(r, S))
  BY <1>1 DEF Free, Rare, r
<1> QED BY <1>2, <1>3, <1>4 DEF r

-----------------------------------------------------------------------------
\* Types.
LEMMA TypeNext ==
  ASSUME TypeOK, [Next]_vars
  PROVE  TypeOK'
<1> DEFINE In  == [kind : {"call"}, id : Calls, backend : Backends] \union Outcomes(Nat)
           Out == Requests \union Answers
           To  == [kind : {"call"}, id : Calls] \union Outcomes(Asks)
           From == [kind : {"request"}, id : Asks] \union [kind : {"answer"}, id : Calls]
<1>0. /\ inbox \in Seq(In) /\ outbox \in Seq(Out) /\ MaxCalls \in Nat /\ MaxAsks \in Nat
      /\ toBack \in [Backends -> Seq(To)] /\ fromBack \in [Backends -> Seq(From)]
  BY BoundsAssumption DEF TypeOK
<1>1. CASE RouteCall
  <2> DEFINE msg == Head(inbox)
  <2>1. Tail(inbox) \in Seq(In) /\ msg \in In /\ msg.kind = "call"
    BY <1>0, <1>1, Shifted DEF RouteCall
  <2>2. msg.id \in Calls /\ msg.backend \in Backends
    BY <2>1 DEF Outcomes
  <2> HIDE DEF msg
  <2>3. [kind |-> "call", id |-> msg.id] \in To
    BY <2>2
  <2>4. Append(toBack[msg.backend], [kind |-> "call", id |-> msg.id]) \in Seq(To)
    BY <1>0, <2>2, <2>3, Joined
  <2>5. toBack' = [toBack EXCEPT ![msg.backend] = Append(@, [kind |-> "call", id |-> msg.id])]
        /\ loop' = [pc |-> "waiting", call |-> msg.id]
    BY <1>1 DEF RouteCall, msg
  <2>6. toBack' \in [Backends -> Seq(To)]
    BY <1>0, <2>2, <2>4, <2>5
  <2>7. loop' \in [pc : {"reading"}, call : {0}] \union [pc : {"waiting", "answered"}, call : Calls]
    BY <2>2, <2>5
  <2>8. inbox' \in Seq(In) /\ UNCHANGED <<outbox, fromBack, requests, requestSeq, client, backend>>
    BY <1>1, <2>1 DEF RouteCall
  <2> QED BY <2>6, <2>7, <2>8 DEF TypeOK
<1>2. CASE RouteReply
  <2> DEFINE msg == Head(inbox)
  <2>1. Tail(inbox) \in Seq(In) /\ msg \in In /\ msg.kind \in {"reply", "cancel"}
    BY <1>0, <1>2, Shifted DEF RouteReply
  <2>2. msg.id \in Nat /\ msg.about \in Origins
    BY <2>1 DEF Outcomes
  <2> HIDE DEF msg
  <2>3. CASE msg.id \in DOMAIN requests
    <3> DEFINE origin == requests[msg.id]
               said == [kind |-> msg.kind, id |-> origin[2], about |-> msg.about]
    <3>1. origin[1] \in Backends /\ origin[2] \in Asks
      BY <2>3 DEF TypeOK, Origins
    <3>2. said \in To
      BY <2>1, <2>2, <3>1 DEF Outcomes
    <3>3. requests' = Without(msg.id) /\ toBack' = [toBack EXCEPT ![origin[1]] = Append(@, said)]
      BY <1>2, <2>3 DEF RouteReply, msg
    <3> HIDE DEF origin, said
    <3>4. toBack' \in [Backends -> Seq(To)]
      BY <1>0, <3>1, <3>2, <3>3, Joined
    <3>5. requests' \in [DOMAIN requests' -> Origins] /\ DOMAIN requests' \subseteq DOMAIN requests
      BY <3>3 DEF Without, TypeOK
    <3> QED BY <1>2, <2>1, <3>4, <3>5 DEF RouteReply, TypeOK
  <2>4. CASE msg.id \notin DOMAIN requests
    <3>1. UNCHANGED <<requests, toBack>>
      BY <1>2, <2>4 DEF RouteReply, msg
    <3> QED BY <1>2, <2>1, <3>1 DEF RouteReply, TypeOK
  <2> QED BY <2>3, <2>4
<1>3. CASE Answer
  <2>1. [kind |-> "answer", id |-> loop.call] \in Out
    BY <1>3 DEF Answer, TypeOK, Answers
  <2>2. outbox' \in Seq(Out)
    BY <1>0, <1>3, <2>1, Joined DEF Answer
  <2> QED BY <1>3, <2>2 DEF Answer, TypeOK
<1>4. CASE TimesOut
  BY <1>4 DEF TimesOut, TypeOK
<1>5. CASE ClientReads
  <2>1. Tail(outbox) \in Seq(Out) /\ Head(outbox) \in Out
    BY <1>0, <1>5, Shifted DEF ClientReads
  <2>2. Head(outbox).kind = "answer" => Head(outbox).id \in Calls
    BY <2>1 DEF Requests, Answers
  <2>3. Head(outbox).kind = "request" => Head(outbox) \in Requests
    BY <2>1 DEF Requests, Answers
  <2> DEFINE msg == Head(outbox)
  <2>4. client' = IF msg.kind = "answer" THEN [client EXCEPT !.answers = Append(@, msg.id)]
                  ELSE IF msg.kind = "request" THEN [client EXCEPT !.asked = @ \union {msg}]
                  ELSE client
    BY <1>5 DEF ClientReads
  <2> DEFINE Type == [calls : 0 .. MaxCalls, answers : Seq(Calls), asked : SUBSET Requests,
                      replied : SUBSET Requests, cancelled : SUBSET Requests]
  <2>5. client \in Type
    BY DEF TypeOK
  <2> HIDE DEF msg
  <2>6. CASE msg.kind = "answer"
    <3>1. Append(client.answers, msg.id) \in Seq(Calls)
      BY <2>2, <2>5, <2>6 DEF msg
    <3>2. client' \in Type
      BY <2>4, <2>5, <2>6, <3>1
    <3> QED BY <1>5, <2>1, <3>2 DEF ClientReads, TypeOK
  <2>7. CASE msg.kind # "answer"
    <3>1. client' \in Type
      BY <2>3, <2>4, <2>5, <2>7 DEF msg
    <3> QED BY <1>5, <2>1, <3>1 DEF ClientReads, TypeOK
  <2> QED BY <2>6, <2>7
<1>6. ASSUME NEW b \in Backends, ClientCalls(b) PROVE TypeOK'
  <2>1. client.calls + 1 \in Calls /\ client.calls + 1 \in 0 .. MaxCalls
    BY <1>0, <1>6 DEF ClientCalls, TypeOK, Calls
  <2>2. [kind |-> "call", id |-> client.calls + 1, backend |-> b] \in In
    BY <2>1
  <2>3. inbox' \in Seq(In)
    BY <1>0, <1>6, <2>2, Joined DEF ClientCalls
  <2> QED BY <1>6, <2>1, <2>3 DEF ClientCalls, TypeOK
<1>7. ASSUME NEW ask \in client.asked, ClientReplies(ask) \/ ClientCancels(ask) PROVE TypeOK'
  <2>1. ask \in Requests /\ ask.id \in Nat /\ ask.about \in Origins
    BY DEF TypeOK, Requests
  <2>2. /\ [kind |-> "reply", id |-> ask.id, about |-> ask.about] \in In
        /\ [kind |-> "cancel", id |-> ask.id, about |-> ask.about] \in In
    BY <2>1 DEF Outcomes
  <2>3. /\ Append(inbox, [kind |-> "reply", id |-> ask.id, about |-> ask.about]) \in Seq(In)
        /\ Append(inbox, [kind |-> "cancel", id |-> ask.id, about |-> ask.about]) \in Seq(In)
    BY <1>0, <2>2, Joined
  <2>4. CASE ClientReplies(ask)
    BY <2>1, <2>3, <2>4 DEF ClientReplies, TypeOK
  <2>5. CASE ClientCancels(ask)
    BY <2>1, <2>3, <2>5 DEF ClientCancels, TypeOK
  <2> QED BY <1>7, <2>4, <2>5
<1>8. ASSUME NEW b \in Backends, Deliver(b) PROVE TypeOK'
  <2> DEFINE msg == Head(fromBack[b])
  <2>1. Tail(fromBack[b]) \in Seq(From) /\ msg \in From
    BY <1>0, <1>8, Shifted DEF Deliver
  <2>2. /\ msg.kind = "request" => msg.id \in Asks
        /\ msg.kind = "answer" => msg.id \in Calls
    BY <2>1
  <2> HIDE DEF msg
  <2>3. fromBack' \in [Backends -> Seq(From)]
    BY <1>0, <1>8, <2>1 DEF Deliver
  <2>4. CASE msg.kind = "request"
    <3> DEFINE id == requestSeq + 1
    <3>1. /\ requestSeq' = requestSeq + 1 /\ UNCHANGED loop
          /\ requests' = [i \in DOMAIN requests \union {id} |-> IF i = id THEN <<b, msg.id>> ELSE requests[i]]
          /\ outbox' = Append(outbox, [kind |-> "request", id |-> id, about |-> <<b, msg.id>>])
      BY <1>8, <2>4 DEF Deliver, ClientId, msg
    <3>2. <<b, msg.id>> \in Origins
      BY <2>2, <2>4 DEF Origins
    <3>3. [kind |-> "request", id |-> id, about |-> <<b, msg.id>>] \in Out
      BY <3>2 DEF Requests, TypeOK
    <3>4. outbox' \in Seq(Out)
      BY <1>0, <3>1, <3>3, Joined
    <3>5. requests' \in [DOMAIN requests' -> Origins] /\ DOMAIN requests' \subseteq 1 .. requestSeq'
          /\ requestSeq' \in Nat
      BY <3>1, <3>2 DEF TypeOK
    <3> QED BY <1>8, <2>3, <3>1, <3>4, <3>5 DEF Deliver, TypeOK
  <2>5. CASE msg.kind # "request"
    <3>1. /\ msg.kind = "answer" /\ UNCHANGED <<requests, requestSeq>>
          /\ \/ loop.pc = "waiting" /\ loop' = [loop EXCEPT !.pc = "answered"] /\ UNCHANGED outbox
             \/ outbox' = Append(outbox, [kind |-> "stray", id |-> msg.id]) /\ UNCHANGED loop
      BY <1>8, <2>5 DEF Deliver, msg
    <3>2. [kind |-> "stray", id |-> msg.id] \in Out
      BY <2>2, <3>1 DEF Answers
    <3>3. outbox' \in Seq(Out)
      <4>1. Append(outbox, [kind |-> "stray", id |-> msg.id]) \in Seq(Out)
        BY <1>0, <3>2, Joined
      <4> QED BY <1>0, <3>1, <4>1
    <3>4. loop' \in [pc : {"reading"}, call : {0}] \union [pc : {"waiting", "answered"}, call : Calls]
      BY <3>1 DEF TypeOK
    <3> QED BY <1>8, <2>3, <3>1, <3>3, <3>4 DEF Deliver, TypeOK
  <2> QED BY <2>4, <2>5
<1>9. ASSUME NEW b \in Backends, BackendStep(b) PROVE TypeOK'
  <2> DEFINE Type == [held : SUBSET [id : Calls, needs : Asks \union {0}],
                      asks : 0 .. MaxAsks, settled : Seq(Asks)]
  <2>0. backend \in [Backends -> Type]
    BY DEF TypeOK
  <2>1. CASE BackendReads(b)
    <3> DEFINE msg == Head(toBack[b])
    <3>1. Tail(toBack[b]) \in Seq(To) /\ msg \in To
      BY <1>0, <2>1, Shifted DEF BackendReads
    <3>2. /\ msg.kind = "call" => msg.id \in Calls
          /\ msg.kind # "call" => msg.id \in Asks
      BY <3>1 DEF Outcomes
    <3>3. backend' = IF msg.kind = "call"
                     THEN [backend EXCEPT ![b].held = @ \union {[id |-> msg.id, needs |-> 0]}]
                     ELSE [backend EXCEPT ![b].settled = Append(@, msg.id)]
      BY <2>1 DEF BackendReads
    <3> HIDE DEF msg
    <3>4. backend' \in [Backends -> Type]
      <4>1. CASE msg.kind = "call"
        <5>1. [backend[b] EXCEPT !.held = @ \union {[id |-> msg.id, needs |-> 0]}] \in Type
          BY <2>0, <3>2, <4>1
        <5>2. backend' = [backend EXCEPT ![b] = [backend[b] EXCEPT !.held = @ \union {[id |-> msg.id, needs |-> 0]}]]
          BY <2>0, <3>3, <4>1
        <5> QED BY <2>0, <5>1, <5>2
      <4>2. CASE msg.kind # "call"
        <5>1. Append(backend[b].settled, msg.id) \in Seq(Asks)
          BY <2>0, <3>2, <4>2
        <5> QED BY <2>0, <3>3, <4>2, <5>1
      <4> QED BY <4>1, <4>2
    <3>5. toBack' \in [Backends -> Seq(To)]
      BY <1>0, <2>1, <3>1 DEF BackendReads
    <3> QED BY <2>1, <3>4, <3>5 DEF BackendReads, TypeOK
  <2>2. ASSUME Asking(b) PROVE fromBack' \in [Backends -> Seq(From)] /\ backend[b].asks + 1 \in Asks
                               /\ backend[b].asks + 1 \in 0 .. MaxAsks
    <3>1. backend[b].asks + 1 \in Asks /\ backend[b].asks + 1 \in 0 .. MaxAsks
      BY <1>0, <2>0, <2>2 DEF Asking, Asks
    <3>2. [kind |-> "request", id |-> backend[b].asks + 1] \in From
      BY <3>1
    <3>3. Append(fromBack[b], [kind |-> "request", id |-> backend[b].asks + 1]) \in Seq(From)
      BY <1>0, <3>2, Joined
    <3> QED BY <1>0, <2>2, <3>1, <3>3 DEF Asking
  <2>3. CASE BackendAsks(b)
    <3>1. backend' \in [Backends -> Type]
      BY <2>0, <2>2, <2>3 DEF BackendAsks
    <3> QED BY <2>2, <2>3, <3>1 DEF BackendAsks, Asking, TypeOK
  <2>4. ASSUME NEW call \in backend[b].held, BackendAsksFor(b, call) PROVE TypeOK'
    <3>1. call \in [id : Calls, needs : Asks \union {0}]
      BY <2>0
    <3>2. [call EXCEPT !.needs = backend[b].asks + 1] \in [id : Calls, needs : Asks \union {0}]
      BY <2>2, <2>4, <3>1 DEF BackendAsksFor
    <3> DEFINE now == [backend[b] EXCEPT !.asks = @ + 1,
                         !.held = (@ \ {call}) \union {[call EXCEPT !.needs = backend[b].asks + 1]}]
    <3>3. now \in Type /\ backend' = [backend EXCEPT ![b] = now]
      <4>1. now \in Type
        <5>1. (backend[b].held \ {call}) \union {[call EXCEPT !.needs = backend[b].asks + 1]}
                \subseteq [id : Calls, needs : Asks \union {0}]
          BY <2>0, <3>2
        <5>2. backend[b].asks + 1 \in 0 .. MaxAsks
          BY <2>2, <2>4 DEF BackendAsksFor
        <5> QED BY <2>0, <5>1, <5>2
      <4>2. backend' = [backend EXCEPT ![b] = now]
        BY <2>0, <2>4 DEF BackendAsksFor
      <4> QED BY <4>1, <4>2
    <3> HIDE DEF now
    <3>4. backend' \in [Backends -> Type]
      BY <2>0, <3>3
    <3> QED BY <2>2, <2>4, <3>4 DEF BackendAsksFor, Asking, TypeOK
  <2>5. ASSUME NEW call \in backend[b].held, BackendAnswers(b, call) PROVE TypeOK'
    <3>1. [kind |-> "answer", id |-> call.id] \in From
      BY <2>0
    <3>2. Append(fromBack[b], [kind |-> "answer", id |-> call.id]) \in Seq(From)
      BY <1>0, <3>1, Joined
    <3>3. fromBack' \in [Backends -> Seq(From)]
      BY <1>0, <2>5, <3>2 DEF BackendAnswers
    <3>4. backend' \in [Backends -> Type]
      BY <2>0, <2>5 DEF BackendAnswers
    <3> QED BY <2>5, <3>3, <3>4 DEF BackendAnswers, TypeOK
  <2> QED BY <1>9, <2>1, <2>3, <2>4, <2>5 DEF BackendStep
<1>10. CASE UNCHANGED vars
  BY <1>10 DEF vars, TypeOK
<1> QED BY <1>1, <1>2, <1>3, <1>4, <1>5, <1>6, <1>7, <1>8, <1>9, <1>10 DEF Next, LoopStep, ClientStep

-----------------------------------------------------------------------------
\* Every message about a request means the request that the proxy thinks of.
LEMMA StillRouted ==
  ASSUME TypeOK, [Next]_vars, NEW msg, Routed(msg)
  PROVE  Routed(msg)'
<1>1. CASE RouteReply
  <2>1. requests' = requests \/ requests' = Without(Head(inbox).id)
    BY <1>1 DEF RouteReply
  <2> QED BY <1>1, <2>1 DEF RouteReply, Without, Routed
<1>2. ASSUME NEW b \in Backends, Deliver(b) PROVE Routed(msg)'
  <2>1. \/ UNCHANGED <<requests, requestSeq>>
        \/ /\ requestSeq' = requestSeq + 1
           /\ requests' = [i \in DOMAIN requests \union {requestSeq + 1} |->
                IF i = requestSeq + 1 THEN <<b, Head(fromBack[b]).id>> ELSE requests[i]]
    BY <1>2 DEF Deliver, ClientId
  <2>2. requestSeq \in Nat /\ msg.id \in 1 .. requestSeq
    BY DEF TypeOK, Routed
  <2> QED BY <2>1, <2>2 DEF Routed
<1>3. CASE ~RouteReply /\ ~(\E b \in Backends : Deliver(b))
  <2>1. UNCHANGED <<requests, requestSeq>>
    BY <1>3 DEF Next, LoopStep, ClientStep, BackendStep, RouteCall, Answer, TimesOut, ClientReads,
                ClientCalls, ClientReplies, ClientCancels, BackendReads, BackendAsks, BackendAsksFor,
                BackendAnswers, Asking, vars
  <2> QED BY <2>1 DEF Routed
<1> QED BY <1>1, <1>2, <1>3

LEMMA RoutedNext ==
  ASSUME TypeOK, RoutedInv, RepliesGoHome, [Next]_vars
  PROVE  RoutedInv' /\ RepliesGoHome'
<1>0. /\ \A m \in Elems(outbox) : m.kind = "request" => Routed(m)'
      /\ \A m \in client.asked : Routed(m)'
      /\ \A m \in Elems(inbox) : m.kind # "call" => Routed(m)'
  BY StillRouted DEF RoutedInv
<1>1. ASSUME \A m \in Elems(outbox') : m.kind = "request" => m \in Elems(outbox) \/ Routed(m)',
             \A m \in client'.asked : m \in client.asked \/ Routed(m)',
             \A m \in Elems(inbox') : m.kind # "call" => m \in Elems(inbox) \/ Routed(m)'
      PROVE  RoutedInv'
  BY <1>0, <1>1 DEF RoutedInv
<1>2. ASSUME \A b \in Backends : \A m \in Elems(toBack'[b]) :
               m.kind # "call" => m \in Elems(toBack[b]) \/ m.about = <<b, m.id>>
      PROVE  RepliesGoHome'
  BY <1>2 DEF RepliesGoHome, Elems
<1>3. CASE RouteCall
  <2>1. Elems(inbox') \subseteq Elems(inbox)
    BY <1>3, ShiftedElems DEF RouteCall, TypeOK
  <2>2. RoutedInv'
    BY <1>1, <1>3, <2>1 DEF RouteCall
  <2>3. Head(inbox).backend \in Backends
    <3>1. Head(inbox) \in [kind : {"call"}, id : Calls, backend : Backends] \union Outcomes(Nat)
      BY <1>3, Shifted DEF RouteCall, TypeOK
    <3> QED BY <1>3, <3>1 DEF RouteCall, Outcomes
  <2> DEFINE x == [kind |-> "call", id |-> Head(inbox).id]
  <2>4. \A b \in Backends : toBack'[b] = toBack[b] \/ Elems(toBack'[b]) = Elems(toBack[b]) \union {x}
    BY <1>3, <2>3, JoinedElems DEF RouteCall, TypeOK
  <2>5. RepliesGoHome'
    BY <1>2, <2>4
  <2> QED BY <2>2, <2>5
<1>4. CASE RouteReply
  <2> DEFINE msg == Head(inbox)
  <2>1. Elems(inbox') \subseteq Elems(inbox) /\ msg \in Elems(inbox)
    BY <1>4, ShiftedElems DEF RouteReply, TypeOK
  <2>2. RoutedInv'
    BY <1>1, <1>4, <2>1 DEF RouteReply
  <2>3. CASE msg.id \in DOMAIN requests
    <3> DEFINE origin == requests[msg.id]
               x == [kind |-> msg.kind, id |-> origin[2], about |-> msg.about]
    <3>1. toBack' = [toBack EXCEPT ![origin[1]] = Append(@, x)]
      BY <1>4, <2>3 DEF RouteReply
    <3>2. origin \in Origins /\ origin[1] \in Backends /\ origin = <<origin[1], origin[2]>>
      BY <2>3 DEF TypeOK, Origins
    <3>3. x.about = <<origin[1], x.id>>
      BY <1>4, <2>1, <2>3, <3>2 DEF RouteReply, RoutedInv, Routed
    <3> HIDE DEF origin, x
    <3>4. \A b \in Backends : IF b = origin[1] THEN Elems(toBack'[b]) = Elems(toBack[b]) \union {x}
                              ELSE toBack'[b] = toBack[b]
      BY <3>1, <3>2, JoinedElems DEF TypeOK
    <3>5. RepliesGoHome'
      BY <1>2, <3>3, <3>4
    <3> QED BY <2>2, <3>5
  <2>4. CASE msg.id \notin DOMAIN requests
    BY <1>2, <1>4, <2>2, <2>4 DEF RouteReply
  <2> QED BY <2>3, <2>4
<1>5. CASE Answer
  <2>1. Elems(outbox') = Elems(outbox) \union {[kind |-> "answer", id |-> loop.call]}
    BY <1>5, JoinedElems DEF Answer, TypeOK
  <2> QED BY <1>1, <1>2, <1>5, <2>1 DEF Answer
<1>6. CASE ClientReads
  <2>1. Elems(outbox') \subseteq Elems(outbox) /\ Head(outbox) \in Elems(outbox)
    BY <1>6, ShiftedElems DEF ClientReads, TypeOK
  <2>2. client'.asked = client.asked \/ (/\ client'.asked = client.asked \union {Head(outbox)}
                                         /\ Head(outbox).kind = "request")
    BY <1>6 DEF ClientReads, TypeOK
  <2>3. \A m \in client'.asked : m \in client.asked \/ Routed(m)'
    BY <1>0, <2>1, <2>2
  <2> QED BY <1>1, <1>2, <1>6, <2>1, <2>3 DEF ClientReads
<1>7. ASSUME NEW b \in Backends, ClientCalls(b) PROVE RoutedInv' /\ RepliesGoHome'
  <2>1. Elems(inbox') = Elems(inbox) \union {[kind |-> "call", id |-> client.calls + 1, backend |-> b]}
    BY <1>7, JoinedElems DEF ClientCalls, TypeOK
  <2>2. client'.asked = client.asked
    BY <1>7 DEF ClientCalls, TypeOK
  <2> QED BY <1>1, <1>2, <1>7, <2>1, <2>2 DEF ClientCalls
<1>8. ASSUME NEW ask \in client.asked, ClientReplies(ask) \/ ClientCancels(ask)
      PROVE  RoutedInv' /\ RepliesGoHome'
  <2>1. PICK kind \in {"reply", "cancel"} :
          inbox' = Append(inbox, [kind |-> kind, id |-> ask.id, about |-> ask.about])
    BY <1>8 DEF ClientReplies, ClientCancels
  <2> DEFINE x == [kind |-> kind, id |-> ask.id, about |-> ask.about]
  <2>2. Elems(inbox') = Elems(inbox) \union {x}
    BY <2>1, JoinedElems DEF TypeOK
  <2>3. client'.asked = client.asked
    BY <1>8 DEF ClientReplies, ClientCancels, TypeOK
  <2>4. Routed(x)'
    BY <1>0 DEF Routed
  <2> QED BY <1>1, <1>2, <1>8, <2>2, <2>3, <2>4 DEF ClientReplies, ClientCancels
<1>9. ASSUME NEW b \in Backends, Deliver(b) PROVE RoutedInv' /\ RepliesGoHome'
  <2> DEFINE about == <<b, Head(fromBack[b]).id>>
  <2>0. PICK x : x = [kind |-> "request", id |-> requestSeq + 1, about |-> about]
    OBVIOUS
  <2>1. \/ UNCHANGED outbox
        \/ Elems(outbox') = Elems(outbox) \union {[kind |-> "stray", id |-> Head(fromBack[b]).id]}
        \/ Elems(outbox') = Elems(outbox) \union {x} /\ Routed(x)'
    <3>1. CASE Head(fromBack[b]).kind = "request"
      <4>1. /\ requestSeq' = requestSeq + 1
            /\ requests' = [i \in DOMAIN requests \union {requestSeq + 1} |->
                 IF i = requestSeq + 1 THEN about ELSE requests[i]]
            /\ outbox' = Append(outbox, x)
        BY <1>9, <2>0, <3>1 DEF Deliver, ClientId
      <4>2. Routed(x)'
        BY <2>0, <4>1 DEF Routed, TypeOK
      <4>3. Elems(outbox') = Elems(outbox) \union {x}
        BY <4>1, JoinedElems DEF TypeOK
      <4> QED BY <4>2, <4>3
    <3>2. CASE Head(fromBack[b]).kind # "request"
      <4>1. UNCHANGED outbox \/ outbox' = Append(outbox, [kind |-> "stray", id |-> Head(fromBack[b]).id])
        BY <1>9, <3>2 DEF Deliver
      <4> QED BY <4>1, JoinedElems DEF TypeOK
    <3> QED BY <3>1, <3>2
  <2>2. UNCHANGED <<inbox, toBack, client>>
    BY <1>9 DEF Deliver
  <2>3. RoutedInv'
    BY <1>1, <2>1, <2>2
  <2> QED BY <1>2, <2>2, <2>3
<1>10. ASSUME NEW b \in Backends, BackendReads(b) PROVE RoutedInv' /\ RepliesGoHome'
  <2>1. Elems(Tail(toBack[b])) \subseteq Elems(toBack[b])
    BY <1>10, ShiftedElems DEF BackendReads, TypeOK
  <2>2. \A d \in Backends : Elems(toBack'[d]) \subseteq Elems(toBack[d])
    BY <1>10, <2>1 DEF BackendReads, TypeOK
  <2> QED BY <1>1, <1>2, <1>10, <2>2 DEF BackendReads
<1>11. CASE UNCHANGED <<inbox, outbox, toBack, client>>
  BY <1>1, <1>2, <1>11
<1>12. ASSUME NEW b \in Backends, BackendStep(b), ~BackendReads(b)
       PROVE  UNCHANGED <<inbox, outbox, toBack, client>>
  BY <1>12 DEF BackendStep, BackendAsks, BackendAsksFor, BackendAnswers, Asking
<1>13. TimesOut \/ UNCHANGED vars => UNCHANGED <<inbox, outbox, toBack, client>>
  BY DEF TimesOut, vars
<1> QED BY <1>3, <1>4, <1>5, <1>6, <1>7, <1>8, <1>9, <1>10, <1>11, <1>12, <1>13
        DEF Next, LoopStep, ClientStep

-----------------------------------------------------------------------------
\* A backend's request is in one place.
LEMMA PlaceFrame ==
  ASSUME NEW b \in Backends, NEW k \in Asks, PlaceOf(b, k), TypeOK, TypeOK',
         UNCHANGED <<fromBack[b], toBack[b], requests, backend[b].settled>>,
         backend'[b].asks = backend[b].asks \/ backend'[b].asks = backend[b].asks + 1
  PROVE  PlaceOf(b, k)'
<1>1. backend[b].asks \in Int /\ backend'[b].asks >= backend[b].asks
  <2>1. backend[b].asks \in 0 .. MaxAsks
    BY DEF TypeOK
  <2> QED BY <2>1, BoundsAssumption
<1>2. k \in Int
  BY BoundsAssumption DEF Asks
<1> QED BY <1>1, <1>2 DEF PlaceOf, Coming, Correlated, Returning, Settled

LEMMA PlacesNext ==
  ASSUME TypeOK, TypeOK', PlacesInv, [Next]_vars
  PROVE  PlacesInv'
<1> SUFFICES ASSUME NEW b \in Backends, NEW k \in Asks
             PROVE  PlaceOf(b, k)'
  BY DEF PlacesInv
<1>0. PlaceOf(b, k) /\ k \in Int
  BY BoundsAssumption DEF PlacesInv, Asks
<1> DEFINE To == [kind : {"call"}, id : Calls] \union Outcomes(Asks)
           From == [kind : {"request"}, id : Asks] \union [kind : {"answer"}, id : Calls]
           told == backend[b].settled
<1>a. toBack[b] \in Seq(To) /\ fromBack[b] \in Seq(From) /\ told \in Seq(Asks)
  BY DEF TypeOK
<1>b. /\ toBack[b] # <<>> => Head(toBack[b]) \in To
      /\ fromBack[b] # <<>> => Head(fromBack[b]) \in From
  BY <1>a, Shifted
<1>c. /\ \A x : LET q == Append(toBack[b], x) IN
                 /\ Free(q, Outcomes({k})) <=> ~Returning(b, k) /\ x \notin Outcomes({k})
                 /\ x \notin Outcomes({k}) \/ ~Returning(b, k) => Rare(q, Outcomes({k}))
      /\ \A x : LET q == Append(fromBack[b], x) IN
                 /\ Free(q, {Ask(k)}) <=> ~Coming(b, k) /\ x # Ask(k)
                 /\ x # Ask(k) \/ ~Coming(b, k) => Rare(q, {Ask(k)})
      /\ \A x : LET q == Append(told, x) IN
                 /\ Free(q, {k}) <=> ~Settled(b, k) /\ x # k
                 /\ x # k \/ ~Settled(b, k) => Rare(q, {k})
  <2>1. Rare(toBack[b], Outcomes({k})) /\ Rare(fromBack[b], {Ask(k)}) /\ Rare(told, {k})
    BY <1>0 DEF PlaceOf
  <2> HIDE DEF To, From, told
  <2>2. \A x : LET q == Append(toBack[b], x) IN
                 /\ Free(q, Outcomes({k})) <=> ~Returning(b, k) /\ x \notin Outcomes({k})
                 /\ x \notin Outcomes({k}) \/ ~Returning(b, k) => Rare(q, Outcomes({k}))
    BY <1>a, <2>1, RareJoined DEF Returning
  <2>3. \A x : LET q == Append(fromBack[b], x) IN
                 /\ Free(q, {Ask(k)}) <=> ~Coming(b, k) /\ x # Ask(k)
                 /\ x # Ask(k) \/ ~Coming(b, k) => Rare(q, {Ask(k)})
    BY <1>a, <2>1, RareJoined DEF Coming
  <2>4. \A x : LET q == Append(told, x) IN
                 /\ Free(q, {k}) <=> ~Settled(b, k) /\ x # k
                 /\ x # k \/ ~Settled(b, k) => Rare(q, {k})
    BY <1>a, <2>1, RareJoined DEF Settled, told
  <2> QED BY <2>2, <2>3, <2>4
<1>d. /\ toBack[b] # <<>> =>
           /\ Rare(Tail(toBack[b]), Outcomes({k}))
           /\ IF Head(toBack[b]) \in Outcomes({k}) THEN Returning(b, k) /\ Free(Tail(toBack[b]), Outcomes({k}))
              ELSE Free(Tail(toBack[b]), Outcomes({k})) <=> ~Returning(b, k)
      /\ fromBack[b] # <<>> =>
           /\ Rare(Tail(fromBack[b]), {Ask(k)})
           /\ IF Head(fromBack[b]) = Ask(k) THEN Coming(b, k) /\ Free(Tail(fromBack[b]), {Ask(k)})
              ELSE Free(Tail(fromBack[b]), {Ask(k)}) <=> ~Coming(b, k)
  <2>1. Rare(toBack[b], Outcomes({k})) /\ Rare(fromBack[b], {Ask(k)})
    BY <1>0 DEF PlaceOf
  <2> HIDE DEF To, From, told
  <2>2. ASSUME toBack[b] # <<>>
        PROVE  /\ Rare(Tail(toBack[b]), Outcomes({k}))
               /\ IF Head(toBack[b]) \in Outcomes({k}) THEN Returning(b, k) /\ Free(Tail(toBack[b]), Outcomes({k}))
                  ELSE Free(Tail(toBack[b]), Outcomes({k})) <=> ~Returning(b, k)
    BY <1>a, <2>1, <2>2, RareShifted DEF Returning
  <2>3. ASSUME fromBack[b] # <<>>
        PROVE  /\ Rare(Tail(fromBack[b]), {Ask(k)})
               /\ IF Head(fromBack[b]) = Ask(k) THEN Coming(b, k) /\ Free(Tail(fromBack[b]), {Ask(k)})
                  ELSE Free(Tail(fromBack[b]), {Ask(k)}) <=> ~Coming(b, k)
    BY <1>a, <2>1, <2>3, RareShifted DEF Coming
  <2> QED BY <2>2, <2>3
<1>e. Rare(toBack[b], Outcomes({k})) /\ Rare(fromBack[b], {Ask(k)}) /\ Rare(told, {k})
      /\ (Free(toBack[b], Outcomes({k})) <=> ~Returning(b, k))
      /\ (Free(fromBack[b], {Ask(k)}) <=> ~Coming(b, k))
      /\ (Free(told, {k}) <=> ~Settled(b, k))
  BY <1>0 DEF PlaceOf, Returning, Coming, Settled
<1> HIDE DEF To, From
<1>1. CASE RouteCall
  <2> DEFINE msg == Head(inbox)
             x == [kind |-> "call", id |-> msg.id]
  <2>1. toBack'[b] = toBack[b] \/ toBack'[b] = Append(toBack[b], x)
    BY <1>1 DEF RouteCall, TypeOK
  <2>2. x \notin Outcomes({k})
    BY DEF Outcomes
  <2> HIDE DEF x
  <2>3. (Free(toBack'[b], Outcomes({k})) <=> Free(toBack[b], Outcomes({k})))
        /\ Rare(toBack'[b], Outcomes({k}))
    BY <1>c, <1>e, <2>1, <2>2
  <2>4. UNCHANGED <<fromBack, requests, backend>>
    BY <1>1 DEF RouteCall
  <2> QED BY <1>0, <2>3, <2>4 DEF PlaceOf, Coming, Correlated, Returning, Settled
<1>2. CASE RouteReply
  <2> DEFINE msg == Head(inbox)
  <2>0. UNCHANGED <<fromBack, backend>>
    BY <1>2 DEF RouteReply
  <2>1. CASE msg.id \notin DOMAIN requests
    <3>1. UNCHANGED <<requests, toBack>>
      BY <1>2, <2>1 DEF RouteReply
    <3> QED BY <1>0, <2>0, <3>1, PlaceFrame
  <2>2. CASE msg.id \in DOMAIN requests
    <3> DEFINE origin == requests[msg.id]
               x == [kind |-> msg.kind, id |-> origin[2], about |-> msg.about]
    <3>1. requests' = Without(msg.id) /\ toBack' = [toBack EXCEPT ![origin[1]] = Append(@, x)]
      BY <1>2, <2>2 DEF RouteReply
    <3>2. origin \in Origins /\ origin[1] \in Backends /\ origin = <<origin[1], origin[2]>>
      <4>1. origin \in Origins
        BY <2>2 DEF TypeOK
      <4> QED BY <4>1 DEF Origins
    <3> HIDE DEF origin, msg
    <3>3. x \in Outcomes({k}) => origin[2] = k
      BY DEF Outcomes
    <3>4. CASE origin # <<b, k>>
      <4>1. toBack'[b] = toBack[b] \/ (toBack'[b] = Append(toBack[b], x) /\ x \notin Outcomes({k}))
        BY <3>1, <3>2, <3>3, <3>4 DEF TypeOK
      <4> HIDE DEF x
      <4>2. (Free(toBack'[b], Outcomes({k})) <=> Free(toBack[b], Outcomes({k})))
            /\ Rare(toBack'[b], Outcomes({k}))
        BY <1>c, <1>e, <4>1
      <4>3. \A i : i \in DOMAIN requests' /\ requests'[i] = <<b, k>> <=>
                   i \in DOMAIN requests /\ requests[i] = <<b, k>>
        BY <3>1, <3>4 DEF Without, origin
      <4> QED BY <1>0, <2>0, <4>2, <4>3 DEF PlaceOf, Coming, Correlated, Returning, Settled
    <3>5. CASE origin = <<b, k>>
      <4>1. toBack'[b] = Append(toBack[b], x) /\ Correlated(b, k)
        <5>1. origin[1] = b
          BY <3>5
        <5>2. toBack'[b] = Append(toBack[b], x)
          BY <3>1, <5>1 DEF TypeOK
        <5>3. Correlated(b, k)
          BY <2>2, <3>5 DEF Correlated, origin
        <5> QED BY <5>2, <5>3
      <4> HIDE DEF x
      <4>2. Rare(toBack'[b], Outcomes({k}))
        BY <1>0, <1>c, <4>1 DEF PlaceOf
      <4>3. \A i \in DOMAIN requests' : requests'[i] # <<b, k>>
        BY <1>0, <2>2, <3>1, <3>5 DEF Without, PlaceOf, origin
      <4> QED BY <1>0, <2>0, <4>1, <4>2, <4>3 DEF PlaceOf, Coming, Correlated, Returning, Settled
    <3> QED BY <3>4, <3>5
  <2> QED BY <2>1, <2>2
<1>3. ASSUME NEW d \in Backends, Deliver(d) PROVE PlaceOf(b, k)'
  <2> DEFINE msg == Head(fromBack[d])
             id == requestSeq + 1
  <2>0. UNCHANGED <<toBack, backend>> /\ fromBack' = [fromBack EXCEPT ![d] = Tail(@)] /\ fromBack[d] # <<>>
    BY <1>3 DEF Deliver
  <2>1. \/ msg.kind = "answer" /\ UNCHANGED requests
        \/ /\ msg.kind = "request"
           /\ requests' = [i \in DOMAIN requests \union {id} |-> IF i = id THEN <<d, msg.id>> ELSE requests[i]]
    BY <1>3 DEF Deliver, ClientId
  <2>2. msg \in [kind : {"request"}, id : Asks] \union [kind : {"answer"}, id : Calls]
    BY <2>0, Shifted DEF TypeOK
  <2>3. id \notin DOMAIN requests
    BY DEF TypeOK
  <2>4. /\ msg.kind = "request" => msg = Ask(msg.id)
        /\ msg = Ask(k) => msg.kind = "request" /\ msg.id = k
    BY <2>2 DEF Ask
  <2>5. /\ d # b => fromBack'[b] = fromBack[b]
        /\ d = b => fromBack'[b] = Tail(fromBack[b]) /\ fromBack[b] # <<>> /\ msg = Head(fromBack[b])
    BY <2>0 DEF TypeOK
  <2> HIDE DEF msg, id
  <2>6. CASE d = b /\ msg = Ask(k)
    <3>1. Free(fromBack'[b], {Ask(k)}) /\ Rare(fromBack'[b], {Ask(k)}) /\ Coming(b, k)
      BY <1>d, <2>5, <2>6
    <3>2. \A i \in DOMAIN requests' : requests'[i] = <<b, k>> => i = id
      BY <1>0, <2>1, <2>4, <2>6, <3>1 DEF PlaceOf, Correlated
    <3> QED BY <1>0, <2>0, <3>1, <3>2 DEF PlaceOf, Coming, Correlated, Returning, Settled
  <2>7. CASE ~(d = b /\ msg = Ask(k))
    <3>1. (Free(fromBack'[b], {Ask(k)}) <=> Free(fromBack[b], {Ask(k)})) /\ Rare(fromBack'[b], {Ask(k)})
      BY <1>d, <1>e, <2>5, <2>7
    <3>2. \A i : i \in DOMAIN requests' /\ requests'[i] = <<b, k>> <=>
                 i \in DOMAIN requests /\ requests[i] = <<b, k>>
      BY <2>1, <2>3, <2>4, <2>7
    <3> QED BY <1>0, <2>0, <3>1, <3>2 DEF PlaceOf, Coming, Correlated, Returning, Settled
  <2> QED BY <2>6, <2>7
<1>4. ASSUME NEW d \in Backends, BackendReads(d) PROVE PlaceOf(b, k)'
  <2> DEFINE msg == Head(toBack[d])
  <2>0. UNCHANGED <<fromBack, requests>> /\ toBack' = [toBack EXCEPT ![d] = Tail(@)] /\ toBack[d] # <<>>
    BY <1>4 DEF BackendReads
  <2>1. CASE d # b
    <3>1. UNCHANGED <<toBack[b], backend[b]>>
      BY <1>4, <2>1 DEF BackendReads, TypeOK
    <3> QED BY <1>0, <2>0, <3>1, PlaceFrame
  <2>2. CASE d = b
    <3>1. toBack'[b] = Tail(toBack[b]) /\ msg = Head(toBack[b]) /\ toBack[b] # <<>>
          /\ backend'[b].asks = backend[b].asks
          /\ backend'[b].settled = IF msg.kind = "call" THEN backend[b].settled
                                   ELSE Append(backend[b].settled, msg.id)
      BY <1>4, <2>0, <2>2 DEF BackendReads, TypeOK
    <3>2. msg \in [kind : {"call"}, id : Calls] \union Outcomes(Asks)
      BY <1>b, <3>1 DEF To
    <3>3. /\ msg.kind # "call" /\ msg.id = k => msg \in Outcomes({k})
          /\ msg \in Outcomes({k}) => msg.kind # "call" /\ msg.id = k
      BY <3>2 DEF Outcomes
    <3> HIDE DEF msg
    <3>4. CASE msg \in Outcomes({k})
      <4>1. Free(toBack'[b], Outcomes({k})) /\ Rare(toBack'[b], Outcomes({k})) /\ Returning(b, k)
        BY <1>d, <3>1, <3>4
      <4>2. Rare(backend'[b].settled, {k})
        BY <1>0, <1>c, <3>1, <3>3, <3>4, <4>1 DEF PlaceOf
      <4> QED BY <1>0, <2>0, <3>1, <4>1, <4>2 DEF PlaceOf, Coming, Correlated, Returning, Settled
    <3>5. CASE msg \notin Outcomes({k})
      <4>1. (Free(toBack'[b], Outcomes({k})) <=> Free(toBack[b], Outcomes({k})))
            /\ Rare(toBack'[b], Outcomes({k}))
        BY <1>d, <1>e, <3>1, <3>5
      <4>2. (Free(backend'[b].settled, {k}) <=> Free(backend[b].settled, {k}))
            /\ Rare(backend'[b].settled, {k})
        BY <1>c, <1>e, <3>1, <3>3, <3>5
      <4> QED BY <1>0, <2>0, <3>1, <4>1, <4>2 DEF PlaceOf, Coming, Correlated, Returning, Settled
    <3> QED BY <3>4, <3>5
  <2> QED BY <2>1, <2>2
<1>5. ASSUME NEW d \in Backends, Asking(d), backend'[d].asks = backend[d].asks + 1,
             backend'[d].settled = backend[d].settled,
             \A o \in Backends \ {d} : backend'[o] = backend[o]
      PROVE  PlaceOf(b, k)'
  <2>0. UNCHANGED <<toBack, requests>>
        /\ fromBack' = [fromBack EXCEPT ![d] = Append(@, Ask(backend[d].asks + 1))]
    BY <1>5 DEF Asking, Ask
  <2>1. CASE d # b
    <3>1. UNCHANGED <<fromBack[b], backend[b]>>
      BY <1>5, <2>0, <2>1 DEF TypeOK
    <3> QED BY <1>0, <2>0, <3>1, PlaceFrame
  <2>2. CASE d = b
    <3>1. fromBack'[b] = Append(fromBack[b], Ask(backend[b].asks + 1))
      BY <2>0, <2>2 DEF TypeOK
    <3>2. backend[b].asks \in Int /\ backend'[b].asks = backend[b].asks + 1
          /\ backend'[b].settled = backend[b].settled
      BY <1>5, <2>2, BoundsAssumption DEF TypeOK
    <3>3. CASE k = backend[b].asks + 1
      <4>1. ~Coming(b, k) /\ ~Correlated(b, k) /\ ~Returning(b, k) /\ ~Settled(b, k)
        BY <1>0, <3>2, <3>3 DEF PlaceOf
      <4>2. Rare(fromBack'[b], {Ask(k)})
        BY <1>c, <3>1, <3>3, <4>1
      <4> QED BY <1>0, <2>0, <3>2, <3>3, <4>1, <4>2 DEF PlaceOf, Coming, Correlated, Returning, Settled
    <3>4. CASE k # backend[b].asks + 1
      <4>1. Ask(backend[b].asks + 1) # Ask(k)
        BY <3>4 DEF Ask
      <4>2. (Free(fromBack'[b], {Ask(k)}) <=> Free(fromBack[b], {Ask(k)})) /\ Rare(fromBack'[b], {Ask(k)})
        BY <1>c, <1>e, <3>1, <4>1
      <4> QED BY <1>0, <2>0, <3>2, <4>2 DEF PlaceOf, Coming, Correlated, Returning, Settled
    <3> QED BY <3>3, <3>4
  <2> QED BY <2>1, <2>2
<1>6. ASSUME NEW d \in Backends, BackendAsks(d) PROVE PlaceOf(b, k)'
  BY <1>5, <1>6 DEF BackendAsks, TypeOK
<1>7. ASSUME NEW d \in Backends, NEW call \in backend[d].held, BackendAsksFor(d, call) PROVE PlaceOf(b, k)'
  BY <1>5, <1>7 DEF BackendAsksFor, TypeOK
<1>8. ASSUME NEW d \in Backends, NEW call \in backend[d].held, BackendAnswers(d, call) PROVE PlaceOf(b, k)'
  <2> DEFINE x == [kind |-> "answer", id |-> call.id]
  <2>1. UNCHANGED <<toBack, requests>> /\ backend'[b].settled = backend[b].settled
        /\ backend'[b].asks = backend[b].asks
        /\ (fromBack'[b] = fromBack[b] \/ fromBack'[b] = Append(fromBack[b], x))
    BY <1>8 DEF BackendAnswers, TypeOK
  <2>2. x # Ask(k)
    BY DEF Ask
  <2> HIDE DEF x
  <2>3. (Free(fromBack'[b], {Ask(k)}) <=> Free(fromBack[b], {Ask(k)})) /\ Rare(fromBack'[b], {Ask(k)})
    BY <1>c, <1>e, <2>1, <2>2
  <2> QED BY <1>0, <2>1, <2>3 DEF PlaceOf, Coming, Correlated, Returning, Settled
<1>9. Answer \/ TimesOut \/ ClientStep \/ UNCHANGED vars => UNCHANGED <<fromBack, toBack, requests, backend>>
  BY DEF Answer, TimesOut, ClientStep, ClientReads, ClientCalls, ClientReplies, ClientCancels, vars
<1>10. CASE UNCHANGED <<fromBack, toBack, requests, backend>>
  BY <1>0, <1>10, PlaceFrame
<1> QED BY <1>1, <1>2, <1>3, <1>4, <1>6, <1>7, <1>8, <1>9, <1>10 DEF Next, LoopStep, BackendStep

LEMMA PlacesSettleOnce ==
  ASSUME TypeOK, PlacesInv
  PROVE  SettledOnce
<1> SUFFICES ASSUME NEW b \in Backends
             PROVE  /\ \A i, j \in DOMAIN backend[b].settled :
                          backend[b].settled[i] = backend[b].settled[j] => i = j
                    /\ \A i \in DOMAIN toBack[b] : toBack[b][i].kind # "call" =>
                          /\ \A j \in DOMAIN backend[b].settled : backend[b].settled[j] # toBack[b][i].id
                          /\ \A j \in DOMAIN toBack[b] :
                                toBack[b][j].kind # "call" /\ toBack[b][j].id = toBack[b][i].id => i = j
  BY DEF SettledOnce
<1> DEFINE to == toBack[b]
           told == backend[b].settled
<1>1. /\ \A i \in DOMAIN told : told[i] \in Asks
      /\ \A i \in DOMAIN to : to[i].kind # "call" => to[i].id \in Asks /\ to[i] \in Outcomes({to[i].id})
  <2>1. told \in Seq(Asks) /\ to \in Seq([kind : {"call"}, id : Calls] \union Outcomes(Asks))
    BY DEF TypeOK
  <2> HIDE DEF to, told
  <2> QED BY <2>1 DEF Outcomes
<1>2. \A k \in Asks : /\ Rare(told, {k}) /\ Rare(to, Outcomes({k}))
                      /\ ~Free(to, Outcomes({k})) => Free(told, {k})
  BY DEF PlacesInv, PlaceOf, Returning, Settled
<1> HIDE DEF to, told
<1>3. \A i, j \in DOMAIN told : told[i] = told[j] => i = j
  BY <1>1, <1>2 DEF Rare
<1>4. ASSUME NEW i \in DOMAIN to, to[i].kind # "call"
      PROVE  /\ \A j \in DOMAIN told : told[j] # to[i].id
             /\ \A j \in DOMAIN to : to[j].kind # "call" /\ to[j].id = to[i].id => i = j
  <2> DEFINE k == to[i].id
  <2>1. k \in Asks /\ to[i] \in Outcomes({k})
    BY <1>1, <1>4
  <2>2. Free(told, {k})
    BY <1>2, <2>1 DEF Free
  <2>3. \A j \in DOMAIN told : told[j] # k
    BY <2>2 DEF Free
  <2>4. \A j \in DOMAIN to : to[j].kind # "call" /\ to[j].id = k => i = j
    BY <1>1, <1>2, <2>1 DEF Rare
  <2> QED BY <2>3, <2>4
<1> QED BY <1>3, <1>4 DEF to, told

-----------------------------------------------------------------------------
\* The client's calls keep their order.
LEMMA IdsJoined ==
  ASSUME NEW T, NEW q \in Seq(T), NEW x, NEW kind
  PROVE  /\ x.kind # kind => /\ IdsOf(Append(q, x), kind) = IdsOf(q, kind)
                             /\ Rising(q, kind) => Rising(Append(q, x), kind)
         /\ x.kind = kind => /\ IdsOf(Append(q, x), kind) = IdsOf(q, kind) \union {x.id}
                             /\ Rising(q, kind) /\ (\A id \in IdsOf(q, kind) : id < x.id)
                                  => Rising(Append(q, x), kind)
<1>1. q \in Seq(T \union {x})
  OBVIOUS
<1> DEFINE r == Append(q, x)
           n == Len(q) + 1
<1>2. /\ r[n] = x /\ n \in DOMAIN r /\ n \in Nat /\ \A i \in DOMAIN r : i \in Nat
      /\ \A i \in DOMAIN q : i \in DOMAIN r /\ r[i] = q[i] /\ i < n
      /\ \A i \in DOMAIN r : i = n \/ i \in DOMAIN q
  BY <1>1, Joined
<1> HIDE DEF r, n
<1>3. x.kind # kind => IdsOf(r, kind) = IdsOf(q, kind) /\ (Rising(q, kind) => Rising(r, kind))
  BY <1>2 DEF IdsOf, Rising
<1>4. x.kind = kind => IdsOf(r, kind) = IdsOf(q, kind) \union {x.id}
  BY <1>2 DEF IdsOf
<1>5. x.kind = kind /\ Rising(q, kind) /\ (\A id \in IdsOf(q, kind) : id < x.id) => Rising(r, kind)
  BY <1>2 DEF IdsOf, Rising
<1> QED BY <1>3, <1>4, <1>5 DEF r

LEMMA IdsShifted ==
  ASSUME NEW T, NEW q \in Seq(T), q # <<>>, NEW kind, Rising(q, kind), IdsOf(q, kind) \subseteq Nat
  PROVE  /\ Rising(Tail(q), kind)
         /\ Head(q).kind # kind => IdsOf(Tail(q), kind) = IdsOf(q, kind)
         /\ Head(q).kind = kind => /\ IdsOf(Tail(q), kind) = IdsOf(q, kind) \ {Head(q).id}
                                   /\ Head(q).id \in IdsOf(q, kind)
                                   /\ \A id \in IdsOf(q, kind) : Head(q).id <= id
<1> DEFINE r == Tail(q)
<1>1. /\ \A i \in DOMAIN r : i + 1 \in DOMAIN q /\ r[i] = q[i + 1] /\ i \in Nat /\ 1 < i + 1
      /\ \A i \in DOMAIN q : i = 1 \/ (i - 1 \in DOMAIN r /\ r[i - 1] = q[i] /\ 1 < i)
      /\ Head(q) = q[1] /\ 1 \in DOMAIN q
  BY Shifted
<1> HIDE DEF r
<1>2. Rising(r, kind)
  <2>1. \A i, j \in DOMAIN r : i < j => i + 1 < j + 1
    BY <1>1
  <2> QED BY <1>1, <2>1 DEF Rising
<1>3. Head(q).kind # kind => IdsOf(r, kind) = IdsOf(q, kind)
  BY <1>1 DEF IdsOf
<1>4. ASSUME Head(q).kind = kind
      PROVE  /\ IdsOf(r, kind) = IdsOf(q, kind) \ {Head(q).id}
             /\ Head(q).id \in IdsOf(q, kind)
             /\ \A id \in IdsOf(q, kind) : Head(q).id <= id
  <2>1. Head(q).id \in IdsOf(q, kind)
    BY <1>1, <1>4 DEF IdsOf
  <2>2. \A i \in DOMAIN r : r[i].kind = kind => q[1].id < r[i].id
    BY <1>1, <1>4 DEF Rising
  <2>3. IdsOf(q, kind) = IdsOf(r, kind) \union {q[1].id}
    <3>1. ASSUME NEW i \in DOMAIN q, q[i].kind = kind
          PROVE  q[i].id \in IdsOf(r, kind) \union {q[1].id}
      BY <1>1, <3>1 DEF IdsOf
    <3>2. ASSUME NEW i \in DOMAIN r, r[i].kind = kind
          PROVE  r[i].id \in IdsOf(q, kind)
      BY <1>1, <3>2 DEF IdsOf
    <3>3. IdsOf(q, kind) \subseteq IdsOf(r, kind) \union {q[1].id}
      BY <3>1 DEF IdsOf
    <3>4. IdsOf(r, kind) \subseteq IdsOf(q, kind)
      BY <3>2 DEF IdsOf
    <3> QED BY <1>1, <2>1, <3>3, <3>4
  <2>4. \A id \in IdsOf(r, kind) : q[1].id < id
    BY <2>2 DEF IdsOf
  <2>5. q[1].id \notin IdsOf(r, kind) /\ q[1].id \in Nat
    BY <1>1, <2>1, <2>4
  <2>6. IdsOf(r, kind) = IdsOf(q, kind) \ {q[1].id}
    BY <2>3, <2>5
  <2>7. \A id \in IdsOf(q, kind) : q[1].id <= id
    BY <2>3, <2>4, <2>5
  <2> QED BY <1>1, <2>1, <2>6, <2>7
<1> QED BY <1>2, <1>3, <1>4 DEF r

LEMMA FirstOut ==
  ASSUME NEW a \in Int, NEW b \in Int, NEW m \in a .. b, \A i \in a .. b : m <= i
  PROVE  m = a /\ a <= b /\ (a .. b) \ {m} = a + 1 .. b
<1>1. m = a /\ a <= b
  OBVIOUS
<1> QED BY <1>1

LEMMA NextIn ==
  ASSUME NEW a \in Int, NEW b \in Int, a <= b + 1
  PROVE  (a .. b) \union {b + 1} = a .. b + 1 /\ \A i \in a .. b : i < b + 1
OBVIOUS

LEMMA OrderNext ==
  ASSUME TypeOK, OrderInv, [Next]_vars
  PROVE  OrderInv'
<1> DEFINE In  == [kind : {"call"}, id : Calls, backend : Backends] \union Outcomes(Nat)
           Out == Requests \union Answers
           n == Len(client.answers)
<1>0. PICK last \in 0 .. MaxCalls : InOrder(last)
  BY DEF OrderInv
<1>1. /\ inbox \in Seq(In) /\ outbox \in Seq(Out) /\ client.answers \in Seq(Calls)
      /\ n \in Nat /\ last \in Nat /\ client.calls \in Nat /\ client.calls <= MaxCalls /\ MaxCalls \in Nat
  BY BoundsAssumption DEF TypeOK
<1>2. /\ IdsOf(outbox, "answer") = n + 1 .. last /\ IdsOf(outbox, "answer") \subseteq Nat /\ n <= last
      /\ IdsOf(inbox, "call") = (IF loop.pc = "reading" THEN last + 1 ELSE last + 2) .. client.calls
      /\ IdsOf(inbox, "call") \subseteq Nat
      /\ (IF loop.pc = "reading" THEN last ELSE last + 1) <= client.calls
      /\ loop.pc # "reading" => loop.call = last + 1
  <2>1. \A i, j \in Nat : n + 1 .. i \subseteq Nat /\ i + 1 .. j \subseteq Nat /\ i + 2 .. j \subseteq Nat
    BY <1>1
  <2> QED BY <1>0, <1>1, <2>1 DEF InOrder
<1>3. Rising(outbox, "answer") /\ Rising(inbox, "call") /\ AnsweredInOrder
  BY DEF OrderInv
<1> HIDE DEF In, Out, n
<1>4. ASSUME IdsOf(outbox', "answer") = IdsOf(outbox, "answer"), Rising(outbox', "answer"),
             IdsOf(inbox', "call") = IdsOf(inbox, "call"), Rising(inbox', "call"),
             client'.answers = client.answers, client'.calls = client.calls,
             UNCHANGED loop \/ (loop.pc # "reading" /\ loop'.pc # "reading" /\ loop'.call = loop.call)
      PROVE  OrderInv'
  <2>1. InOrder(last)'
    BY <1>2, <1>4 DEF InOrder, n
  <2> QED BY <1>3, <1>4, <2>1 DEF OrderInv, AnsweredInOrder
<1>5. CASE RouteCall
  <2> DEFINE msg == Head(inbox)
  <2>1. /\ msg.kind = "call" /\ loop.pc = "reading" /\ loop' = [pc |-> "waiting", call |-> msg.id]
        /\ inbox # <<>> /\ inbox' = Tail(inbox) /\ UNCHANGED <<outbox, client>>
    BY <1>5 DEF RouteCall
  <2> HIDE DEF msg
  <2>2. /\ Rising(inbox', "call") /\ IdsOf(inbox', "call") = IdsOf(inbox, "call") \ {msg.id}
        /\ msg.id \in IdsOf(inbox, "call") /\ \A id \in IdsOf(inbox, "call") : msg.id <= id
    BY <1>1, <1>2, <1>3, <2>1, IdsShifted DEF msg
  <2>3. msg.id = last + 1 /\ last + 1 <= client.calls
        /\ IdsOf(inbox, "call") \ {msg.id} = (last + 1) + 1 .. client.calls
    <3>1. last + 1 \in Int /\ client.calls \in Int /\ IdsOf(inbox, "call") = last + 1 .. client.calls
      BY <1>1, <1>2, <2>1
    <3>2. /\ msg.id \in last + 1 .. client.calls
          /\ \A i \in last + 1 .. client.calls : msg.id <= i
      BY <2>2, <3>1
    <3>3. /\ msg.id = last + 1 /\ last + 1 <= client.calls
          /\ (last + 1 .. client.calls) \ {msg.id} = (last + 1) + 1 .. client.calls
      BY <3>1, <3>2, FirstOut
    <3> QED BY <3>1, <3>3
  <2>4. IdsOf(inbox', "call") = last + 2 .. client.calls
    <3>1. (last + 1) + 1 = last + 2
      BY <1>1
    <3> QED BY <2>2, <2>3, <3>1
  <2>5. InOrder(last)'
    BY <1>2, <2>1, <2>3, <2>4 DEF InOrder, n
  <2> QED BY <1>3, <2>1, <2>2, <2>5 DEF OrderInv, AnsweredInOrder
<1>6. CASE RouteReply
  <2>1. Rising(inbox', "call") /\ IdsOf(inbox', "call") = IdsOf(inbox, "call")
    BY <1>1, <1>2, <1>3, <1>6, IdsShifted DEF RouteReply
  <2> QED BY <1>3, <1>4, <1>6, <2>1 DEF RouteReply
<1>7. CASE Answer
  <2> DEFINE x == [kind |-> "answer", id |-> loop.call]
  <2>1. /\ outbox' = Append(outbox, x) /\ loop.pc = "answered" /\ loop' = [pc |-> "reading", call |-> 0]
        /\ UNCHANGED <<inbox, client>>
    BY <1>7 DEF Answer
  <2>2. x.kind = "answer" /\ x.id = last + 1
    BY <1>2, <2>1
  <2> HIDE DEF x
  <2>3. /\ IdsOf(outbox', "answer") = IdsOf(outbox, "answer") \union {last + 1}
        /\ Rising(outbox', "answer")
    <3>1. \A id \in IdsOf(outbox, "answer") : id < x.id
      <4>1. n + 1 \in Int /\ last \in Int /\ n + 1 <= last + 1
        BY <1>1, <1>2
      <4>2. (n + 1 .. last) \union {last + 1} = n + 1 .. last + 1 /\ \A i \in n + 1 .. last : i < last + 1
        BY <4>1, NextIn
      <4> QED BY <1>2, <2>2, <4>2
    <3>2. /\ IdsOf(Append(outbox, x), "answer") = IdsOf(outbox, "answer") \union {x.id}
          /\ Rising(Append(outbox, x), "answer")
      BY <1>1, <1>3, <2>2, <3>1, IdsJoined
    <3> QED BY <2>1, <2>2, <3>2
  <2>4. IdsOf(outbox', "answer") = n + 1 .. last + 1
    <3>1. n + 1 \in Int /\ last \in Int /\ n + 1 <= last + 1
      BY <1>1, <1>2
    <3> QED BY <1>2, <2>3, <3>1, NextIn
  <2>5. last + 1 \in 0 .. MaxCalls /\ last + 1 <= client.calls
    BY <1>1, <1>2, <2>1
  <2>6. IdsOf(inbox', "call") = (last + 1) + 1 .. client.calls
    BY <1>1, <1>2, <2>1
  <2>7. InOrder(last + 1)'
    BY <1>1, <1>2, <2>1, <2>4, <2>5, <2>6 DEF InOrder, n
  <2> QED BY <1>3, <2>1, <2>3, <2>5, <2>7 DEF OrderInv, AnsweredInOrder
<1>8. CASE TimesOut
  <2>1. UNCHANGED <<inbox, outbox, client>> /\ loop.pc # "reading" /\ loop'.pc # "reading"
        /\ loop'.call = loop.call
    BY <1>8 DEF TimesOut, TypeOK
  <2> QED BY <1>3, <1>4, <2>1
<1>9. CASE ClientReads
  <2> DEFINE msg == Head(outbox)
  <2>1. /\ outbox # <<>> /\ outbox' = Tail(outbox) /\ UNCHANGED <<inbox, loop>>
        /\ client'.calls = client.calls
        /\ client'.answers = IF msg.kind = "answer" THEN Append(client.answers, msg.id) ELSE client.answers
    BY <1>9 DEF ClientReads, TypeOK
  <2> HIDE DEF msg
  <2>2. CASE msg.kind # "answer"
    <3>1. Rising(outbox', "answer") /\ IdsOf(outbox', "answer") = IdsOf(outbox, "answer")
      BY <1>1, <1>2, <1>3, <2>1, <2>2, IdsShifted DEF msg
    <3> QED BY <1>3, <1>4, <2>1, <2>2, <3>1
  <2>3. CASE msg.kind = "answer"
    <3>1. /\ Rising(outbox', "answer") /\ IdsOf(outbox', "answer") = IdsOf(outbox, "answer") \ {msg.id}
          /\ msg.id \in IdsOf(outbox, "answer") /\ \A id \in IdsOf(outbox, "answer") : msg.id <= id
      BY <1>1, <1>2, <1>3, <2>1, <2>3, IdsShifted DEF msg
    <3>2. msg.id = n + 1 /\ n + 1 <= last /\ IdsOf(outbox, "answer") \ {msg.id} = (n + 1) + 1 .. last
      <4>1. n + 1 \in Int /\ last \in Int
        BY <1>1
      <4>2. msg.id \in n + 1 .. last /\ \A i \in n + 1 .. last : msg.id <= i
        BY <1>2, <3>1
      <4>3. msg.id = n + 1 /\ n + 1 <= last /\ (n + 1 .. last) \ {msg.id} = (n + 1) + 1 .. last
        BY <4>1, <4>2, FirstOut
      <4> QED BY <1>2, <4>3
    <3>3. IdsOf(outbox', "answer") = (n + 1) + 1 .. last
      BY <3>1, <3>2
    <3>4. client'.answers = Append(client.answers, n + 1)
      BY <2>1, <2>3, <3>2
    <3>5. /\ Len(client'.answers) = n + 1 /\ client'.answers[n + 1] = n + 1
          /\ \A i \in DOMAIN client'.answers :
                i = n + 1 \/ (i \in DOMAIN client.answers /\ client'.answers[i] = client.answers[i])
      <4>1. client.answers \in Seq(Nat) /\ n + 1 \in Nat
        BY <1>1 DEF Calls
      <4>2. /\ DOMAIN Append(client.answers, n + 1) = 1 .. n + 1 /\ Append(client.answers, n + 1) \in Seq(Nat)
            /\ Append(client.answers, n + 1)[n + 1] = n + 1
            /\ \A i \in DOMAIN client.answers : Append(client.answers, n + 1)[i] = client.answers[i]
            /\ \A i \in DOMAIN Append(client.answers, n + 1) : i = n + 1 \/ i \in DOMAIN client.answers
        BY <4>1, Joined DEF n
      <4>3. Len(Append(client.answers, n + 1)) = n + 1
        BY <1>1, <4>2
      <4> QED BY <3>4, <4>2, <4>3
    <3>6. InOrder(last)'
      BY <1>1, <1>2, <2>1, <3>2, <3>3, <3>5 DEF InOrder
    <3>7. AnsweredInOrder'
      BY <1>3, <3>5 DEF AnsweredInOrder
    <3> QED BY <1>3, <2>1, <3>1, <3>6, <3>7 DEF OrderInv
  <2> QED BY <2>2, <2>3
<1>10. ASSUME NEW b \in Backends, ClientCalls(b) PROVE OrderInv'
  <2> DEFINE x == [kind |-> "call", id |-> client.calls + 1, backend |-> b]
  <2>1. inbox' = Append(inbox, x) /\ UNCHANGED <<outbox, loop>>
        /\ client'.calls = client.calls + 1 /\ client'.answers = client.answers
    BY <1>10 DEF ClientCalls, TypeOK
  <2>2. x.kind = "call" /\ x.id = client.calls + 1
    OBVIOUS
  <2> HIDE DEF x
  <2> DEFINE first == IF loop.pc = "reading" THEN last + 1 ELSE last + 2
  <2>a. first \in Int /\ client.calls \in Int /\ first <= client.calls + 1
    BY <1>1, <1>2
  <2>b. IdsOf(inbox, "call") = first .. client.calls
    BY <1>2
  <2> HIDE DEF first
  <2>3. /\ IdsOf(inbox', "call") = IdsOf(inbox, "call") \union {client.calls + 1}
        /\ Rising(inbox', "call")
    <3>1. \A id \in IdsOf(inbox, "call") : id < x.id
      <4>1. /\ (first .. client.calls) \union {client.calls + 1} = first .. client.calls + 1
            /\ \A i \in first .. client.calls : i < client.calls + 1
        BY <2>a, NextIn
      <4> QED BY <2>2, <2>b, <4>1
    <3>2. /\ IdsOf(Append(inbox, x), "call") = IdsOf(inbox, "call") \union {x.id}
          /\ Rising(Append(inbox, x), "call")
      BY <1>1, <1>3, <2>2, <3>1, IdsJoined
    <3> QED BY <2>1, <2>2, <3>2
  <2>4. IdsOf(inbox', "call") = (IF loop.pc = "reading" THEN last + 1 ELSE last + 2) .. client.calls + 1
    BY <2>3, <2>a, <2>b, NextIn DEF first
  <2>5. InOrder(last)'
    BY <1>1, <1>2, <2>1, <2>4 DEF InOrder, n
  <2> QED BY <1>3, <2>1, <2>3, <2>5 DEF OrderInv, AnsweredInOrder
<1>11. ASSUME NEW ask, ClientReplies(ask) \/ ClientCancels(ask) PROVE OrderInv'
  <2>1. PICK kind \in {"reply", "cancel"} :
          inbox' = Append(inbox, [kind |-> kind, id |-> ask.id, about |-> ask.about])
    BY <1>11 DEF ClientReplies, ClientCancels
  <2>2. UNCHANGED <<outbox, loop>> /\ client'.calls = client.calls /\ client'.answers = client.answers
    BY <1>11 DEF ClientReplies, ClientCancels, TypeOK
  <2>3. Rising(inbox', "call") /\ IdsOf(inbox', "call") = IdsOf(inbox, "call")
    BY <1>1, <1>3, <2>1, IdsJoined
  <2> QED BY <1>3, <1>4, <2>2, <2>3
<1>12. ASSUME NEW b \in Backends, Deliver(b) PROVE OrderInv'
  <2>1. /\ UNCHANGED outbox \/ \E x : x.kind # "answer" /\ outbox' = Append(outbox, x)
        /\ UNCHANGED loop \/ (loop.pc = "waiting" /\ loop' = [loop EXCEPT !.pc = "answered"])
        /\ UNCHANGED <<inbox, client>>
    <3> DEFINE x == [kind |-> "request", id |-> requestSeq + 1, about |-> <<b, Head(fromBack[b]).id>>]
               y == [kind |-> "stray", id |-> Head(fromBack[b]).id]
    <3>1. x.kind # "answer" /\ y.kind # "answer"
      OBVIOUS
    <3>2. /\ UNCHANGED outbox \/ outbox' = Append(outbox, x) \/ outbox' = Append(outbox, y)
          /\ UNCHANGED loop \/ (loop.pc = "waiting" /\ loop' = [loop EXCEPT !.pc = "answered"])
          /\ UNCHANGED <<inbox, client>>
      BY <1>12 DEF Deliver, ClientId
    <3> HIDE DEF x, y
    <3> QED BY <3>1, <3>2
  <2>2. Rising(outbox', "answer") /\ IdsOf(outbox', "answer") = IdsOf(outbox, "answer")
    <3>1. CASE UNCHANGED outbox
      BY <1>3, <3>1
    <3>2. ASSUME NEW x, x.kind # "answer", outbox' = Append(outbox, x)
          PROVE  Rising(outbox', "answer") /\ IdsOf(outbox', "answer") = IdsOf(outbox, "answer")
      BY <1>1, <1>3, <3>2, IdsJoined
    <3> QED BY <2>1, <3>1, <3>2
  <2>3. UNCHANGED loop \/ (loop.pc # "reading" /\ loop'.pc # "reading" /\ loop'.call = loop.call)
    BY <2>1 DEF TypeOK
  <2> QED BY <1>3, <1>4, <2>1, <2>2, <2>3
<1>13. ASSUME NEW b \in Backends, BackendStep(b) PROVE UNCHANGED <<inbox, outbox, client, loop>>
  BY <1>13 DEF BackendStep, BackendReads, BackendAsks, BackendAsksFor, BackendAnswers, Asking
<1>14. CASE UNCHANGED <<inbox, outbox, client, loop>>
  BY <1>3, <1>4, <1>14
<1> QED BY <1>5, <1>6, <1>7, <1>8, <1>9, <1>10, <1>11, <1>12, <1>13, <1>14
        DEF Next, LoopStep, ClientStep, vars

-----------------------------------------------------------------------------
\* What the client may still reply to is correlated.
Kept(msg) == msg.id \in DOMAIN requests /\ requests[msg.id] = msg.about

LEMMA AskFrame ==
  ASSUME AskInv,
         \A id \in 1 .. requestSeq : /\ Rare(outbox', Named(id))
                                     /\ ~Free(outbox', Named(id)) => ~Free(outbox, Named(id)),
         \A msg \in Elems(outbox') : msg.kind = "request" => msg \in Elems(outbox),
         \A msg \in Elems(inbox') : msg.kind # "call" =>
            msg \in Elems(inbox) \/ \E ask \in client'.replied \union client'.cancelled : ask.id = msg.id,
         client'.asked = client.asked,
         client.replied \subseteq client'.replied, client.cancelled \subseteq client'.cancelled,
         client'.replied \union client'.cancelled \subseteq client.asked,
         UNCHANGED <<requests, requestSeq>>
  PROVE  AskInv'
<1>1. CorrelationKept'
  <2>1. /\ \A msg \in Elems(outbox) : msg.kind = "request" => Kept(msg)
        /\ \A msg \in client.asked \ (client.replied \union client.cancelled) : Kept(msg)
    BY DEF AskInv, CorrelationKept, Kept, Elems
  <2>2. /\ \A i \in DOMAIN outbox' : outbox'[i].kind = "request" => Kept(outbox'[i])
        /\ \A msg \in client'.asked \ (client'.replied \union client'.cancelled) : Kept(msg)
    BY <2>1 DEF Elems
  <2> QED BY <2>2 DEF CorrelationKept, Kept
<1>2. \A msg \in Elems(inbox') : msg.kind # "call" =>
         \E ask \in client'.replied \union client'.cancelled : ask.id = msg.id
  BY DEF AskInv
<1> QED BY <1>1, <1>2 DEF AskInv

LEMMA AskNext ==
  ASSUME TypeOK, TypeOK', RoutedInv, AskInv, [Next]_vars
  PROVE  AskInv'
<1> DEFINE In  == [kind : {"call"}, id : Calls, backend : Backends] \union Outcomes(Nat)
           Out == Requests \union Answers
<1>0. /\ inbox \in Seq(In) /\ outbox \in Seq(Out) /\ requestSeq \in Nat
      /\ \A ask \in client.asked : ask \in Named(ask.id)
      /\ \A msg \in Out : msg.kind = "request" => msg \in Named(msg.id)
      /\ \A msg, id : msg \in Named(id) => msg.kind = "request" /\ msg.id = id
  BY DEF TypeOK, Requests, Answers, Named
<1>1. /\ client.replied \union client.cancelled \subseteq client.asked
      /\ \A id \in 1 .. requestSeq :
          /\ Rare(outbox, Named(id))
          /\ ~Free(outbox, Named(id)) => \A ask \in client.asked : ask.id # id
      /\ \A ask, o \in client.asked : ask.id = o.id => ask = o
      /\ \A msg \in Elems(inbox) : msg.kind # "call" =>
            \E ask \in client.replied \union client.cancelled : ask.id = msg.id
      /\ \A msg \in Elems(outbox) : msg.kind = "request" => Kept(msg)
      /\ \A msg \in client.asked \ (client.replied \union client.cancelled) : Kept(msg)
  BY DEF AskInv, CorrelationKept, Kept, Elems
<1>2. \A msg \in Elems(outbox) : msg.kind = "request" =>
         msg \in Named(msg.id) /\ msg.id \in 1 .. requestSeq /\ ~Free(outbox, Named(msg.id))
  <2>1. ASSUME NEW i \in DOMAIN outbox, outbox[i].kind = "request"
        PROVE  outbox[i] \in Named(outbox[i].id) /\ outbox[i].id \in 1 .. requestSeq
    <3>1. outbox[i] \in Out /\ outbox[i] \in Elems(outbox)
      BY <1>0 DEF Elems
    <3> QED BY <1>0, <2>1, <3>1 DEF RoutedInv, Routed
  <2> QED BY <2>1 DEF Elems, Free
<1> HIDE DEF In, Out
<1>3. ASSUME UNCHANGED <<outbox, client, requests, requestSeq>>,
             \A msg \in Elems(inbox') : msg.kind # "call" => msg \in Elems(inbox)
      PROVE  AskInv'
  BY <1>1, <1>3, AskFrame
<1>4. CASE RouteCall
  BY <1>0, <1>3, <1>4, ShiftedElems DEF RouteCall
<1>5. CASE RouteReply
  <2> DEFINE msg == Head(inbox)
  <2>1. /\ Elems(inbox') \subseteq Elems(inbox) /\ msg \in Elems(inbox) /\ msg.kind # "call"
        /\ UNCHANGED <<outbox, client, requestSeq>>
        /\ requests' = requests \/ requests' = Without(msg.id)
    BY <1>0, <1>5, ShiftedElems DEF RouteReply
  <2> HIDE DEF msg
  <2>2. PICK ask \in client.replied \union client.cancelled : ask.id = msg.id
    BY <1>1, <2>1
  <2>3. \A m : Kept(m) /\ m.id # msg.id => m.id \in DOMAIN requests' /\ requests'[m.id] = m.about
    BY <2>1 DEF Kept, Without
  <2>4. \A m \in Elems(outbox) : m.kind = "request" => m.id # msg.id
    BY <1>1, <1>2, <2>2
  <2>5. \A m \in client.asked \ (client.replied \union client.cancelled) : m.id # msg.id
    BY <1>1, <2>2
  <2>6. /\ \A m \in Elems(outbox') : m.kind = "request" => m.id \in DOMAIN requests' /\ requests'[m.id] = m.about
        /\ \A m \in client'.asked \ (client'.replied \union client'.cancelled) :
              m.id \in DOMAIN requests' /\ requests'[m.id] = m.about
    BY <1>1, <2>1, <2>3, <2>4, <2>5
  <2>7. CorrelationKept'
    BY <2>6 DEF CorrelationKept, Elems
  <2> QED BY <1>1, <2>1, <2>7 DEF AskInv
<1>6. ASSUME NEW x, x.kind # "request", outbox' = Append(outbox, x),
             UNCHANGED <<inbox, client, requests, requestSeq>>
      PROVE  AskInv'
  <2>1. \A id \in 1 .. requestSeq : x \notin Named(id)
    BY <1>0, <1>6
  <2>2. \A id \in 1 .. requestSeq : /\ Rare(outbox', Named(id))
                                    /\ ~Free(outbox', Named(id)) => ~Free(outbox, Named(id))
    BY <1>0, <1>1, <1>6, <2>1, RareJoined
  <2>3. Elems(outbox') = Elems(outbox) \union {x}
    BY <1>0, <1>6, JoinedElems
  <2> QED BY <1>1, <1>6, <2>2, <2>3, AskFrame
<1>7. CASE Answer
  <2> DEFINE x == [kind |-> "answer", id |-> loop.call]
  <2>1. x.kind # "request" /\ outbox' = Append(outbox, x) /\ UNCHANGED <<inbox, client, requests, requestSeq>>
    BY <1>7 DEF Answer
  <2> QED BY <1>6, <2>1
<1>8. CASE ClientReads
  <2> DEFINE msg == Head(outbox)
  <2>1. /\ outbox # <<>> /\ outbox' = Tail(outbox) /\ UNCHANGED <<inbox, requests, requestSeq>>
        /\ client'.replied = client.replied /\ client'.cancelled = client.cancelled
        /\ client'.asked = IF msg.kind = "request" THEN client.asked \union {msg} ELSE client.asked
    BY <1>8 DEF ClientReads, TypeOK
  <2>2. Elems(outbox') \subseteq Elems(outbox) /\ msg \in Elems(outbox)
    BY <1>0, <2>1, ShiftedElems
  <2> HIDE DEF msg
  <2>3. \A id \in 1 .. requestSeq : /\ Rare(outbox', Named(id))
                                    /\ ~Free(outbox', Named(id)) => ~Free(outbox, Named(id))
                                    /\ msg \in Named(id) => Free(outbox', Named(id))
    BY <1>0, <1>1, <2>1, RareShifted DEF msg
  <2>4. CASE msg.kind # "request"
    BY <1>1, <2>1, <2>2, <2>3, <2>4, AskFrame
  <2>5. CASE msg.kind = "request"
    <3>1. /\ msg \in Named(msg.id) /\ msg.id \in 1 .. requestSeq /\ Kept(msg)
          /\ \A ask \in client.asked : ask.id # msg.id
      BY <1>1, <1>2, <2>2, <2>5
    <3>2. \A id \in 1 .. requestSeq : ~Free(outbox', Named(id)) => \A ask \in client'.asked : ask.id # id
      BY <1>1, <2>1, <2>3, <2>5, <3>1
    <3>3. \A ask, o \in client'.asked : ask.id = o.id => ask = o
      BY <1>1, <2>1, <2>5, <3>1
    <3>4. /\ \A m \in Elems(outbox') : m.kind = "request" => Kept(m)
          /\ \A m \in client'.asked \ (client'.replied \union client'.cancelled) : Kept(m)
      BY <1>1, <2>1, <2>2, <2>5, <3>1
    <3>5. CorrelationKept'
      BY <2>1, <3>4 DEF CorrelationKept, Elems, Kept
    <3> QED BY <1>1, <2>1, <2>3, <2>5, <3>2, <3>3, <3>5 DEF AskInv
  <2> QED BY <2>4, <2>5
<1>9. ASSUME NEW b \in Backends, ClientCalls(b) PROVE AskInv'
  <2> DEFINE x == [kind |-> "call", id |-> client.calls + 1, backend |-> b]
  <2>1. /\ inbox' = Append(inbox, x) /\ UNCHANGED <<outbox, requests, requestSeq>> /\ x.kind = "call"
        /\ client'.asked = client.asked /\ client'.replied = client.replied
        /\ client'.cancelled = client.cancelled
    BY <1>9 DEF ClientCalls, TypeOK
  <2> HIDE DEF x
  <2>2. Elems(inbox') = Elems(inbox) \union {x}
    BY <1>0, <2>1, JoinedElems
  <2> QED BY <1>1, <2>1, <2>2, AskFrame
<1>10. ASSUME NEW ask \in client.asked, ClientReplies(ask) \/ ClientCancels(ask) PROVE AskInv'
  <2>1. PICK kind \in {"reply", "cancel"} :
          inbox' = Append(inbox, [kind |-> kind, id |-> ask.id, about |-> ask.about])
    BY <1>10 DEF ClientReplies, ClientCancels
  <2>2. /\ UNCHANGED <<outbox, requests, requestSeq>> /\ client'.asked = client.asked
        /\ \/ client'.replied = client.replied \union {ask} /\ client'.cancelled = client.cancelled
           \/ client'.cancelled = client.cancelled \union {ask} /\ client'.replied = client.replied
    BY <1>10 DEF ClientReplies, ClientCancels, TypeOK
  <2>3. Elems(inbox') = Elems(inbox) \union {[kind |-> kind, id |-> ask.id, about |-> ask.about]}
    BY <1>0, <2>1, JoinedElems
  <2>4. client'.replied \union client'.cancelled = client.replied \union client.cancelled \union {ask}
    BY <2>2
  <2>5. \A m \in Elems(inbox') : m.kind # "call" =>
          m \in Elems(inbox) \/ \E a \in client'.replied \union client'.cancelled : a.id = m.id
    BY <2>3, <2>4
  <2> QED BY <1>1, <2>2, <2>4, <2>5, AskFrame
<1>11. ASSUME NEW b \in Backends, Deliver(b) PROVE AskInv'
  <2> DEFINE msg == Head(fromBack[b])
             id == requestSeq + 1
             x == [kind |-> "request", id |-> id, about |-> <<b, msg.id>>]
             y == [kind |-> "stray", id |-> msg.id]
  <2>1. CASE msg.kind # "request"
    <3>1. UNCHANGED <<inbox, client, requests, requestSeq>>
          /\ (UNCHANGED outbox \/ outbox' = Append(outbox, y)) /\ y.kind # "request"
      BY <1>11, <2>1 DEF Deliver
    <3> HIDE DEF y
    <3> QED BY <1>3, <1>6, <3>1
  <2>2. CASE msg.kind = "request"
    <3>1. /\ UNCHANGED <<inbox, client>> /\ requestSeq' = id /\ outbox' = Append(outbox, x)
          /\ requests' = [i \in DOMAIN requests \union {id} |-> IF i = id THEN <<b, msg.id>> ELSE requests[i]]
      BY <1>11, <2>2 DEF Deliver, ClientId
    <3>2. x.kind = "request" /\ x.id = id /\ x.about = <<b, msg.id>>
      OBVIOUS
    <3>3. id \in Nat /\ id \notin 1 .. requestSeq /\ \A i \in 1 .. id : i = id \/ i \in 1 .. requestSeq
      BY <1>0
    <3> HIDE DEF x, id, msg
    <3>4. Elems(outbox') = Elems(outbox) \union {x}
      BY <1>0, <3>1, JoinedElems
    <3>5. Free(outbox, Named(id)) /\ \A ask \in client.asked : ask.id # id
      <4>1. \A m \in Elems(outbox) : m \notin Named(id)
        BY <1>0, <1>2, <3>3
      <4>2. Free(outbox, Named(id))
        BY <4>1 DEF Free, Elems
      <4> QED BY <3>3, <4>2 DEF RoutedInv, Routed
    <3>6. \A i \in 1 .. id : Rare(outbox', Named(i)) /\ (~Free(outbox', Named(i)) => \A ask \in client.asked : ask.id # i)
      <4>1. Rare(outbox, Named(id))
        BY <3>5 DEF Rare, Free
      <4>2. Rare(outbox', Named(id))
        BY <1>0, <3>1, <3>5, <4>1, RareJoined
      <4>3. \A i \in 1 .. requestSeq : x \notin Named(i)
        BY <1>0, <3>2, <3>3
      <4>4. \A i \in 1 .. requestSeq : Rare(outbox', Named(i)) /\ (~Free(outbox', Named(i)) => ~Free(outbox, Named(i)))
        BY <1>0, <1>1, <3>1, <4>3, RareJoined
      <4> QED BY <1>1, <3>3, <3>5, <4>2, <4>4
    <3>7. /\ \A m \in Elems(outbox') : m.kind = "request" => m.id \in DOMAIN requests' /\ requests'[m.id] = m.about
          /\ \A m \in client.asked \ (client.replied \union client.cancelled) :
                m.id \in DOMAIN requests' /\ requests'[m.id] = m.about
      <4>1. \A m : Kept(m) /\ m.id # id => m.id \in DOMAIN requests' /\ requests'[m.id] = m.about
        BY <3>1 DEF Kept
      <4>2. \A m \in Elems(outbox) : m.kind = "request" => m.id # id
        BY <1>2, <3>3
      <4>3. x.id \in DOMAIN requests' /\ requests'[x.id] = x.about
        BY <3>1, <3>2
      <4> QED BY <1>1, <3>4, <3>5, <4>1, <4>2, <4>3
    <3>8. CorrelationKept'
      <4>1. \A i \in DOMAIN outbox' : outbox'[i].kind = "request" =>
               outbox'[i].id \in DOMAIN requests' /\ requests'[outbox'[i].id] = outbox'[i].about
        BY <3>7 DEF Elems
      <4>2. client' = client
        BY <3>1
      <4> QED BY <3>7, <4>1, <4>2 DEF CorrelationKept
    <3> QED BY <1>1, <3>1, <3>6, <3>8 DEF AskInv
  <2> QED BY <2>1, <2>2
<1>12. ASSUME NEW b \in Backends, BackendStep(b)
       PROVE  UNCHANGED <<inbox, outbox, client, requests, requestSeq>>
  BY <1>12 DEF BackendStep, BackendReads, BackendAsks, BackendAsksFor, BackendAnswers, Asking
<1>13. TimesOut \/ UNCHANGED vars => UNCHANGED <<inbox, outbox, client, requests, requestSeq>>
  BY DEF TimesOut, vars
<1>14. CASE UNCHANGED <<inbox, outbox, client, requests, requestSeq>>
  BY <1>3, <1>14
<1> QED BY <1>4, <1>5, <1>7, <1>8, <1>9, <1>10, <1>11, <1>12, <1>13, <1>14
        DEF Next, LoopStep, ClientStep

-----------------------------------------------------------------------------
LEMMA InitInv == Init => IndInv
<1> SUFFICES ASSUME Init PROVE IndInv
  OBVIOUS
<1>0. \A S : <<>> \in Seq(S) /\ Len(<<>>) = 0
  OBVIOUS
<1>1. TypeOK
  BY <1>0, BoundsAssumption DEF Init, TypeOK, Empty
<1>2. RoutedInv /\ RepliesGoHome
  BY DEF Init, RoutedInv, RepliesGoHome, Elems
<1>3. PlacesInv
  BY DEF Init, Empty, PlacesInv, PlaceOf, Rare, Free, Coming, Correlated, Returning, Settled
<1>4. OrderInv
  <2>1. InOrder(0)
    BY <1>0 DEF Init, InOrder, IdsOf
  <2> QED BY <2>1, BoundsAssumption DEF Init, OrderInv, Rising, AnsweredInOrder
<1>5. AskInv
  BY DEF Init, AskInv, CorrelationKept, Elems
<1> QED BY <1>1, <1>2, <1>3, <1>4, <1>5 DEF IndInv

LEMMA NextInv == IndInv /\ [Next]_vars => IndInv'
<1> SUFFICES ASSUME IndInv, [Next]_vars PROVE IndInv'
  OBVIOUS
<1>1. TypeOK'
  BY TypeNext DEF IndInv
<1>2. RoutedInv' /\ RepliesGoHome'
  BY RoutedNext DEF IndInv
<1>3. PlacesInv'
  BY <1>1, PlacesNext DEF IndInv
<1>4. OrderInv' /\ AskInv'
  BY <1>1, OrderNext, AskNext DEF IndInv
<1> QED BY <1>1, <1>2, <1>3, <1>4 DEF IndInv

\* The invariant that carries the others.
THEOREM Invariance == Spec => []IndInv
BY InitInv, NextInv, PTL DEF Spec

\* Every variable holds a value of its kind.
THEOREM TypeCorrect == Spec => []TypeOK
<1>1. IndInv => TypeOK
  BY DEF IndInv
<1> QED BY <1>1, Invariance, PTL

\* What a backend is told about a request of its own is what the client said
\* about that request (_server_message, _route_client_reply).
THEOREM NoCrossedReplies == Spec => []RepliesGoHome
<1>1. IndInv => RepliesGoHome
  BY DEF IndInv
<1> QED BY <1>1, Invariance, PTL

\* A backend's request is settled once, though the client's reply and its
\* cancellation may cross (_route_client_reply, _route_client_cancellation).
THEOREM NoSecondOutcome == Spec => []SettledOnce
<1>1. IndInv => SettledOnce
  BY PlacesSettleOnce DEF IndInv
<1> QED BY <1>1, Invariance, PTL

\* The client's calls are answered once each and in order, late answers and
\* timeouts notwithstanding (_route_loop).
THEOREM SerialAnswers == Spec => []AnsweredInOrder
<1>1. IndInv => AnsweredInOrder
  BY DEF IndInv, OrderInv
<1> QED BY <1>1, Invariance, PTL

\* The proxy can route every reply that the client may still send
\* (_server_requests).
THEOREM NoReplyOrphaned == Spec => []CorrelationKept
<1>1. IndInv => CorrelationKept
  BY DEF IndInv, AskInv
<1> QED BY <1>1, Invariance, PTL

=============================================================================
