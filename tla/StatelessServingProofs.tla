----------------------- MODULE StatelessServingProofs -----------------------
(***************************************************************************)
(* What holds of the proxies that know nothing of a session: the stateless  *)
(* one (StatelessServing), however many clients, backends and pooled        *)
(* connections there are, and the relays (Relays), however much is relayed. *)
(*                                                                         *)
(* An exchange has its connection to itself: HandlerInv says what a handler *)
(* and the connection it uses have in common at every point of an exchange, *)
(* SharingInv and PoolInv that nobody else can touch that connection.  A    *)
(* skewed connection holds the rest of an earlier response: nothing is      *)
(* claimed of what is read from it, and PendingInv, which holds of every    *)
(* connection, is why even its requests are not executed twice.             *)
(***************************************************************************)
EXTENDS StatelessServing, Relays, SequenceTheorems, FiniteSetTheorems, WellFoundedInduction, TLAPS

Elems(q) == {q[i] : i \in DOMAIN q}

\* The request a handler is busy with.
Current(c) == <<c, count[c]>>

\* Backend b has executed request r, or has it to execute.
Given(r, b) ==
    \/ <<r, b>> \in executed
    \/ \E s \in Sockets : socket[s] # None /\ socket[s].backend = b /\ r \in Elems(socket[s].req)

Clean(k) == k.req = <<>> /\ k.resp = <<>>

\* Nothing is outstanding on a connection that is not skewed.
Settled(k) == k.skewed \/ Clean(k)

\* The states of a connection while the answer to request r is awaited on it:
\* sent, lost, answered.
Exchanges(k, r) ==
    \/ k.req = <<r>> /\ k.resp = <<>> /\ k.peer
    \/ k.req = <<>> /\ k.resp = <<>> /\ ~k.peer
    \/ /\ k.req = <<>> /\ k.resp # <<>> /\ Head(k.resp).for = r
       /\ Head(k.resp).kind # "head" => Tail(k.resp) = <<>>

UsingInv(c) ==
    /\ using[c] # None <=> pc[c] \in {"send", "wait"}
    /\ using[c] # None => /\ socket[using[c]] # None
                          /\ socket[using[c]].backend = Head(todo[c])
                          /\ ~Pooling => owner[using[c]] = c

DoingInv(c) ==
    pc[c] \in {"take", "send", "wait"} =>
        /\ todo[c] # <<>> /\ IsInjective(todo[c])
        /\ reply[c] # None /\ (~reply[c].skewed => reply[c].for \subseteq {Current(c)})
        /\ \A b \in Elems(Tail(todo[c])) : ~Given(Current(c), b)

StageInv(c) ==
    /\ pc[c] \in {"take", "send"} => ~Given(Current(c), Head(todo[c]))
    /\ pc[c] = "send" => Settled(socket[using[c]])
    /\ pc[c] = "wait" => socket[using[c]].skewed \/ Exchanges(socket[using[c]], Current(c))
    /\ pc[c] = "respond" => reply[c] # None /\ (~reply[c].skewed => reply[c].for = {Current(c)})

HandlerInv(c) == UsingInv(c) /\ DoingInv(c) /\ StageInv(c)

SharingInv == \A c, d \in Clients : c # d /\ using[c] # None => using[c] # using[d]

SocketInv ==
    ~Pooling => \A s \in Sockets :
        socket[s] # None /\ (\A c \in Clients : using[c] # s) => Settled(socket[s])

\* The requests under way on connection s are not executed yet, and no other
\* connection to its backend has one of them.
Unserved(s) ==
    /\ IsInjective(socket[s].req)
    /\ \A r \in Elems(socket[s].req) :
          /\ r[2] <= count[r[1]] /\ <<r, socket[s].backend>> \notin executed
          /\ \A t \in Sockets \ {s} : socket[t] # None /\ socket[t].backend = socket[s].backend
                                          => r \notin Elems(socket[t].req)

PendingInv == \A s \in Sockets : socket[s] # None => Unserved(s)

IdleIn(s, b) ==
    /\ Pooling /\ socket[s] # None /\ socket[s].backend = b /\ Settled(socket[s])
    /\ \A c \in Clients : using[c] # s

PoolInv ==
    \A b \in Backends : IsInjective(pool[b]) /\ \A s \in Elems(pool[b]) : IdleIn(s, b)

ExecutionInv == ~again /\ \A e \in executed : e[1][2] <= count[e[1][1]]

IndInv ==
    /\ TypeOK
    /\ \A c \in Clients : HandlerInv(c)
    /\ SharingInv /\ SocketInv /\ PendingInv /\ PoolInv /\ ExecutionInv

-----------------------------------------------------------------------------
\* Queues.
LEMMA Shifted ==
  ASSUME NEW S, NEW q \in Seq(S), q # <<>>
  PROVE  /\ Tail(q) \in Seq(S) /\ Head(q) \in S /\ Elems(q) \subseteq S
         /\ Elems(Tail(q)) \subseteq Elems(q) /\ Head(q) \in Elems(q)
         /\ IsInjective(q) => IsInjective(Tail(q)) /\ Head(q) \notin Elems(Tail(q))
         /\ Len(q) > 1 => Tail(q) # <<>>
<1>1. /\ Tail(q) \in Seq(S) /\ Len(Tail(q)) = Len(q) - 1 /\ Len(q) \in Nat \ {0}
      /\ \A i \in 1..Len(Tail(q)) : Tail(q)[i] = q[i + 1]
      /\ Head(q) = q[1]
  BY HeadTailProperties
<1>2. DOMAIN q = 1 .. Len(q) /\ DOMAIN Tail(q) = 1 .. Len(q) - 1 /\ 1 \in DOMAIN q
  BY <1>1
<1>3. \A i \in DOMAIN Tail(q) : i + 1 \in DOMAIN q /\ i + 1 # 1 /\ Tail(q)[i] = q[i + 1] /\ i \in Nat
  BY <1>1, <1>2
<1>4. Head(q) \in S /\ Elems(q) \subseteq S
  BY <1>1, <1>2 DEF Elems
<1>5. Elems(Tail(q)) \subseteq Elems(q) /\ Head(q) \in Elems(q)
  BY <1>1, <1>2, <1>3 DEF Elems
<1>6. ASSUME IsInjective(q) PROVE IsInjective(Tail(q)) /\ Head(q) \notin Elems(Tail(q))
  <2>1. \A i, j \in DOMAIN q : q[i] = q[j] => i = j
    BY <1>6 DEF IsInjective
  <2>2. \A i, j \in DOMAIN Tail(q) : Tail(q)[i] = Tail(q)[j] => i = j
    <3>1. TAKE i, j \in DOMAIN Tail(q)
    <3>2. Tail(q)[i] = Tail(q)[j] => i + 1 = j + 1
      BY <1>3, <2>1
    <3>3. i \in Nat /\ j \in Nat
      BY <1>3
    <3> QED BY <3>2, <3>3
  <2>3. \A i \in DOMAIN Tail(q) : Tail(q)[i] # q[1]
    BY <1>2, <1>3, <2>1
  <2> QED BY <1>1, <2>2, <2>3 DEF IsInjective, Elems
<1>7. Len(q) > 1 => Tail(q) # <<>>
  <2>1. ASSUME Len(q) > 1 PROVE 1 \in DOMAIN Tail(q)
    BY <1>1, <1>2, <2>1
  <2>2. DOMAIN <<>> = {}
    OBVIOUS
  <2> QED BY <2>1, <2>2
<1> QED BY <1>1, <1>4, <1>5, <1>6, <1>7

LEMMA Popping ==
  ASSUME NEW S, NEW q \in Seq(S), q # <<>>
  PROVE  /\ Front(q) \in Seq(S) /\ Last(q) \in S /\ Last(q) \in Elems(q)
         /\ Elems(Front(q)) \subseteq Elems(q)
         /\ IsInjective(q) => IsInjective(Front(q)) /\ Last(q) \notin Elems(Front(q))
<1>1. Len(q) \in Nat \ {0} /\ DOMAIN q = 1 .. Len(q) /\ \A i \in 1 .. Len(q) : q[i] \in S
  <2>1. Len(q) \in Nat /\ DOMAIN q = 1 .. Len(q) /\ \A i \in 1 .. Len(q) : q[i] \in S
    OBVIOUS
  <2>2. Len(q) # 0
    BY EmptySeq
  <2> QED BY <2>1, <2>2
<1>2. /\ Front(q) \in Seq(S) /\ Len(Front(q)) = Len(q) - 1
      /\ \A i \in 1 .. Len(q) - 1 : Front(q)[i] = q[i]
  BY <1>1, SubSeqProperties DEF Front
<1>3. DOMAIN Front(q) = 1 .. Len(q) - 1 /\ Len(q) \notin 1 .. Len(q) - 1 /\ Len(q) \in 1 .. Len(q)
      /\ 1 .. Len(q) - 1 \subseteq 1 .. Len(q)
  BY <1>1, <1>2
<1>4. Last(q) = q[Len(q)]
  BY DEF Last
<1>5. Last(q) \in S /\ Last(q) \in Elems(q) /\ Elems(Front(q)) \subseteq Elems(q)
  BY <1>1, <1>2, <1>3, <1>4 DEF Elems
<1>6. ASSUME IsInjective(q) PROVE IsInjective(Front(q)) /\ Last(q) \notin Elems(Front(q))
  <2>1. \A i, j \in 1 .. Len(q) : q[i] = q[j] => i = j
    BY <1>1, <1>6 DEF IsInjective
  <2>2. \A i, j \in DOMAIN Front(q) : Front(q)[i] = Front(q)[j] => i = j
    BY <1>2, <1>3, <2>1
  <2>3. \A i \in DOMAIN Front(q) : Front(q)[i] # q[Len(q)]
    BY <1>2, <1>3, <2>1
  <2> QED BY <1>4, <2>2, <2>3 DEF IsInjective, Elems
<1> QED BY <1>2, <1>5, <1>6

LEMMA Joined ==
  ASSUME NEW S, NEW q \in Seq(S), NEW x \in S
  PROVE  /\ Append(q, x) \in Seq(S) /\ Elems(Append(q, x)) = Elems(q) \union {x}
         /\ IsInjective(q) /\ x \notin Elems(q) => IsInjective(Append(q, x))
<1>1. /\ Append(q, x) \in Seq(S) /\ Len(Append(q, x)) = Len(q) + 1 /\ Len(q) \in Nat
      /\ Append(q, x)[Len(q) + 1] = x /\ \A i \in 1..Len(q) : Append(q, x)[i] = q[i]
  BY AppendProperties
<1>2. /\ DOMAIN q = 1 .. Len(q) /\ DOMAIN Append(q, x) = 1 .. Len(q) + 1
      /\ \A i \in 1 .. Len(q) + 1 : i = Len(q) + 1 \/ i \in 1 .. Len(q)
      /\ Len(q) + 1 \in 1 .. Len(q) + 1 /\ 1 .. Len(q) \subseteq 1 .. Len(q) + 1
  BY <1>1
<1>3. Elems(Append(q, x)) = Elems(q) \union {x}
  BY <1>1, <1>2 DEF Elems
<1>4. ASSUME IsInjective(q), x \notin Elems(q) PROVE IsInjective(Append(q, x))
  <2>1. \A i, j \in 1 .. Len(q) : q[i] = q[j] => i = j
    BY <1>2, <1>4 DEF IsInjective
  <2>2. \A i \in 1 .. Len(q) : q[i] # x
    BY <1>2, <1>4 DEF Elems
  <2> QED BY <1>1, <1>2, <2>1, <2>2 DEF IsInjective
<1> QED BY <1>1, <1>3, <1>4

LEMMA Single ==
  ASSUME NEW S, NEW x \in S
  PROVE  /\ <<x>> \in Seq(S) /\ <<x>> # <<>> /\ Head(<<x>>) = x /\ Tail(<<x>>) = <<>> /\ Append(<<>>, x) = <<x>>
         /\ IsInjective(<<x>>) /\ <<>> \in Seq(S) /\ Elems(<<>>) = {} /\ IsInjective(<<>>)
BY DEF IsInjective, Elems

\* The order in which a request goes to all backends.
LEMMA Ordered ==
  /\ SetToSeq(Backends) \in Seq(Backends) /\ IsInjective(SetToSeq(Backends))
  /\ Backends # {} => SetToSeq(Backends) # <<>>
<1>0. IsFiniteSet(Backends)
  BY StatelessAssumption
<1>1. PICK f \in Bijection(1..Cardinality(Backends), Backends) : TRUE
  BY <1>0, FS_CardinalityType DEF ExistsBijection
<1>2. f \in [1..Cardinality(Backends) -> Backends] /\ IsInjective(f)
  BY <1>1 DEF Bijection, Injection
<1>3. SetToSeq(Backends) \in [1..Cardinality(Backends) -> Backends] /\ IsInjective(SetToSeq(Backends))
  BY <1>2 DEF SetToSeq
<1>4. Cardinality(Backends) \in Nat /\ (Backends # {} => Cardinality(Backends) # 0)
  BY <1>0, FS_CardinalityType, FS_EmptySet
<1>5. SetToSeq(Backends) \in Seq(Backends) /\ Len(SetToSeq(Backends)) = Cardinality(Backends)
  BY <1>3, <1>4
<1>6. Len(<<>>) = 0
  OBVIOUS
<1> QED BY <1>3, <1>4, <1>5, <1>6

-----------------------------------------------------------------------------
\* Connections.
LEMMA Connections ==
  ASSUME NEW k \in Connection
  PROVE  /\ k \in Connection /\ k.backend \in Backends /\ k.peer \in BOOLEAN /\ k.req \in Seq(Request)
         /\ k.resp \in Seq(Part) /\ k.skewed \in BOOLEAN
         /\ \A q \in Seq(Request) :
               /\ [k EXCEPT !.req = q] \in Connection
               /\ [k EXCEPT !.req = q].req = q /\ [k EXCEPT !.req = q].resp = k.resp
               /\ [k EXCEPT !.req = q].peer = k.peer /\ [k EXCEPT !.req = q].backend = k.backend
               /\ [k EXCEPT !.req = q].skewed = k.skewed
BY DEF Connection

LEMMA Ended ==
  ASSUME NEW k \in Connection
  PROVE  LET e == [k EXCEPT !.req = <<>>, !.peer = FALSE]
         IN  /\ e \in Connection /\ e.req = <<>> /\ e.resp = k.resp /\ e.backend = k.backend /\ ~e.peer
             /\ e.skewed = k.skewed
<1>1. <<>> \in Seq(Request)
  OBVIOUS
<1> QED BY <1>1 DEF Connection

LEMMA NewSockets ==
  ASSUME NEW b \in Backends
  PROVE  NewSocket(b) \in Connection /\ NewSocket(b).backend = b /\ Clean(NewSocket(b))
BY DEF NewSocket, Connection, Clean

\* What a backend sends for one request.
LEMMA Parts ==
  ASSUME NEW x \in Part, NEW y \in Part
  PROVE  /\ <<x>> \in Seq(Part) /\ <<x>> # <<>> /\ Head(<<x>>) = x /\ Tail(<<x>>) = <<>>
         /\ <<x, y>> \in Seq(Part) /\ <<x, y>> # <<>> /\ Head(<<x, y>>) = x
OBVIOUS

LEMMA Types ==
  ASSUME TypeOK
  PROVE  /\ count \in [Clients -> 0..MaxRequests] /\ todo \in [Clients -> Seq(Backends)]
         /\ reply \in [Clients -> Reply \cup {None}] /\ using \in [Clients -> Sockets \cup {None}]
         /\ socket \in [Sockets -> Connection \cup {None}] /\ owner \in [Sockets -> Clients \cup {None}]
         /\ pool \in [Backends -> Seq(Sockets)]
         /\ pc \in [Clients -> {"accept", "read", "take", "send", "wait", "respond", "closed"}]
BY DEF TypeOK

LEMMA Requests ==
  ASSUME TypeOK, NEW c \in Clients
  PROVE  /\ Current(c) \in Request /\ count[c] \in Nat /\ todo[c] \in Seq(Backends)
         /\ using[c] # None => using[c] \in Sockets
         /\ \A s \in Sockets : socket[s] # None => socket[s] \in Connection
         /\ reply[c] # None => reply[c] \in Reply
<1>1. count[c] \in Nat
  BY StatelessAssumption DEF TypeOK
<1> QED BY <1>1 DEF TypeOK, Current, Request

-----------------------------------------------------------------------------
\* A step after which no connection has a request under way that it had not.
Quieter ==
    /\ executed' = executed
    /\ \A c \in Clients : count'[c] \in {count[c], count[c] + 1}
    /\ \A s \in Sockets : socket'[s] # None =>
          \/ socket'[s].req = <<>>
          \/ /\ socket[s] # None
             /\ socket'[s].backend = socket[s].backend /\ socket'[s].req = socket[s].req

LEMMA UnderWay ==
  ASSUME TypeOK, NEW s \in Sockets, socket[s] # None, NEW r \in Elems(socket[s].req)
  PROVE  r \in Request /\ r[1] \in Clients /\ r[2] \in Nat /\ count[r[1]] \in Nat
<1>1. socket[s].req \in Seq(Request)
  BY Types, Connections
<1>2. r \in Request
  BY <1>1 DEF Elems
<1>3. r[1] \in Clients /\ r[2] \in Nat
  BY <1>2 DEF Request
<1> QED BY <1>2, <1>3, Requests

LEMMA Silence ==
  ASSUME TypeOK, PendingInv, Quieter
  PROVE  PendingInv' /\ \A r, b : Given(r, b)' => Given(r, b)
<1>1. ASSUME NEW s \in Sockets, socket'[s] # None, NEW r \in Elems(socket'[s].req)
      PROVE  /\ socket[s] # None /\ r \in Elems(socket[s].req)
             /\ socket'[s].backend = socket[s].backend /\ socket'[s].req = socket[s].req
  <2>1. Elems(<<>>) = {}
    BY DEF Elems
  <2> QED BY <1>1, <2>1 DEF Quieter
<1>2. ASSUME NEW s \in Sockets, socket'[s] # None PROVE Unserved(s)'
  <2>1. IsInjective(socket'[s].req)
    <3>1. CASE socket'[s].req = <<>>
      BY <3>1 DEF IsInjective
    <3>2. CASE socket'[s].req # <<>>
      BY <1>2, <3>2 DEF Quieter, PendingInv, Unserved
    <3> QED BY <3>1, <3>2
  <2>2. ASSUME NEW r \in Elems(socket'[s].req)
        PROVE  /\ r[2] <= count'[r[1]] /\ <<r, socket'[s].backend>> \notin executed'
               /\ \A t \in Sockets \ {s} : socket'[t] # None /\ socket'[t].backend = socket'[s].backend
                                               => r \notin Elems(socket'[t].req)
    <3>1. /\ socket[s] # None /\ r \in Elems(socket[s].req) /\ socket'[s].backend = socket[s].backend
      BY <1>1, <1>2
    <3>2. Unserved(s)
      BY <3>1 DEF PendingInv
    <3>3. r[1] \in Clients /\ r[2] \in Nat /\ count[r[1]] \in Nat
      BY <3>1, UnderWay
    <3>4. r[2] <= count[r[1]] /\ count'[r[1]] \in {count[r[1]], count[r[1]] + 1}
      BY <3>1, <3>2, <3>3 DEF Unserved, Quieter
    <3>5. r[2] <= count'[r[1]]
      BY <3>3, <3>4
    <3>6. <<r, socket'[s].backend>> \notin executed'
      BY <3>1, <3>2 DEF Unserved, Quieter
    <3>7. ASSUME NEW t \in Sockets \ {s}, socket'[t] # None, socket'[t].backend = socket'[s].backend,
                 r \in Elems(socket'[t].req)
          PROVE  FALSE
      <4>1. socket[t] # None /\ r \in Elems(socket[t].req) /\ socket[t].backend = socket[s].backend
        BY <1>1, <3>1, <3>7
      <4> QED BY <3>1, <3>2, <4>1 DEF Unserved
    <3> QED BY <3>5, <3>6, <3>7
  <2> QED BY <2>1, <2>2 DEF Unserved, Elems
<1>3. ASSUME NEW r, NEW b, Given(r, b)' PROVE Given(r, b)
  <2>1. CASE <<r, b>> \in executed'
    BY <2>1 DEF Quieter, Given
  <2>2. ASSUME NEW s \in Sockets, socket'[s] # None, socket'[s].backend = b, r \in Elems(socket'[s].req)
        PROVE  Given(r, b)
    BY <1>1, <2>2 DEF Given
  <2> QED BY <1>3, <2>1, <2>2 DEF Given, Elems
<1> QED BY <1>2, <1>3 DEF PendingInv

\* A request that its backend was not given is sent on one connection.
LEMMA Sent ==
  ASSUME TypeOK, PendingInv, UNCHANGED <<count, executed>>, NEW s \in Sockets, socket[s] # None,
         NEW x \in Request, x[2] <= count[x[1]], ~Given(x, socket[s].backend),
         socket'[s] # None, socket'[s].backend = socket[s].backend,
         socket'[s].req = Append(socket[s].req, x), \A t \in Sockets : t # s => socket'[t] = socket[t]
  PROVE  PendingInv' /\ \A r, b : Given(r, b)' => Given(r, b) \/ (r = x /\ b = socket[s].backend)
<1>1. socket[s].req \in Seq(Request) /\ Unserved(s)
  BY Types, Connections DEF PendingInv
<1>2. Elems(socket'[s].req) = Elems(socket[s].req) \cup {x}
  BY <1>1, Joined
<1>3. x \notin Elems(socket[s].req) /\ <<x, socket[s].backend>> \notin executed
      /\ \A t \in Sockets : socket[t] # None /\ socket[t].backend = socket[s].backend => x \notin Elems(socket[t].req)
  BY DEF Given
<1>4. IsInjective(socket'[s].req)
  BY <1>1, <1>3, Joined DEF Unserved
<1>5. ASSUME NEW t \in Sockets, socket'[t] # None PROVE Unserved(t)'
  <2>1. CASE t = s
    <3>1. ASSUME NEW r \in Elems(socket'[s].req)
          PROVE  /\ r[2] <= count'[r[1]] /\ <<r, socket'[s].backend>> \notin executed'
                 /\ \A u \in Sockets \ {s} : socket'[u] # None /\ socket'[u].backend = socket'[s].backend
                                               => r \notin Elems(socket'[u].req)
      <4>1. CASE r = x
        BY <1>3, <4>1
      <4>2. CASE r \in Elems(socket[s].req)
        BY <1>1, <4>2 DEF Unserved
      <4> QED BY <1>2, <3>1, <4>1, <4>2
    <3>2. Unserved(s)'
      BY <1>4, <3>1 DEF Unserved, Elems
    <3> QED BY <2>1, <3>2
  <2>2. CASE t # s
    <3>1. socket[t] # None /\ socket'[t] = socket[t] /\ Unserved(t)
      BY <1>5, <2>2 DEF PendingInv
    <3>2. ASSUME NEW r \in Elems(socket'[t].req), NEW u \in Sockets \ {t},
                 socket'[u] # None, socket'[u].backend = socket'[t].backend, r \in Elems(socket'[u].req)
          PROVE  FALSE
      <4>1. CASE u = s
        BY <1>2, <1>3, <3>1, <3>2, <4>1 DEF Unserved
      <4>2. CASE u # s
        BY <3>1, <3>2, <4>2 DEF Unserved
      <4> QED BY <4>1, <4>2
    <3>3. \A r \in Elems(socket'[t].req) :
            r[2] <= count'[r[1]] /\ <<r, socket'[t].backend>> \notin executed'
      BY <3>1 DEF Unserved
    <3>4. IsInjective(socket'[t].req)
      BY <3>1 DEF Unserved
    <3> QED BY <3>2, <3>3, <3>4 DEF Unserved, Elems
  <2> QED BY <2>1, <2>2
<1>6. ASSUME NEW r, NEW b, Given(r, b)' PROVE Given(r, b) \/ (r = x /\ b = socket[s].backend)
  <2>1. CASE <<r, b>> \in executed'
    BY <2>1 DEF Given
  <2>2. ASSUME NEW t \in Sockets, socket'[t] # None, socket'[t].backend = b, r \in Elems(socket'[t].req)
        PROVE  Given(r, b) \/ (r = x /\ b = socket[s].backend)
    <3>1. CASE t = s
      BY <1>2, <2>2, <3>1 DEF Given
    <3>2. CASE t # s
      BY <2>2, <3>2 DEF Given
    <3> QED BY <3>1, <3>2
  <2> QED BY <1>6, <2>1, <2>2 DEF Given, Elems
<1> QED BY <1>5, <1>6 DEF PendingInv

\* A backend executes the first request under way on a connection.
LEMMA Served ==
  ASSUME TypeOK, PendingInv, count' = count, NEW s \in Sockets, socket[s] # None, socket[s].req # <<>>,
         executed' = executed \cup {<<Head(socket[s].req), socket[s].backend>>},
         socket'[s] # None, socket'[s].backend = socket[s].backend,
         socket'[s].req = Tail(socket[s].req) \/ socket'[s].req = <<>>,
         \A t \in Sockets : t # s => socket'[t] = socket[t]
  PROVE  PendingInv' /\ \A r, b : Given(r, b)' => Given(r, b)
<1> DEFINE x == Head(socket[s].req)
           o == socket[s].backend
<1>1. socket[s].req \in Seq(Request) /\ Unserved(s)
  BY Types, Connections DEF PendingInv
<1>2. /\ x \in Elems(socket[s].req) /\ IsInjective(Tail(socket[s].req))
      /\ Elems(Tail(socket[s].req)) \subseteq Elems(socket[s].req) \ {x}
  BY <1>1, Shifted DEF Unserved
<1> HIDE DEF x, o
<1>3. Elems(socket'[s].req) \subseteq Elems(socket[s].req) \ {x} /\ IsInjective(socket'[s].req)
  <2>1. Elems(<<>>) = {} /\ IsInjective(<<>>)
    BY DEF Elems, IsInjective
  <2> QED BY <1>2, <2>1
<1>4. executed' = executed \cup {<<x, o>>} /\ o = socket[s].backend /\ socket'[s].backend = o
  BY DEF x, o
<1>5. ASSUME NEW t \in Sockets, socket'[t] # None PROVE Unserved(t)'
  <2>1. /\ socket[t] # None /\ Unserved(t) /\ socket'[t].backend = socket[t].backend
        /\ Elems(socket'[t].req) \subseteq Elems(socket[t].req) /\ IsInjective(socket'[t].req)
    BY <1>3, <1>4, <1>5 DEF PendingInv, Unserved
  <2>2. ASSUME NEW r \in Elems(socket'[t].req) PROVE r # x \/ socket[t].backend # o
    <3>1. CASE t = s
      BY <1>3, <2>2, <3>1
    <3>2. CASE t # s
      BY <1>1, <1>2, <1>4, <2>1, <2>2, <3>2 DEF Unserved
    <3> QED BY <3>1, <3>2
  <2>3. ASSUME NEW r \in Elems(socket'[t].req)
        PROVE  r[2] <= count[r[1]] /\ <<r, socket'[t].backend>> \notin executed'
    BY <1>4, <2>1, <2>2, <2>3 DEF Unserved
  <2>4. ASSUME NEW r \in Elems(socket'[t].req), NEW u \in Sockets \ {t}, socket'[u] # None,
               socket'[u].backend = socket'[t].backend, r \in Elems(socket'[u].req)
        PROVE  FALSE
    <3>1. socket[u] # None /\ socket[u].backend = socket'[u].backend /\ r \in Elems(socket[u].req)
      BY <1>3, <1>4, <2>4
    <3> QED BY <2>1, <2>4, <3>1 DEF Unserved
  <2> QED BY <2>1, <2>3, <2>4 DEF Unserved, Elems
<1>6. ASSUME NEW r, NEW b, Given(r, b)' PROVE Given(r, b)
  <2>1. CASE <<r, b>> \in executed'
    <3>1. CASE <<r, b>> \in executed
      BY <3>1 DEF Given
    <3>2. CASE r = x /\ b = o
      BY <1>2, <1>4, <3>2 DEF Given
    <3> QED BY <1>4, <2>1, <3>1, <3>2
  <2>2. ASSUME NEW t \in Sockets, socket'[t] # None, socket'[t].backend = b, r \in Elems(socket'[t].req)
        PROVE  Given(r, b)
    BY <1>3, <1>4, <2>2 DEF Given
  <2> QED BY <1>6, <2>1, <2>2 DEF Given, Elems
<1> QED BY <1>5, <1>6 DEF PendingInv

\* A request that has not been read was given to no backend.
LEMMA Unheard ==
  ASSUME IndInv, NEW c \in Clients, NEW b
  PROVE  ~Given(<<c, count[c] + 1>>, b)
<1> DEFINE r == <<c, count[c] + 1>>
<1>0. TypeOK /\ count[c] \in Nat /\ r[1] = c /\ r[2] = count[c] + 1
  BY Requests DEF IndInv
<1> HIDE DEF r
<1>1. ASSUME <<r, b>> \in executed PROVE FALSE
  <2> DEFINE e == <<r, b>>
  <2>1. e[1] = r /\ e \in executed
    BY <1>1
  <2> HIDE DEF e
  <2>2. r[2] <= count[r[1]]
    BY <2>1 DEF IndInv, ExecutionInv
  <2> QED BY <1>0, <2>2
<1>2. ASSUME NEW s \in Sockets, socket[s] # None, r \in Elems(socket[s].req) PROVE FALSE
  <2>1. r[2] <= count[r[1]]
    BY <1>2 DEF IndInv, PendingInv, Unserved
  <2> QED BY <1>0, <2>1
<1> QED BY <1>1, <1>2 DEF Given, r

-----------------------------------------------------------------------------
\* A step of one handler leaves what the others do alone.
Frame(c) ==
    /\ UNCHANGED <<mode, executed, again>>
    /\ count'[c] \in {count[c], count[c] + 1}
    /\ \A d \in Clients \ {c} : /\ pc'[d] = pc[d] /\ count'[d] = count[d] /\ todo'[d] = todo[d]
                                /\ using'[d] = using[d] /\ reply'[d] = reply[d]

\* A step after which only the current request of one handler is given anew.
Enters(c) == PendingInv' /\ \A r, b : Given(r, b)' => Given(r, b) \/ r = Current(c)

LEMMA Unaffected ==
  ASSUME NEW d \in Clients, HandlerInv(d), mode' = mode,
         pc'[d] = pc[d], count'[d] = count[d], todo'[d] = todo[d], using'[d] = using[d], reply'[d] = reply[d],
         using[d] # None => socket'[using[d]] = socket[using[d]] /\ owner'[using[d]] = owner[using[d]],
         \A b : Given(Current(d), b)' => Given(Current(d), b)
  PROVE  HandlerInv(d)'
<1>1. Current(d)' = Current(d)
  BY DEF Current
<1>2. UsingInv(d)'
  BY DEF HandlerInv, UsingInv, Pooling
<1>3. DoingInv(d)'
  BY <1>1 DEF HandlerInv, DoingInv
<1>5. pc[d] \in {"send", "wait"} => socket'[using'[d]] = socket[using[d]]
  BY DEF HandlerInv, UsingInv
<1>6. StageInv(d)'
  BY <1>1, <1>5 DEF HandlerInv, StageInv
<1> QED BY <1>2, <1>3, <1>6 DEF HandlerInv

LEMMA HandlerStep ==
  ASSUME IndInv, TypeOK', NEW c \in Clients, Frame(c), HandlerInv(c)', PoolInv',
         \A s \in Sockets : \/ socket'[s] = socket[s] /\ owner'[s] = owner[s]
                           \/ \A d \in Clients : d # c => using[d] # s,
         using'[c] = None \/ \A d \in Clients : d # c => using[d] # using'[c],
         Quieter \/ Enters(c),
         ~Pooling => \A s \in Sockets :
            socket'[s] # None /\ using'[c] # s /\ (socket'[s] # socket[s] \/ using[c] = s) => Settled(socket'[s])
  PROVE  IndInv'
<1>a. PendingInv' /\ \A r, b : Given(r, b)' => Given(r, b) \/ r = Current(c)
  BY Silence DEF IndInv, Enters
<1>0. /\ \A d \in Clients : using[d] # None => using[d] \in Sockets
      /\ \A d \in Clients : count[d] \in Nat
  BY Requests DEF IndInv
<1>1. ASSUME NEW d \in Clients PROVE HandlerInv(d)'
  <2>1. CASE d = c
    BY <2>1
  <2>2. CASE d # c
    <3>1. using[d] # None => socket'[using[d]] = socket[using[d]] /\ owner'[using[d]] = owner[using[d]]
      BY <1>0, <2>2
    <3>2. /\ mode' = mode /\ executed' = executed
          /\ pc'[d] = pc[d] /\ count'[d] = count[d] /\ todo'[d] = todo[d] /\ using'[d] = using[d] /\ reply'[d] = reply[d]
      BY <2>2 DEF Frame
    <3>3. \A b : Given(Current(d), b)' => Given(Current(d), b)
      <4>1. Current(d)' = Current(d) /\ Current(d) # Current(c)
        BY <2>2, <3>2 DEF Current
      <4> QED BY <1>a, <4>1
    <3> QED BY <3>1, <3>2, <3>3, Unaffected DEF IndInv
  <2> QED BY <2>1, <2>2
<1>2. SharingInv'
  <2>1. \A d \in Clients : d # c => using'[d] = using[d]
    BY DEF Frame
  <2> QED BY <2>1 DEF IndInv, SharingInv
<1>3. SocketInv'
  <2>1. ASSUME ~Pooling, NEW s \in Sockets, socket'[s] # None, \A d \in Clients : using'[d] # s
        PROVE  Settled(socket'[s])
    <3>1. CASE socket'[s] # socket[s] \/ using[c] = s
      BY <2>1, <3>1
    <3>2. CASE socket'[s] = socket[s] /\ using[c] # s
      <4>1. \A d \in Clients : using[d] # s
        BY <2>1, <3>2 DEF Frame
      <4> QED BY <2>1, <3>2, <4>1 DEF IndInv, SocketInv
    <3> QED BY <3>1, <3>2
  <2>2. Pooling' <=> Pooling
    BY DEF Pooling, Frame
  <2> QED BY <2>1, <2>2 DEF SocketInv, Settled, Clean
<1>4. ExecutionInv'
  <2>1. ASSUME NEW e \in executed' PROVE e[1][2] <= count'[e[1][1]]
    <3>1. e \in executed /\ e[1][1] \in Clients /\ e[1][2] \in Nat /\ e[1][2] <= count[e[1][1]]
      BY <2>1 DEF Frame, IndInv, ExecutionInv, TypeOK, Request
    <3>2. count'[e[1][1]] \in {count[e[1][1]], count[e[1][1]] + 1}
      BY <3>1 DEF Frame
    <3> QED BY <1>0, <3>1, <3>2
  <2>2. ~again'
    BY DEF Frame, IndInv, ExecutionInv
  <2> QED BY <2>1, <2>2 DEF ExecutionInv
<1> QED BY <1>a, <1>1, <1>2, <1>3, <1>4 DEF IndInv

\* The pools stay as they are when their connections do and nobody takes one.
LEMMA PoolKept ==
  ASSUME IndInv, NEW c \in Clients, Frame(c), pool' = pool,
         \A b \in Backends : \A s \in Elems(pool[b]) : socket'[s] = socket[s] /\ using'[c] # s
  PROVE  PoolInv'
<1>1. ASSUME NEW b \in Backends, NEW s \in Elems(pool[b]) PROVE IdleIn(s, b)'
  <2>1. IdleIn(s, b)
    BY DEF IndInv, PoolInv
  <2> QED BY <2>1 DEF IdleIn, Frame, Pooling, Settled, Clean
<1> QED BY <1>1 DEF IndInv, PoolInv, Elems

\* A step of a handler that sends nothing.
LEMMA Keeping ==
  ASSUME IndInv, NEW c \in Clients, Frame(c),
         \A s \in Sockets : socket'[s] # None => socket'[s] = socket[s] \/ socket'[s].req = <<>>
  PROVE  Quieter
BY DEF Frame, Quieter

-----------------------------------------------------------------------------
\* The ends of an exchange: the connection to the client is closed, or an
\* answer is there to be written.
LEMMA OwnedSockets ==
  ASSUME IndInv, NEW c \in Clients, NEW d \in Clients, d # c, ~Pooling, NEW s \in Owned(c)
  PROVE  using[d] # s
<1>1. owner[s] = c /\ s \in Sockets
  BY DEF Owned
<1>2. s # None
  BY <1>1, StatelessAssumption
<1>3. using[d] = s => owner[s] = d
  BY <1>2 DEF IndInv, HandlerInv, UsingInv
<1> QED BY <1>1, <1>3

LEMMA Closing ==
  ASSUME IndInv, NEW c \in Clients, Frame(c), Close(c), using' = [using EXCEPT ![c] = None],
         UNCHANGED <<owner, pool>>, Pooling => using[c] = None,
         count' \in [Clients -> 0..MaxRequests], todo' \in [Clients -> Seq(Backends)],
         reply' \in [Clients -> Reply \cup {None}]
  PROVE  IndInv'
<1>0. TypeOK
  BY DEF IndInv
<1>1. pc'[c] = "closed" /\ using'[c] = None
  BY <1>0 DEF Close, TypeOK
<1>2. CASE Pooling
  <2>1. socket' = socket
    BY <1>2 DEF Close
  <2>2. TypeOK'
    BY <1>0, <2>1 DEF TypeOK, Close, Frame
  <2>3. HandlerInv(c)'
    BY <1>1 DEF HandlerInv, UsingInv, DoingInv, StageInv
  <2>4. \A b \in Backends : \A s \in Elems(pool[b]) : s # None
    BY <1>0, StatelessAssumption DEF TypeOK, Elems
  <2>5. PoolInv'
    BY <1>1, <2>1, <2>4, PoolKept
  <2>6. Quieter
    BY <2>1, Keeping
  <2> QED BY <1>1, <1>2, <2>1, <2>2, <2>3, <2>5, <2>6, HandlerStep
<1>3. CASE ~Pooling
  <2>1. socket' = [s \in Sockets |-> IF s \in Owned(c) THEN None ELSE socket[s]]
    BY <1>3 DEF Close
  <2>2. TypeOK'
    BY <1>0, <2>1 DEF TypeOK, Close, Frame
  <2>3. HandlerInv(c)'
    BY <1>1 DEF HandlerInv, UsingInv, DoingInv, StageInv
  <2>4. \A b \in Backends : Elems(pool[b]) = {}
    BY <1>3 DEF IndInv, PoolInv, IdleIn
  <2>5. PoolInv'
    BY <2>4, PoolKept
  <2>6. \A s \in Sockets : using[c] = s => s \in Owned(c)
    BY <1>3, StatelessAssumption DEF IndInv, HandlerInv, UsingInv, Owned
  <2>7. \A s \in Sockets : \/ socket'[s] = socket[s] /\ owner'[s] = owner[s]
                          \/ \A d \in Clients : d # c => using[d] # s
    BY <1>3, <2>1, OwnedSockets
  <2>8. \A s \in Sockets : socket'[s] # None => socket'[s] = socket[s] /\ using[c] # s
    BY <2>1, <2>6
  <2>9. Quieter
    BY <2>8, Keeping
  <2> QED BY <1>1, <2>2, <2>3, <2>5, <2>7, <2>8, <2>9, HandlerStep
<1> QED BY <1>2, <1>3

LEMMA Replying ==
  ASSUME IndInv, NEW c \in Clients, Frame(c), pc' = [pc EXCEPT ![c] = "respond"],
         using' = [using EXCEPT ![c] = None], UNCHANGED <<socket, owner, pool>>,
         using[c] = None \/ Pooling,
         count' \in [Clients -> 0..MaxRequests], todo' \in [Clients -> Seq(Backends)],
         reply' \in [Clients -> Reply \cup {None}], reply'[c] # None, reply'[c].for = {<<c, count'[c]>>}
  PROVE  IndInv'
<1>0. TypeOK
  BY DEF IndInv
<1>1. pc'[c] = "respond" /\ using'[c] = None
  BY <1>0 DEF TypeOK
<1>2. TypeOK'
  BY <1>0 DEF TypeOK, Frame
<1>3. HandlerInv(c)'
  BY <1>1 DEF HandlerInv, UsingInv, DoingInv, StageInv, Current
<1>4. \A b \in Backends : \A s \in Elems(pool[b]) : s # None
  BY <1>0, StatelessAssumption DEF TypeOK, Elems
<1>5. PoolInv'
  BY <1>1, <1>4, PoolKept
<1>6. \A s \in Sockets : using[c] = s => Pooling
  BY StatelessAssumption
<1>7. Quieter
  BY Keeping
<1> QED BY <1>1, <1>2, <1>3, <1>5, <1>6, <1>7, HandlerStep

LEMMA Failing ==
  ASSUME IndInv, NEW c \in Clients, Fail(c), UNCHANGED <<mode, count, todo, owner, pool, executed, again>>
  PROVE  IndInv'
<1>0. TypeOK
  BY DEF IndInv
<1>1. using' = [using EXCEPT ![c] = None]
  BY DEF Fail
<1>2. /\ count \in [Clients -> 0..MaxRequests] /\ todo \in [Clients -> Seq(Backends)]
      /\ reply \in [Clients -> Reply \cup {None}] /\ Current(c) \in Request
  BY <1>0, Requests DEF TypeOK
<1>3. CASE Pooling
  <2>1. /\ reply' = [reply EXCEPT ![c] = [for |-> {Current(c)}, kind |-> "error", skewed |-> FALSE]]
        /\ pc' = [pc EXCEPT ![c] = "respond"] /\ socket' = socket
    BY <1>3 DEF Fail, Answer, Current
  <2>2. [for |-> {Current(c)}, kind |-> "error", skewed |-> FALSE] \in Reply
    BY <1>2 DEF Reply
  <2>3. reply' \in [Clients -> Reply \cup {None}] /\ reply'[c] = [for |-> {Current(c)}, kind |-> "error", skewed |-> FALSE]
    BY <1>2, <2>1, <2>2
  <2>4. reply'[c] # None
    BY <2>2, <2>3, StatelessAssumption
  <2>5. reply'[c].for = {<<c, count'[c]>>}
    BY <2>3 DEF Current
  <2>6. Frame(c)
    BY <1>0, <2>1, <1>1 DEF Frame, TypeOK
  <2> QED BY <1>1, <1>2, <1>3, <2>1, <2>3, <2>4, <2>5, <2>6, Replying
<1>4. CASE ~Pooling
  <2>1. Close(c) /\ reply' = reply
    BY <1>4 DEF Fail
  <2>2. Frame(c)
    BY <1>0, <2>1, <1>1 DEF Frame, TypeOK, Close
  <2> QED BY <1>1, <1>2, <1>4, <2>1, <2>2, Closing
<1> QED BY <1>3, <1>4

-----------------------------------------------------------------------------
\* The steps of a handler.
LEMMA AcceptStep ==
  ASSUME IndInv, NEW c \in Clients, Accept(c)
  PROVE  IndInv'
<1>0. TypeOK /\ pc[c] = "accept" /\ UNCHANGED <<mode, count, todo, using, reply, pool, executed, again>>
  BY DEF IndInv, Accept
<1>1. using[c] = None
  BY <1>0 DEF IndInv, HandlerInv, UsingInv
<1>2. using' = [using EXCEPT ![c] = None]
  BY <1>0, <1>1, Types
<1>3. CASE Close(c) /\ UNCHANGED owner
  <2>1. Frame(c)
    BY <1>0, <1>3, Types DEF Frame, Close
  <2> QED BY <1>0, <1>1, <1>2, <1>3, <2>1, Types, Closing
<1>4. ASSUME NEW chosen \in [Backends -> FreeSockets],
             socket' = [s \in Sockets |-> IF s \in {chosen[b] : b \in Backends}
                                          THEN NewSocket(CHOOSE b \in Backends : chosen[b] = s) ELSE socket[s]],
             owner' = [s \in Sockets |-> IF s \in {chosen[b] : b \in Backends} THEN c ELSE owner[s]],
             pc' = [pc EXCEPT ![c] = "read"]
      PROVE  IndInv'
  <2> DEFINE opened == {chosen[b] : b \in Backends}
  <2>1. ASSUME NEW s \in opened
        PROVE  /\ s \in Sockets /\ socket[s] = None
               /\ socket'[s] \in Connection /\ Clean(socket'[s])
    <3>1. s \in Sockets /\ socket[s] = None
      BY <2>1 DEF FreeSockets
    <3>2. \E b \in Backends : socket'[s] = NewSocket(b)
      BY <1>4, <2>1, <3>1
    <3> QED BY <3>1, <3>2, NewSockets
  <2>2. \A s \in Sockets : s \notin opened => socket'[s] = socket[s] /\ owner'[s] = owner[s]
    BY <1>4
  <2>3. \A s \in Sockets : socket'[s] \in Connection \cup {None} /\ owner'[s] \in Clients \cup {None}
    BY <1>0, <1>4, <2>1, <2>2, Types
  <2>4. socket' \in [Sockets -> Connection \cup {None}] /\ owner' \in [Sockets -> Clients \cup {None}]
    BY <1>4, <2>3
  <2> HIDE DEF opened
  <2>5. TypeOK'
    BY <1>0, <1>4, <2>4 DEF TypeOK
  <2>6. Frame(c) /\ pc'[c] = "read" /\ using'[c] = None
    BY <1>0, <1>1, <1>4, Types DEF Frame
  <2>7. HandlerInv(c)'
    BY <2>6 DEF HandlerInv, UsingInv, DoingInv, StageInv
  <2>8. \A s \in opened : \A d \in Clients : using[d] # s
    BY <2>1, StatelessAssumption DEF IndInv, HandlerInv, UsingInv
  <2>9. ASSUME NEW b \in Backends, NEW s \in Elems(pool[b]) PROVE socket'[s] = socket[s] /\ using'[c] # s
    <3>1. s \in Sockets /\ socket[s] # None
      BY <1>0, Types DEF IndInv, PoolInv, IdleIn, Elems
    <3> QED BY <2>1, <2>2, <2>6, <3>1, StatelessAssumption
  <2>10. PoolInv'
    BY <1>0, <2>6, <2>9, PoolKept
  <2>11. \A s \in Sockets : socket'[s] # socket[s] \/ using[c] = s => s \in opened
    BY <1>1, <2>2, StatelessAssumption
  <2>12. \A s \in Sockets : socket'[s] # socket[s] \/ using[c] = s => Settled(socket'[s])
    BY <2>1, <2>11 DEF Settled
  <2>13. Quieter
    BY <2>1, <2>2, <2>6, Keeping DEF Clean
  <2> QED BY <2>2, <2>5, <2>6, <2>7, <2>8, <2>10, <2>12, <2>13, HandlerStep
<1> QED BY <1>3, <1>4 DEF Accept

LEMMA ReadStep ==
  ASSUME IndInv, NEW c \in Clients, Read(c)
  PROVE  IndInv'
<1>0. TypeOK /\ pc[c] = "read" /\ UNCHANGED <<mode, using, owner, pool, executed, again>>
  BY DEF IndInv, Read
<1>1. using[c] = None
  BY <1>0 DEF IndInv, HandlerInv, UsingInv
<1>2. using' = [using EXCEPT ![c] = None]
  BY <1>0, <1>1, Types
<1>3. CASE Close(c) /\ UNCHANGED <<count, todo, reply>>
  <2>1. Frame(c)
    BY <1>0, <1>3, Types DEF Frame, Close
  <2> QED BY <1>0, <1>1, <1>2, <1>3, <2>1, Types, Closing
<1>4. ASSUME NEW kind \in Kinds, NEW b \in Backends, count[c] < MaxRequests, count' = [count EXCEPT ![c] = @ + 1],
             IF kind \in Exchanged
             THEN /\ pc' = [pc EXCEPT ![c] = "take"]
                  /\ todo' = [todo EXCEPT ![c] = IF kind = "call" THEN <<b>> ELSE SetToSeq(Backends)]
                  /\ reply' = [reply EXCEPT ![c] = [for |-> {}, kind |-> "result", skewed |-> FALSE]]
                  /\ UNCHANGED socket
             ELSE IF kind \in Refused
             THEN Answer(c, {<<c, count[c] + 1>>}, "error", FALSE) /\ UNCHANGED <<socket, todo>>
             ELSE Close(c) /\ UNCHANGED <<reply, todo>>
      PROVE  IndInv'
  <2>1. count[c] \in 0..MaxRequests /\ MaxRequests \in Nat
    BY <1>0, Types, StatelessAssumption
  <2>2. count[c] + 1 \in 0..MaxRequests
    BY <1>4, <2>1
  <2>3. count' \in [Clients -> 0..MaxRequests] /\ count'[c] = count[c] + 1
        /\ \A d \in Clients \ {c} : count'[d] = count[d]
    BY <1>0, <1>4, <2>2, Types
  <2>4. CASE Close(c) /\ UNCHANGED <<reply, todo>>
    <3>1. Frame(c)
      BY <1>0, <2>3, <2>4, Types DEF Frame, Close
    <3> QED BY <1>0, <1>1, <1>2, <2>3, <2>4, <3>1, Types, Closing
  <2>5. CASE Answer(c, {<<c, count[c] + 1>>}, "error", FALSE) /\ UNCHANGED <<socket, todo>>
    <3> DEFINE r == [for |-> {<<c, count'[c]>>}, kind |-> "error", skewed |-> FALSE]
    <3>1. reply' = [reply EXCEPT ![c] = r] /\ pc' = [pc EXCEPT ![c] = "respond"] /\ UNCHANGED <<socket, todo>>
      BY <2>3, <2>5 DEF Answer
    <3>2. r \in Reply /\ r.for = {<<c, count'[c]>>}
      <4>1. count'[c] \in Nat
        BY <2>1, <2>2, <2>3
      <4> QED BY <4>1 DEF Reply, Request
    <3> HIDE DEF r
    <3>3. reply' \in [Clients -> Reply \cup {None}] /\ reply'[c] = r /\ r # None
      BY <1>0, <3>1, <3>2, Types, StatelessAssumption
    <3>4. Frame(c)
      BY <1>0, <2>3, <3>1, Types DEF Frame
    <3> QED BY <1>0, <1>1, <1>2, <2>3, <3>1, <3>2, <3>3, <3>4, Types, Replying
  <2>6. CASE /\ pc' = [pc EXCEPT ![c] = "take"]
             /\ todo' = [todo EXCEPT ![c] = IF kind = "call" THEN <<b>> ELSE SetToSeq(Backends)]
             /\ reply' = [reply EXCEPT ![c] = [for |-> {}, kind |-> "result", skewed |-> FALSE]]
             /\ UNCHANGED socket
    <3> DEFINE q == IF kind = "call" THEN <<b>> ELSE SetToSeq(Backends)
               r == [for |-> {}, kind |-> "result", skewed |-> FALSE]
    <3>1. q \in Seq(Backends) /\ q # <<>> /\ IsInjective(q)
      BY Ordered, Single
    <3>2. r \in Reply /\ r.for = {}
      BY DEF Reply
    <3>3. todo' = [todo EXCEPT ![c] = q] /\ reply' = [reply EXCEPT ![c] = r]
      BY <2>6
    <3> HIDE DEF q, r
    <3>4. /\ todo' \in [Clients -> Seq(Backends)] /\ reply' \in [Clients -> Reply \cup {None}]
          /\ todo'[c] = q /\ reply'[c] = r /\ r # None /\ pc'[c] = "take" /\ using'[c] = None
      <4>1. todo' \in [Clients -> Seq(Backends)] /\ todo'[c] = q
        BY <1>0, <3>1, <3>3, Types
      <4>2. reply' \in [Clients -> Reply \cup {None}] /\ reply'[c] = r /\ r # None
        BY <1>0, <3>2, <3>3, Types, StatelessAssumption
      <4>3. pc'[c] = "take" /\ using'[c] = None
        BY <1>0, <1>1, <2>6, Types
      <4> QED BY <4>1, <4>2, <4>3
    <3>5. TypeOK'
      BY <1>0, <2>3, <2>6, <3>4 DEF TypeOK
    <3>6. Frame(c)
      BY <1>0, <2>3, <2>6, <3>3, Types DEF Frame
    <3>12. Quieter
      BY <2>6, <3>6, Keeping
    <3>7. \A o : ~Given(Current(c), o)'
      <4>1. Current(c)' = <<c, count[c] + 1>>
        BY <2>3 DEF Current
      <4>2. ASSUME NEW x, x = Current(c)', NEW o PROVE ~Given(x, o)'
        <5>1. ~Given(x, o)
          BY <4>1, <4>2, Unheard
        <5>2. Given(x, o)' => Given(x, o)
          BY <1>0, <3>12, Silence DEF IndInv
        <5> QED BY <5>1, <5>2
      <4> QED BY <4>2
    <3>8. HandlerInv(c)'
      BY <3>1, <3>2, <3>4, <3>7 DEF HandlerInv, UsingInv, DoingInv, StageInv
    <3>9. \A o \in Backends : \A s \in Elems(pool[o]) : s # None
      BY <1>0, Types, StatelessAssumption DEF Elems
    <3>10. PoolInv'
      BY <1>0, <2>6, <3>4, <3>6, <3>9, PoolKept
    <3>11. \A s \in Sockets : using[c] # s
      BY <1>1, StatelessAssumption
    <3> QED BY <1>0, <2>6, <3>4, <3>5, <3>6, <3>8, <3>10, <3>11, <3>12, HandlerStep
  <2> QED BY <1>4, <2>4, <2>5, <2>6
<1> QED BY <1>3, <1>4 DEF Read

\* A handler gets a connection to itself: a pooled, a new, or one of its own.
LEMMA Choosing ==
  ASSUME IndInv, NEW c \in Clients, pc[c] = "take", NEW s \in Sockets,
         pc' = [pc EXCEPT ![c] = "send"], using' = [using EXCEPT ![c] = s],
         UNCHANGED <<mode, count, todo, reply, owner, executed, again>>,
         socket' \in [Sockets -> Connection \cup {None}], pool' \in [Backends -> Seq(Sockets)],
         \A t \in Sockets : t # s => socket'[t] = socket[t],
         socket'[s] # None, socket'[s].backend = Head(todo[c]), Settled(socket'[s]), ~Pooling => owner[s] = c,
         socket'[s] = socket[s] \/ socket'[s].req = <<>>,
         \A d \in Clients : using[d] # s, PoolInv'
  PROVE  IndInv'
<1>0. TypeOK
  BY DEF IndInv
<1>1. pc'[c] = "send" /\ using'[c] = s /\ s # None /\ using[c] = None
  <2>1. using[c] = None
    BY DEF IndInv, HandlerInv, UsingInv
  <2> QED BY <1>0, <2>1, Types, StatelessAssumption
<1>2. TypeOK'
  BY <1>0 DEF TypeOK
<1>3. Frame(c)
  BY <1>0, Types DEF Frame
<1>4. Current(c)' = Current(c) /\ Pooling' = Pooling
  BY DEF Current, Pooling
<1>10. Quieter
  BY <1>3, Keeping
<1>11. \A r, b : Given(r, b)' => Given(r, b)
  BY <1>0, <1>10, Silence DEF IndInv
<1>5. UsingInv(c)'
  BY <1>1, <1>4 DEF UsingInv, Pooling
<1>6. DoingInv(c)' /\ StageInv(c)'
  BY <1>1, <1>4, <1>11 DEF IndInv, HandlerInv, DoingInv, StageInv
<1>7. HandlerInv(c)'
  BY <1>5, <1>6 DEF HandlerInv
<1>8. \A t \in Sockets : using[c] # t
  BY <1>1, StatelessAssumption
<1>9. \A t \in Sockets : \/ socket'[t] = socket[t] /\ owner'[t] = owner[t]
                        \/ \A d \in Clients : d # c => using[d] # t
  OBVIOUS
<1> QED BY <1>1, <1>2, <1>3, <1>7, <1>8, <1>9, <1>10, HandlerStep

LEMMA TakeStep ==
  ASSUME IndInv, NEW c \in Clients, Take(c)
  PROVE  IndInv'
<1> DEFINE b == Head(todo[c])
<1>0. TypeOK /\ pc[c] = "take" /\ UNCHANGED <<mode, count, todo, owner, executed, again>>
  BY DEF IndInv, Take
<1>1. b \in Backends /\ using[c] = None
  BY <1>0, Requests, Shifted DEF IndInv, HandlerInv, UsingInv, DoingInv
<1>2. pool[b] \in Seq(Sockets) /\ Elems(pool[b]) \subseteq Sockets /\ IsInjective(pool[b])
      /\ \A o \in Backends : \A t \in Elems(pool[o]) : IdleIn(t, o) /\ t \in Sockets
  BY <1>0, <1>1, Types DEF IndInv, PoolInv, Elems
<1>3. CASE /\ Pooling /\ pool[b] # <<>> /\ using' = [using EXCEPT ![c] = Last(pool[b])] /\ pool' = Popped(b)
           /\ pc' = [pc EXCEPT ![c] = "send"] /\ UNCHANGED <<socket, reply>>
  <2> DEFINE s == Last(pool[b])
             q == Front(pool[b])
  <2>1. s \in Sockets /\ IdleIn(s, b) /\ q \in Seq(Sockets) /\ IsInjective(q)
        /\ Elems(q) \subseteq Elems(pool[b]) /\ s \notin Elems(q)
    BY <1>1, <1>2, <1>3, Popping
  <2>2. pool' = [pool EXCEPT ![b] = q]
    BY <1>3 DEF Popped
  <2>3. pool' \in [Backends -> Seq(Sockets)] /\ pool'[b] = q /\ \A o \in Backends : o # b => pool'[o] = pool[o]
    BY <1>0, <1>1, <2>1, <2>2, Types
  <2>4. using'[c] = s /\ \A d \in Clients : d # c => using'[d] = using[d]
    BY <1>0, <1>3, Types
  <2>5. ASSUME NEW o \in Backends, NEW t \in Elems(pool'[o]) PROVE IdleIn(t, o)' /\ t # s
    <3>1. t \in Elems(pool[o]) /\ t # s
      <4>1. CASE o = b
        BY <2>1, <2>3, <2>5, <4>1
      <4>2. CASE o # b
        <5>1. IdleIn(t, o)
          BY <1>2, <2>3, <2>5, <4>2
        <5> QED BY <2>1, <2>3, <2>5, <4>2, <5>1 DEF IdleIn
      <4> QED BY <4>1, <4>2
    <3>2. IdleIn(t, o)
      BY <1>2, <3>1
    <3> QED BY <1>0, <1>3, <2>4, <3>1, <3>2 DEF IdleIn, Pooling, Settled, Clean
  <2>6. \A o \in Backends : IsInjective(pool'[o])
    BY <2>1, <2>3 DEF IndInv, PoolInv
  <2>7. PoolInv'
    BY <2>5, <2>6 DEF PoolInv, Elems
  <2>8. /\ socket[s] # None /\ socket[s].backend = b /\ Settled(socket[s]) /\ Pooling
        /\ \A d \in Clients : using[d] # s
    BY <2>1 DEF IdleIn
  <2>9. socket' \in [Sockets -> Connection \cup {None}] /\ socket' = socket
    BY <1>0, <1>3, Types
  <2> HIDE DEF s, q
  <2> QED BY <1>0, <1>3, <2>1, <2>3, <2>7, <2>8, <2>9, Choosing DEF s
<1>4. ASSUME Pooling, pool[b] = <<>>, NEW s \in FreeSockets, socket' = [socket EXCEPT ![s] = NewSocket(b)],
             using' = [using EXCEPT ![c] = s], pc' = [pc EXCEPT ![c] = "send"], UNCHANGED <<pool, reply>>
      PROVE  IndInv'
  <2>1. s \in Sockets /\ socket[s] = None
    BY DEF FreeSockets
  <2>2. /\ socket' \in [Sockets -> Connection \cup {None}] /\ socket'[s] = NewSocket(b)
        /\ \A t \in Sockets : t # s => socket'[t] = socket[t]
    BY <1>0, <1>1, <1>4, <2>1, NewSockets, Types
  <2>3. NewSocket(b).backend = b /\ Settled(NewSocket(b)) /\ NewSocket(b).req = <<>> /\ NewSocket(b) # None
    BY <1>1, NewSockets, StatelessAssumption DEF Settled, Clean
  <2>4. \A d \in Clients : using[d] # s
    BY <2>1, StatelessAssumption DEF IndInv, HandlerInv, UsingInv
  <2>5. \A o \in Backends : \A t \in Elems(pool[o]) : t # s
    BY <1>2, <2>1 DEF IdleIn
  <2>6. using'[c] = s
    BY <1>0, <1>4, Types
  <2>7. Frame(c)
    BY <1>0, <1>4, Types DEF Frame
  <2>8. PoolInv'
    BY <1>2, <1>4, <2>2, <2>5, <2>6, <2>7, PoolKept
  <2>9. pool' \in [Backends -> Seq(Sockets)]
    BY <1>0, <1>4, Types
  <2> QED BY <1>0, <1>4, <2>1, <2>2, <2>3, <2>4, <2>8, <2>9, Choosing
<1>5. CASE Fail(c) /\ UNCHANGED pool
  BY <1>0, <1>1, <1>5, Failing
<1>6. ASSUME ~Pooling, NEW s \in Owned(c), socket[s].backend = b, using' = [using EXCEPT ![c] = s],
             pc' = [pc EXCEPT ![c] = "send"], UNCHANGED <<socket, pool, reply>>
      PROVE  IndInv'
  <2>1. s \in Sockets /\ socket[s] # None /\ owner[s] = c
    BY DEF Owned
  <2>2. \A d \in Clients : using[d] # s
    BY <1>1, <1>6, <2>1, OwnedSockets, StatelessAssumption
  <2>3. Settled(socket[s])
    BY <1>6, <2>1, <2>2 DEF IndInv, SocketInv
  <2>4. \A o \in Backends : Elems(pool[o]) = {}
    BY <1>2, <1>6 DEF IdleIn
  <2>5. Frame(c)
    BY <1>0, <1>6, Types DEF Frame
  <2>6. PoolInv'
    BY <1>6, <2>4, <2>5, PoolKept
  <2>7. socket' \in [Sockets -> Connection \cup {None}] /\ pool' \in [Backends -> Seq(Sockets)]
    BY <1>0, <1>6, Types
  <2> QED BY <1>0, <1>6, <2>1, <2>2, <2>3, <2>6, <2>7, Choosing
<1> QED BY <1>3, <1>4, <1>5, <1>6 DEF Take

LEMMA SendStep ==
  ASSUME IndInv, NEW c \in Clients, Send(c)
  PROVE  IndInv'
<1> DEFINE s == using[c]
           r == Current(c)
<1>0. TypeOK /\ pc[c] = "send" /\ UNCHANGED <<mode, count, todo, owner, pool, executed, again>>
  BY DEF IndInv, Send
<1>1. /\ s # None /\ s \in Sockets /\ socket[s] # None /\ socket[s] \in Connection
      /\ socket[s].backend = Head(todo[c]) /\ Settled(socket[s]) /\ (~Pooling => owner[s] = c)
      /\ ~Given(Current(c), socket[s].backend)
  BY <1>0, Requests DEF IndInv, HandlerInv, UsingInv, StageInv
<1>2. r \in Request
  BY <1>0, Requests
<1>3. CASE /\ pc' = [pc EXCEPT ![c] = "wait"]
           /\ socket' = IF Open(s)
                        THEN [socket EXCEPT ![s].req = Append(@, <<c, count[c]>>)] ELSE socket
           /\ UNCHANGED <<using, reply>>
  <2> DEFINE k == IF socket[s].peer THEN [socket[s] EXCEPT !.req = Append(socket[s].req, <<c, count[c]>>)]
                  ELSE socket[s]
  <2>1. /\ Append(socket[s].req, r) \in Seq(Request) /\ <<c, count[c]>> = r
        /\ Clean(socket[s]) => Append(socket[s].req, r) = <<r>>
    BY <1>1, <1>2, Single, Joined, Connections DEF Clean, Current
  <2>2. socket' = [socket EXCEPT ![s] = k]
    <3>1. CASE socket[s].peer
      BY <1>1, <1>3, <3>1 DEF Open
    <3>2. CASE ~socket[s].peer
      BY <1>0, <1>1, <1>3, <3>2, Types DEF Open
    <3> QED BY <3>1, <3>2
  <2>3. /\ k \in Connection /\ k.backend = socket[s].backend /\ (k.skewed \/ Exchanges(k, r))
        /\ IF socket[s].peer THEN k.req = Append(socket[s].req, r) ELSE k = socket[s]
    <3>1. CASE socket[s].peer
      <4>1. k = [socket[s] EXCEPT !.req = Append(socket[s].req, r)]
        BY <2>1, <3>1
      <4>2. /\ k \in Connection /\ k.backend = socket[s].backend /\ k.skewed = socket[s].skewed
            /\ k.req = Append(socket[s].req, r) /\ k.resp = socket[s].resp /\ k.peer = socket[s].peer
        <5> HIDE DEF k, s, r
        <5> QED BY <1>1, <2>1, <4>1, Connections
      <4> HIDE DEF k, s, r
      <4> QED BY <1>1, <2>1, <3>1, <4>2 DEF Settled, Clean, Exchanges
    <3>2. CASE ~socket[s].peer
      <4>1. k = socket[s]
        BY <3>2
      <4> HIDE DEF k
      <4> QED BY <1>1, <3>2, <4>1 DEF Settled, Clean, Exchanges
    <3> QED BY <3>1, <3>2
  <2> HIDE DEF k, s, r
  <2>4. /\ socket' \in [Sockets -> Connection \cup {None}] /\ socket'[s] = k /\ k # None
        /\ \A t \in Sockets : t # s => socket'[t] = socket[t]
    BY <1>0, <1>1, <2>2, <2>3, Types, StatelessAssumption
  <2>5. TypeOK'
    BY <1>0, <1>3, <2>4 DEF TypeOK
  <2>6. Frame(c) /\ pc'[c] = "wait" /\ using'[c] = s
    BY <1>0, <1>3, Types DEF Frame, s
  <2>7. Current(c)' = r /\ r = Current(c)
    BY <1>0 DEF Current, r
  <2>16. PendingInv' /\ \A x, b : Given(x, b)' => Given(x, b) \/ (x = r /\ b = Head(todo[c]))
    <3>1. CASE socket[s].peer
      <4>1. r[2] <= count[r[1]]
        BY <1>0, <2>7, Requests DEF Current
      <4>2. ~Given(r, socket[s].backend)
        BY <1>1, <2>7
      <4>3. socket'[s] # None /\ socket'[s].backend = socket[s].backend /\ socket'[s].req = Append(socket[s].req, r)
        BY <2>3, <2>4, <3>1
      <4> QED BY <1>0, <1>1, <1>2, <2>4, <4>1, <4>2, <4>3, Sent DEF IndInv
    <3>2. CASE ~socket[s].peer
      <4>1. \A t \in Sockets : socket'[t] = socket[t]
        BY <2>3, <2>4, <3>2
      <4>2. Quieter
        BY <2>6, <4>1, Keeping
      <4> QED BY <1>0, <4>2, Silence DEF IndInv
    <3> QED BY <3>1, <3>2
  <2>17. Enters(c)
    BY <2>7, <2>16 DEF Enters
  <2>18. \A b \in Elems(Tail(todo[c])) : ~Given(Current(c), b)'
    <3>1. Head(todo[c]) \notin Elems(Tail(todo[c])) /\ \A b \in Elems(Tail(todo[c])) : ~Given(Current(c), b)
      BY <1>0, Requests, Shifted DEF IndInv, HandlerInv, DoingInv
    <3> QED BY <2>7, <2>16, <3>1
  <2>8. UsingInv(c)'
    BY <1>0, <1>1, <2>3, <2>4, <2>6 DEF UsingInv, Pooling
  <2>9. DoingInv(c)'
    BY <1>0, <1>3, <2>6, <2>7, <2>18 DEF IndInv, HandlerInv, DoingInv
  <2>10. StageInv(c)'
    BY <1>1, <2>3, <2>4, <2>6, <2>7 DEF StageInv
  <2>11. \A d \in Clients : d # c => using[d] # s
    BY <1>1 DEF IndInv, SharingInv, s
  <2>12. ASSUME NEW b \in Backends, NEW t \in Elems(pool[b]) PROVE socket'[t] = socket[t] /\ using'[c] # t
    <3>0. IdleIn(t, b)
      BY DEF IndInv, PoolInv
    <3>1. t \in Sockets /\ t # s
      BY <1>0, <3>0, Types DEF IdleIn, Elems, s
    <3> QED BY <2>4, <2>6, <3>1
  <2>13. PoolInv'
    BY <1>0, <2>6, <2>12, PoolKept
  <2>14. \A t \in Sockets : \/ socket'[t] = socket[t] /\ owner'[t] = owner[t]
                           \/ \A d \in Clients : d # c => using[d] # t
    BY <1>0, <2>4, <2>11
  <2>15. \A t \in Sockets : using'[c] # t => socket'[t] = socket[t] /\ using[c] # t
    BY <2>4, <2>6 DEF s
  <2> QED BY <2>5, <2>6, <2>8, <2>9, <2>10, <2>11, <2>13, <2>14, <2>15, <2>17, HandlerStep DEF HandlerInv
<1>4. CASE Fail(c)
  BY <1>0, <1>4, Failing
<1> QED BY <1>3, <1>4 DEF Send

LEMMA ReceiveStep ==
  ASSUME IndInv, NEW c \in Clients, Receive(c)
  PROVE  IndInv'
<1> DEFINE s == using[c]
           b == Head(todo[c])
           answer == Head(socket[s].resp)
<1>0. TypeOK /\ pc[c] = "wait" /\ socket[s].resp # <<>> /\ UNCHANGED <<mode, count, owner, executed, again>>
  BY DEF IndInv, Receive
<1>1. /\ s # None /\ s \in Sockets /\ socket[s] # None /\ socket[s] \in Connection
      /\ socket[s].backend = b /\ (socket[s].skewed \/ Exchanges(socket[s], Current(c)))
  BY <1>0, Requests DEF IndInv, HandlerInv, UsingInv, StageInv
<1>2. /\ todo[c] \in Seq(Backends) /\ todo[c] # <<>> /\ IsInjective(todo[c])
      /\ reply[c] \in Reply /\ (~reply[c].skewed => reply[c].for \subseteq {Current(c)}) /\ Current(c) \in Request
      /\ \A o \in Elems(Tail(todo[c])) : ~Given(Current(c), o)
  BY <1>0, Requests DEF IndInv, HandlerInv, DoingInv
<1>3. /\ Tail(socket[s].resp) \in Seq(Part) /\ answer \in Part
      /\ ~socket[s].skewed => /\ socket[s].req = <<>> /\ answer.for = Current(c)
                              /\ answer.kind # "head" => Tail(socket[s].resp) = <<>>
  BY <1>0, <1>1, Connections, HeadTailProperties DEF Exchanges
<1>4. CASE Fail(c) /\ UNCHANGED <<todo, pool>>
  BY <1>0, <1>4, Failing
<1>5. CASE /\ using' = [using EXCEPT ![c] = None]
           /\ todo' = [todo EXCEPT ![c] = Tail(@)]
           /\ socket' = [socket EXCEPT ![s] = [@ EXCEPT
                 !.resp = Tail(socket[s].resp), !.skewed = socket[s].skewed \/ answer.kind = "head"]]
           /\ pool' = IF Pooling THEN [pool EXCEPT ![socket[s].backend] = Append(@, s)] ELSE pool
           /\ IF Len(todo[c]) > 1
              THEN /\ pc' = [pc EXCEPT ![c] = "take"]
                   /\ reply' = [reply EXCEPT ![c] =
                         [for |-> reply[c].for \cup {answer.for}, kind |-> "result",
                          skewed |-> reply[c].skewed \/ socket[s].skewed]]
              ELSE Answer(c, reply[c].for \cup {answer.for}, IF answer.kind = "result" THEN "result" ELSE "empty",
                          reply[c].skewed \/ socket[s].skewed)
  <2> DEFINE v == socket[s].skewed \/ answer.kind = "head"
             k == [socket[s] EXCEPT !.resp = Tail(socket[s].resp), !.skewed = v]
             more == Len(todo[c]) > 1
             z == reply[c].skewed \/ socket[s].skewed
             what == IF more \/ answer.kind = "result" THEN "result" ELSE "empty"
             a == [for |-> reply[c].for \cup {answer.for}, kind |-> what, skewed |-> z]
  <2>1. socket' = [socket EXCEPT ![s] = k]
    BY <1>5
  <2>2. k \in Connection /\ Settled(k) /\ k.backend = b /\ k.req = socket[s].req
    <3>1. v \in BOOLEAN
      BY Zenon
    <3> HIDE DEF v, s, b
    <3>4. k = [socket[s] EXCEPT !.resp = Tail(socket[s].resp), !.skewed = v]
      OBVIOUS
    <3> HIDE DEF k
    <3>2. k \in Connection /\ k.req = socket[s].req /\ k.resp = Tail(socket[s].resp) /\ k.backend = b /\ k.skewed = v
      <4>1. socket[s] \in Connection /\ Tail(socket[s].resp) \in Seq(Part) /\ socket[s].backend = b
        BY <1>1, <1>3
      <4> QED BY <3>1, <3>4, <4>1 DEF Connection
    <3>3. ~v => Clean(k)
      BY <1>3, <3>2 DEF Clean, v
    <3> QED BY <3>1, <3>2, <3>3 DEF Settled
  <2>3. reply' = [reply EXCEPT ![c] = a] /\ pc' = [pc EXCEPT ![c] = IF more THEN "take" ELSE "respond"]
    <3>2. CASE more
      BY <1>5, <3>2
    <3>3. CASE ~more
      BY <1>5, <3>3 DEF Answer
    <3> QED BY <3>2, <3>3
  <2>4. a \in Reply /\ (~a.skewed => a.for = {Current(c)})
    <3>1. ~z => reply[c].for \cup {answer.for} = {Current(c)}
      BY <1>2, <1>3
    <3>2. z \in BOOLEAN
      BY Zenon
    <3>3. reply[c].for \cup {answer.for} \in SUBSET Request
      BY <1>2, <1>3 DEF Reply, Part
    <3>4. what \in {"result", "error", "empty"}
      OBVIOUS
    <3> HIDE DEF z, what, more, answer
    <3> QED BY <3>1, <3>2, <3>3, <3>4 DEF Reply
  <2>5. todo' = [todo EXCEPT ![c] = Tail(todo[c])] /\ using' = [using EXCEPT ![c] = None]
    BY <1>5
  <2>6. pool' = IF Pooling THEN [pool EXCEPT ![b] = Append(pool[b], s)] ELSE pool
    BY <1>1, <1>5
  <2> HIDE DEF k, a, s, b, v, z, what
  <2>7. /\ socket' \in [Sockets -> Connection \cup {None}] /\ socket'[s] = k /\ k # None
        /\ \A t \in Sockets : t # s => socket'[t] = socket[t]
    BY <1>0, <1>1, <2>1, <2>2, Types, StatelessAssumption
  <2>8. reply' \in [Clients -> Reply \cup {None}] /\ reply'[c] = a /\ a # None
    BY <1>0, <2>3, <2>4, Types, StatelessAssumption
  <2>9. /\ Tail(todo[c]) \in Seq(Backends) /\ b \in Backends /\ IsInjective(Tail(todo[c]))
        /\ more => Tail(todo[c]) # <<>>
    BY <1>2, Shifted DEF b
  <2>10. todo' \in [Clients -> Seq(Backends)] /\ todo'[c] = Tail(todo[c])
    BY <1>0, <2>5, <2>9, Types
  <2>11. using'[c] = None /\ pc'[c] = IF more THEN "take" ELSE "respond"
    BY <1>0, <2>3, <2>5, Types
  <2>12. Frame(c)
    BY <1>0, <2>3, <2>5, Types DEF Frame
  <2>13. \A o \in Backends : pool[o] \in Seq(Sockets) /\ s \notin Elems(pool[o])
    BY <1>0, Types DEF IndInv, PoolInv, IdleIn, s
  <2>14. /\ Append(pool[b], s) \in Seq(Sockets) /\ Elems(Append(pool[b], s)) = Elems(pool[b]) \cup {s}
         /\ IsInjective(Append(pool[b], s))
    BY <1>1, <2>9, <2>13, Joined DEF IndInv, PoolInv
  <2>15. /\ pool' \in [Backends -> Seq(Sockets)]
         /\ \A o \in Backends : \/ pool'[o] = pool[o]
                                \/ Pooling /\ o = b /\ pool'[o] = Append(pool[b], s)
    BY <1>0, <2>6, <2>9, <2>14, Types
  <2>16. TypeOK'
    BY <1>0, <2>3, <2>5, <2>7, <2>8, <2>10, <2>15 DEF TypeOK
  <2>17. \A d \in Clients : d # c => using[d] # s /\ using'[d] = using[d]
    BY <1>1, <2>12 DEF IndInv, SharingInv, s, Frame
  <2>18. ASSUME NEW o \in Backends, NEW t \in Elems(pool'[o]) PROVE IdleIn(t, o)'
    <3>1. CASE t \in Elems(pool[o])
      <4>1. IdleIn(t, o) /\ t \in Sockets /\ t # s
        BY <1>0, <2>13, <3>1, Types DEF IndInv, PoolInv, Elems
      <4>2. socket'[t] = socket[t] /\ \A d \in Clients : using'[d] # t
        BY <2>7, <2>11, <2>12, <4>1, StatelessAssumption DEF IdleIn, Frame
      <4> QED BY <1>0, <4>1, <4>2 DEF IdleIn, Pooling, Settled, Clean
    <3>2. CASE t = s /\ o = b /\ Pooling
      <4>1. \A d \in Clients : using'[d] # s
        BY <1>1, <2>11, <2>17
      <4>2. socket'[t] # None /\ socket'[t].backend = o /\ Settled(socket'[t])
        BY <2>2, <2>7, <3>2
      <4> QED BY <1>0, <3>2, <4>1, <4>2 DEF IdleIn, Pooling, Settled, Clean
    <3> QED BY <2>14, <2>15, <2>18, <3>1, <3>2
  <2>19. \A o \in Backends : IsInjective(pool'[o])
    BY <2>14, <2>15 DEF IndInv, PoolInv
  <2>20. PoolInv'
    BY <2>18, <2>19 DEF PoolInv, Elems
  <2>21. Current(c)' = Current(c) /\ executed' = executed
    BY <1>0 DEF Current
  <2>22. more => Head(Tail(todo[c])) \in Elems(Tail(todo[c])) /\ Elems(Tail(Tail(todo[c]))) \subseteq Elems(Tail(todo[c]))
    BY <2>9, Shifted
  <2>28. Quieter
    BY <1>0, <1>1, <2>2, <2>7, <2>12 DEF Quieter, Frame
  <2>29. \A r, o : Given(r, o)' => Given(r, o)
    BY <1>0, <2>28, Silence DEF IndInv
  <2>23. more => /\ ~Given(Current(c), Head(todo[c]))'
                 /\ \A o \in Elems(Tail(Tail(todo[c]))) : ~Given(Current(c), o)'
    BY <1>2, <2>10, <2>21, <2>22, <2>29
  <2> HIDE DEF more
  <2>24. UsingInv(c)'
    BY <2>11 DEF UsingInv
  <2>25. DoingInv(c)' /\ StageInv(c)'
    BY <2>4, <2>8, <2>9, <2>10, <2>11, <2>21, <2>23 DEF DoingInv, StageInv
  <2>26. \A t \in Sockets : \/ socket'[t] = socket[t] /\ owner'[t] = owner[t]
                           \/ \A d \in Clients : d # c => using[d] # t
    BY <1>0, <2>7, <2>17
  <2>27. \A t \in Sockets : (socket'[t] # socket[t] \/ using[c] = t)
                            => Settled(socket'[t])
    BY <2>2, <2>7 DEF s
  <2> QED BY <2>11, <2>12, <2>16, <2>20, <2>24, <2>25, <2>26, <2>27, <2>28, HandlerStep DEF HandlerInv
<1> QED BY <1>4, <1>5 DEF Receive

LEMMA ReceiveEndStep ==
  ASSUME IndInv, NEW c \in Clients, ReceiveEnd(c)
  PROVE  IndInv'
<1> DEFINE s == using[c]
<1>0. /\ TypeOK /\ pc[c] = "wait" /\ socket[s].resp = <<>> /\ ~socket[s].peer
      /\ UNCHANGED <<mode, count, todo, owner, pool, executed, again>>
  BY DEF IndInv, ReceiveEnd
<1>1. s # None /\ s \in Sockets /\ Current(c) \in Request
  BY <1>0, Requests DEF IndInv, HandlerInv, UsingInv
<1>3. CASE Fail(c)
  BY <1>0, <1>3, Failing
<1>4. CASE /\ Answer(c, {<<c, count[c]>>}, "empty", FALSE)
           /\ socket' = [socket EXCEPT ![s] = None]
           /\ using' = [using EXCEPT ![c] = None]
  <2> DEFINE a == [for |-> {Current(c)}, kind |-> "empty", skewed |-> FALSE]
  <2>1. reply' = [reply EXCEPT ![c] = a] /\ pc' = [pc EXCEPT ![c] = "respond"]
    BY <1>4 DEF Answer, Current
  <2>2. a \in Reply /\ a.for = {Current(c)}
    BY <1>1 DEF Reply
  <2> HIDE DEF a, s
  <2>3. reply' \in [Clients -> Reply \cup {None}] /\ reply'[c] = a /\ a # None
    BY <1>0, <2>1, <2>2, Types, StatelessAssumption
  <2>4. /\ socket' \in [Sockets -> Connection \cup {None}] /\ socket'[s] = None
        /\ \A t \in Sockets : t # s => socket'[t] = socket[t]
    BY <1>0, <1>1, <1>4, Types
  <2>5. using'[c] = None /\ pc'[c] = "respond"
    BY <1>0, <1>4, <2>1, Types
  <2>6. TypeOK'
    BY <1>0, <1>4, <2>1, <2>3, <2>4 DEF TypeOK
  <2>7. Frame(c)
    BY <1>0, <1>4, <2>1, Types DEF Frame
  <2>8. Current(c)' = Current(c)
    BY <1>0 DEF Current
  <2>9. HandlerInv(c)'
    BY <2>2, <2>3, <2>5, <2>8 DEF HandlerInv, UsingInv, DoingInv, StageInv
  <2>10. ASSUME NEW b \in Backends, NEW t \in Elems(pool[b]) PROVE socket'[t] = socket[t] /\ using'[c] # t
    <3>0. IdleIn(t, b)
      BY DEF IndInv, PoolInv
    <3>1. t \in Sockets /\ t # s
      BY <1>0, <3>0, Types DEF IdleIn, Elems, s
    <3> QED BY <2>4, <2>5, <3>1, StatelessAssumption
  <2>11. PoolInv'
    BY <1>0, <2>7, <2>10, PoolKept
  <2>12. \A t \in Sockets : \/ socket'[t] = socket[t] /\ owner'[t] = owner[t]
                           \/ \A d \in Clients : d # c => using[d] # t
    BY <1>0, <1>1, <2>4 DEF IndInv, SharingInv, s
  <2>13. \A t \in Sockets : socket'[t] # None => socket'[t] = socket[t] /\ using[c] # t
    BY <2>4 DEF s
  <2>14. Quieter
    BY <2>7, <2>13, Keeping
  <2> QED BY <2>5, <2>6, <2>7, <2>9, <2>11, <2>12, <2>13, <2>14, HandlerStep
<1> QED BY <1>3, <1>4 DEF ReceiveEnd

LEMMA RespondStep ==
  ASSUME IndInv, NEW c \in Clients, Respond(c)
  PROVE  IndInv'
<1>0. /\ TypeOK /\ pc[c] = "respond" /\ reply' = [reply EXCEPT ![c] = None]
      /\ UNCHANGED <<mode, count, todo, using, owner, pool, executed, again>>
  BY DEF IndInv, Respond
<1>1. using[c] = None
  BY <1>0 DEF IndInv, HandlerInv, UsingInv
<1>2. using' = [using EXCEPT ![c] = None] /\ reply' \in [Clients -> Reply \cup {None}]
  BY <1>0, <1>1, Types
<1>3. CASE Close(c)
  <2>1. Frame(c)
    BY <1>0, <1>3, Types DEF Frame, Close
  <2> QED BY <1>0, <1>1, <1>2, <1>3, <2>1, Types, Closing
<1>4. CASE pc' = [pc EXCEPT ![c] = "read"] /\ UNCHANGED socket
  <2>1. Frame(c) /\ pc'[c] = "read" /\ using'[c] = None
    BY <1>0, <1>1, <1>4, Types DEF Frame
  <2>2. TypeOK'
    BY <1>0, <1>2, <1>4 DEF TypeOK
  <2>3. HandlerInv(c)'
    BY <2>1 DEF HandlerInv, UsingInv, DoingInv, StageInv
  <2>4. \A b \in Backends : \A s \in Elems(pool[b]) : s # None
    BY <1>0, Types, StatelessAssumption DEF Elems
  <2>5. PoolInv'
    BY <1>0, <1>4, <2>1, <2>4, PoolKept
  <2>6. \A s \in Sockets : using[c] # s
    BY <1>1, StatelessAssumption
  <2>7. Quieter
    BY <1>4, <2>1, Keeping
  <2> QED BY <1>0, <1>4, <2>1, <2>2, <2>3, <2>5, <2>6, <2>7, HandlerStep
<1> QED BY <1>3, <1>4 DEF Respond

-----------------------------------------------------------------------------
\* The backends.  Only the handler that awaits an answer on a connection can
\* see what happens on it.
LEMMA BackendClosesStep ==
  ASSUME IndInv, NEW s \in Sockets, BackendCloses(s)
  PROVE  IndInv'
<1> DEFINE k == [socket[s] EXCEPT !.req = <<>>, !.peer = FALSE]
<1>0. TypeOK /\ socket[s] # None /\ socket[s].peer
      /\ UNCHANGED <<mode, pc, count, todo, using, reply, owner, pool, executed, again>>
  BY DEF IndInv, BackendCloses, Open
<1>1. socket' = [socket EXCEPT ![s] = k] /\ socket[s] \in Connection
  BY <1>0, Types DEF BackendCloses, Ends
<1>2. k \in Connection /\ k.req = <<>> /\ k.resp = socket[s].resp /\ k.backend = socket[s].backend /\ ~k.peer
      /\ k.skewed = socket[s].skewed
  BY <1>1, Ended
<1> HIDE DEF k
<1>3. /\ socket' \in [Sockets -> Connection \cup {None}] /\ socket'[s] = k /\ k # None
      /\ \A t \in Sockets : t # s => socket'[t] = socket[t]
  BY <1>0, <1>1, <1>2, Types, StatelessAssumption
<1>4. TypeOK'
  BY <1>0, <1>3 DEF TypeOK
<1>9. PendingInv' /\ \A r, b : Given(r, b)' => Given(r, b)
  <2>1. Quieter
    BY <1>0, <1>2, <1>3 DEF Quieter
  <2> QED BY <1>0, <2>1, Silence DEF IndInv
<1>5. ASSUME NEW c \in Clients PROVE HandlerInv(c)'
  <2>1. HandlerInv(c) /\ (using[c] # None => using[c] \in Sockets) /\ Current(c)' = Current(c)
    BY <1>0, Requests DEF IndInv, Current
  <2>2. CASE using[c] # s
    BY <1>0, <1>3, <1>9, <2>1, <2>2, Unaffected
  <2>3. CASE using[c] = s
    <3>1. s # None
      BY StatelessAssumption
    <3>2. UsingInv(c)'
      BY <1>0, <1>2, <1>3, <2>1, <2>3, <3>1 DEF HandlerInv, UsingInv, Pooling
    <3>3. DoingInv(c)'
      BY <1>0, <1>9, <2>1 DEF HandlerInv, DoingInv
    <3>4. pc[c] \in {"send", "wait"}
      BY <2>1, <2>3, <3>1 DEF HandlerInv, UsingInv
    <3>5. pc[c] = "send" => Settled(k)
      BY <1>2, <2>1, <2>3 DEF HandlerInv, StageInv, Settled, Clean
    <3>6. pc[c] = "wait" => k.skewed \/ Exchanges(k, Current(c))
      BY <1>2, <2>1, <2>3 DEF HandlerInv, StageInv, Exchanges
    <3>7. StageInv(c)'
      BY <1>0, <1>3, <1>9, <2>1, <2>3, <3>4, <3>5, <3>6 DEF HandlerInv, StageInv
    <3> QED BY <3>2, <3>3, <3>7 DEF HandlerInv
  <2> QED BY <2>2, <2>3
<1>6. SharingInv' /\ ExecutionInv'
  BY <1>0 DEF IndInv, SharingInv, ExecutionInv
<1>7. SocketInv'
  BY <1>0, <1>2, <1>3 DEF IndInv, SocketInv, Pooling, Settled, Clean
<1>8. PoolInv'
  <2>1. ASSUME NEW b \in Backends, NEW t \in Elems(pool[b]) PROVE IdleIn(t, b)'
    <3>1. IdleIn(t, b) /\ t \in Sockets
      BY <1>0, Types DEF IndInv, PoolInv, Elems
    <3>2. CASE t = s
      BY <1>0, <1>2, <1>3, <3>1, <3>2 DEF IdleIn, Settled, Clean, Pooling
    <3>3. CASE t # s
      BY <1>0, <1>3, <3>1, <3>3 DEF IdleIn, Settled, Clean, Pooling
    <3> QED BY <3>2, <3>3
  <2> QED BY <1>0, <2>1 DEF IndInv, PoolInv, Elems
<1> QED BY <1>4, <1>5, <1>6, <1>7, <1>8, <1>9 DEF IndInv

LEMMA BackendServesStep ==
  ASSUME IndInv, NEW s \in Sockets, BackendServes(s)
  PROVE  IndInv'
<1> DEFINE r == Head(socket[s].req)
           done == <<r, socket[s].backend>>
           part(kind) == [for |-> r, kind |-> kind]
           rest == Tail(socket[s].req)
<1>0. /\ TypeOK /\ socket[s] # None /\ socket[s].peer /\ socket[s].req # <<>>
      /\ UNCHANGED <<mode, pc, count, todo, using, reply, owner, pool>>
      /\ executed' = executed \cup {done}
  BY DEF IndInv, BackendServes, Open
<1>1. socket[s] \in Connection /\ s # None /\ socket[s].req \in Seq(Request) /\ socket[s].resp \in Seq(Part)
  BY <1>0, Types, StatelessAssumption, Connections
<1>2. r \in Request /\ r \in Elems(socket[s].req) /\ rest \in Seq(Request) /\ <<>> \in Seq(Request)
  BY <1>0, <1>1, Shifted, Single
<1>3. \A kind \in {"result", "cut off", "bare", "head"} :
        part(kind) \in Part /\ part(kind).for = r /\ part(kind).kind = kind
  BY <1>2 DEF Part
<1>6. ~again'
  <2>1. ~again
    BY DEF IndInv, ExecutionInv
  <2>2. done \notin executed
    BY <1>0, <1>2 DEF IndInv, PendingInv, Unserved
  <2>3. again' = (again \/ done \in executed)
    BY DEF BackendServes
  <2> QED BY <2>1, <2>2, <2>3, Zenon
<1>7. PICK k : /\ socket' = [socket EXCEPT ![s] = k] /\ k \in Connection /\ k.backend = socket[s].backend
               /\ k.skewed = socket[s].skewed /\ k.req \in {rest, <<>>}
               /\ \/ /\ k.resp # <<>> /\ Head(k.resp).for = r
                     /\ Head(k.resp).kind # "head" => Tail(k.resp) = <<>>
                  \/ k.resp = <<>> /\ ~k.peer
                  \/ socket[s].resp # <<>>
  <2> DEFINE after(parts, peer) ==
        [socket[s] EXCEPT !.req = IF peer THEN rest ELSE <<>>, !.resp = socket[s].resp \o parts, !.peer = peer]
             severed == [socket[s] EXCEPT !.req = <<>>, !.peer = FALSE]
             Good(k) == /\ socket' = [socket EXCEPT ![s] = k] /\ k \in Connection /\ k.backend = socket[s].backend
                        /\ k.skewed = socket[s].skewed /\ k.req \in {rest, <<>>}
                        /\ \/ /\ k.resp # <<>> /\ Head(k.resp).for = r
                              /\ Head(k.resp).kind # "head" => Tail(k.resp) = <<>>
                           \/ k.resp = <<>> /\ ~k.peer
                           \/ socket[s].resp # <<>>
  <2>1. ASSUME NEW parts \in Seq(Part), NEW peer \in BOOLEAN, Answers(s, parts, peer),
               parts # <<>>, Head(parts).for = r, Head(parts).kind # "head" => Tail(parts) = <<>>
        PROVE  Good(after(parts, peer))
    <3> DEFINE q == IF peer THEN rest ELSE <<>>
               a == socket[s].resp \o parts
    <3>1. socket' = [socket EXCEPT ![s] = after(parts, peer)]
      BY <2>1 DEF Answers
    <3>2. q \in Seq(Request) /\ q \in {rest, <<>>}
      BY <1>2
    <3>3. a \in Seq(Part) /\ (socket[s].resp = <<>> => a = parts)
      BY <1>1, <2>1
    <3>4. after(parts, peer) = [socket[s] EXCEPT !.req = q, !.resp = a, !.peer = peer]
      OBVIOUS
    <3> HIDE DEF q, a, after, r, rest
    <3>5. /\ after(parts, peer) \in Connection /\ after(parts, peer).req = q /\ after(parts, peer).resp = a
          /\ after(parts, peer).backend = socket[s].backend /\ after(parts, peer).skewed = socket[s].skewed
      BY <1>1, <2>1, <3>2, <3>3, <3>4 DEF Connection
    <3> QED BY <2>1, <3>1, <3>2, <3>3, <3>5
  <2>2. ASSUME Ends(s) PROVE Good(severed)
    <3>1. /\ severed \in Connection /\ severed.req = <<>> /\ severed.resp = socket[s].resp
          /\ severed.backend = socket[s].backend /\ ~severed.peer /\ severed.skewed = socket[s].skewed
      BY <1>1, Ended
    <3>2. socket' = [socket EXCEPT ![s] = severed]
      BY <2>2 DEF Ends
    <3> HIDE DEF severed
    <3> QED BY <3>1, <3>2
  <2>3. \/ Answers(s, <<part("result")>>, TRUE) \/ Answers(s, <<part("cut off")>>, FALSE) \/ Ends(s)
        \/ Answers(s, <<part("bare")>>, TRUE) \/ Answers(s, <<part("head")>>, FALSE)
        \/ Answers(s, <<part("head"), part("result")>>, TRUE) \/ Answers(s, <<part("head"), part("bare")>>, TRUE)
    BY DEF BackendServes
  <2> HIDE DEF part, Good, after, severed, r, rest, done
  <2>4. Answers(s, <<part("result")>>, TRUE) => \E k : Good(k)
    BY <1>3, <2>1, Parts
  <2>5. Answers(s, <<part("cut off")>>, FALSE) => \E k : Good(k)
    BY <1>3, <2>1, Parts
  <2>6. Ends(s) => \E k : Good(k)
    BY <2>2
  <2>7. Answers(s, <<part("bare")>>, TRUE) => \E k : Good(k)
    BY <1>3, <2>1, Parts
  <2>8. Answers(s, <<part("head")>>, FALSE) => \E k : Good(k)
    BY <1>3, <2>1, Parts
  <2>9. Answers(s, <<part("head"), part("result")>>, TRUE) => \E k : Good(k)
    BY <1>3, <2>1, Parts
  <2>10. Answers(s, <<part("head"), part("bare")>>, TRUE) => \E k : Good(k)
    BY <1>3, <2>1, Parts
  <2>11. \E k : Good(k)
    BY <2>3, <2>4, <2>5, <2>6, <2>7, <2>8, <2>9, <2>10
  <2> QED BY <2>11 DEF Good
<1> HIDE DEF part
<1>8. /\ socket' \in [Sockets -> Connection \cup {None}] /\ socket'[s] = k /\ k # None
      /\ \A t \in Sockets : t # s => socket'[t] = socket[t]
  BY <1>0, <1>7, Types, StatelessAssumption
<1>9. TypeOK'
  <2>1. done \in Request \X Backends
    BY <1>1, <1>2, Connections
  <2>2. executed' \subseteq Request \X Backends
    BY <1>0, <2>1 DEF TypeOK
  <2>3. again' \in BOOLEAN
    <3>1. again' = (again \/ done \in executed)
      BY DEF BackendServes
    <3> QED BY <3>1, Zenon
  <2> HIDE DEF done
  <2> QED BY <1>0, <1>8, <2>2, <2>3 DEF TypeOK
<1>4. PendingInv' /\ \A x, b : Given(x, b)' => Given(x, b)
  BY <1>0, <1>7, <1>8, Served DEF IndInv
<1>5. ~socket[s].skewed => ~Settled(socket[s])
  BY <1>0 DEF Settled, Clean
<1>15. Settled(socket[s]) => k.skewed
  BY <1>0, <1>7 DEF Settled, Clean
<1>10. ASSUME NEW d \in Clients PROVE HandlerInv(d)'
  <2>1. HandlerInv(d) /\ (using[d] # None => using[d] \in Sockets) /\ Current(d)' = Current(d)
    BY <1>0, Requests DEF IndInv, Current
  <2>2. CASE using[d] # s
    <3> HIDE DEF r, done, rest
    <3> QED BY <1>0, <1>4, <1>8, <2>1, <2>2, Unaffected
  <2>3. CASE using[d] = s
    <3> HIDE DEF done
    <3>1. UsingInv(d)'
      BY <1>0, <1>1, <1>7, <1>8, <2>1, <2>3 DEF HandlerInv, UsingInv, Pooling
    <3>2. DoingInv(d)'
      BY <1>0, <1>4, <2>1 DEF HandlerInv, DoingInv
    <3>3. pc[d] \in {"send", "wait"}
      BY <1>1, <2>1, <2>3 DEF HandlerInv, UsingInv
    <3>4. pc[d] = "wait" => k.skewed \/ Exchanges(k, Current(d))
      <4>1. CASE socket[s].skewed
        BY <1>7, <4>1
      <4>2. CASE pc[d] = "wait" /\ ~socket[s].skewed
        <5>1. socket[s].req = <<Current(d)>> /\ socket[s].resp = <<>> /\ Current(d) \in Request
          BY <1>0, <2>1, <2>3, <4>2, Requests DEF HandlerInv, StageInv, Exchanges
        <5>2. r = Current(d) /\ rest = <<>>
          BY <5>1, Single
        <5> HIDE DEF r, rest
        <5> QED BY <1>7, <5>1, <5>2 DEF Exchanges
      <4> QED BY <4>1, <4>2
    <3>5. StageInv(d)'
      BY <1>0, <1>4, <1>8, <1>15, <2>1, <2>3, <3>3, <3>4 DEF HandlerInv, StageInv, Settled
    <3> QED BY <3>1, <3>2, <3>5 DEF HandlerInv
  <2> QED BY <2>2, <2>3
<1> HIDE DEF rest
<1>11. SharingInv'
  BY <1>0 DEF IndInv, SharingInv
<1>12. SocketInv'
  BY <1>0, <1>8, <1>15 DEF IndInv, SocketInv, Pooling, Settled, Clean
<1>13. PoolInv'
  <2>1. ASSUME NEW b \in Backends, NEW t \in Elems(pool[b]) PROVE IdleIn(t, b)'
    <3>1. IdleIn(t, b) /\ t \in Sockets
      BY <1>0, Types DEF IndInv, PoolInv, Elems
    <3>2. CASE t = s
      BY <1>0, <1>7, <1>8, <1>15, <3>1, <3>2 DEF IdleIn, Settled, Pooling
    <3>3. CASE t # s
      BY <1>0, <1>8, <3>1, <3>3 DEF IdleIn, Settled, Clean, Pooling
    <3> QED BY <3>2, <3>3
  <2> QED BY <1>0, <2>1 DEF IndInv, PoolInv, Elems
<1>14. ExecutionInv'
  <2>1. \A e \in executed : e[1][2] <= count[e[1][1]]
    BY DEF IndInv, ExecutionInv
  <2>2. r[2] <= count[r[1]] /\ done[1] = r
    BY <1>0, <1>2 DEF IndInv, PendingInv, Unserved
  <2> HIDE DEF r, done
  <2>3. \A e \in executed' : e[1][2] <= count'[e[1][1]]
    BY <1>0, <2>1, <2>2
  <2> QED BY <1>6, <2>3 DEF ExecutionInv
<1> QED BY <1>4, <1>9, <1>10, <1>11, <1>12, <1>13, <1>14 DEF IndInv

-----------------------------------------------------------------------------
LEMMA InitInv == Init => IndInv
<1> SUFFICES ASSUME Init PROVE IndInv
  OBVIOUS
<1>1. /\ count = [c \in Clients |-> 0] /\ todo = [c \in Clients |-> <<>>] /\ using = [c \in Clients |-> None]
      /\ reply = [c \in Clients |-> None] /\ socket = [s \in Sockets |-> None]
      /\ owner = [s \in Sockets |-> None] /\ pool = [b \in Backends |-> <<>>]
      /\ executed = {} /\ again = FALSE /\ mode \in {"http", "forwarder", "l2"}
      /\ pc \in [Clients -> {"accept", "read", "closed"}]
  BY DEF Init
<1>2. \A Q : <<>> \in Seq(Q)
  OBVIOUS
<1>3. TypeOK
  <2>1. 0 \in 0..MaxRequests
    BY StatelessAssumption
  <2>2. pc \in [Clients -> {"accept", "read", "take", "send", "wait", "respond", "closed"}]
    BY <1>1
  <2>3. todo \in [Clients -> Seq(Backends)] /\ pool \in [Backends -> Seq(Sockets)]
    BY <1>1, <1>2
  <2> QED BY <1>1, <2>1, <2>2, <2>3 DEF TypeOK
<1>4. ASSUME NEW c \in Clients PROVE HandlerInv(c)
  <2>1. pc[c] \in {"accept", "read", "closed"} /\ using[c] = None
    BY <1>1
  <2> QED BY <2>1 DEF HandlerInv, UsingInv, DoingInv, StageInv
<1>5. SharingInv /\ SocketInv /\ PendingInv
  BY <1>1 DEF SharingInv, SocketInv, PendingInv
<1>6. PoolInv
  <2>1. IsInjective(<<>>) /\ Elems(<<>>) = {}
    BY DEF IsInjective, Elems
  <2> QED BY <1>1, <2>1 DEF PoolInv
<1>7. ExecutionInv
  BY <1>1 DEF ExecutionInv
<1> QED BY <1>3, <1>4, <1>5, <1>6, <1>7 DEF IndInv

LEMMA NextInv ==
  ASSUME IndInv, [Next]_vars
  PROVE  IndInv'
<1>1. ASSUME NEW c \in Clients, Read(c) \/ Handler(c) PROVE IndInv'
  BY <1>1, AcceptStep, ReadStep, TakeStep, SendStep, ReceiveStep, ReceiveEndStep, RespondStep DEF Handler
<1>2. ASSUME NEW s \in Sockets, BackendServes(s) \/ BackendCloses(s) PROVE IndInv'
  BY <1>2, BackendServesStep, BackendClosesStep
<1>3. CASE UNCHANGED vars
  <2>1. UNCHANGED <<mode, pc, count, todo, using, reply, socket, owner, pool, executed, again>>
    BY <1>3 DEF vars
  <2>2. TypeOK'
    BY <2>1 DEF IndInv, TypeOK
  <2>3. PendingInv' /\ \A r, b : Given(r, b)' => Given(r, b)
    <3>1. Quieter
      BY <2>1 DEF Quieter
    <3> QED BY <3>1, Silence DEF IndInv
  <2>4. ASSUME NEW c \in Clients PROVE HandlerInv(c)'
    <3>1. \A b : Given(Current(c), b)' => Given(Current(c), b)
      BY <2>1, <2>3 DEF Current
    <3> QED BY <2>1, <3>1, Unaffected DEF IndInv
  <2>5. SharingInv' /\ SocketInv' /\ ExecutionInv'
    BY <2>1 DEF IndInv, SharingInv, SocketInv, ExecutionInv, Pooling, Settled, Clean
  <2>6. PoolInv'
    BY <2>1 DEF IndInv, PoolInv, IdleIn, Elems, Settled, Clean, Pooling
  <2> QED BY <2>2, <2>3, <2>4, <2>5, <2>6 DEF IndInv
<1> QED BY <1>1, <1>2, <1>3 DEF Next

\* The inductive invariant holds in every reachable state.
THEOREM Invariance == Spec => []IndInv
BY InitInv, NextInv, PTL DEF Spec

\* Every variable of the handlers, connections and pools keeps its type.
THEOREM TypeCorrect == Spec => []TypeOK
<1>1. IndInv => TypeOK
  BY DEF IndInv
<1> QED BY <1>1, Invariance, PTL

\* What a client reads as the answer to its n-th request is what backends
\* answered to that request and to no other, for any number of clients sharing
\* any number of pooled connections (backend_post, exchange), unless it was read
\* after a response without a Content-Length had left its rest on a connection.
THEOREM AnswersToTheirRequests == Spec => []AnswersMatch
<1>1. IndInv => AnswersMatch
  BY DEF IndInv, HandlerInv, StageInv, AnswersMatch, Current
<1> QED BY <1>1, Invariance, PTL

\* Whatever fails, no backend executes a request a second time: no exchange is
\* repeated on another connection, not even after an answer that was another's
\* (backend_post, exchange).
THEOREM NoSecondExecution == Spec => []ExecutedOnce
<1>1. IndInv => ExecutedOnce
  BY DEF IndInv, ExecutionInv, ExecutedOnce
<1> QED BY <1>1, Invariance, PTL

\* A connection serves one exchange at a time, and goes back to the pool with
\* nothing outstanding in either direction unless it is skewed (pool.pop,
\* pool.append).
THEOREM ConnectionsNotShared == Spec => []ConnectionsExclusive
<1>1. ASSUME IndInv PROVE ConnectionsExclusive
  <2>1. \A c, d \in Clients : c # d /\ using[c] # None => using[c] # using[d]
    BY <1>1 DEF IndInv, SharingInv
  <2>2. \A b \in Backends : IsInjective(pool[b])
    BY <1>1 DEF IndInv, PoolInv
  <2>3. ASSUME NEW b \in Backends, NEW i \in DOMAIN pool[b] PROVE IdleIn(pool[b][i], b)
    BY <1>1 DEF IndInv, PoolInv, Elems
  <2> QED BY <2>1, <2>2, <2>3 DEF ConnectionsExclusive, IdleIn, Settled, Clean
<1> QED BY <1>1, Invariance, PTL

(***************************************************************************)
(* The intermediaries between one client and one backend (Relays).  PumpInv *)
(* relates what pump d took, what it holds and what it passed on: Due(d) is *)
(* what arrived and the message in hand, and a prefix of what is to be      *)
(* relayed, whole when the end is passed on.  With it every step of a relay *)
(* is a step of both channels (ChannelStep).                                *)
(***************************************************************************)
\* What the two sides send, and what may be written to either.
Said == ClientMessages \cup BackendMessages
Written == Payloads \cup {"blocked", "error", "proxy identity"}

RelayTypes ==
  /\ relay \in {"relay", "l1", "forward"}
  /\ hs \in {"client", "backend", "confirm", "returned", "raised", "over"}
  /\ sent \in [Directions -> Seq(Said)] /\ ended \in [Directions -> BOOLEAN]
  /\ taken \in [Directions -> Nat] /\ hand \in [Directions -> Said \cup {NoMessage}]
  /\ pump \in [Directions -> {"idle", "running", "done", "dead"}]
  /\ out \in [Directions -> Seq(Written)] /\ closed \in [Directions -> BOOLEAN]
  /\ blocked \in Nat
  /\ \A d \in Directions : taken[d] <= Len(sent[d])

\* Until the handshake is over the pumps have not begun, and what was written
\* and taken is the intermediary's own.
HandshakeInv ==
  /\ hs # "over" => /\ relay = "forward"
                    /\ \A d \in Directions : /\ pump[d] = "idle" /\ hand[d] = NoMessage /\ ~closed[d]
                                               /\ Len(out[d]) <= Own(d)
  /\ hs = "client" => \A d \in Directions : out[d] = <<>> /\ taken[d] = 0
  /\ hs = "backend" => /\ Len(out["c2b"]) = 1 /\ out["b2c"] = <<>>
                       /\ taken["c2b"] = 1 /\ taken["b2c"] = 0
  /\ hs = "confirm" => \A d \in Directions : Len(out[d]) = Own(d) /\ taken[d] = 1

\* What pump d owes the destination of what it received.
Due(d) == Kept(sent[d], Own(d), Dropped(d))[taken[d]]

\* A pump has passed on what is due but for the message it holds; it closes its
\* destination last.
PumpInv(d) ==
  hs = "over" =>
    /\ pump[d] # "idle" /\ Own(d) <= Len(out[d])
    /\ Own(d) <= taken[d] \/ (ended[d] /\ taken[d] = Len(sent[d]))
    /\ pump[d] # "dead" => Due(d) = IF hand[d] \in {NoMessage, Dropped(d)} THEN Arrived(d)
                                    ELSE Append(Arrived(d), hand[d])
    /\ pump[d] # "running" => hand[d] = NoMessage
    /\ closed[d] => pump[d] = "done"

\* What happens in direction d of a channel: nothing, or a step of it.
Silent(d) == UNCHANGED <<Relayed(d), ended[d], Arrived(d), closed[d]>>
ChannelStep(d) ==
  \/ Silent(d)
  \/ /\ ~ended[d] /\ \E m \in Payloads : Relayed(d)' = Append(Relayed(d), m)
     /\ UNCHANGED <<ended[d], Arrived(d), closed[d]>>
  \/ ended'[d] = TRUE /\ UNCHANGED <<Relayed(d), Arrived(d), closed[d]>>
  \/ /\ Len(Arrived(d)) < Len(Relayed(d)) /\ ~closed[d]
     /\ Arrived(d)' = Append(Arrived(d), Relayed(d)[Len(Arrived(d)) + 1])
     /\ UNCHANGED <<Relayed(d), ended[d], closed[d]>>
  \/ /\ ended[d] /\ Arrived(d) = Relayed(d) /\ closed'[d] = TRUE
     /\ UNCHANGED <<Relayed(d), ended[d], Arrived(d)>>

\* The answers to denied messages, and the denied messages received.
Refusals == Number("blocked", out["b2c"], Len(out["b2c"]))
Denials == Number("denied", sent["c2b"], taken["c2b"])

RelayInv ==
  /\ RelayTypes /\ HandshakeInv /\ DeniedAnswered
  /\ \A d \in Directions : PumpInv(d)

\* Induction over an interval, as a fact about a set.
LEMMA Climbing ==
  ASSUME NEW N \in Nat, NEW T, 0 \in T, \A i \in 0 .. N - 1 : i \in T => i + 1 \in T
  PROVE  \A i \in 0 .. N : i \in T
<1> DEFINE Less == {p \in Nat \X Nat : p[1] < p[2]}
           missing == (0 .. N) \ T
<1>1. IsWellFoundedOn(Less, Nat)
  BY NatLessThanWellFounded DEF OpToRel
<1>2. ASSUME missing # {} PROVE FALSE
  <2>1. missing \subseteq Nat
    OBVIOUS
  <2>2. PICK x \in missing : \A y \in missing : <<y, x>> \notin Less
    <3> HIDE DEF Less, missing
    <3> QED BY <1>1, <1>2, <2>1, WFMin
  <2>3. x \in Nat /\ x # 0 /\ x - 1 \in 0 .. N - 1 /\ x - 1 \in Nat /\ x - 1 < x
    OBVIOUS
  <2>4. <<x - 1, x>> \in Less
    <3>1. <<x - 1, x>> \in Nat \X Nat /\ <<x - 1, x>>[1] = x - 1 /\ <<x - 1, x>>[2] = x
      BY <2>3
    <3> QED BY <2>3, <3>1
  <2>5. x - 1 \in T
    <3>1. x - 1 \in missing => FALSE
      <4> HIDE DEF Less, missing
      <4> QED BY <2>2, <2>4
    <3> QED BY <2>3, <3>1
  <2>6. (x - 1) + 1 = x /\ (x - 1) + 1 \in T
    BY <2>3, <2>5
  <2> QED BY <2>6
<1> QED BY <1>2

\* What Kept computes.
LEMMA KeptSteps ==
  ASSUME NEW S, NEW s \in Seq(S), NEW n \in Nat, NEW x
  PROVE  /\ Kept(s, n, x) = [i \in 0 .. Len(s) |->
              IF i <= n THEN <<>>
              ELSE IF s[i] = x THEN Kept(s, n, x)[i - 1]
              ELSE Append(Kept(s, n, x)[i - 1], s[i])]
<1> DEFINE Def(f, N) == f = [i \in 0 .. N |->
              IF i <= n THEN <<>>
              ELSE IF s[i] = x THEN f[i - 1] ELSE Append(f[i - 1], s[i])]
           T == {N \in 0 .. Len(s) : \E f : Def(f, N)}
<1>1. Len(s) \in Nat
  OBVIOUS
<1>2. 0 \in T
  <2>1. Def([i \in 0 .. 0 |-> <<>>], 0)
    OBVIOUS
  <2>2. \E h : Def(h, 0)
    BY <2>1
  <2> HIDE DEF Def
  <2> QED BY <1>1, <2>2
<1>3. ASSUME NEW N \in 0 .. Len(s) - 1, N \in T PROVE N + 1 \in T
  <2>1. PICK f : Def(f, N)
    BY <1>3
  <2> DEFINE g == [i \in 0 .. N + 1 |-> IF i <= N THEN f[i]
                     ELSE IF i <= n THEN <<>>
                     ELSE IF s[i] = x THEN f[i - 1] ELSE Append(f[i - 1], s[i])]
  <2>2. Def(g, N + 1)
    <3>1. \A i \in 0 .. N + 1 : i - 1 \in 0 .. N + 1 => g[i - 1] = f[i - 1]
      OBVIOUS
    <3>2. \A i \in 0 .. N : f[i] = IF i <= n THEN <<>>
                     ELSE IF s[i] = x THEN f[i - 1] ELSE Append(f[i - 1], s[i])
      BY <2>1
    <3>3. \A i \in 0 .. N + 1 : ~(i <= n) => i - 1 \in 0 .. N + 1
      OBVIOUS
    <3>4. \A i \in 0 .. N + 1 : g[i] = IF i <= n THEN <<>>
                     ELSE IF s[i] = x THEN g[i - 1] ELSE Append(g[i - 1], s[i])
      BY <3>1, <3>2, <3>3
    <3> HIDE DEF g
    <3>5. g = [i \in 0 .. N + 1 |-> g[i]]
      BY DEF g
    <3> QED BY <3>4, <3>5
  <2>3. \E h : Def(h, N + 1)
    BY <2>2
  <2>4. N + 1 \in 0 .. Len(s)
    BY <1>1
  <2> HIDE DEF Def
  <2> QED BY <2>3, <2>4
<1>4. \A i \in 0 .. Len(s) - 1 : i \in T => i + 1 \in T
  <2> HIDE DEF T
  <2> QED BY <1>3
<1>5. \A i \in 0 .. Len(s) : i \in T
  <2> HIDE DEF T
  <2> QED BY <1>1, <1>2, <1>4, Climbing
<1>6. \E f : Def(f, Len(s))
  <2>1. Len(s) \in T
    <3> HIDE DEF T
    <3> QED BY <1>1, <1>5
  <2> HIDE DEF Def
  <2> QED BY <2>1
<1>7. Def(CHOOSE f : Def(f, Len(s)), Len(s))
  <2> HIDE DEF Def
  <2> QED BY <1>6
<1> QED BY <1>7 DEF Kept

\* The same, at one place.
LEMMA KeptOf ==
  ASSUME NEW S, NEW s \in Seq(S), NEW n \in Nat, NEW x, NEW i \in 0 .. Len(s)
  PROVE  /\ i <= n => Kept(s, n, x)[i] = <<>>
         /\ n < i /\ s[i] = x => Kept(s, n, x)[i] = Kept(s, n, x)[i - 1]
         /\ n < i /\ s[i] # x => Kept(s, n, x)[i] = Append(Kept(s, n, x)[i - 1], s[i])
<1> DEFINE f == Kept(s, n, x)
<1>1. f = [k \in 0 .. Len(s) |->
             IF k <= n THEN <<>> ELSE IF s[k] = x THEN f[k - 1] ELSE Append(f[k - 1], s[k])]
  BY KeptSteps
<1> HIDE DEF f
<1>2. f[i] = IF i <= n THEN <<>> ELSE IF s[i] = x THEN f[i - 1] ELSE Append(f[i - 1], s[i])
  BY <1>1
<1>3. i \in Nat /\ (n < i => ~(i <= n))
  OBVIOUS
<1>4. QED BY <1>2, <1>3 DEF f

LEMMA KeptTyped ==
  ASSUME NEW S, NEW s \in Seq(S), NEW n \in Nat, NEW x
  PROVE  \A i \in 0 .. Len(s) : Kept(s, n, x)[i] \in Seq(S)
<1> DEFINE f == Kept(s, n, x)
           T == {i \in 0 .. Len(s) : f[i] \in Seq(S)}
<1>1. \A i \in 0 .. Len(s) : /\ i <= n => f[i] = <<>>
                             /\ n < i /\ s[i] = x => f[i] = f[i - 1]
                             /\ n < i /\ s[i] # x => f[i] = Append(f[i - 1], s[i])
  BY KeptOf
<1> HIDE DEF f
<1>2. Len(s) \in Nat /\ \A i \in 1 .. Len(s) : s[i] \in S
  OBVIOUS
<1>3. 0 \in T
  <2>1. <<>> \in Seq(S) /\ 0 \in 0 .. Len(s) /\ 0 <= n
    BY <1>2
  <2> QED BY <1>1, <2>1
<1>4. \A i \in 0 .. Len(s) - 1 : i \in T => i + 1 \in T
  <2>1. TAKE i \in 0 .. Len(s) - 1
  <2>2. HAVE i \in T
  <2>3. i + 1 \in 0 .. Len(s) /\ i + 1 \in 1 .. Len(s) /\ (i + 1) - 1 = i /\ (i + 1 <= n \/ n < i + 1)
    BY <1>2
  <2>4. <<>> \in Seq(S) /\ f[i] \in Seq(S) /\ Append(f[i], s[i + 1]) \in Seq(S)
    BY <1>2, <2>2, <2>3, AppendProperties
  <2>5. f[i + 1] \in Seq(S)
    BY <1>1, <2>3, <2>4
  <2> QED BY <2>3, <2>5
<1>5. \A i \in 0 .. Len(s) : i \in T
  <2> HIDE DEF T
  <2> QED BY <1>2, <1>3, <1>4, Climbing
<1> QED BY <1>5 DEF f

\* One more message.
LEMMA KeptAppend ==
  ASSUME NEW S, NEW s \in Seq(S), NEW n \in Nat, NEW x, NEW y \in S
  PROVE  /\ \A i \in 0 .. Len(s) : Kept(Append(s, y), n, x)[i] = Kept(s, n, x)[i]
         /\ Len(s) + 1 <= n => Kept(Append(s, y), n, x)[Len(s) + 1] = <<>>
         /\ n <= Len(s) /\ y = x => Kept(Append(s, y), n, x)[Len(s) + 1] = Kept(s, n, x)[Len(s)]
         /\ n <= Len(s) /\ y # x =>
              Kept(Append(s, y), n, x)[Len(s) + 1] = Append(Kept(s, n, x)[Len(s)], y)
<1> DEFINE f == Kept(s, n, x)
           t == Append(s, y)
           g == Kept(t, n, x)
           T == {i \in 0 .. Len(s) : g[i] = f[i]}
<1>1. Len(s) \in Nat /\ t \in Seq(S) /\ Len(t) = Len(s) + 1 /\ t[Len(s) + 1] = y
      /\ \A i \in 1 .. Len(s) : t[i] = s[i]
  BY AppendProperties
<1>2. \A i \in 0 .. Len(s) : /\ i <= n => f[i] = <<>>
                             /\ n < i /\ s[i] = x => f[i] = f[i - 1]
                             /\ n < i /\ s[i] # x => f[i] = Append(f[i - 1], s[i])
  BY KeptOf
<1>3. \A i \in 0 .. Len(t) : /\ i <= n => g[i] = <<>>
                             /\ n < i /\ t[i] = x => g[i] = g[i - 1]
                             /\ n < i /\ t[i] # x => g[i] = Append(g[i - 1], t[i])
  <2> HIDE DEF t
  <2> QED BY <1>1, KeptOf
<1> HIDE DEF f, g, t
<1>4. 0 \in T
  BY <1>1, <1>2, <1>3
<1>5. \A i \in 0 .. Len(s) - 1 : i \in T => i + 1 \in T
  <2>1. TAKE i \in 0 .. Len(s) - 1
  <2>2. HAVE i \in T
  <2>3. i + 1 \in 0 .. Len(s) /\ i + 1 \in 0 .. Len(t) /\ i + 1 \in 1 .. Len(s) /\ (i + 1) - 1 = i
        /\ (i + 1 <= n \/ n < i + 1) /\ t[i + 1] = s[i + 1]
    BY <1>1
  <2>4. g[i] = f[i]
    BY <2>2
  <2>5. g[i + 1] = f[i + 1]
    BY <1>2, <1>3, <2>3, <2>4
  <2> QED BY <2>3, <2>5
<1>6. \A i \in 0 .. Len(s) : i \in T
  <2> HIDE DEF T
  <2> QED BY <1>1, <1>4, <1>5, Climbing
<1>7. g[Len(s)] = f[Len(s)] /\ Len(s) + 1 \in 0 .. Len(t) /\ (Len(s) + 1) - 1 = Len(s)
      /\ (n <= Len(s) => n < Len(s) + 1)
  BY <1>1, <1>6
<1>8. /\ Len(s) + 1 <= n => g[Len(s) + 1] = <<>>
      /\ n <= Len(s) /\ y = x => g[Len(s) + 1] = f[Len(s)]
      /\ n <= Len(s) /\ y # x => g[Len(s) + 1] = Append(f[Len(s)], y)
  BY <1>1, <1>3, <1>7
<1> QED BY <1>6, <1>8 DEF f, g, t

Prefix(a, b) == Len(a) <= Len(b) /\ \A p \in 1 .. Len(a) : b[p] = a[p]

\* What was kept of the first i is a prefix of what was kept of the first j.
LEMMA KeptPrefix ==
  ASSUME NEW S, NEW s \in Seq(S), NEW n \in Nat, NEW x,
         NEW i \in 0 .. Len(s), NEW j \in 0 .. Len(s), i <= j
  PROVE  Prefix(Kept(s, n, x)[i], Kept(s, n, x)[j])
<1> DEFINE f == Kept(s, n, x)
           T == {d \in 0 .. Len(s) - i : Prefix(f[i], f[i + d])}
<1>1. \A k \in 0 .. Len(s) : /\ k <= n => f[k] = <<>>
                             /\ n < k /\ s[k] = x => f[k] = f[k - 1]
                             /\ n < k /\ s[k] # x => f[k] = Append(f[k - 1], s[k])
  BY KeptOf
<1>2. \A k \in 0 .. Len(s) : f[k] \in Seq(S)
  BY KeptTyped
<1> HIDE DEF f
<1>3. Len(s) \in Nat /\ (\A k \in 1 .. Len(s) : s[k] \in S) /\ i \in Nat /\ i <= Len(s)
  OBVIOUS
<1>4. 0 \in T
  <2>1. i + 0 = i /\ 0 \in 0 .. Len(s) - i /\ Len(f[i]) \in Nat
    BY <1>2, <1>3
  <2>2. Prefix(f[i], f[i])
    BY <2>1 DEF Prefix
  <2> QED BY <2>1, <2>2
<1>5. \A d \in 0 .. (Len(s) - i) - 1 : d \in T => d + 1 \in T
  <2>1. TAKE d \in 0 .. (Len(s) - i) - 1
  <2>2. HAVE d \in T
  <2> DEFINE k == i + d
  <2>3. k \in 0 .. Len(s) /\ k + 1 \in 0 .. Len(s) /\ k + 1 \in 1 .. Len(s) /\ (k + 1) - 1 = k
        /\ (k + 1 <= n \/ n < k + 1) /\ (k + 1 <= n => k <= n /\ i <= n) /\ i + (d + 1) = k + 1
        /\ d + 1 \in 0 .. Len(s) - i
    BY <1>3
  <2>4. Prefix(f[i], f[k])
    BY <2>2
  <2> HIDE DEF k
  <2>5. f[k] \in Seq(S) /\ f[i] \in Seq(S) /\ s[k + 1] \in S
    BY <1>2, <1>3, <2>3
  <2>6. /\ Len(Append(f[k], s[k + 1])) = Len(f[k]) + 1
        /\ \A p \in 1 .. Len(f[k]) : Append(f[k], s[k + 1])[p] = f[k][p]
    BY <2>5, AppendProperties
  <2>7. Prefix(f[i], f[k + 1])
    <3>1. CASE k + 1 <= n
      <4>1. f[k + 1] = <<>> /\ f[i] = <<>>
        BY <1>1, <2>3, <3>1
      <4> QED BY <4>1 DEF Prefix
    <3>2. CASE n < k + 1 /\ s[k + 1] = x
      <4>1. f[k + 1] = f[k]
        BY <1>1, <2>3, <3>2
      <4> QED BY <4>1, <2>4
    <3>3. CASE n < k + 1 /\ s[k + 1] # x
      <4>1. f[k + 1] = Append(f[k], s[k + 1])
        BY <1>1, <2>3, <3>3
      <4>2. Len(f[k]) \in Nat /\ Len(f[i]) \in Nat
        BY <2>5
      <4>3. \A p \in 1 .. Len(f[i]) : p \in 1 .. Len(f[k])
        BY <2>4, <4>2 DEF Prefix
      <4> QED BY <2>4, <2>6, <4>1, <4>2, <4>3 DEF Prefix
    <3> QED BY <2>3, <3>1, <3>2, <3>3
  <2> QED BY <2>3, <2>7
<1>6. \A d \in 0 .. Len(s) - i : d \in T
  <2>1. Len(s) - i \in Nat
    BY <1>3
  <2> HIDE DEF T
  <2> QED BY <2>1, <1>4, <1>5, Climbing
<1>7. j - i \in 0 .. Len(s) - i /\ i + (j - i) = j
  BY <1>3
<1>8. Prefix(f[i], f[j])
  BY <1>6, <1>7
<1> QED BY <1>8 DEF f

-----------------------------------------------------------------------------
LEMMA Ways ==
  /\ "c2b" \in Directions /\ "b2c" \in Directions /\ Directions = {"c2b", "b2c"}
  /\ \A d \in Directions : Own(d) \in Nat
  /\ relay = "forward" => Own("c2b") = 2 /\ Own("b2c") = 1
  /\ relay # "forward" => \A d \in Directions : Own(d) = 0
BY DEF Directions, Own

LEMMA RelaySorts ==
  /\ Said \subseteq Payloads /\ "blocked" \notin Payloads /\ NoMessage \notin Payloads
  /\ Said \subseteq Written /\ "blocked" \in Written /\ "error" \in Written
  /\ "initialize" \in Written /\ "initialized" \in Written /\ "proxy identity" \in Written
<1>2. "blocked" \notin Payloads /\ NoMessage \notin Payloads
  BY DEF Payloads, NoMessage
<1>3. Said \subseteq Payloads
  <2>1. ClientMessages \subseteq Payloads
    BY DEF ClientMessages, Payloads
  <2>2. BackendMessages \subseteq Payloads
    BY DEF BackendMessages, Payloads
  <2> QED BY <2>1, <2>2 DEF Said
<1>4. "initialize" \in Payloads /\ "initialized" \in Payloads
  BY DEF Payloads
<1> QED BY <1>2, <1>3, <1>4 DEF Written

LEMMA RelaySteps ==
  ASSUME RelayNext
  PROVE  \/ Handshake \/ Deny \/ Unreadable
         \/ \E d \in Directions : Sends(d) \/ SourceEnds(d) \/ PumpReceives(d) \/ Forward(d) \/ PassEnd(d)
BY DEF RelayNext, Pump

\* The types, the handshake and the count of denials are kept by every step.
LEMMA RelayTypesHold ==
  ASSUME RelayTypes, [RelayNext]_(relayVars)
  PROVE  RelayTypes'
<1>1. CASE UNCHANGED relayVars
  BY <1>1 DEF relayVars, RelayTypes, Said, ClientMessages, BackendMessages, Written, Payloads
<1>2. ASSUME relay' = relay PROVE Said' = Said
  BY <1>2 DEF Said, ClientMessages, BackendMessages
<1>3. /\ \A d \in Directions : sent[d] \in Seq(Said) /\ Len(sent[d]) \in Nat /\ out[d] \in Seq(Written)
      /\ \A d \in Directions : Available(d) => NextOf(d) \in Said /\ taken[d] + 1 <= Len(sent[d])
  <2>1. \A d \in Directions : sent[d] \in Seq(Said) /\ Len(sent[d]) \in Nat /\ out[d] \in Seq(Written)
                                /\ taken[d] \in Nat
    BY DEF RelayTypes
  <2>2. ASSUME NEW d \in Directions, Available(d)
        PROVE  NextOf(d) \in Said /\ taken[d] + 1 <= Len(sent[d])
    <3>1. taken[d] + 1 \in 1 .. Len(sent[d])
      BY <2>1, <2>2 DEF Available
    <3> QED BY <2>1, <3>1 DEF NextOf
  <2> QED BY <2>1, <2>2
<1>4. \A d \in Directions, m \in Written : Append(out[d], m) \in Seq(Written)
  BY <1>3, AppendProperties
<1>5. "c2b" \in Directions /\ "b2c" \in Directions
  BY Ways
<1>6. ASSUME NEW d \in Directions, Available(d), TakeOne(d)
      PROVE  taken' \in [Directions -> Nat] /\ \A e \in Directions : taken'[e] <= Len(sent[e])
  BY <1>3, <1>6 DEF TakeOne, RelayTypes
<1>7. ASSUME NEW d \in Directions, NEW m \in Written, out' = [out EXCEPT ![d] = Append(@, m)]
      PROVE  out' \in [Directions -> Seq(Written)]
  BY <1>4, <1>7 DEF RelayTypes
<1>8. CASE Handshake
  <2>1. hs' \in {"client", "backend", "confirm", "returned", "raised", "over"}
    BY <1>8 DEF Handshake, HandshakeClient, HandshakeBackend, HandshakeConfirm
  <2>2. taken' \in [Directions -> Nat] /\ \A e \in Directions : taken'[e] <= Len(sent[e])
    BY <1>5, <1>6, <1>8 DEF Handshake, HandshakeClient, HandshakeBackend, HandshakeConfirm, RelayTypes
  <2>3. out' \in [Directions -> Seq(Written)]
    <3>1. CASE HandshakeClient
      <4>1. out' \in {out, [out EXCEPT !["c2b"] = Append(@, "initialize")], [out EXCEPT !["b2c"] = Append(@, "error")]}
        BY <3>1 DEF HandshakeClient
      <4> QED BY <1>5, <1>7, <4>1, RelaySorts DEF RelayTypes
    <3>2. CASE HandshakeBackend
      <4>1. out' = out \/ out' = [d \in Directions |->
                       Append(out[d], IF d = "c2b" THEN "initialized" ELSE "proxy identity")]
        BY <3>2 DEF HandshakeBackend
      <4>2. \A d \in Directions :
              Append(out[d], IF d = "c2b" THEN "initialized" ELSE "proxy identity") \in Seq(Written)
        BY <1>4, RelaySorts
      <4> QED BY <4>1, <4>2 DEF RelayTypes
    <3>3. CASE HandshakeConfirm
      BY <3>3 DEF HandshakeConfirm, RelayTypes
    <3> QED BY <1>8, <3>1, <3>2, <3>3 DEF Handshake
  <2>4. pump' \in [Directions -> {"idle", "running", "done", "dead"}]
    BY <1>8 DEF Handshake, HandshakeClient, HandshakeBackend, HandshakeConfirm, RelayTypes
  <2>5. UNCHANGED <<relay, sent, ended, hand, closed, blocked>>
    BY <1>8 DEF Handshake, HandshakeClient, HandshakeBackend, HandshakeConfirm
  <2> QED BY <1>2, <2>1, <2>2, <2>3, <2>4, <2>5 DEF RelayTypes
<1>9. CASE Deny
  <2>1. out' \in [Directions -> Seq(Written)]
    <3>1. out' = out \/ out' = [out EXCEPT !["b2c"] = Append(@, "blocked")]
      BY <1>9 DEF Deny
    <3> QED BY <1>5, <1>7, <3>1, RelaySorts DEF RelayTypes
  <2>2. pump' \in [Directions -> {"idle", "running", "done", "dead"}]
        /\ hand' \in [Directions -> Said \cup {NoMessage}] /\ blocked' \in Nat
    <3>1. hand' = [hand EXCEPT !["c2b"] = NoMessage] /\ blocked' = blocked + 1
          /\ pump' \in {pump, [pump EXCEPT !["c2b"] = "dead"]}
      BY <1>9 DEF Deny
    <3>2. hand \in [Directions -> Said \cup {NoMessage}] /\ blocked \in Nat
          /\ pump \in [Directions -> {"idle", "running", "done", "dead"}]
      BY DEF RelayTypes
    <3>3. pump' \in [Directions -> {"idle", "running", "done", "dead"}]
      BY <3>1, <3>2
    <3>4. hand' \in [Directions -> Said \cup {NoMessage}]
      BY <3>1, <3>2
    <3> QED BY <3>1, <3>2, <3>3, <3>4
  <2>3. UNCHANGED <<relay, hs, sent, ended, taken, closed>>
    BY <1>9 DEF Deny
  <2> QED BY <1>2, <2>1, <2>2, <2>3 DEF RelayTypes
<1>10. CASE Unreadable
  BY <1>2, <1>5, <1>10 DEF Unreadable, RelayTypes
<1>11. ASSUME NEW d \in Directions, Sends(d) PROVE RelayTypes'
  <2>1. PICK m \in Said : sent' = [sent EXCEPT ![d] = Append(@, m)]
    BY <1>11 DEF Sends, Said
  <2>2. Append(sent[d], m) \in Seq(Said) /\ Len(Append(sent[d], m)) = Len(sent[d]) + 1
    BY <1>3, AppendProperties
  <2> QED BY <1>2, <1>3, <1>11, <2>1, <2>2 DEF Sends, RelayTypes
<1>12. ASSUME NEW d \in Directions, SourceEnds(d) PROVE RelayTypes'
  BY <1>2, <1>12 DEF SourceEnds, RelayTypes
<1>13. ASSUME NEW d \in Directions, PumpReceives(d) PROVE RelayTypes'
  BY <1>2, <1>3, <1>13 DEF PumpReceives, TakeOne, RelayTypes
<1>14. ASSUME NEW d \in Directions, Forward(d) PROVE RelayTypes'
  <2>1. hand[d] \in Written
    BY <1>14, RelaySorts DEF Forward, RelayTypes
  <2> QED BY <1>2, <1>4, <1>14, <2>1 DEF Forward, RelayTypes
<1>15. ASSUME NEW d \in Directions, PassEnd(d) PROVE RelayTypes'
  BY <1>2, <1>15 DEF PassEnd, RelayTypes
<1> QED BY <1>1, <1>8, <1>9, <1>10, <1>11, <1>12, <1>13, <1>14, <1>15, RelaySteps

LEMMA HandshakeHolds ==
  ASSUME RelayTypes, HandshakeInv, [RelayNext]_(relayVars)
  PROVE  HandshakeInv'
<1>1. CASE UNCHANGED relayVars
  BY <1>1 DEF relayVars, HandshakeInv, Own
<1>2. "c2b" \in Directions /\ "b2c" \in Directions /\ Directions = {"c2b", "b2c"}
  BY Ways
<1>3. \A d \in Directions : relay' = relay => Own(d)' = Own(d)
  BY DEF Own
<1>4. relay = "forward" => Own("c2b") = 2 /\ Own("b2c") = 1
  BY Ways
<1>5. \A m \in Written : Len(Append(<<>>, m)) = 1 /\ Len(<<>>) = 0
  OBVIOUS
<1>6. \A d \in Directions : out[d] \in Seq(Written) /\ taken[d] \in Nat
  BY DEF RelayTypes
<1>7. \A d \in Directions, m \in Written : Len(Append(out[d], m)) = Len(out[d]) + 1
  BY <1>6, AppendProperties
<1>8. CASE Handshake
  <2>1. relay = "forward" /\ relay' = relay /\ UNCHANGED <<hand, closed>>
        /\ \A d \in Directions : hs # "over" => pump[d] = "idle" /\ hand[d] = NoMessage /\ ~closed[d]
    BY <1>8 DEF Handshake, HandshakeClient, HandshakeBackend, HandshakeConfirm, HandshakeInv
  <2>2. CASE HandshakeClient
    <3>1. pump' = pump /\ hs = "client" /\ \A d \in Directions : out[d] = <<>> /\ taken[d] = 0
      BY <2>2 DEF HandshakeClient, HandshakeInv
    <3>2. CASE hs' = "returned"
      BY <1>2, <1>3, <1>4, <1>5, <2>1, <2>2, <3>1, <3>2 DEF HandshakeClient, HandshakeInv
    <3>3. CASE hs' = "backend"
      <4>1. out'["c2b"] = Append(<<>>, "initialize") /\ out'["b2c"] = <<>>
            /\ taken'["c2b"] = 1 /\ taken'["b2c"] = 0
        BY <1>2, <2>2, <3>1, <3>3 DEF HandshakeClient, TakeOne, RelayTypes
      <4>2. Len(out'["c2b"]) = 1 /\ Len(out'["b2c"]) = 0
        BY <1>5, <4>1, RelaySorts
      <4>3. Len(out'["c2b"]) <= Own("c2b") /\ Len(out'["b2c"]) <= Own("b2c")
        BY <1>4, <2>1, <4>2
      <4>4. \A d \in Directions : Len(out'[d]) <= Own(d)
        BY <1>2, <4>3
      <4> QED BY <1>2, <1>3, <2>1, <3>1, <3>3, <4>1, <4>2, <4>4 DEF HandshakeInv
    <3>4. CASE hs' = "raised"
      <4>1. out'["c2b"] = <<>> /\ out'["b2c"] = Append(<<>>, "error")
        BY <1>2, <2>2, <3>1, <3>4 DEF HandshakeClient, RelayTypes
      <4>2. Len(out'["c2b"]) = 0 /\ Len(out'["b2c"]) = 1
        BY <1>5, <4>1, RelaySorts
      <4>3. Len(out'["c2b"]) <= Own("c2b") /\ Len(out'["b2c"]) <= Own("b2c")
        BY <1>4, <2>1, <4>2
      <4>4. \A d \in Directions : Len(out'[d]) <= Own(d)
        BY <1>2, <4>3
      <4> QED BY <1>3, <2>1, <3>1, <3>4, <4>4 DEF HandshakeInv
    <3> QED BY <2>2, <3>2, <3>3, <3>4 DEF HandshakeClient
  <2>3. CASE HandshakeBackend
    <3>1. pump' = pump /\ hs = "backend" /\ Len(out["c2b"]) = 1 /\ out["b2c"] = <<>>
          /\ taken["c2b"] = 1 /\ taken["b2c"] = 0
      BY <2>3 DEF HandshakeBackend, HandshakeInv
    <3>2. CASE hs' = "raised"
      <4>1. out' = out
        BY <2>3, <3>2 DEF HandshakeBackend
      <4> QED BY <1>2, <1>3, <1>4, <1>5, <2>1, <3>1, <3>2, <4>1 DEF HandshakeInv
    <3>3. CASE hs' = "confirm"
      <4>1. out'["c2b"] = Append(out["c2b"], "initialized") /\ out'["b2c"] = Append(<<>>, "proxy identity")
            /\ taken'["c2b"] = 1 /\ taken'["b2c"] = 1
        <5>1. out' = [d \in Directions |-> Append(out[d], IF d = "c2b" THEN "initialized" ELSE "proxy identity")]
              /\ taken' = [taken EXCEPT !["b2c"] = @ + 1]
          BY <2>3, <3>3 DEF HandshakeBackend, TakeOne
        <5>2. taken \in [Directions -> Nat] /\ "c2b" # "b2c"
          BY DEF RelayTypes
        <5>3. taken'["c2b"] = taken["c2b"] /\ taken'["b2c"] = taken["b2c"] + 1
          BY <1>2, <5>1, <5>2
        <5>4. out'["c2b"] = Append(out["c2b"], "initialized")
          BY <1>2, <5>1
        <5>5. out'["b2c"] = Append(out["b2c"], "proxy identity")
          BY <1>2, <5>1, <5>2
        <5>6. taken'["c2b"] = 1 /\ taken'["b2c"] = 1
          BY <3>1, <5>3
        <5>7. out'["b2c"] = Append(<<>>, "proxy identity")
          BY <3>1, <5>5
        <5> QED BY ONLY <5>4, <5>6, <5>7
      <4>2. Len(out'["c2b"]) = 2 /\ Len(out'["b2c"]) = 1
        <5>1. Len(Append(out["c2b"], "initialized")) = Len(out["c2b"]) + 1
          <6>1. "initialized" \in Written
            BY RelaySorts
          <6> QED BY <1>2, <1>7, <6>1
        <5>2. Len(Append(<<>>, "proxy identity")) = 1
          BY <1>5, RelaySorts
        <5>3. Len(out'["b2c"]) = 1
          BY <4>1, <5>2
        <5>4. Len(out'["c2b"]) = Len(out["c2b"]) + 1
          BY <4>1, <5>1
        <5> QED BY <3>1, <5>3, <5>4
      <4>3. \A d \in Directions : Len(out'[d]) = Own(d) /\ taken'[d] = 1
        BY <1>2, <1>4, <2>1, <4>1, <4>2
      <4>4. \A d \in Directions : Len(out'[d]) <= Own(d)
        BY <4>3, Ways
      <4> QED BY <1>3, <2>1, <3>1, <3>3, <4>3, <4>4 DEF HandshakeInv
    <3> QED BY <2>3, <3>2, <3>3 DEF HandshakeBackend
  <2>4. CASE HandshakeConfirm
    BY <1>2, <2>4 DEF HandshakeConfirm, HandshakeInv
  <2> QED BY <1>8, <2>2, <2>3, <2>4 DEF Handshake
<1>9. CASE Deny
  BY <1>2, <1>9 DEF Deny, HandshakeInv
<1>10. CASE Unreadable
  BY <1>2, <1>10 DEF Unreadable, HandshakeInv
<1>11. ASSUME NEW d \in Directions, Sends(d) PROVE HandshakeInv'
  BY <1>3, <1>11 DEF Sends, HandshakeInv
<1>12. ASSUME NEW d \in Directions, SourceEnds(d) PROVE HandshakeInv'
  BY <1>3, <1>12 DEF SourceEnds, HandshakeInv
<1>13. ASSUME NEW d \in Directions, PumpReceives(d) PROVE HandshakeInv'
  BY <1>13 DEF PumpReceives, HandshakeInv
<1>14. ASSUME NEW d \in Directions, Forward(d) PROVE HandshakeInv'
  BY <1>14 DEF Forward, HandshakeInv
<1>15. ASSUME NEW d \in Directions, PassEnd(d) PROVE HandshakeInv'
  BY <1>15 DEF PassEnd, HandshakeInv
<1> QED BY <1>1, <1>8, <1>9, <1>10, <1>11, <1>12, <1>13, <1>14, <1>15, RelaySteps

-----------------------------------------------------------------------------
\* How often a message occurs.
LEMMA CountedSame ==
  ASSUME NEW n \in Nat, NEW s, NEW t, \A i \in 1 .. n : t[i] = s[i], NEW m
  PROVE  Number(m, s, n) \in Nat /\ Number(m, t, n) = Number(m, s, n)
<1> DEFINE old == {i \in 1 .. n : s[i] = m}
<1>1. Cardinality(old) \in Nat
  <2>1. old \subseteq 1 .. n
    OBVIOUS
  <2> HIDE DEF old
  <2>2. IsFiniteSet(1 .. n)
    BY FS_Interval
  <2>3. IsFiniteSet(old)
    BY <2>1, <2>2, FS_Subset
  <2> QED BY <2>3, FS_CardinalityType
<1>2. {i \in 1 .. n : t[i] = m} = old
  OBVIOUS
<1>3. Number(m, s, n) = Cardinality(old)
  BY Zenon DEF Number
<1>4. Number(m, t, n) = Cardinality(old)
  BY Zenon, <1>2 DEF Number
<1> HIDE DEF old
<1> QED BY <1>1, <1>3, <1>4

LEMMA CountedMore ==
  ASSUME NEW n \in Nat, NEW s, NEW t, NEW m, NEW k, k = n + 1, \A i \in 1 .. n : t[i] = s[i]
  PROVE  Number(m, t, k) = Number(m, s, n) + (IF t[k] = m THEN 1 ELSE 0)
<1> DEFINE old == {i \in 1 .. n : s[i] = m}
           new == {i \in 1 .. k : t[i] = m}
<1>1. IsFiniteSet(old) /\ Cardinality(old) \in Nat
  <2>1. old \subseteq 1 .. n
    OBVIOUS
  <2> HIDE DEF old
  <2>2. IsFiniteSet(1 .. n)
    BY FS_Interval
  <2>3. IsFiniteSet(old)
    BY <2>1, <2>2, FS_Subset
  <2> QED BY <2>3, FS_CardinalityType
<1>2. Number(m, s, n) = Cardinality(old) /\ Number(m, t, k) = Cardinality(new)
  BY Zenon DEF Number
<1>3. CASE t[k] = m
  <2>1. new = old \cup {k} /\ k \notin old
    BY <1>3
  <2> HIDE DEF old, new
  <2>2. Cardinality(new) = Cardinality(old) + 1
    BY <1>1, <2>1, FS_AddElement
  <2> QED BY <1>2, <1>3, <2>2
<1>4. CASE t[k] # m
  <2>1. new = old
    BY <1>4
  <2> HIDE DEF old, new
  <2> QED BY <1>1, <1>2, <1>4, <2>1
<1> QED BY <1>3, <1>4

\* What is said to the client.
LEMMA RefusalsCount ==
  ASSUME RelayTypes, NEW m \in Written, out' = [out EXCEPT !["b2c"] = Append(@, m)]
  PROVE  Refusals' = Refusals + (IF m = "blocked" THEN 1 ELSE 0)
<1> DEFINE o == out["b2c"]
           p == Append(o, m)
<1>1. o \in Seq(Written) /\ out'["b2c"] = p
  BY Ways DEF RelayTypes
<1>2. /\ Len(o) \in Nat /\ Len(p) = Len(o) + 1 /\ p[Len(p)] = m
      /\ \A i \in 1 .. Len(o) : p[i] = o[i]
  BY <1>1, AppendProperties
<1> HIDE DEF o, p
<1>3. Number("blocked", p, Len(p)) = Number("blocked", o, Len(o)) + (IF m = "blocked" THEN 1 ELSE 0)
  BY <1>2, CountedMore
<1>4. Refusals' = Number("blocked", p, Len(p)) /\ Refusals = Number("blocked", o, Len(o))
  BY <1>1 DEF Refusals, o
<1> QED BY <1>3, <1>4

LEMMA DenialsSame ==
  ASSUME RelayTypes, NEW m \in Said, sent' = [sent EXCEPT !["c2b"] = Append(@, m)], taken' = taken
  PROVE  Denials' = Denials
<1> DEFINE s == sent["c2b"]
           n == taken["c2b"]
<1>1. s \in Seq(Said) /\ n \in Nat /\ n <= Len(s) /\ sent'["c2b"] = Append(s, m)
  BY Ways DEF RelayTypes
<1> HIDE DEF s, n
<1>2. \A i \in 1 .. n : Append(s, m)[i] = s[i]
  BY <1>1, AppendProperties
<1>3. Number("denied", Append(s, m), n) = Number("denied", s, n)
  BY <1>1, <1>2, CountedSame
<1> QED BY <1>1, <1>3 DEF Denials, s, n

LEMMA DenialsMore ==
  ASSUME RelayTypes, sent' = sent, TakeOne("c2b")
  PROVE  Denials' = Denials + (IF NextOf("c2b") = "denied" THEN 1 ELSE 0)
<1>1. taken["c2b"] \in Nat /\ taken'["c2b"] = taken["c2b"] + 1
  BY Ways DEF RelayTypes, TakeOne
<1>2. Number("denied", sent["c2b"], taken'["c2b"])
        = Number("denied", sent["c2b"], taken["c2b"])
            + (IF sent["c2b"][taken'["c2b"]] = "denied" THEN 1 ELSE 0)
  BY <1>1, CountedMore
<1> QED BY <1>1, <1>2 DEF Denials, NextOf

LEMMA DeniedHolds ==
  ASSUME RelayTypes, HandshakeInv, DeniedAnswered, [RelayNext]_(relayVars)
  PROVE  DeniedAnswered'
<1>1. SUFFICES ASSUME relay' = "l1"
      PROVE  /\ blocked' = Denials' - (IF hand'["c2b"] = "denied" THEN 1 ELSE 0)
             /\ Refusals' = blocked' \/ (Refusals' = blocked' - 1 /\ pump'["c2b"] = "dead")
  BY DEF DeniedAnswered, Refusals, Denials
<1>2. relay' = relay
  BY RelaySteps DEF relayVars, Handshake, HandshakeClient, HandshakeBackend, HandshakeConfirm,
                    Deny, Unreadable, Sends, SourceEnds, PumpReceives, Forward, PassEnd
<1>3. relay = "l1" /\ hs = "over"
  BY <1>1, <1>2 DEF HandshakeInv, RelayTypes
<1>4. /\ blocked = Denials - (IF hand["c2b"] = "denied" THEN 1 ELSE 0)
      /\ Refusals = blocked \/ (Refusals = blocked - 1 /\ pump["c2b"] = "dead")
  BY <1>3 DEF DeniedAnswered, Refusals, Denials
<1>5. Refusals \in Nat /\ Denials \in Nat /\ blocked \in Nat
  <2>1. taken["c2b"] \in Nat /\ Len(out["b2c"]) \in Nat /\ blocked \in Nat
    BY Ways DEF RelayTypes
  <2> QED BY <2>1, CountedSame DEF Refusals, Denials
<1>6. "c2b" # "b2c" /\ Directions = {"c2b", "b2c"} /\ "c2b" \in Directions /\ NoMessage # "denied"
  BY Ways DEF NoMessage
<1>7. hand \in [Directions -> Said \cup {NoMessage}] /\ pump \in [Directions -> {"idle", "running", "done", "dead"}]
      /\ out \in [Directions -> Seq(Written)] /\ sent \in [Directions -> Seq(Said)]
      /\ taken \in [Directions -> Nat]
  BY DEF RelayTypes
<1>8. CASE UNCHANGED relayVars
  BY <1>4, <1>8 DEF relayVars, Refusals, Denials
<1>9. CASE Handshake
  BY <1>3, <1>9 DEF Handshake, HandshakeClient, HandshakeBackend, HandshakeConfirm
<1>10. CASE Deny
  <2>1. hand["c2b"] = "denied" /\ pump["c2b"] = "running" /\ blocked' = blocked + 1
        /\ hand'["c2b"] = NoMessage /\ Denials' = Denials
    BY <1>6, <1>7, <1>10 DEF Deny, Denials
  <2>2. CASE closed["b2c"]
    <3>1. pump'["c2b"] = "dead" /\ Refusals' = Refusals
      BY <1>6, <1>7, <1>10, <2>2 DEF Deny, Refusals
    <3> QED BY <1>4, <1>5, <1>6, <2>1, <3>1
  <2>3. CASE ~closed["b2c"]
    <3>1. Refusals' = Refusals + 1
      <4>1. "blocked" \in Written
        BY RelaySorts
      <4> QED BY <1>10, <2>3, <4>1, RefusalsCount DEF Deny
    <3> QED BY <1>4, <1>5, <1>6, <2>1, <3>1
  <2> QED BY <2>2, <2>3
<1>11. CASE Unreadable
  <2>1. hand["c2b"] = "opaque" /\ pump["c2b"] = "running" /\ blocked' = blocked
        /\ hand'["c2b"] = NoMessage /\ Denials' = Denials /\ Refusals' = Refusals
    BY <1>6, <1>7, <1>11 DEF Unreadable, Denials, Refusals
  <2> QED BY <1>4, <1>5, <1>6, <2>1
<1>12. ASSUME NEW d \in Directions, Sends(d)
       PROVE  UNCHANGED <<blocked, hand, pump>> /\ Denials' = Denials /\ Refusals' = Refusals
  <2>1. UNCHANGED <<blocked, hand, pump, out, taken>> /\ Refusals' = Refusals
    BY <1>12 DEF Sends, Refusals
  <2>2. PICK m \in Said : sent' = [sent EXCEPT ![d] = Append(@, m)]
    BY <1>12 DEF Sends, Said
  <2>3. CASE d = "c2b"
    BY <2>1, <2>2, <2>3, DenialsSame
  <2>4. CASE d = "b2c"
    <3>1. sent'["c2b"] = sent["c2b"]
      BY <1>6, <1>7, <2>2, <2>4
    <3> QED BY <2>1, <3>1 DEF Denials
  <2> QED BY <1>6, <2>1, <2>3, <2>4
<1>13. ASSUME NEW d \in Directions, SourceEnds(d)
       PROVE  UNCHANGED <<blocked, hand, pump>> /\ Denials' = Denials /\ Refusals' = Refusals
  BY <1>13 DEF SourceEnds, Denials, Refusals
<1>14. ASSUME NEW d \in Directions, PumpReceives(d)
       PROVE  /\ blocked' = Denials' - (IF hand'["c2b"] = "denied" THEN 1 ELSE 0)
              /\ Refusals' = blocked' \/ (Refusals' = blocked' - 1 /\ pump'["c2b"] = "dead")
  <2>1. UNCHANGED <<blocked, pump, out, sent>> /\ Refusals' = Refusals
    BY <1>14 DEF PumpReceives, Refusals
  <2>2. CASE d = "c2b"
    <3>1. hand["c2b"] = NoMessage /\ hand'["c2b"] = NextOf("c2b")
      BY <1>6, <1>7, <1>14, <2>2 DEF PumpReceives
    <3>2. Denials' = Denials + (IF NextOf("c2b") = "denied" THEN 1 ELSE 0)
      BY <1>14, <2>1, <2>2, DenialsMore DEF PumpReceives
    <3> QED BY <1>4, <1>5, <1>6, <2>1, <3>1, <3>2
  <2>3. CASE d = "b2c"
    <3>1. hand'["c2b"] = hand["c2b"] /\ taken'["c2b"] = taken["c2b"]
      BY <1>6, <1>7, <1>14, <2>3 DEF PumpReceives, TakeOne
    <3>2. Denials' = Denials
      BY <2>1, <3>1 DEF Denials
    <3> QED BY <1>4, <2>1, <3>1, <3>2
  <2> QED BY <1>6, <2>2, <2>3
<1>15. ASSUME NEW d \in Directions, Forward(d)
       PROVE  /\ blocked' = Denials' - (IF hand'["c2b"] = "denied" THEN 1 ELSE 0)
              /\ Refusals' = blocked' \/ (Refusals' = blocked' - 1 /\ pump'["c2b"] = "dead")
  <2>1. UNCHANGED <<blocked, pump, sent, taken>> /\ Denials' = Denials
    BY <1>15 DEF Forward, Denials
  <2>2. CASE d = "c2b"
    <3>1. hand["c2b"] # "denied" /\ hand'["c2b"] = NoMessage /\ out'["b2c"] = out["b2c"]
      BY <1>3, <1>6, <1>7, <1>15, <2>2 DEF Forward, Inspected
    <3>2. Refusals' = Refusals
      BY <3>1 DEF Refusals
    <3> QED BY <1>4, <1>6, <2>1, <3>1, <3>2
  <2>3. CASE d = "b2c"
    <3>1. hand'["c2b"] = hand["c2b"] /\ hand["b2c"] \in Said
      BY <1>6, <1>7, <1>15, <2>3 DEF Forward
    <3>2. Refusals' = Refusals
      <4>1. hand["b2c"] \in Written /\ hand["b2c"] # "blocked"
        BY <3>1, RelaySorts
      <4>2. Refusals' = Refusals + (IF hand["b2c"] = "blocked" THEN 1 ELSE 0)
        BY <1>15, <2>3, <4>1, RefusalsCount DEF Forward
      <4> QED BY <1>5, <4>1, <4>2
    <3> QED BY <1>4, <2>1, <3>1, <3>2
  <2> QED BY <1>6, <2>2, <2>3
<1>16. ASSUME NEW d \in Directions, PassEnd(d)
       PROVE  /\ blocked' = Denials' - (IF hand'["c2b"] = "denied" THEN 1 ELSE 0)
              /\ Refusals' = blocked' \/ (Refusals' = blocked' - 1 /\ pump'["c2b"] = "dead")
  <2>1. UNCHANGED <<blocked, hand>> /\ Denials' = Denials /\ Refusals' = Refusals
    BY <1>16 DEF PassEnd, Denials, Refusals
  <2>2. pump["c2b"] = "dead" => pump'["c2b"] = "dead"
    BY <1>6, <1>7, <1>16 DEF PassEnd
  <2> QED BY <1>4, <2>1, <2>2
<1> QED BY <1>4, <1>8, <1>9, <1>10, <1>11, <1>12, <1>13, <1>14, <1>15, <1>16, RelaySteps

-----------------------------------------------------------------------------
LEMMA Bearings ==
  ASSUME relay' = relay, NEW d
  PROVE  Own(d)' = Own(d) /\ Dropped(d)' = Dropped(d) /\ Inspected(d)' = Inspected(d)
BY DEF Own, Dropped, Inspected

LEMMA ChannelTypes ==
  ASSUME RelayTypes, NEW d \in Directions
  PROVE  /\ sent[d] \in Seq(Said) /\ Len(sent[d]) \in Nat /\ taken[d] \in 0 .. Len(sent[d])
         /\ out[d] \in Seq(Written) /\ Len(out[d]) \in Nat /\ Own(d) \in Nat
         /\ Relayed(d) \in Seq(Said) /\ Due(d) \in Seq(Said) /\ Arrived(d) \in Seq(Written)
<1>1. sent[d] \in Seq(Said) /\ Len(sent[d]) \in Nat /\ taken[d] \in 0 .. Len(sent[d])
      /\ out[d] \in Seq(Written) /\ Len(out[d]) \in Nat
  BY DEF RelayTypes
<1>2. Own(d) \in Nat
  BY Ways
<1>3. \A i \in 0 .. Len(sent[d]) : Kept(sent[d], Own(d), Dropped(d))[i] \in Seq(Said)
  BY <1>1, <1>2, KeptTyped
<1>4. \A i \in 0 .. Len(out[d]) : Kept(out[d], Own(d), "blocked")[i] \in Seq(Written)
  BY <1>1, <1>2, KeptTyped
<1>5. Len(sent[d]) \in 0 .. Len(sent[d]) /\ Len(out[d]) \in 0 .. Len(out[d])
  BY <1>1
<1> QED BY <1>1, <1>2, <1>3, <1>4, <1>5 DEF Relayed, Due, Arrived

\* What is due is a prefix of what is to be relayed, all of it at the end.
LEMMA DuePrefix ==
  ASSUME RelayTypes, NEW d \in Directions
  PROVE  /\ Len(Due(d)) <= Len(Relayed(d))
         /\ \A p \in 1 .. Len(Due(d)) : Relayed(d)[p] = Due(d)[p]
         /\ taken[d] = Len(sent[d]) => Due(d) = Relayed(d)
         /\ taken[d] <= Own(d) => Due(d) = <<>>
<1>1. sent[d] \in Seq(Said) /\ Own(d) \in Nat /\ taken[d] \in 0 .. Len(sent[d])
      /\ Len(sent[d]) \in 0 .. Len(sent[d]) /\ taken[d] <= Len(sent[d])
  BY ChannelTypes
<1> DEFINE K == Kept(sent[d], Own(d), Dropped(d))
<1>2. Prefix(K[taken[d]], K[Len(sent[d])])
  <2> DEFINE s == sent[d]
             n == Own(d)
             x == Dropped(d)
             i == taken[d]
             j == Len(s)
  <2>1. s \in Seq(Said) /\ n \in Nat /\ i \in 0 .. Len(s) /\ j \in 0 .. Len(s) /\ i <= j
    BY <1>1
  <2> HIDE DEF s, n, x, i, j
  <2>2. Prefix(Kept(s, n, x)[i], Kept(s, n, x)[j])
    BY <2>1, KeptPrefix
  <2> QED BY <2>2 DEF s, n, x, i, j
<1>3. taken[d] <= Own(d) => K[taken[d]] = <<>>
  BY <1>1, KeptOf
<1>4. Due(d) = K[taken[d]] /\ Relayed(d) = K[Len(sent[d])]
  BY DEF Due, Relayed
<1> HIDE DEF K
<1> QED BY <1>2, <1>3, <1>4 DEF Prefix

\* What is due when the source sends, when the pump receives, and what arrives.
LEMMA DueSent ==
  ASSUME RelayTypes, NEW d \in Directions, NEW m \in Said, relay' = relay,
         sent'[d] = Append(sent[d], m), taken'[d] = taken[d]
  PROVE  /\ Due(d)' = Due(d)
         /\ Relayed(d)' = Relayed(d) \/ Relayed(d)' = Append(Relayed(d), m)
<1> DEFINE s == sent[d]
           n == Own(d)
           x == Dropped(d)
           L == Len(s)
<1>1. s \in Seq(Said) /\ n \in Nat /\ L \in Nat /\ taken[d] \in 0 .. L
  BY ChannelTypes
<1>2. Due(d)' = Kept(Append(s, m), n, x)[taken[d]] /\ Due(d) = Kept(s, n, x)[taken[d]]
  BY Bearings DEF Due
<1>3. Relayed(d)' = Kept(Append(s, m), n, x)[Len(Append(s, m))] /\ Relayed(d) = Kept(s, n, x)[L]
  BY Bearings DEF Relayed
<1> HIDE DEF s, n, x, L
<1>4. Len(Append(s, m)) = L + 1
  BY <1>1, AppendProperties DEF L
<1>5. /\ \A i \in 0 .. L : Kept(Append(s, m), n, x)[i] = Kept(s, n, x)[i]
      /\ L + 1 <= n => Kept(Append(s, m), n, x)[L + 1] = <<>>
      /\ n <= L /\ m = x => Kept(Append(s, m), n, x)[L + 1] = Kept(s, n, x)[L]
      /\ n <= L /\ m # x => Kept(Append(s, m), n, x)[L + 1] = Append(Kept(s, n, x)[L], m)
  <2>1. L = Len(s) /\ s \in Seq(Said) /\ n \in Nat /\ m \in Said
    BY <1>1 DEF L
  <2> HIDE DEF L
  <2>2. \A i \in 0 .. L : Kept(Append(s, m), n, x)[i] = Kept(s, n, x)[i]
    BY <2>1, KeptAppend
  <2>3. /\ L + 1 <= n => Kept(Append(s, m), n, x)[L + 1] = <<>>
        /\ n <= L /\ m = x => Kept(Append(s, m), n, x)[L + 1] = Kept(s, n, x)[L]
        /\ n <= L /\ m # x => Kept(Append(s, m), n, x)[L + 1] = Append(Kept(s, n, x)[L], m)
    BY <2>1, KeptAppend
  <2> QED BY <2>2, <2>3
<1>6. L <= n => Kept(s, n, x)[L] = <<>>
  <2>1. L \in 0 .. Len(s)
    BY <1>1 DEF L
  <2> QED BY <1>1, <2>1, KeptOf
<1>7. L + 1 <= n \/ n <= L
  BY <1>1
<1>8. L + 1 <= n => L <= n
  BY <1>1
<1>9. Kept(Append(s, m), n, x)[L + 1] \in {Kept(s, n, x)[L], Append(Kept(s, n, x)[L], m)}
  BY <1>5, <1>6, <1>7, <1>8
<1> QED BY <1>1, <1>2, <1>3, <1>4, <1>5, <1>9

LEMMA DueTaken ==
  ASSUME RelayTypes, NEW d \in Directions, relay' = relay, sent'[d] = sent[d],
         taken'[d] = taken[d] + 1, Available(d), Own(d) <= taken[d]
  PROVE  /\ Due(d)' = IF NextOf(d) = Dropped(d) THEN Due(d) ELSE Append(Due(d), NextOf(d))
         /\ NextOf(d) \in Said
<1> DEFINE s == sent[d]
           n == Own(d)
           x == Dropped(d)
           t == taken[d] + 1
<1>1. s \in Seq(Said) /\ n \in Nat /\ t \in 1 .. Len(s) /\ t \in 0 .. Len(s) /\ n < t /\ t - 1 = taken[d]
  BY ChannelTypes DEF Available
<1>2. Due(d)' = Kept(s, n, x)[t] /\ Due(d) = Kept(s, n, x)[t - 1] /\ NextOf(d) = s[t]
  BY <1>1, Bearings DEF Due, NextOf
<1>3. s[t] \in Said
  BY <1>1
<1> HIDE DEF s, n, x, t
<1>4. /\ n < t /\ s[t] = x => Kept(s, n, x)[t] = Kept(s, n, x)[t - 1]
      /\ n < t /\ s[t] # x => Kept(s, n, x)[t] = Append(Kept(s, n, x)[t - 1], s[t])
  BY <1>1, KeptOf
<1> QED BY <1>1, <1>2, <1>3, <1>4 DEF x

LEMMA ArrivedMore ==
  ASSUME RelayTypes, NEW d \in Directions, NEW m \in Written, relay' = relay,
         out'[d] = Append(out[d], m), Own(d) <= Len(out[d])
  PROVE  /\ Arrived(d)' = IF m = "blocked" THEN Arrived(d) ELSE Append(Arrived(d), m)
         /\ Len(out'[d]) = Len(out[d]) + 1
<1> DEFINE o == out[d]
           n == Own(d)
           L == Len(o)
<1>1. o \in Seq(Written) /\ n \in Nat /\ L \in Nat /\ n <= L
  BY ChannelTypes
<1>2. Arrived(d)' = Kept(Append(o, m), n, "blocked")[Len(Append(o, m))] /\ Arrived(d) = Kept(o, n, "blocked")[L]
      /\ out'[d] = Append(o, m)
  BY Bearings DEF Arrived
<1> HIDE DEF o, n
<1>3. Len(Append(o, m)) = L + 1
  BY <1>1, AppendProperties
<1>4. /\ n <= L /\ m = "blocked" => Kept(Append(o, m), n, "blocked")[L + 1] = Kept(o, n, "blocked")[L]
      /\ n <= L /\ m # "blocked" =>
           Kept(Append(o, m), n, "blocked")[L + 1] = Append(Kept(o, n, "blocked")[L], m)
  BY <1>1, KeptAppend
<1> HIDE DEF L
<1> QED BY <1>1, <1>2, <1>3, <1>4 DEF L, o

LEMMA NothingArrived ==
  ASSUME RelayTypes, NEW d \in Directions, Len(out[d]) <= Own(d)
  PROVE  Arrived(d) = <<>>
<1>1. out[d] \in Seq(Written) /\ Own(d) \in Nat /\ Len(out[d]) \in 0 .. Len(out[d])
  BY ChannelTypes
<1>2. Kept(out[d], Own(d), "blocked")[Len(out[d])] = <<>>
  BY <1>1, KeptOf
<1> QED BY <1>2 DEF Arrived

-----------------------------------------------------------------------------
LEMMA PumpQuiet ==
  ASSUME NEW d \in Directions, PumpInv(d),
         UNCHANGED <<relay, hs, sent[d], ended[d], taken[d], hand[d], pump[d], out[d], closed[d]>>
  PROVE  PumpInv(d)' /\ Silent(d)
<1>1. Own(d)' = Own(d) /\ Dropped(d)' = Dropped(d)
  BY Bearings
<1>2. Due(d)' = Due(d) /\ Relayed(d)' = Relayed(d) /\ Arrived(d)' = Arrived(d)
  BY <1>1 DEF Due, Relayed, Arrived
<1> QED BY <1>1, <1>2 DEF PumpInv, Silent

\* One lemma per action: the pump keeps its invariant, the channel takes a step.
LEMMA SendsStep ==
  ASSUME RelayTypes, NEW d \in Directions, PumpInv(d), Sends(d)
  PROVE  PumpInv(d)' /\ ChannelStep(d)
<1>1. UNCHANGED <<relay, hs, ended, taken, hand, pump, out, closed>> /\ ~ended[d]
  BY DEF Sends
<1>2. PICK m \in Said : sent' = [sent EXCEPT ![d] = Append(@, m)]
  BY DEF Sends, Said
<1>3. sent'[d] = Append(sent[d], m)
  BY <1>2 DEF RelayTypes
<1>4. /\ Due(d)' = Due(d)
      /\ Relayed(d)' = Relayed(d) \/ Relayed(d)' = Append(Relayed(d), m)
  BY <1>1, <1>3, DueSent
<1>5. Own(d)' = Own(d) /\ Dropped(d)' = Dropped(d)
  BY <1>1, Bearings
<1>6. Arrived(d)' = Arrived(d)
  BY <1>1, <1>5 DEF Arrived
<1>7. m \in Payloads
  BY RelaySorts
<1>8. PumpInv(d)'
  BY <1>1, <1>4, <1>5, <1>6 DEF PumpInv
<1>9. ChannelStep(d)
  BY <1>1, <1>4, <1>6, <1>7 DEF ChannelStep, Silent
<1> QED BY <1>8, <1>9

LEMMA EndsStep ==
  ASSUME RelayTypes, NEW d \in Directions, PumpInv(d), SourceEnds(d)
  PROVE  PumpInv(d)' /\ ChannelStep(d)
<1>1. UNCHANGED <<relay, hs, sent, taken, hand, pump, out, closed>> /\ ended'[d] = TRUE
  BY DEF SourceEnds, RelayTypes
<1>2. Own(d)' = Own(d) /\ Dropped(d)' = Dropped(d)
  BY <1>1, Bearings
<1>3. Due(d)' = Due(d) /\ Relayed(d)' = Relayed(d) /\ Arrived(d)' = Arrived(d)
  BY <1>1, <1>2 DEF Due, Relayed, Arrived
<1> QED BY <1>1, <1>2, <1>3 DEF PumpInv, ChannelStep

LEMMA TakesStep ==
  ASSUME RelayTypes, HandshakeInv, NEW d \in Directions, PumpInv(d), PumpReceives(d)
  PROVE  PumpInv(d)' /\ ChannelStep(d)
<1>1. /\ UNCHANGED <<relay, hs, sent, ended, pump, out, closed>> /\ pump[d] = "running"
      /\ hand[d] = NoMessage /\ Available(d)
      /\ taken'[d] = taken[d] + 1 /\ hand'[d] = NextOf(d)
  BY DEF PumpReceives, TakeOne, RelayTypes
<1>2. hs = "over"
  BY <1>1 DEF HandshakeInv
<1>3. Own(d) <= taken[d]
  BY <1>1, <1>2 DEF PumpInv, Available, RelayTypes
<1>4. /\ Due(d)' = IF NextOf(d) = Dropped(d) THEN Due(d) ELSE Append(Due(d), NextOf(d))
      /\ NextOf(d) \in Said
  BY <1>1, <1>3, DueTaken
<1>5. Own(d)' = Own(d) /\ Dropped(d)' = Dropped(d)
  BY <1>1, Bearings
<1>6. Arrived(d)' = Arrived(d) /\ Relayed(d)' = Relayed(d)
  BY <1>1, <1>5 DEF Arrived, Relayed
<1>7. NextOf(d) # NoMessage
  BY <1>4, RelaySorts
<1>8. Due(d) = Arrived(d)
  BY <1>1, <1>2 DEF PumpInv
<1>9. Own(d) <= taken[d] + 1
  BY <1>3, Ways DEF RelayTypes
<1>10. PumpInv(d)'
  BY <1>1, <1>2, <1>4, <1>5, <1>6, <1>7, <1>8, <1>9 DEF PumpInv
<1> QED BY <1>1, <1>6, <1>10 DEF ChannelStep, Silent

LEMMA ForwardStep ==
  ASSUME RelayTypes, HandshakeInv, NEW d \in Directions, PumpInv(d), Forward(d)
  PROVE  PumpInv(d)' /\ ChannelStep(d)
<1>1. /\ UNCHANGED <<relay, hs, sent, ended, taken, pump, closed>> /\ pump[d] = "running" /\ hand[d] # NoMessage
      /\ out'[d] = Append(out[d], hand[d]) /\ hand'[d] = NoMessage
  BY DEF Forward, RelayTypes
<1>2. hs = "over"
  BY <1>1 DEF HandshakeInv
<1>3. hand[d] \in Said /\ hand[d] # Dropped(d)
  BY <1>1 DEF Forward, Dropped, RelayTypes
<1>4. hand[d] \in Written /\ hand[d] # "blocked"
  BY <1>3, RelaySorts
<1>5. Own(d) <= Len(out[d]) /\ Due(d) = Append(Arrived(d), hand[d]) /\ ~closed[d]
  BY <1>1, <1>2, <1>3 DEF PumpInv
<1>6. Arrived(d)' = Append(Arrived(d), hand[d]) /\ Len(out'[d]) = Len(out[d]) + 1
  BY <1>1, <1>4, <1>5, ArrivedMore
<1>7. Own(d)' = Own(d) /\ Dropped(d)' = Dropped(d)
  BY <1>1, Bearings
<1>8. Due(d)' = Due(d) /\ Relayed(d)' = Relayed(d)
  BY <1>1, <1>7 DEF Due, Relayed
<1>9. Own(d) <= Len(out[d]) + 1
  BY <1>5, ChannelTypes
<1>10. PumpInv(d)'
  BY <1>1, <1>2, <1>5, <1>6, <1>7, <1>8, <1>9 DEF PumpInv
<1>11. Len(Arrived(d)) < Len(Relayed(d)) /\ Relayed(d)[Len(Arrived(d)) + 1] = hand[d]
  <2> DEFINE a == Arrived(d)
             l == Len(a)
  <2>1. a \in Seq(Written) /\ l \in Nat /\ Due(d) \in Seq(Said) /\ Relayed(d) \in Seq(Said)
    BY ChannelTypes
  <2>2. Len(Due(d)) = l + 1 /\ Due(d)[l + 1] = hand[d]
    BY <1>4, <1>5, <2>1, AppendProperties
  <2>3. l + 1 \in 1 .. Len(Due(d)) /\ l < Len(Due(d))
    BY <2>1, <2>2
  <2>4. Len(Due(d)) <= Len(Relayed(d)) /\ Relayed(d)[l + 1] = Due(d)[l + 1]
    BY <2>3, DuePrefix
  <2> HIDE DEF l
  <2>5. Len(Relayed(d)) \in Nat /\ Len(Due(d)) \in Nat
    BY <2>1
  <2>6. l < Len(Relayed(d))
    BY <2>1, <2>3, <2>4, <2>5
  <2> QED BY <2>2, <2>4, <2>6 DEF l
<1>12. ChannelStep(d)
  BY <1>1, <1>5, <1>6, <1>8, <1>11 DEF ChannelStep
<1> QED BY <1>10, <1>12

LEMMA PassEndStep ==
  ASSUME RelayTypes, HandshakeInv, NEW d \in Directions, PumpInv(d), PassEnd(d)
  PROVE  PumpInv(d)' /\ ChannelStep(d)
<1>1. /\ UNCHANGED <<relay, hs, sent, ended, taken, hand, out>> /\ pump[d] = "running" /\ hand[d] = NoMessage
      /\ AtEnd(d) /\ closed'[d] = TRUE /\ pump'[d] = "done"
  BY DEF PassEnd, RelayTypes
<1>2. hs = "over"
  BY <1>1 DEF HandshakeInv
<1>3. ended[d] /\ taken[d] = Len(sent[d])
  BY <1>1, ChannelTypes DEF AtEnd, Available
<1>4. Own(d)' = Own(d) /\ Dropped(d)' = Dropped(d)
  BY <1>1, Bearings
<1>5. Due(d)' = Due(d) /\ Relayed(d)' = Relayed(d) /\ Arrived(d)' = Arrived(d)
  BY <1>1, <1>4 DEF Due, Relayed, Arrived
<1>6. Arrived(d) = Relayed(d)
  BY <1>1, <1>2, <1>3, DuePrefix DEF PumpInv
<1>7. PumpInv(d)'
  BY <1>1, <1>2, <1>4, <1>5 DEF PumpInv
<1> QED BY <1>1, <1>3, <1>5, <1>6, <1>7 DEF ChannelStep

LEMMA DenyStep ==
  ASSUME RelayTypes, HandshakeInv, NEW d \in Directions, PumpInv(d), Deny
  PROVE  PumpInv(d)' /\ ChannelStep(d)
<1>1. /\ UNCHANGED <<relay, hs, sent, ended, taken, closed>> /\ pump["c2b"] = "running" /\ hand["c2b"] = "denied"
      /\ Inspected("c2b")
      /\ \/ closed["b2c"] /\ pump' = [pump EXCEPT !["c2b"] = "dead"] /\ out' = out
         \/ out' = [out EXCEPT !["b2c"] = Append(@, "blocked")] /\ pump' = pump
      /\ hand' = [hand EXCEPT !["c2b"] = NoMessage]
  BY DEF Deny
<1>2. hs = "over" /\ "c2b" # "b2c" /\ "c2b" \in Directions /\ "b2c" \in Directions
  BY <1>1, Ways DEF HandshakeInv
<1>3. Own(d)' = Own(d) /\ Dropped(d)' = Dropped(d)
  BY <1>1, Bearings
<1>4. Due(d)' = Due(d) /\ Relayed(d)' = Relayed(d)
  BY <1>1, <1>3 DEF Due, Relayed
<1>5. CASE d = "c2b"
  <2>1. hand[d] = Dropped(d) /\ hand'[d] = NoMessage /\ out'[d] = out[d] /\ pump'[d] \in {"running", "dead"}
    BY <1>1, <1>2, <1>5 DEF Dropped, RelayTypes
  <2>2. Arrived(d)' = Arrived(d)
    BY <1>3, <2>1 DEF Arrived
  <2>3. pump[d] = "running" /\ ~closed[d] /\ closed'[d] = closed[d] /\ "dead" # "idle" /\ "running" # "idle"
    BY <1>1, <1>2, <1>5 DEF PumpInv
  <2>4. PumpInv(d)'
    BY <1>1, <1>2, <1>3, <1>4, <2>1, <2>2, <2>3 DEF PumpInv
  <2> QED BY <1>1, <1>4, <2>2, <2>4 DEF ChannelStep, Silent
<1>6. CASE d = "b2c"
  <2>1. hand'[d] = hand[d] /\ pump'[d] = pump[d]
    BY <1>1, <1>2, <1>6 DEF RelayTypes
  <2>2. Own(d) <= Len(out[d])
    BY <1>2 DEF PumpInv
  <2>3. Arrived(d)' = Arrived(d) /\ Own(d) <= Len(out'[d])
    <3>1. CASE out' = out
      BY <1>3, <2>2, <3>1 DEF Arrived
    <3>2. CASE out' = [out EXCEPT !["b2c"] = Append(@, "blocked")]
      <4>1. out'[d] = Append(out[d], "blocked")
        BY <1>2, <1>6, <3>2 DEF RelayTypes
      <4>2. "blocked" \in Written
        BY RelaySorts
      <4>3. Arrived(d)' = Arrived(d) /\ Len(out'[d]) = Len(out[d]) + 1
        BY <1>1, <2>2, <4>1, <4>2, ArrivedMore
      <4>4. Len(out[d]) \in Nat /\ Own(d) \in Nat
        BY ChannelTypes
      <4> QED BY <2>2, <4>3, <4>4
    <3> QED BY <1>1, <3>1, <3>2
  <2>4. PumpInv(d)'
    BY <1>1, <1>2, <1>3, <1>4, <2>1, <2>3 DEF PumpInv
  <2> QED BY <1>1, <1>4, <2>3, <2>4 DEF ChannelStep, Silent
<1> QED BY <1>5, <1>6, Ways

LEMMA UnreadableStep ==
  ASSUME RelayTypes, HandshakeInv, NEW d \in Directions, PumpInv(d), Unreadable
  PROVE  PumpInv(d)' /\ ChannelStep(d)
<1>1. /\ UNCHANGED <<relay, hs, sent, ended, taken, out, closed>> /\ pump["c2b"] = "running"
      /\ pump' = [pump EXCEPT !["c2b"] = "dead"] /\ hand' = [hand EXCEPT !["c2b"] = NoMessage]
  BY DEF Unreadable
<1>2. hs = "over" /\ "c2b" # "b2c" /\ "c2b" \in Directions /\ "b2c" \in Directions
  BY <1>1, Ways DEF HandshakeInv
<1>3. Own(d)' = Own(d) /\ Dropped(d)' = Dropped(d)
  BY <1>1, Bearings
<1>4. Due(d)' = Due(d) /\ Relayed(d)' = Relayed(d) /\ Arrived(d)' = Arrived(d)
  BY <1>1, <1>3 DEF Due, Relayed, Arrived
<1>5. Silent(d)
  BY <1>1, <1>4 DEF Silent
<1>6. CASE d = "c2b"
  <2>1. hand'[d] = NoMessage /\ pump'[d] = "dead" /\ ~closed[d]
    BY <1>1, <1>2, <1>6 DEF RelayTypes, PumpInv
  <2> QED BY <1>1, <1>2, <1>3, <1>4, <1>5, <2>1 DEF PumpInv, ChannelStep
<1>7. CASE d = "b2c"
  <2>1. hand'[d] = hand[d] /\ pump'[d] = pump[d]
    BY <1>1, <1>2, <1>7 DEF RelayTypes
  <2> QED BY <1>1, <1>2, <1>3, <1>4, <1>5, <2>1 DEF PumpInv, ChannelStep
<1> QED BY <1>6, <1>7, Ways

\* The handshake moves nothing of either channel.
LEMMA HandshakeStep ==
  ASSUME RelayTypes, RelayTypes', HandshakeInv, HandshakeInv', NEW d \in Directions, Handshake
  PROVE  PumpInv(d)' /\ ChannelStep(d)
<1>1. UNCHANGED <<relay, sent, ended, hand, closed>> /\ hs # "over" /\ Len(out[d]) <= Own(d)
  BY DEF Handshake, HandshakeClient, HandshakeBackend, HandshakeConfirm, HandshakeInv
<1>2. Own(d)' = Own(d) /\ Dropped(d)' = Dropped(d)
  BY <1>1, Bearings
<1>3. Relayed(d)' = Relayed(d)
  BY <1>1, <1>2 DEF Relayed
<1>4. Arrived(d) = <<>>
  BY <1>1, NothingArrived
<1>5. CASE HandshakeConfirm
  <2>1. out' = out /\ hs = "confirm" /\ hs' = "over" /\ pump'[d] = "running"
    BY <1>5 DEF HandshakeConfirm
  <2>2. Arrived(d)' = Arrived(d)
    BY <1>2, <2>1 DEF Arrived
  <2>3. Len(out[d]) = Own(d) /\ taken[d] = 1 /\ hand[d] = NoMessage /\ ~closed[d] /\ relay = "forward"
    BY <2>1 DEF HandshakeInv
  <2>4. taken'[d] <= Own(d) /\ (Own(d) <= taken'[d] \/ (ended[d] /\ taken'[d] = Len(sent[d])))
    <3>1. CASE d = "c2b"
      <4>1. Own(d) = 2
        BY <2>3, <3>1, Ways
      <4>2. CASE AtEnd("c2b") /\ taken' = taken
        BY <2>3, <3>1, <4>1, <4>2, ChannelTypes DEF AtEnd, Available
      <4>3. CASE TakeOne("c2b")
        <5>1. taken'[d] = 2
          BY <2>3, <3>1, <4>3 DEF TakeOne, RelayTypes
        <5> QED BY <4>1, <5>1
      <4> QED BY <1>5, <4>2, <4>3 DEF HandshakeConfirm
    <3>2. CASE d = "b2c"
      <4>1. Own(d) = 1
        BY <2>3, <3>2, Ways
      <4>2. taken'[d] = taken[d]
        BY <1>5, <3>2, Ways DEF HandshakeConfirm, TakeOne, RelayTypes
      <4> QED BY <2>3, <4>1, <4>2
    <3> QED BY <3>1, <3>2, Ways
  <2>5. Due(d)' = <<>>
    <3>1. sent[d] \in Seq(Said) /\ Own(d) \in Nat
      BY ChannelTypes
    <3>2. taken'[d] \in 0 .. Len(sent[d])
      BY <1>1 DEF RelayTypes
    <3>3. Kept(sent[d], Own(d), Dropped(d))[taken'[d]] = <<>>
      BY <2>4, <3>1, <3>2, KeptOf
    <3> QED BY <1>1, <1>2, <3>3 DEF Due
  <2>6. Own(d) <= Len(out[d])
    BY <2>3, Ways
  <2>7. PumpInv(d)'
    BY <1>1, <1>2, <1>4, <2>1, <2>2, <2>3, <2>4, <2>5, <2>6 DEF PumpInv
  <2> QED BY <1>1, <1>3, <2>2, <2>7 DEF ChannelStep, Silent
<1>6. CASE HandshakeClient \/ HandshakeBackend
  <2>1. hs' # "over"
    BY <1>6 DEF HandshakeClient, HandshakeBackend
  <2>2. Len(out'[d]) <= Own(d)'
    BY <2>1 DEF HandshakeInv
  <2>3. Arrived(d)' = <<>>
    <3>1. out'[d] \in Seq(Written) /\ Own(d) \in Nat
      BY Ways DEF RelayTypes
    <3>2. Len(out'[d]) \in 0 .. Len(out'[d]) /\ Len(out'[d]) <= Own(d)
      BY <1>2, <2>2, <3>1
    <3>3. Kept(out'[d], Own(d), "blocked")[Len(out'[d])] = <<>>
      BY <3>1, <3>2, KeptOf
    <3> QED BY <1>2, <3>3 DEF Arrived
  <2>4. PumpInv(d)'
    BY <2>1 DEF PumpInv
  <2> QED BY <1>1, <1>3, <1>4, <2>3, <2>4 DEF ChannelStep, Silent
<1> QED BY <1>5, <1>6 DEF Handshake

LEMMA ElsewhereQuiet ==
  ASSUME RelayTypes, NEW d \in Directions, NEW e \in Directions, d # e, PumpInv(d),
         Sends(e) \/ SourceEnds(e) \/ PumpReceives(e) \/ Forward(e) \/ PassEnd(e)
  PROVE  PumpInv(d)' /\ ChannelStep(d)
<1>1. UNCHANGED <<relay, hs>>
  BY DEF Sends, SourceEnds, PumpReceives, Forward, PassEnd
<1>2. sent'[d] = sent[d] /\ taken'[d] = taken[d]
  BY DEF Sends, SourceEnds, PumpReceives, Forward, PassEnd, TakeOne, RelayTypes
<1>3. ended'[d] = ended[d] /\ closed'[d] = closed[d]
  BY DEF Sends, SourceEnds, PumpReceives, Forward, PassEnd, RelayTypes
<1>4. hand'[d] = hand[d] /\ pump'[d] = pump[d] /\ out'[d] = out[d]
  BY DEF Sends, SourceEnds, PumpReceives, Forward, PassEnd, RelayTypes
<1> QED BY <1>1, <1>2, <1>3, <1>4, PumpQuiet DEF ChannelStep

LEMMA PumpsStep ==
  ASSUME RelayInv, [RelayNext]_(relayVars)
  PROVE  RelayInv' /\ \A d \in Directions : ChannelStep(d)
<1>1. RelayTypes /\ HandshakeInv /\ DeniedAnswered /\ \A d \in Directions : PumpInv(d)
  BY DEF RelayInv
<1>2. RelayTypes' /\ HandshakeInv' /\ DeniedAnswered'
  BY <1>1, RelayTypesHold, HandshakeHolds, DeniedHolds
<1>3. ASSUME NEW d \in Directions PROVE PumpInv(d)' /\ ChannelStep(d)
  <2>1. CASE UNCHANGED relayVars
    BY <1>1, <2>1, PumpQuiet DEF relayVars, ChannelStep
  <2>2. CASE Handshake
    BY <1>1, <1>2, <2>2, HandshakeStep
  <2>3. CASE Deny \/ Unreadable
    BY <1>1, <2>3, DenyStep, UnreadableStep
  <2>4. ASSUME NEW e \in Directions,
               Sends(e) \/ SourceEnds(e) \/ PumpReceives(e) \/ Forward(e) \/ PassEnd(e)
        PROVE  PumpInv(d)' /\ ChannelStep(d)
    <3>1. CASE d = e
      BY <1>1, <2>4, <3>1, SendsStep, EndsStep, TakesStep, ForwardStep, PassEndStep
    <3>2. CASE d # e
      BY <1>1, <2>4, <3>2, ElsewhereQuiet
    <3> QED BY <3>1, <3>2
  <2> QED BY <2>1, <2>2, <2>3, <2>4, RelaySteps
<1>4. \A d \in Directions : PumpInv(d)' /\ ChannelStep(d)
  BY <1>3
<1>5. Directions' = Directions
  BY DEF Directions
<1> QED BY <1>2, <1>4, <1>5 DEF RelayInv

LEMMA PumpsBegin ==
  ASSUME RelayInit
  PROVE  /\ RelayInv
         /\ \A d \in Directions : /\ Relayed(d) = <<>> /\ Arrived(d) = <<>>
                                    /\ ended[d] = FALSE /\ closed[d] = FALSE
<1>1. RelayTypes
  <2>1. <<>> \in Seq(Said) /\ <<>> \in Seq(Written) /\ Len(<<>>) = 0
    OBVIOUS
  <2> QED BY <2>1 DEF RelayInit, RelayTypes
<1>2. HandshakeInv
  <2>1. \A d \in Directions : Len(out[d]) <= Own(d)
    BY Ways DEF RelayInit
  <2> QED BY <2>1 DEF RelayInit, HandshakeInv
<1>3. \A d \in Directions : taken[d] = 0 /\ sent[d] = <<>> /\ out[d] = <<>>
                              /\ ended[d] = FALSE /\ closed[d] = FALSE /\ hand[d] = NoMessage
  BY DEF RelayInit
<1>4. \A d \in Directions : Relayed(d) = <<>> /\ Arrived(d) = <<>> /\ Due(d) = <<>>
  <2>1. TAKE d \in Directions
  <2>2. Len(out[d]) <= Own(d) /\ taken[d] <= Own(d) /\ taken[d] = Len(sent[d])
    BY <1>3, Ways
  <2> QED BY <1>1, <2>2, DuePrefix, NothingArrived
<1>5. ASSUME NEW d \in Directions PROVE PumpInv(d)
  <2>1. hs = "over" => pump[d] = "running" /\ Own(d) = 0
    BY Ways DEF RelayInit
  <2>2. Len(out[d]) = 0
    BY <1>3
  <2> QED BY <1>3, <1>4, <1>5, <2>1, <2>2 DEF PumpInv
<1>6. DeniedAnswered
  <2>1. \A m, s : Number(m, s, 0) = 0
    <3>1. TAKE m, s
    <3>2. {i \in 1 .. 0 : s[i] = m} = {}
      OBVIOUS
    <3> QED BY Zenon, <3>2, FS_EmptySet DEF Number
  <2>2. Len(out["b2c"]) = 0 /\ taken["c2b"] = 0 /\ hand["c2b"] = NoMessage /\ blocked = 0 /\ NoMessage # "denied"
    BY <1>3, Ways DEF RelayInit, NoMessage
  <2> QED BY <2>1, <2>2 DEF DeniedAnswered
<1> QED BY <1>1, <1>2, <1>3, <1>4, <1>5, <1>6 DEF RelayInv

\* RelayInv is inductive.
THEOREM PumpsInvariance == RelaySpec => []RelayInv
<1>1. RelayInit => RelayInv
  BY PumpsBegin
<1>2. RelayInv /\ [RelayNext]_(relayVars) => RelayInv'
  BY PumpsStep
<1> QED BY <1>1, <1>2, PTL DEF RelaySpec

\* Every variable of the relays keeps its type.
THEOREM PumpsTypeCorrect == RelaySpec => []RelayTypeOK
<1>1. RelayInv => RelayTypeOK
  BY ChannelTypes DEF RelayInv, RelayTypes, RelayTypeOK, Said
<1> QED BY <1>1, PumpsInvariance, PTL

\* A message that the header policy denies is answered on the client's side,
\* once: blocked counts the denied messages the pump dealt with, and as many
\* answers were written unless a write raised and ended the pump
\* (_client_to_backend).
THEOREM DenialsAnswered == RelaySpec => []DeniedAnswered
<1>1. RelayInv => DeniedAnswered
  BY DEF RelayInv
<1> QED BY <1>1, PumpsInvariance, PTL

\* Each direction of Relay, TransparentL1 and ForwardProxy implements a FIFO
\* channel with an end, whatever the other direction does and wherever the
\* handshake fails: messages arrive once, in order and unchanged, the end after
\* the last of them (_pump, _client_to_backend, _backend_to_client,
\* ForwardProxy.serve).
THEOREM PumpsImplementChannels == RelaySpec => PumpsAreChannels
<1>1. RelayInit => Upstream!Init /\ Downstream!Init
  BY PumpsBegin, Ways DEF Upstream!Init, Downstream!Init
<1>2. ASSUME RelayInv, [RelayNext]_(relayVars)
      PROVE  [Upstream!Next]_(Upstream!vars)
  <2>1. ChannelStep("c2b")
    BY <1>2, PumpsStep, Ways
  <2> QED BY <2>1 DEF ChannelStep, Silent, Upstream!Next, Upstream!vars, Upstream!Send,
          Upstream!End, Upstream!Deliver, Upstream!DeliverEnd
<1>3. ASSUME RelayInv, [RelayNext]_(relayVars)
      PROVE  [Downstream!Next]_(Downstream!vars)
  <2>1. ChannelStep("b2c")
    BY <1>3, PumpsStep, Ways
  <2> QED BY <2>1 DEF ChannelStep, Silent, Downstream!Next, Downstream!vars, Downstream!Send,
          Downstream!End, Downstream!Deliver, Downstream!DeliverEnd
<1> QED BY <1>1, <1>2, <1>3, PumpsInvariance, PTL
        DEF RelaySpec, PumpsAreChannels, Upstream!Spec, Downstream!Spec

=============================================================================
