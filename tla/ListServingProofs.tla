--------------------------- MODULE ListServingProofs ---------------------------
(***************************************************************************)
(* What holds of the lists and of the cache that all client connections    *)
(* share, however many connections, backends and changes there are.        *)
(*                                                                         *)
(* A result travels from a backend over the wire into a part of a list and *)
(* from there into the cache, whence it becomes a part of other lists.     *)
(* PrivacyInv follows whose request it answered, CurrencyInv what has been *)
(* announced since, PartsInv which parts a list has.                       *)
(***************************************************************************)
EXTENDS ListServing, SequenceTheorems, TLAPS

Elems(q) == {q[i] : i \in DOMAIN q}

\* Which parts a list can have, and which it lacks.
PartsAre(lp) ==
    /\ lp.pc # "fetching" => \A b \in Backends : lp.part[b].src # "wait"
    /\ lp.pc = "fetching" => /\ \A b \in Backends : b \in lp.reset => lp.part[b].src = "none"
                             /\ lp.unavailable = {b \in Backends : lp.part[b].src = "none"} \ lp.reset
    /\ lp.pc = "sending" =>
          lp.unavailable = {b \in Backends : lp.part[b].src \notin {"cache", "fetched"}} \ lp.reset

PartsInv == \A c \in Clients : PartsAre(loop[c])

\* A result is the answer to a request of the connection that fetched it; a
\* private one is kept for the principal of that connection.
AnswerOwned(c, msg) == msg.kind = "answer" => msg.result.src = "fetched" /\ msg.result.asker = Principal[c]
PartOwned(c, part) ==
    part.src = "fetched" \/ (part.src = "cache" /\ part.scope = "private") => part.asker = Principal[c]

PrivacyInv ==
    /\ \A c \in Clients, b \in Backends : \A msg \in Elems(wire[c][b]) : AnswerOwned(c, msg)
    /\ \A c \in Clients, b \in Backends : PartOwned(c, loop[c].part[b])
    /\ \A k \in Keys : entries[k] # None /\ entries[k].result.scope = "private"
          => entries[k].result.asker = entries[k].principal

\* What a route loop has fetched, or is about to read, is no older than what
\* was announced, unless an announcement overtook the request.
Dated(msg, v, n) ==
    msg.version <= v /\ (msg.kind = "answer" => msg.list <= n /\ msg.result.version = msg.version)
ReplyCurrent(msg, part, n, t) ==
    msg.kind = "answer" /\ msg.list = n /\ part.src = "wait" /\ msg.version < t => part.overtaken
PartCurrent(lp, b, t) ==
    lp.pc = "fetching" /\ lp.part[b].src = "fetched" /\ lp.part[b].version < t => lp.part[b].overtaken

CurrencyInv ==
    /\ \A b \in Backends : told[b] <= version[b]
    /\ \A c \in Clients, b \in Backends : \A msg \in Elems(wire[c][b]) : Dated(msg, version[b], lists[c])
    /\ \A c \in Clients, b \in Backends : \A msg \in Elems(wire[c][b]) :
          ReplyCurrent(msg, loop[c].part[b], lists[c], told[b])
    /\ \A c \in Clients, b \in Backends : PartCurrent(loop[c], b, told[b])
    /\ StaleOnlyIfOvertaken

IndInv == TypeOK /\ PartsInv /\ PrivacyInv /\ CurrencyInv

-----------------------------------------------------------------------------
\* The queues.
LEMMA Joined ==
  ASSUME NEW S, NEW q \in Seq(S), NEW x \in S
  PROVE  /\ Append(q, x) \in Seq(S) /\ Len(Append(q, x)) = Len(q) + 1 /\ Len(q) \in Nat
         /\ DOMAIN q = 1 .. Len(q) /\ DOMAIN Append(q, x) = 1 .. Len(q) + 1
         /\ Append(q, x)[Len(q) + 1] = x
         /\ \A i \in DOMAIN q : Append(q, x)[i] = q[i]
         /\ \A i \in DOMAIN Append(q, x) : i = Len(q) + 1 \/ i \in DOMAIN q
<1>1. /\ Append(q, x) \in Seq(S) /\ Len(Append(q, x)) = Len(q) + 1 /\ Len(q) \in Nat
      /\ Append(q, x)[Len(q) + 1] = x /\ \A i \in 1..Len(q) : Append(q, x)[i] = q[i]
  BY AppendProperties
<1> QED BY <1>1

LEMMA Shifted ==
  ASSUME NEW S, NEW q \in Seq(S), q # <<>>
  PROVE  /\ Tail(q) \in Seq(S) /\ Len(Tail(q)) = Len(q) - 1 /\ Len(q) \in Nat \ {0}
         /\ DOMAIN Tail(q) = 1 .. Len(q) - 1 /\ DOMAIN q = 1 .. Len(q)
         /\ \A i \in DOMAIN Tail(q) : i + 1 \in DOMAIN q /\ Tail(q)[i] = q[i + 1]
         /\ \A i \in DOMAIN q : i = 1 \/ (i - 1 \in DOMAIN Tail(q) /\ Tail(q)[i - 1] = q[i])
         /\ Head(q) = q[1] /\ 1 \in DOMAIN q /\ Head(q) \in S
<1>1. /\ Tail(q) \in Seq(S) /\ Len(Tail(q)) = Len(q) - 1 /\ Len(q) \in Nat \ {0}
      /\ \A i \in 1..Len(Tail(q)) : Tail(q)[i] = q[i + 1]
      /\ Head(q) = q[1]
  BY HeadTailProperties
<1>2. DOMAIN q = 1 .. Len(q) /\ DOMAIN Tail(q) = 1 .. Len(q) - 1
  BY <1>1
<1>3. \A i \in DOMAIN Tail(q) : i + 1 \in DOMAIN q /\ Tail(q)[i] = q[i + 1]
  BY <1>1, <1>2
<1>4. ASSUME NEW i \in DOMAIN q, i # 1
      PROVE  i - 1 \in DOMAIN Tail(q) /\ Tail(q)[i - 1] = q[i]
  <2>1. i - 1 \in 1 .. Len(q) - 1 /\ (i - 1) + 1 = i
    BY <1>1, <1>2, <1>4
  <2> QED BY <1>2, <1>3, <2>1
<1> QED BY <1>1, <1>2, <1>3, <1>4

LEMMA QueueElems ==
  ASSUME NEW S, NEW q \in Seq(S)
  PROVE  /\ Elems(q) \subseteq S
         /\ \A x \in S : Elems(Append(q, x)) = Elems(q) \union {x}
         /\ q # <<>> => Elems(Tail(q)) \subseteq Elems(q) /\ Head(q) \in Elems(q)
BY Joined, Shifted DEF Elems

-----------------------------------------------------------------------------
\* Results, entries and route loops.
LEMMA Constants ==
  /\ MaxVersion \in Nat /\ MaxLists \in Nat /\ MaxTime \in Nat /\ NBackends \in Nat /\ DefaultTtl \in Nat
  /\ Ttls \subseteq Nat /\ Scopes \subseteq {"public", "private"}
  /\ Idle.method \in Methods
BY ConfigurationAssumption DEF Idle

LEMMA NothingSlot ==
  /\ Nothing \in Slot /\ Nothing.src = "none" /\ ~Nothing.error
  /\ [Nothing EXCEPT !.src = "wait"] \in Slot /\ [Nothing EXCEPT !.src = "wait"].src = "wait"
<1>1. Nothing \in Slot
  BY Constants DEF Nothing, Slot
<1>2. [Nothing EXCEPT !.src = "wait"] \in Slot /\ [Nothing EXCEPT !.src = "wait"].src = "wait"
  BY <1>1 DEF Slot
<1> QED BY <1>1, <1>2 DEF Nothing

LEMMA SlotEdits ==
  ASSUME NEW r \in Slot
  PROVE  /\ \A x \in BOOLEAN :
               /\ [r EXCEPT !.overtaken = x] \in Slot
               /\ [r EXCEPT !.overtaken = x].src = r.src
               /\ [r EXCEPT !.overtaken = x].version = r.version
               /\ [r EXCEPT !.overtaken = x].scope = r.scope
               /\ [r EXCEPT !.overtaken = x].asker = r.asker
               /\ [r EXCEPT !.overtaken = x].overtaken = x
         /\ [r EXCEPT !.src = "failed"] \in Slot /\ [r EXCEPT !.src = "failed"].src = "failed"
         /\ \A x \in SUBSET Clients :
               /\ [r EXCEPT !.src = "cache", !.survived = x] \in Slot
               /\ [r EXCEPT !.src = "cache", !.survived = x].src = "cache"
               /\ [r EXCEPT !.src = "cache", !.survived = x].scope = r.scope
               /\ [r EXCEPT !.src = "cache", !.survived = x].asker = r.asker
BY DEF Slot

LEMMA SlotTtl ==
  ASSUME NEW r \in Slot
  PROVE  r.ttl \in Nat
<1>1. r.ttl \in Ttls \union {0, DefaultTtl}
  BY DEF Slot
<1>2. Ttls \union {0, DefaultTtl} \subseteq Nat
  BY Constants
<1> QED BY <1>1, <1>2

\* What invalidations and the breakers' history leave of the entries.
Shrinks(es) ==
    /\ es \in [Keys -> Cached \union {None}]
    /\ \A k \in Keys : es[k] # None =>
          /\ entries[k] # None /\ es[k].result = entries[k].result
          /\ es[k].expires = entries[k].expires /\ es[k].principal = entries[k].principal

LEMMA EntryFields ==
  ASSUME TypeOK, NEW k \in Keys, entries[k] # None
  PROVE  /\ entries[k] \in Cached /\ entries[k].result \in Slot /\ entries[k].survived \in SUBSET Clients
         /\ \A x \in SUBSET Clients :
               /\ [entries[k] EXCEPT !.survived = x] \in Cached
               /\ [entries[k] EXCEPT !.survived = x].result = entries[k].result
               /\ [entries[k] EXCEPT !.survived = x].expires = entries[k].expires
               /\ [entries[k] EXCEPT !.survived = x].principal = entries[k].principal
<1>1. entries[k] \in Cached
  BY DEF TypeOK
<1> QED BY <1>1 DEF Cached

LEMMA Shrinking ==
  ASSUME TypeOK
  PROVE  /\ Shrinks(entries)
         /\ \A m, bs : Shrinks(Purged(m, bs))
         /\ \A c \in Clients : \A b : Shrinks(Outlived(c, b))
         /\ \A bs, es : Shrinks(es) => Shrinks(Dropped(bs, es))
<1>0. entries \in [Keys -> Cached \union {None}]
  BY DEF TypeOK
<1>1. Shrinks(entries)
  BY <1>0 DEF Shrinks
<1>2. \A m, bs : Shrinks(Purged(m, bs))
  BY <1>0 DEF Shrinks, Purged
<1>3. ASSUME NEW c \in Clients, NEW b PROVE Shrinks(Outlived(c, b))
  <2> DEFINE es == Outlived(c, b)
  <2>1. ASSUME NEW k \in Keys
        PROVE  /\ es[k] \in Cached \union {None}
               /\ es[k] # None => /\ entries[k] # None /\ es[k].result = entries[k].result
                                  /\ es[k].expires = entries[k].expires /\ es[k].principal = entries[k].principal
    <3>1. CASE k[1] = b /\ entries[k] # None
      <4>1. entries[k].survived \union {c} \in SUBSET Clients
        BY <3>1, EntryFields
      <4>2. es[k] = [entries[k] EXCEPT !.survived = entries[k].survived \union {c}]
        BY <3>1 DEF Outlived
      <4> QED BY <3>1, <4>1, <4>2, EntryFields
    <3>2. CASE ~(k[1] = b /\ entries[k] # None)
      <4>1. es[k] = entries[k]
        BY <3>2 DEF Outlived
      <4> QED BY <1>0, <4>1
    <3> QED BY <3>1, <3>2
  <2>2. es = [k \in Keys |-> es[k]]
    BY DEF Outlived
  <2> HIDE DEF es
  <2> QED BY <2>1, <2>2 DEF Shrinks, es
<1>4. ASSUME NEW bs, NEW es, Shrinks(es) PROVE Shrinks(Dropped(bs, es))
  BY <1>4 DEF Shrinks, Dropped
<1> QED BY <1>1, <1>2, <1>3, <1>4

\* What invalidations do to the lists under way: their requests are marked.
Marks(old, new) ==
    /\ new.src = old.src /\ new.version = old.version /\ new.scope = old.scope /\ new.asker = old.asker
    /\ old.overtaken => new.overtaken

LEMMA Marking ==
  ASSUME NEW lp \in [Clients -> Route], NEW bs, NEW c \in Clients
  PROVE  /\ Overtaken(bs, lp) \in [Clients -> Route]
         /\ Overtaken(bs, lp)[c].pc = lp[c].pc
         /\ Overtaken(bs, lp)[c].unavailable = lp[c].unavailable /\ Overtaken(bs, lp)[c].reset = lp[c].reset
         /\ \A b \in Backends :
               /\ Marks(lp[c].part[b], Overtaken(bs, lp)[c].part[b])
               /\ b \in bs /\ lp[c].pc = "fetching" => Overtaken(bs, lp)[c].part[b].overtaken
<1> DEFINE part(d) == [b \in Backends |-> IF b \in bs /\ lp[d].pc = "fetching"
                                          THEN [lp[d].part[b] EXCEPT !.overtaken = TRUE] ELSE lp[d].part[b]]
<1>1. ASSUME NEW d \in Clients
      PROVE  /\ part(d) \in [Backends -> Slot]
             /\ \A b \in Backends : /\ Marks(lp[d].part[b], part(d)[b])
                                    /\ b \in bs /\ lp[d].pc = "fetching" => part(d)[b].overtaken
  <2>1. lp[d].part \in [Backends -> Slot]
    BY DEF Route
  <2>2. ASSUME NEW b \in Backends
        PROVE  /\ part(d)[b] \in Slot /\ Marks(lp[d].part[b], part(d)[b])
               /\ b \in bs /\ lp[d].pc = "fetching" => part(d)[b].overtaken
    <3>1. lp[d].part[b] \in Slot
      BY <2>1
    <3>2. CASE b \in bs /\ lp[d].pc = "fetching"
      <4>1. part(d)[b] = [lp[d].part[b] EXCEPT !.overtaken = TRUE]
        BY <3>2
      <4> QED BY <3>1, <4>1, SlotEdits DEF Marks
    <3>3. CASE ~(b \in bs /\ lp[d].pc = "fetching")
      BY <3>1, <3>3 DEF Marks
    <3> QED BY <3>2, <3>3
  <2> QED BY <2>2
<1>2. Overtaken(bs, lp) = [d \in Clients |-> [lp[d] EXCEPT !.part = part(d)]]
  BY DEF Overtaken
<1> HIDE DEF part
<1>3. ASSUME NEW d \in Clients
      PROVE  /\ [lp[d] EXCEPT !.part = part(d)] \in Route
             /\ [lp[d] EXCEPT !.part = part(d)].pc = lp[d].pc
             /\ [lp[d] EXCEPT !.part = part(d)].unavailable = lp[d].unavailable /\ [lp[d] EXCEPT !.part = part(d)].reset = lp[d].reset
             /\ [lp[d] EXCEPT !.part = part(d)].part = part(d)
  BY <1>1 DEF Route
<1>4. Overtaken(bs, lp)[c] = [lp[c] EXCEPT !.part = part(c)]
  BY <1>2
<1>5. Overtaken(bs, lp) \in [Clients -> Route]
  BY <1>2, <1>3
<1>6. Overtaken(bs, lp)[c].part = part(c)
  BY <1>3, <1>4
<1> QED BY <1>1, <1>3, <1>4, <1>5, <1>6

\* Each loop is as in lp, but for marks.
Follows(lp) ==
    /\ loop' \in [Clients -> Route]
    /\ \A d \in Clients :
          /\ loop'[d].pc = lp[d].pc /\ loop'[d].unavailable = lp[d].unavailable /\ loop'[d].reset = lp[d].reset
          /\ \A b \in Backends : Marks(lp[d].part[b], loop'[d].part[b])

LEMMA FollowsItself ==
  ASSUME NEW lp \in [Clients -> Route], loop' = lp
  PROVE  Follows(lp)
BY DEF Follows, Marks

LEMMA Announcing ==
  ASSUME TypeOK, NEW c \in Clients, NEW refused \in SUBSET Backends, NEW es, Shrinks(es),
         NEW lp \in [Clients -> Route], Announced(c, refused, es, lp)
  PROVE  Shrinks(entries') /\ Follows(lp) /\ surface' \in [Clients -> SUBSET Backends]
<1> DEFINE current == Backends \ refused
           left == surface[c] \ current
<1>0. surface \in [Clients -> SUBSET Backends]
  BY DEF TypeOK
<1>1. CASE entries' = Dropped(left, es) /\ loop' = Overtaken(left, lp) /\ surface' = [surface EXCEPT ![c] = current]
  <2>1. Shrinks(entries')
    BY <1>1, Shrinking
  <2>2. Follows(lp)
    BY <1>1, Marking DEF Follows
  <2>3. surface' \in [Clients -> SUBSET Backends]
    BY <1>0, <1>1
  <2> QED BY <2>1, <2>2, <2>3
<1>2. CASE entries' = es /\ loop' = lp /\ surface' = surface
  BY <1>0, <1>2, FollowsItself
<1> QED BY <1>1, <1>2 DEF Announced

\* A list request: every backend is a hit, is asked, or is left out.
LEMMA Listing ==
  ASSUME TypeOK, NEW c \in Clients, NEW m \in Methods, List(c, m)
  PROVE  /\ loop' \in [Clients -> Route] /\ \A d \in Clients : d # c => loop'[d] = loop[d]
         /\ loop'[c].pc \in {"sending", "fetching"}
         /\ \A b \in Backends : b \in loop'[c].reset => loop'[c].part[b].src = "none"
         /\ loop'[c].unavailable = {b \in Backends : loop'[c].part[b].src = "none"} \ loop'[c].reset
         /\ loop'[c].pc = "sending" => \A b \in Backends : loop'[c].part[b].src # "wait"
         /\ \A b \in Backends :
               \/ loop'[c].part[b].src \in {"none", "wait"}
               \/ /\ loop'[c].part[b].src = "cache" /\ <<b, m>> \in Keys
                  /\ entries[<<b, m>>] # None /\ Readable(entries[<<b, m>>], Principal[c])
                  /\ loop'[c].part[b].scope = entries[<<b, m>>].result.scope
                  /\ loop'[c].part[b].asker = entries[<<b, m>>].result.asker
         /\ Shrinks(entries') /\ lists' = [lists EXCEPT ![c] = @ + 1] /\ lists' \in [Clients -> 0 .. MaxLists]
         /\ open' \in [Clients -> SUBSET Backends]
         /\ UNCHANGED <<now, version, wire, surface, seen, told>>
<1> DEFINE refusing == IF Resilient THEN open[c] ELSE {}
           avail == Backends \ refusing
           hits  == {b \in avail : Hit(b, m, Principal[c])}
           found(b) == [entries[b, m].result EXCEPT !.src = "cache", !.survived = entries[b, m].survived]
           parts == [b \in Backends |-> IF b \in hits THEN found(b)
                                        ELSE IF b \in avail THEN [Nothing EXCEPT !.src = "wait"] ELSE Nothing]
           cast(reset) == [pc |-> IF avail = hits THEN "sending" ELSE "fetching", method |-> m, part |-> parts,
                           unavailable |-> refusing \ reset, reset |-> reset, floor |-> seen[c]]
<1>0. /\ entries' = Purged(m, avail)
      /\ \E reset \in SUBSET refusing : /\ loop' = [loop EXCEPT ![c] = cast(reset)]
                                        /\ open' = [open EXCEPT ![c] = @ \ reset]
  BY Zenon DEF List
<1>r. PICK reset \in SUBSET refusing : /\ loop' = [loop EXCEPT ![c] = cast(reset)]
                                       /\ open' = [open EXCEPT ![c] = @ \ reset]
  BY <1>0
<1> DEFINE new == cast(reset)
<1>1. loop' = [loop EXCEPT ![c] = new] /\ entries' = Purged(m, avail)
  BY <1>0, <1>r
<1>2. ASSUME NEW b \in Backends
      PROVE  /\ parts[b] \in Slot
             /\ parts[b].src = "none" <=> b \notin avail
             /\ parts[b].src = "wait" <=> b \in avail /\ b \notin hits
             /\ \/ parts[b].src \in {"none", "wait"}
                \/ /\ parts[b].src = "cache" /\ <<b, m>> \in Keys
                   /\ entries[<<b, m>>] # None /\ Readable(entries[<<b, m>>], Principal[c])
                   /\ parts[b].scope = entries[<<b, m>>].result.scope
                   /\ parts[b].asker = entries[<<b, m>>].result.asker
  <2>1. CASE b \in hits
    <3>1. <<b, m>> \in Keys /\ entries[<<b, m>>] # None /\ Readable(entries[<<b, m>>], Principal[c])
      BY <2>1 DEF Hit, Keys
    <3>2. entries[<<b, m>>].result \in Slot /\ entries[<<b, m>>].survived \in SUBSET Clients
      BY <3>1, EntryFields
    <3>3. parts[b] = [entries[<<b, m>>].result EXCEPT !.src = "cache", !.survived = entries[<<b, m>>].survived]
      BY <2>1
    <3> DEFINE r == entries[<<b, m>>].result
               x == entries[<<b, m>>].survived
    <3>5. parts[b] = [r EXCEPT !.src = "cache", !.survived = x] /\ r \in Slot /\ x \in SUBSET Clients
      BY <3>2, <3>3
    <3> HIDE DEF parts, r, x
    <3>7. /\ [r EXCEPT !.src = "cache", !.survived = x] \in Slot
          /\ [r EXCEPT !.src = "cache", !.survived = x].src = "cache"
          /\ [r EXCEPT !.src = "cache", !.survived = x].scope = r.scope
          /\ [r EXCEPT !.src = "cache", !.survived = x].asker = r.asker
      BY <3>5, SlotEdits
    <3>6. parts[b] \in Slot /\ parts[b].src = "cache" /\ parts[b].scope = r.scope /\ parts[b].asker = r.asker
      BY <3>5, <3>7
    <3>4. parts[b] \in Slot /\ parts[b].src = "cache" /\ parts[b].scope = entries[<<b, m>>].result.scope
          /\ parts[b].asker = entries[<<b, m>>].result.asker
      BY <3>6 DEF r
    <3> QED BY <2>1, <3>1, <3>4
  <2>2. CASE b \notin hits /\ b \in avail
    BY <2>2, NothingSlot
  <2>3. CASE b \notin avail
    BY <2>3, NothingSlot
  <2> QED BY <2>1, <2>2, <2>3
<1>3. parts \in [Backends -> Slot]
  BY <1>2
<1>4. loop \in [Clients -> Route] /\ seen[c] \in [Backends -> 0 .. MaxVersion] /\ lists \in [Clients -> 0 .. MaxLists]
  BY DEF TypeOK
<1>o. open \in [Clients -> SUBSET Backends]
  BY DEF TypeOK
<1>5. /\ refusing \in SUBSET Backends /\ avail = Backends \ refusing /\ avail \in SUBSET Backends
      /\ hits \subseteq avail /\ reset \in SUBSET Backends /\ reset \subseteq refusing
  BY <1>o
<1>13. open' \in [Clients -> SUBSET Backends]
  BY <1>o, <1>r
<1> HIDE DEF parts, hits, avail, refusing
<1>6. new \in Route
  BY <1>3, <1>4, <1>5 DEF Route
<1>7. /\ new.pc \in {"sending", "fetching"} /\ new.unavailable = refusing \ reset /\ new.part = parts
      /\ new.reset = reset
      /\ new.pc = "sending" => avail = hits
  OBVIOUS
<1> HIDE DEF new, cast
<1>8. loop' \in [Clients -> Route] /\ loop'[c] = new /\ \A d \in Clients : d # c => loop'[d] = loop[d]
  BY <1>1, <1>4, <1>6
<1>9. lists' = [lists EXCEPT ![c] = @ + 1] /\ lists' \in [Clients -> 0 .. MaxLists]
      /\ UNCHANGED <<now, version, wire, surface, seen, told>>
  <2>1. lists[c] < MaxLists /\ lists' = [lists EXCEPT ![c] = @ + 1]
        /\ UNCHANGED <<now, version, wire, surface, seen, told>>
    BY DEF List
  <2>2. lists[c] \in 0 .. MaxLists /\ MaxLists \in Nat
    BY <1>4, Constants
  <2>3. lists[c] + 1 \in 0 .. MaxLists
    BY <2>1, <2>2
  <2> QED BY <1>4, <2>1, <2>3
<1>10. /\ new.unavailable = {b \in Backends : new.part[b].src = "none"} \ new.reset
       /\ \A b \in Backends : b \in new.reset => new.part[b].src = "none"
  BY <1>2, <1>5, <1>7
<1>11. new.pc = "sending" => \A b \in Backends : new.part[b].src # "wait"
  BY <1>2, <1>7
<1>12. Shrinks(entries')
  BY <1>1, Shrinking
<1> QED BY <1>2, <1>7, <1>8, <1>9, <1>10, <1>11, <1>12, <1>13

\* The end of a gather: what was fetched is stored.
LEMMA Gathering ==
  ASSUME TypeOK, NEW c \in Clients, Gathered(c)
  PROVE  /\ loop[c].pc = "fetching" /\ Awaited(c) = {}
         /\ loop' \in [Clients -> Route] /\ \A d \in Clients : d # c => loop'[d] = loop[d]
         /\ loop'[c].pc \in {"sending", "dead"} /\ loop'[c].part = loop[c].part
         /\ loop'[c].unavailable = Missing(c) /\ loop'[c].reset = loop[c].reset
         /\ entries' \in [Keys -> Cached \union {None}]
         /\ \A k \in Keys : entries'[k] # None =>
               \/ entries[k] # None /\ entries'[k] = entries[k]
               \/ /\ k[1] \in Backends /\ loop[c].part[k[1]].src = "fetched" /\ loop[c].part[k[1]].ttl > 0
                  /\ entries'[k] = Entry(loop[c].part[k[1]], Principal[c])
         /\ UNCHANGED <<now, version, wire, lists, open, surface, seen, told>>
<1> DEFINE first == IF Failed(c) = {} THEN NBackends + 1
                    ELSE CHOOSE b \in Failed(c) : \A o \in Failed(c) : b <= o
           cached == {b \in Backends : loop[c].part[b].src = "fetched" /\ (Resilient \/ b < first)}
           rs == [b \in cached |-> loop[c].part[b]]
           new == [loop[c] EXCEPT !.pc = IF Resilient \/ Failed(c) = {} THEN "sending" ELSE "dead",
                                  !.unavailable = Missing(c)]
<1>1. /\ loop[c].pc = "fetching" /\ Awaited(c) = {} /\ loop' = [loop EXCEPT ![c] = new]
      /\ entries' = Stored(loop[c].method, rs, Principal[c])
      /\ UNCHANGED <<now, version, wire, lists, open, surface, seen, told>>
  BY DEF Gathered
<1>2. loop \in [Clients -> Route] /\ loop[c] \in Route /\ Missing(c) \in SUBSET Backends
  BY DEF TypeOK, Route, Missing, Failed
<1>3. cached \subseteq Backends /\ \A b \in cached : loop[c].part[b].src = "fetched" /\ rs[b] = loop[c].part[b]
  OBVIOUS
<1>4. DOMAIN rs = cached
  OBVIOUS
<1> HIDE DEF cached, rs, first
<1>5. new \in Route /\ new.pc \in {"sending", "dead"} /\ new.part = loop[c].part
      /\ new.unavailable = Missing(c) /\ new.reset = loop[c].reset
  BY <1>2 DEF Route
<1> HIDE DEF new
<1>6. loop' \in [Clients -> Route] /\ loop'[c] = new /\ \A d \in Clients : d # c => loop'[d] = loop[d]
  BY <1>1, <1>2, <1>5
<1>7. ASSUME NEW k \in Keys
      PROVE  \/ entries'[k] = None \/ (entries[k] # None /\ entries'[k] = entries[k])
             \/ /\ k[1] \in Backends /\ loop[c].part[k[1]].src = "fetched" /\ loop[c].part[k[1]].ttl > 0
                /\ entries'[k] = Entry(loop[c].part[k[1]], Principal[c])
  <2>1. entries'[k] = IF k[2] = loop[c].method /\ k[1] \in cached
                      THEN IF rs[k[1]].ttl = 0 THEN None ELSE Entry(rs[k[1]], Principal[c])
                      ELSE entries[k]
    BY <1>1, <1>4 DEF Stored
  <2>2. CASE k[1] \in cached /\ rs[k[1]].ttl # 0 /\ entries'[k] = Entry(rs[k[1]], Principal[c])
    <3>1. rs[k[1]] = loop[c].part[k[1]] /\ k[1] \in Backends /\ rs[k[1]] \in Slot
      BY <1>2, <1>3, <2>2 DEF Route
    <3>2. rs[k[1]].ttl \in Nat
      BY <3>1, SlotTtl
    <3> QED BY <1>3, <2>2, <3>1, <3>2
  <2>3. CASE entries'[k] = None \/ entries'[k] = entries[k]
    BY <2>3
  <2> QED BY <2>1, <2>2, <2>3
<1>8. ASSUME NEW r \in Slot PROVE Entry(r, Principal[c]) \in Cached
  <2>1. now \in Nat
    BY Constants DEF TypeOK
  <2>2. now + r.ttl \in Nat
    BY <2>1, SlotTtl
  <2>3. (IF r.scope = "private" THEN Principal[c] ELSE Nobody) \in {Principal[d] : d \in Clients} \union {Nobody}
    OBVIOUS
  <2> QED BY <1>8, <2>2, <2>3 DEF Entry, Cached
<1>9. entries' \in [Keys -> Cached \union {None}]
  <2>1. \A k \in Keys : entries'[k] \in Cached \union {None}
    <3>1. \A k \in Keys : k[1] \in Backends => loop[c].part[k[1]] \in Slot
      BY <1>2 DEF Route
    <3>2. \A k \in Keys : entries[k] \in Cached \union {None}
      BY DEF TypeOK
    <3> QED BY <1>7, <1>8, <3>1, <3>2
  <2>2. entries' = [k \in Keys |-> entries'[k]]
    BY <1>1 DEF Stored
  <2> QED BY <2>1, <2>2
<1> QED BY <1>1, <1>5, <1>6, <1>7, <1>9

-----------------------------------------------------------------------------
\* Steps that at most mark the lists under way, or end a list that is sent.
Calm ==
    /\ Shrinks(entries')
    /\ loop' \in [Clients -> Route]
    /\ \A d \in Clients :
          \/ /\ loop'[d].pc = loop[d].pc /\ loop'[d].unavailable = loop[d].unavailable /\ loop'[d].reset = loop[d].reset
             /\ \A b \in Backends : Marks(loop[d].part[b], loop'[d].part[b])
          \/ loop'[d].pc = "idle" /\ \A b \in Backends : loop'[d].part[b].src = "none"
    /\ now' \in 0 .. MaxTime
    /\ open' \in [Clients -> SUBSET Backends]
    /\ surface' \in [Clients -> SUBSET Backends]
    /\ UNCHANGED <<version, wire, lists, seen, told>>

LEMMA FollowingIsCalm ==
  ASSUME TypeOK, Shrinks(entries'), Follows(loop), now' = now, open' \in [Clients -> SUBSET Backends],
         surface' \in [Clients -> SUBSET Backends], UNCHANGED <<version, wire, lists, seen, told>>
  PROVE  Calm
<1>1. now' \in 0 .. MaxTime
  BY DEF TypeOK
<1> QED BY <1>1 DEF Calm, Follows

LEMMA SentCalm ==
  ASSUME TypeOK, NEW c \in Clients, Sent(c)
  PROVE  Calm
<1> DEFINE lp == [loop EXCEPT ![c] = Idle]
<1>1. loop \in [Clients -> Route] /\ open \in [Clients -> SUBSET Backends] /\ now \in 0 .. MaxTime
  BY DEF TypeOK
<1>2. Idle \in Route /\ Idle.pc = "idle" /\ \A b \in Backends : Idle.part[b].src = "none"
  <2>1. [b \in Backends |-> Nothing] \in [Backends -> Slot] /\ \A b \in Backends : [d \in Backends |-> Nothing][b].src = "none"
    BY NothingSlot
  <2>2. [b \in Backends |-> 0] \in [Backends -> 0 .. MaxVersion]
    BY Constants
  <2>3. Idle.method \in Methods
    BY Constants
  <2> QED BY <2>1, <2>2, <2>3 DEF Idle, Route
<1>3. lp \in [Clients -> Route] /\ lp[c] = Idle /\ \A d \in Clients : d # c => lp[d] = loop[d]
  BY <1>1, <1>2
<1>4. Announced(c, open[c], entries, lp) /\ UNCHANGED <<now, version, wire, lists, open, seen, told>>
  BY DEF Sent
<1> HIDE DEF lp
<1>5. Shrinks(entries') /\ Follows(lp) /\ surface' \in [Clients -> SUBSET Backends]
  BY <1>1, <1>3, <1>4, Announcing, Shrinking
<1>6. ASSUME NEW d \in Clients
      PROVE  \/ /\ loop'[d].pc = loop[d].pc /\ loop'[d].unavailable = loop[d].unavailable /\ loop'[d].reset = loop[d].reset
                /\ \A b \in Backends : Marks(loop[d].part[b], loop'[d].part[b])
             \/ loop'[d].pc = "idle" /\ \A b \in Backends : loop'[d].part[b].src = "none"
  <2>1. CASE d = c
    BY <1>2, <1>3, <1>5, <2>1 DEF Follows, Marks
  <2>2. CASE d # c
    BY <1>3, <1>5, <2>2 DEF Follows
  <2> QED BY <2>1, <2>2
<1>7. loop' \in [Clients -> Route]
  BY <1>5 DEF Follows
<1> QED BY <1>1, <1>4, <1>5, <1>6, <1>7 DEF Calm

LEMMA BreakerCalm ==
  ASSUME TypeOK, NEW c \in Clients, NEW b \in Backends,
         PingSucceeds(c, b) \/ PingFails(c, b) \/ HalfOpen(c, b)
  PROVE  Calm
<1>1. loop \in [Clients -> Route] /\ open \in [Clients -> SUBSET Backends]
      /\ surface \in [Clients -> SUBSET Backends]
  BY DEF TypeOK
<1>2. /\ [open EXCEPT ![c] = @ \ {b}] \in [Clients -> SUBSET Backends]
      /\ [open EXCEPT ![c] = @ \union {b}] \in [Clients -> SUBSET Backends]
  BY <1>1
<1>3. CASE PingSucceeds(c, b)
  <2> DEFINE refused == open'[c]
  <2>1. open' \in [Clients -> SUBSET Backends] /\ refused \in SUBSET Backends /\ Announced(c, refused, entries, loop)
        /\ UNCHANGED <<now, version, wire, lists, seen, told>>
    BY <1>2, <1>3 DEF PingSucceeds
  <2> HIDE DEF refused
  <2>2. Shrinks(entries') /\ Follows(loop) /\ surface' \in [Clients -> SUBSET Backends]
    BY <1>1, <2>1, Announcing, Shrinking
  <2> QED BY <2>1, <2>2, FollowingIsCalm
<1>4. CASE PingFails(c, b)
  <2>0. PICK es \in {entries, Outlived(c, b)} :
           /\ \/ open' = open
              \/ open' = [open EXCEPT ![c] = @ \union {b}]
           /\ Announced(c, open'[c], es, loop)
    BY <1>4 DEF PingFails
  <2> DEFINE refused == open'[c]
  <2>1. open' \in [Clients -> SUBSET Backends] /\ refused \in SUBSET Backends /\ Announced(c, refused, es, loop)
        /\ UNCHANGED <<now, version, wire, lists, seen, told>>
    BY <1>1, <1>2, <1>4, <2>0 DEF PingFails
  <2>3. Shrinks(es)
    BY Shrinking
  <2> HIDE DEF refused
  <2>2. Shrinks(entries') /\ Follows(loop) /\ surface' \in [Clients -> SUBSET Backends]
    BY <1>1, <2>1, <2>3, Announcing
  <2> QED BY <2>1, <2>2, FollowingIsCalm
<1>5. CASE HalfOpen(c, b)
  <2>1. /\ open' = [open EXCEPT ![c] = @ \ {b}]
        /\ UNCHANGED <<entries, now, version, wire, loop, lists, surface, seen, told>>
    BY <1>5 DEF HalfOpen
  <2>2. Shrinks(entries') /\ Follows(loop)
    BY <1>1, <2>1, FollowsItself, Shrinking
  <2>3. open' \in [Clients -> SUBSET Backends] /\ surface' \in [Clients -> SUBSET Backends]
    BY <1>1, <1>2, <2>1
  <2> QED BY <2>1, <2>2, <2>3, FollowingIsCalm
<1> QED BY <1>3, <1>4, <1>5

LEMMA TickCalm ==
  ASSUME TypeOK, Tick
  PROVE  Calm
<1>1. loop \in [Clients -> Route] /\ open \in [Clients -> SUBSET Backends]
      /\ surface \in [Clients -> SUBSET Backends] /\ now \in 0 .. MaxTime
  BY DEF TypeOK
<1>2. now < MaxTime /\ now' = now + 1
  BY DEF Tick
<1>3. now' \in 0 .. MaxTime
  BY <1>1, <1>2, Constants
<1>4. UNCHANGED <<entries, version, wire, loop, lists, open, surface, seen, told>>
  BY DEF Tick
<1>5. Shrinks(entries') /\ Follows(loop)
  BY <1>1, <1>4, FollowsItself, Shrinking
<1> QED BY <1>1, <1>3, <1>4, <1>5 DEF Calm, Follows

-----------------------------------------------------------------------------
\* One part of one list is set.
PartSet(c, b, r) ==
    /\ loop' \in [Clients -> Route]
    /\ \A d \in Clients : d # c => loop'[d] = loop[d]
    /\ loop'[c].pc = loop[c].pc /\ loop'[c].unavailable = loop[c].unavailable /\ loop'[c].reset = loop[c].reset
    /\ loop'[c].part[b] = r
    /\ \A o \in Backends : o # b => loop'[c].part[o] = loop[c].part[o]

LEMMA SettingPart ==
  ASSUME loop \in [Clients -> Route], NEW c \in Clients, NEW b \in Backends, NEW r \in Slot,
         loop' = [loop EXCEPT ![c].part[b] = r]
  PROVE  PartSet(c, b, r)
<1> DEFINE new == [loop[c] EXCEPT !.part = [loop[c].part EXCEPT ![b] = r]]
<1>1. new \in Route /\ new.pc = loop[c].pc /\ new.unavailable = loop[c].unavailable /\ new.reset = loop[c].reset
      /\ new.part[b] = r /\ \A o \in Backends : o # b => new.part[o] = loop[c].part[o]
  BY DEF Route
<1>2. loop' = [loop EXCEPT ![c] = new]
  OBVIOUS
<1> HIDE DEF new
<1> QED BY <1>1, <1>2 DEF PartSet

LEMMA Failing ==
  ASSUME TypeOK, NEW c \in Clients, NEW b \in Backends, Fail(c, b)
  PROVE  /\ loop[c].pc = "fetching" /\ loop[c].part[b].src = "wait"
         /\ \E r \in Slot : r.src = "failed" /\ PartSet(c, b, r)
         /\ Shrinks(entries') /\ open' \in [Clients -> SUBSET Backends]
         /\ UNCHANGED <<now, version, wire, lists, surface, seen, told>>
<1>1. loop \in [Clients -> Route] /\ open \in [Clients -> SUBSET Backends] /\ loop[c].part[b] \in Slot
  BY DEF TypeOK, Route
<1>2. /\ loop[c].pc = "fetching" /\ loop[c].part[b].src = "wait"
      /\ UNCHANGED <<now, version, wire, lists, surface, seen, told>>
  BY DEF Fail
<1> DEFINE r == [loop[c].part[b] EXCEPT !.src = "failed"]
<1>3. loop' = [loop EXCEPT ![c].part[b] = r]
  BY DEF Fail
<1>4. r \in Slot /\ r.src = "failed"
  BY <1>1, SlotEdits
<1> HIDE DEF r
<1>5. PartSet(c, b, r)
  BY <1>1, <1>3, <1>4, SettingPart
<1>6. Shrinks(entries') /\ open' \in [Clients -> SUBSET Backends]
  <2>1. CASE UNCHANGED <<open, entries>>
    BY <1>1, <2>1, Shrinking
  <2>2. CASE open' = [open EXCEPT ![c] = @ \union {b}] /\ entries' = Outlived(c, b)
    BY <1>1, <2>2, Shrinking
  <2> QED BY <2>1, <2>2 DEF Fail
<1> QED BY <1>2, <1>4, <1>5, <1>6

\* What the reader takes off the connection, and what it does with it.
AnswerTaken(c, b, msg) ==
    /\ msg.kind = "answer"
    /\ \/ loop' = loop
       \/ /\ loop[c].part[b].src = "wait" /\ msg.list = lists[c]
          /\ \E r \in Slot :
                /\ PartSet(c, b, r)
                /\ r.src = msg.result.src /\ r.version = msg.result.version /\ r.asker = msg.result.asker
                /\ r.overtaken = loop[c].part[b].overtaken
    /\ open' \in [Clients -> SUBSET Backends]
    /\ UNCHANGED <<entries, seen, told>>

ChangeTaken(b, msg) ==
    /\ msg.kind = "changed"
    /\ entries' = Dropped({b}, entries)
    /\ loop' = Overtaken({b}, loop)
    /\ told' = [told EXCEPT ![b] = IF msg.version > told[b] THEN msg.version ELSE told[b]]
    /\ told' \in [Backends -> 0 .. MaxVersion]
    /\ seen' \in [Clients -> [Backends -> 0 .. MaxVersion]]
    /\ UNCHANGED open

LEMMA Delivering ==
  ASSUME TypeOK, NEW c \in Clients, NEW b \in Backends, Deliver(c, b)
  PROVE  /\ wire' \in [Clients -> [Backends -> Seq(Message)]]
         /\ \A d \in Clients, o \in Backends : Elems(wire'[d][o]) \subseteq Elems(wire[d][o])
         /\ \E msg \in Elems(wire[c][b]) : AnswerTaken(c, b, msg) \/ ChangeTaken(b, msg)
         /\ UNCHANGED <<now, version, lists, surface>>
<1>1. /\ wire \in [Clients -> [Backends -> Seq(Message)]] /\ wire[c][b] \in Seq(Message)
      /\ loop \in [Clients -> Route] /\ loop[c].part[b] \in Slot
      /\ open \in [Clients -> SUBSET Backends]
      /\ seen \in [Clients -> [Backends -> 0 .. MaxVersion]] /\ told \in [Backends -> 0 .. MaxVersion]
  BY DEF TypeOK, Route
<1>2. /\ wire[c][b] # <<>> /\ wire' = [wire EXCEPT ![c][b] = Tail(wire[c][b])]
      /\ UNCHANGED <<now, version, lists, surface>>
  BY DEF Deliver
<1>3. Tail(wire[c][b]) \in Seq(Message)
  BY <1>1, <1>2, Shifted
<1>4. Elems(Tail(wire[c][b])) \subseteq Elems(wire[c][b]) /\ Head(wire[c][b]) \in Elems(wire[c][b])
      /\ Head(wire[c][b]) \in Message
  BY <1>1, <1>2, QueueElems
<1>5. wire' \in [Clients -> [Backends -> Seq(Message)]]
  BY <1>1, <1>2, <1>3
<1>6. ASSUME NEW d \in Clients, NEW o \in Backends
      PROVE  Elems(wire'[d][o]) \subseteq Elems(wire[d][o])
  <2>1. wire'[d][o] = wire[d][o] \/ (d = c /\ o = b /\ wire'[d][o] = Tail(wire[c][b]))
    BY <1>1, <1>2
  <2> QED BY <1>4, <2>1
<1> DEFINE msg == Head(wire[c][b])
           x == loop[c].part[b].overtaken
           s == msg.result
           r == [s EXCEPT !.overtaken = x]
           answer == /\ msg.kind = "answer"
                     /\ loop' = IF loop[c].part[b].src = "wait" /\ msg.list = lists[c]
                                THEN [loop EXCEPT ![c].part[b] = r] ELSE loop
                     /\ open' = IF loop' # loop THEN [open EXCEPT ![c] = @ \ {b}] ELSE open
                     /\ UNCHANGED <<entries, seen, told>>
           change == /\ msg.kind = "changed"
                     /\ entries' = Dropped({b}, entries)
                     /\ loop' = Overtaken({b}, loop)
                     /\ told' = [told EXCEPT ![b] = IF msg.version > told[b] THEN msg.version ELSE told[b]]
                     /\ seen' = [seen EXCEPT ![c][b] = msg.version]
                     /\ UNCHANGED open
<1>7. msg \in Elems(wire[c][b]) /\ msg \in Message /\ x = loop[c].part[b].overtaken /\ s = msg.result
  BY <1>4
<1>10. answer \/ change
  BY DEF Deliver
<1> HIDE DEF msg, x, s
<1>8. ASSUME answer PROVE AnswerTaken(c, b, msg)
  <2>1. [open EXCEPT ![c] = @ \ {b}] \in [Clients -> SUBSET Backends]
    BY <1>1
  <2>2. open' \in [Clients -> SUBSET Backends] /\ msg.kind = "answer" /\ UNCHANGED <<entries, seen, told>>
    BY <1>1, <1>8, <2>1
  <2>5. \/ loop' = loop
        \/ loop[c].part[b].src = "wait" /\ msg.list = lists[c] /\ loop' = [loop EXCEPT ![c].part[b] = r]
    BY <1>8
  <2> HIDE DEF answer, change
  <2>3. CASE loop' = loop
    BY <2>2, <2>3 DEF AnswerTaken
  <2>4. CASE loop[c].part[b].src = "wait" /\ msg.list = lists[c] /\ loop' = [loop EXCEPT ![c].part[b] = r]
    <3>1. s \in Slot /\ x \in BOOLEAN
      BY <1>1, <1>7 DEF Message, Slot
    <3>2. r \in Slot /\ r.src = s.src /\ r.version = s.version /\ r.asker = s.asker /\ r.overtaken = x
      BY <3>1, SlotEdits
    <3> HIDE DEF r
    <3>3. PartSet(c, b, r)
      BY <1>1, <2>4, <3>2, SettingPart
    <3>4. \E t \in Slot :
             /\ PartSet(c, b, t)
             /\ t.src = msg.result.src /\ t.version = msg.result.version /\ t.asker = msg.result.asker
             /\ t.overtaken = loop[c].part[b].overtaken
      BY <1>7, <3>2, <3>3
    <3> QED BY <2>2, <2>4, <3>4 DEF AnswerTaken
  <2> QED BY <2>3, <2>4, <2>5
<1>9. ASSUME change PROVE ChangeTaken(b, msg)
  <2>1. msg.version \in 0 .. MaxVersion
    BY <1>7 DEF Message
  <2>2. told' = [told EXCEPT ![b] = IF msg.version > told[b] THEN msg.version ELSE told[b]]
        /\ seen' = [seen EXCEPT ![c][b] = msg.version]
        /\ msg.kind = "changed" /\ entries' = Dropped({b}, entries) /\ loop' = Overtaken({b}, loop) /\ UNCHANGED open
    BY <1>9
  <2> HIDE DEF answer, change
  <2>3. (IF msg.version > told[b] THEN msg.version ELSE told[b]) \in 0 .. MaxVersion
    BY <1>1, <2>1
  <2>4. told' \in [Backends -> 0 .. MaxVersion]
    BY <1>1, <2>2, <2>3
  <2>5. seen' \in [Clients -> [Backends -> 0 .. MaxVersion]]
    BY <1>1, <2>1, <2>2
  <2> QED BY <2>2, <2>4, <2>5 DEF ChangeTaken
<1> HIDE DEF answer, change
<1>11. AnswerTaken(c, b, msg) \/ ChangeTaken(b, msg)
  BY <1>8, <1>9, <1>10
<1> QED BY <1>2, <1>5, <1>6, <1>7, <1>11

\* A backend sends: its answer to a request, or the announcement of a change.
Queued(d, o, msg) ==
    msg \in Message /\ Elems(wire'[d][o]) = Elems(wire[d][o]) \union {msg}

LEMMA Answering ==
  ASSUME TypeOK, NEW c \in Clients, NEW b \in Backends, Answer(c, b)
  PROVE  /\ wire' \in [Clients -> [Backends -> Seq(Message)]]
         /\ \A d \in Clients, o \in Backends : (d = c /\ o = b) \/ wire'[d][o] = wire[d][o]
         /\ \E msg \in Message :
               /\ Queued(c, b, msg) /\ msg.kind = "answer" /\ msg.list = lists[c] /\ msg.version = version[b]
               /\ msg.result.src = "fetched" /\ msg.result.asker = Principal[c] /\ msg.result.version = version[b]
         /\ UNCHANGED <<entries, now, version, loop, lists, open, surface, seen, told>>
<1>1. /\ wire \in [Clients -> [Backends -> Seq(Message)]] /\ wire[c][b] \in Seq(Message)
      /\ version[b] \in 0 .. MaxVersion /\ lists[c] \in 0 .. MaxLists
  BY DEF TypeOK
<1>2. PICK res \in Results(c, b) :
          wire' = [wire EXCEPT ![c][b] = Append(@,
             [kind |-> "answer", list |-> lists[c], version |-> version[b], result |-> res])]
  BY DEF Answer
<1>3. res \in Slot /\ res.src = "fetched" /\ res.asker = Principal[c] /\ res.version = version[b]
  <2> DEFINE plain == [ttl |-> DefaultTtl, scope |-> "public"]
  <2>1. \E d \in [ttl : Ttls, scope : Scopes] \union {plain}, error \in BOOLEAN : res = Shown(c, b, d, error)
    BY <1>2 DEF Results
  <2>2. PICK d \in [ttl : Ttls, scope : Scopes] \union {plain}, error \in BOOLEAN : res = Shown(c, b, d, error)
    BY <2>1
  <2>3. d.ttl \in Ttls \union {0, DefaultTtl} /\ d.scope \in {"public", "private"}
    <3>1. CASE d \in [ttl : Ttls, scope : Scopes]
      <4>1. d.ttl \in Ttls /\ d.scope \in Scopes
        BY <3>1
      <4> QED BY <4>1, Constants
    <3>2. CASE d = plain
      BY <3>2
    <3> QED BY <2>2, <3>1, <3>2
  <2>4. Principal[c] \in {Principal[e] : e \in Clients} \union {Nobody}
    OBVIOUS
  <2> HIDE DEF plain
  <2> QED BY <1>1, <2>2, <2>3, <2>4, NothingSlot DEF Shown, Slot
<1> DEFINE msg == [kind |-> "answer", list |-> lists[c], version |-> version[b], result |-> res]
<1>4. msg \in Message /\ msg.kind = "answer" /\ msg.list = lists[c] /\ msg.version = version[b] /\ msg.result = res
  BY <1>1, <1>3 DEF Message
<1>5. wire' = [wire EXCEPT ![c][b] = Append(wire[c][b], msg)]
  BY <1>2
<1> HIDE DEF msg
<1>6. Append(wire[c][b], msg) \in Seq(Message) /\ Elems(Append(wire[c][b], msg)) = Elems(wire[c][b]) \union {msg}
  <2>1. Append(wire[c][b], msg) \in Seq(Message)
    BY <1>1, <1>4, Joined
  <2> QED BY <1>1, <1>4, <2>1, QueueElems
<1>7. /\ wire' \in [Clients -> [Backends -> Seq(Message)]]
      /\ wire'[c][b] = Append(wire[c][b], msg)
      /\ \A d \in Clients, o \in Backends : (d = c /\ o = b) \/ wire'[d][o] = wire[d][o]
  BY <1>1, <1>5, <1>6
<1>8. Queued(c, b, msg)
  BY <1>4, <1>6, <1>7 DEF Queued
<1>9. UNCHANGED <<entries, now, version, loop, lists, open, surface, seen, told>>
  BY DEF Answer
<1> QED BY <1>3, <1>4, <1>7, <1>8, <1>9

LEMMA Changing ==
  ASSUME TypeOK, NEW b \in Backends, Change(b)
  PROVE  /\ wire' \in [Clients -> [Backends -> Seq(Message)]]
         /\ version' \in [Backends -> 0 .. MaxVersion]
         /\ \A o \in Backends : version[o] <= version'[o]
         /\ \A d \in Clients, o \in Backends :
               \/ wire'[d][o] = wire[d][o]
               \/ \E msg \in Message : Queued(d, o, msg) /\ msg.kind = "changed" /\ msg.version <= version'[o]
         /\ UNCHANGED <<entries, now, loop, lists, open, surface, seen, told>>
<1>1. /\ wire \in [Clients -> [Backends -> Seq(Message)]]
      /\ version \in [Backends -> 0 .. MaxVersion] /\ version[b] \in 0 .. MaxVersion
  BY DEF TypeOK
<1>2. version[b] < MaxVersion /\ MaxVersion \in Nat /\ version' = [version EXCEPT ![b] = version[b] + 1]
  BY Constants DEF Change
<1>3. version[b] + 1 \in 0 .. MaxVersion
  BY <1>1, <1>2
<1>4. version' \in [Backends -> 0 .. MaxVersion] /\ version'[b] = version[b] + 1
      /\ \A o \in Backends : o # b => version'[o] = version[o]
  BY <1>1, <1>2, <1>3
<1> DEFINE v == version[b] + 1
           msg == [kind |-> "changed", list |-> 0, version |-> v, result |-> Nothing]
<1>5. wire' = [d \in Clients |-> [wire[d] EXCEPT ![b] = Append(wire[d][b], msg)]]
  BY DEF Change
<1>6. v \in 0 .. MaxVersion /\ v = version'[b]
  BY <1>3, <1>4
<1> HIDE DEF v
<1>7. msg \in Message /\ msg.kind = "changed" /\ msg.version = v
  BY <1>6, NothingSlot, Constants DEF Message
<1> HIDE DEF msg
<1>8. ASSUME NEW d \in Clients
      PROVE  /\ [wire[d] EXCEPT ![b] = Append(wire[d][b], msg)] \in [Backends -> Seq(Message)]
             /\ Elems(Append(wire[d][b], msg)) = Elems(wire[d][b]) \union {msg}
  <2>1. wire[d] \in [Backends -> Seq(Message)] /\ wire[d][b] \in Seq(Message)
    BY <1>1
  <2>2. Append(wire[d][b], msg) \in Seq(Message)
    BY <1>7, <2>1, Joined
  <2>3. Elems(Append(wire[d][b], msg)) = Elems(wire[d][b]) \union {msg}
    BY <1>7, <2>1, QueueElems
  <2> QED BY <2>1, <2>2, <2>3
<1>9. wire' \in [Clients -> [Backends -> Seq(Message)]]
  BY <1>5, <1>8
<1>10. ASSUME NEW d \in Clients, NEW o \in Backends
       PROVE  \/ wire'[d][o] = wire[d][o]
              \/ \E m \in Message : Queued(d, o, m) /\ m.kind = "changed" /\ m.version <= version'[o]
  <2>1. wire'[d] = [wire[d] EXCEPT ![b] = Append(wire[d][b], msg)] /\ wire[d] \in [Backends -> Seq(Message)]
    BY <1>1, <1>5
  <2>2. CASE o # b
    <3>1. wire'[d][o] = wire[d][o]
      BY <2>1, <2>2
    <3> QED BY <3>1
  <2>3. CASE o = b
    <3>1. Queued(d, o, msg)
      BY <1>7, <1>8, <2>1, <2>3 DEF Queued
    <3>2. msg.version <= version'[o]
      BY <1>6, <1>7, <2>3
    <3> QED BY <1>7, <3>1, <3>2
  <2> QED BY <2>2, <2>3
<1>11. \A o \in Backends : version[o] <= version'[o]
  BY <1>1, <1>2, <1>4
<1>12. UNCHANGED <<entries, now, loop, lists, open, surface, seen, told>>
  BY DEF Change
<1> QED BY <1>4, <1>9, <1>10, <1>11, <1>12

-----------------------------------------------------------------------------
\* The types.
LEMMA EntriesKept ==
  ASSUME TypeOK, Shrinks(entries')
  PROVE  /\ entries' \in [Keys -> Cached \union {None}]
         /\ \A k \in Keys : entries'[k] # None =>
               entries'[k].result.ttl > 0 /\ entries'[k].expires \in 1 .. MaxTime + entries'[k].result.ttl
<1>1. \A k \in Keys : entries[k] # None =>
        entries[k].result.ttl > 0 /\ entries[k].expires \in 1 .. MaxTime + entries[k].result.ttl
  BY DEF TypeOK
<1> QED BY <1>1 DEF Shrinks

LEMMA NewEntry ==
  ASSUME TypeOK, NEW c \in Clients, NEW r \in Slot, r.ttl > 0
  PROVE  /\ Entry(r, Principal[c]).result = r
         /\ Entry(r, Principal[c]).expires \in 1 .. MaxTime + r.ttl
         /\ r.scope = "private" => Entry(r, Principal[c]).principal = Principal[c]
<1>1. now \in 0 .. MaxTime /\ MaxTime \in Nat /\ r.ttl \in Nat
  BY Constants, SlotTtl DEF TypeOK
<1>2. now + r.ttl \in 1 .. MaxTime + r.ttl
  BY <1>1
<1> QED BY <1>2 DEF Entry

LEMMA TypeNext ==
  ASSUME TypeOK, Next
  PROVE  TypeOK'
<1>0. /\ now \in 0 .. MaxTime
      /\ version \in [Backends -> 0 .. MaxVersion]
      /\ wire \in [Clients -> [Backends -> Seq(Message)]]
      /\ loop \in [Clients -> Route]
      /\ lists \in [Clients -> 0 .. MaxLists]
      /\ open \in [Clients -> SUBSET Backends]
      /\ surface \in [Clients -> SUBSET Backends]
      /\ seen \in [Clients -> [Backends -> 0 .. MaxVersion]]
      /\ told \in [Backends -> 0 .. MaxVersion]
  BY DEF TypeOK
<1>c. ASSUME Calm PROVE TypeOK'
  BY <1>0, <1>c, EntriesKept DEF Calm, TypeOK
<1>1. ASSUME NEW c \in Clients, NEW m \in Methods, List(c, m) PROVE TypeOK'
  BY <1>0, <1>1, Listing, EntriesKept DEF TypeOK
<1>2. ASSUME NEW c \in Clients, Gathered(c) PROVE TypeOK'
  <2>1. ASSUME NEW k \in Keys, entries'[k] # None
        PROVE  entries'[k].result.ttl > 0 /\ entries'[k].expires \in 1 .. MaxTime + entries'[k].result.ttl
    <3>1. CASE entries[k] # None /\ entries'[k] = entries[k]
      BY <3>1 DEF TypeOK
    <3>2. CASE /\ k[1] \in Backends /\ loop[c].part[k[1]].ttl > 0
               /\ entries'[k] = Entry(loop[c].part[k[1]], Principal[c])
      <4>1. loop[c].part[k[1]] \in Slot
        BY <1>0, <3>2 DEF Route
      <4> QED BY <3>2, <4>1, NewEntry
    <3> QED BY <1>2, <2>1, <3>1, <3>2, Gathering
  <2> QED BY <1>0, <1>2, <2>1, Gathering DEF TypeOK
<1>3. ASSUME NEW c \in Clients, NEW b \in Backends, Fail(c, b) PROVE TypeOK'
  BY <1>0, <1>3, Failing, EntriesKept DEF TypeOK, PartSet
<1>4. ASSUME NEW c \in Clients, NEW b \in Backends, Deliver(c, b) PROVE TypeOK'
  <2>1. PICK msg \in Elems(wire[c][b]) : AnswerTaken(c, b, msg) \/ ChangeTaken(b, msg)
    BY <1>4, Delivering
  <2>2. wire' \in [Clients -> [Backends -> Seq(Message)]] /\ UNCHANGED <<now, version, lists, surface>>
    BY <1>4, Delivering
  <2>3. CASE AnswerTaken(c, b, msg)
    <3>1. loop' \in [Clients -> Route]
      BY <1>0, <2>3 DEF AnswerTaken, PartSet
    <3>2. Shrinks(entries') /\ open' \in [Clients -> SUBSET Backends] /\ UNCHANGED <<seen, told>>
      BY <2>3, Shrinking DEF AnswerTaken
    <3> QED BY <1>0, <2>2, <3>1, <3>2, EntriesKept DEF TypeOK
  <2>4. CASE ChangeTaken(b, msg)
    <3>1. loop' \in [Clients -> Route]
      BY <1>0, <1>4, <2>4, Marking DEF ChangeTaken
    <3>2. Shrinks(entries') /\ seen' \in [Clients -> [Backends -> 0 .. MaxVersion]]
          /\ told' \in [Backends -> 0 .. MaxVersion] /\ UNCHANGED open
      BY <2>4, Shrinking DEF ChangeTaken
    <3> QED BY <1>0, <2>2, <3>1, <3>2, EntriesKept DEF TypeOK
  <2> QED BY <2>1, <2>3, <2>4
<1>5. ASSUME NEW c \in Clients, NEW b \in Backends, Answer(c, b) PROVE TypeOK'
  <2>1. wire' \in [Clients -> [Backends -> Seq(Message)]]
        /\ UNCHANGED <<entries, now, version, loop, lists, open, surface, seen, told>>
    BY <1>5, Answering
  <2>2. Shrinks(entries')
    BY <2>1, Shrinking
  <2> QED BY <1>0, <2>1, <2>2, EntriesKept DEF TypeOK
<1>6. ASSUME NEW b \in Backends, Change(b) PROVE TypeOK'
  <2>1. Shrinks(entries')
    BY <1>6, Changing, Shrinking
  <2> QED BY <1>0, <1>6, <2>1, Changing, EntriesKept DEF TypeOK
<1> QED BY <1>c, <1>1, <1>2, <1>3, <1>4, <1>5, <1>6, SentCalm, BreakerCalm, TickCalm DEF Next

-----------------------------------------------------------------------------
\* The parts of the lists.
LEMMA PartsMarked ==
  ASSUME NEW old, NEW new, PartsAre(old), new.pc = old.pc, new.unavailable = old.unavailable, new.reset = old.reset,
         \A b \in Backends : Marks(old.part[b], new.part[b])
  PROVE  PartsAre(new)
BY DEF PartsAre, Marks

LEMMA PartsNext ==
  ASSUME TypeOK, PartsInv, PrivacyInv, Next
  PROVE  PartsInv'
<1>0. loop \in [Clients -> Route] /\ \A d \in Clients : PartsAre(loop[d])
  BY DEF TypeOK, PartsInv
<1> SUFFICES ASSUME NEW d \in Clients PROVE PartsAre(loop'[d])
  BY DEF PartsInv, PartsAre, Backends
<1>k. ASSUME loop'[d] = loop[d] PROVE PartsAre(loop'[d])
  BY <1>0, <1>k
<1>c. ASSUME Calm PROVE PartsAre(loop'[d])
  <2>1. CASE /\ loop'[d].pc = loop[d].pc /\ loop'[d].unavailable = loop[d].unavailable /\ loop'[d].reset = loop[d].reset
             /\ \A b \in Backends : Marks(loop[d].part[b], loop'[d].part[b])
    BY <1>0, <2>1, PartsMarked
  <2>2. CASE loop'[d].pc = "idle" /\ \A b \in Backends : loop'[d].part[b].src = "none"
    BY <2>2 DEF PartsAre
  <2> QED BY <1>c, <2>1, <2>2 DEF Calm
<1>1. ASSUME NEW c \in Clients, NEW m \in Methods, List(c, m) PROVE PartsAre(loop'[d])
  <2>1. CASE d = c
    <3>1. /\ loop'[c].pc \in {"sending", "fetching"}
          /\ \A b \in Backends : b \in loop'[c].reset => loop'[c].part[b].src = "none"
          /\ loop'[c].unavailable = {b \in Backends : loop'[c].part[b].src = "none"} \ loop'[c].reset
          /\ loop'[c].pc = "sending" => \A b \in Backends : loop'[c].part[b].src # "wait"
          /\ \A b \in Backends : loop'[c].part[b].src \in {"none", "wait", "cache"}
      BY <1>1, Listing
    <3> QED BY <2>1, <3>1 DEF PartsAre
  <2>2. CASE d # c
    BY <1>1, <1>k, <2>2, Listing
  <2> QED BY <2>1, <2>2
<1>2. ASSUME NEW c \in Clients, Gathered(c) PROVE PartsAre(loop'[d])
  <2>1. CASE d = c
    <3>1. /\ loop[c].pc = "fetching" /\ Awaited(c) = {} /\ loop'[c].pc \in {"sending", "dead"}
          /\ loop'[c].part = loop[c].part /\ loop'[c].unavailable = Missing(c)
          /\ loop'[c].reset = loop[c].reset /\ loop[c].reset \in SUBSET Backends
      BY <1>0, <1>2, Gathering DEF Route
    <3>2. \A b \in Backends : loop[c].part[b].src \in {"none", "failed", "cache", "fetched"}
      BY <1>0, <3>1 DEF Awaited, Route, Slot
    <3>3. Missing(c) = {b \in Backends : loop[c].part[b].src \notin {"cache", "fetched"}} \ loop[c].reset
      BY <1>0, <3>1, <3>2 DEF Missing, Failed, PartsAre
    <3> QED BY <2>1, <3>1, <3>2, <3>3 DEF PartsAre
  <2>2. CASE d # c
    BY <1>2, <1>k, <2>2, Gathering
  <2> QED BY <2>1, <2>2
<1>p. ASSUME NEW c \in Clients, NEW b \in Backends, NEW r \in Slot, PartSet(c, b, r),
             loop[c].part[b].src = "wait", r.src \in {"failed", "fetched"}
      PROVE  PartsAre(loop'[d])
  <2>1. CASE d = c
    <3>1. loop[c].pc = "fetching"
      BY <1>0, <1>p DEF PartsAre
    <3> QED BY <1>0, <1>p, <2>1, <3>1 DEF PartsAre, PartSet
  <2>2. CASE d # c
    BY <1>p, <1>k, <2>2 DEF PartSet
  <2> QED BY <2>1, <2>2
<1>3. ASSUME NEW c \in Clients, NEW b \in Backends, Fail(c, b) PROVE PartsAre(loop'[d])
  BY <1>3, <1>p, Failing
<1>4. ASSUME NEW c \in Clients, NEW b \in Backends, Deliver(c, b) PROVE PartsAre(loop'[d])
  <2>1. PICK msg \in Elems(wire[c][b]) : AnswerTaken(c, b, msg) \/ ChangeTaken(b, msg)
    BY <1>4, Delivering
  <2>2. ASSUME AnswerTaken(c, b, msg) PROVE PartsAre(loop'[d])
    <3>1. msg.result.src = "fetched"
      BY <2>2 DEF AnswerTaken, PrivacyInv, AnswerOwned
    <3>2. \/ loop' = loop
          \/ loop[c].part[b].src = "wait" /\ \E r \in Slot : PartSet(c, b, r) /\ r.src = "fetched"
      BY <2>2, <3>1 DEF AnswerTaken
    <3> QED BY <1>k, <1>p, <3>2
  <2>3. ASSUME ChangeTaken(b, msg) PROVE PartsAre(loop'[d])
    <3>1. loop' = Overtaken({b}, loop)
      BY <2>3 DEF ChangeTaken
    <3>2. /\ loop'[d].pc = loop[d].pc /\ loop'[d].unavailable = loop[d].unavailable /\ loop'[d].reset = loop[d].reset
          /\ \A o \in Backends : Marks(loop[d].part[o], loop'[d].part[o])
      BY <1>0, <3>1, Marking
    <3> QED BY <1>0, <3>2, PartsMarked
  <2> QED BY <2>1, <2>2, <2>3
<1>5. ASSUME NEW c \in Clients, NEW b \in Backends, Answer(c, b) PROVE PartsAre(loop'[d])
  BY <1>5, <1>k, Answering
<1>6. ASSUME NEW b \in Backends, Change(b) PROVE PartsAre(loop'[d])
  BY <1>6, <1>k, Changing
<1> QED BY <1>c, <1>1, <1>2, <1>3, <1>4, <1>5, <1>6, SentCalm, BreakerCalm, TickCalm DEF Next

-----------------------------------------------------------------------------
\* Whose results they are.
LEMMA PrivacyNext ==
  ASSUME TypeOK, PrivacyInv, Next
  PROVE  PrivacyInv'
<1>0. /\ loop \in [Clients -> Route]
      /\ \A c \in Clients, b \in Backends : \A msg \in Elems(wire[c][b]) : AnswerOwned(c, msg)
      /\ \A c \in Clients, b \in Backends : PartOwned(c, loop[c].part[b])
      /\ \A k \in Keys : entries[k] # None /\ entries[k].result.scope = "private"
           => entries[k].result.asker = entries[k].principal
  BY DEF TypeOK, PrivacyInv
<1>w. (\A d \in Clients, o \in Backends : \A msg \in Elems(wire'[d][o]) :
          msg \in Elems(wire[d][o]) \/ AnswerOwned(d, msg))
      => \A d \in Clients, o \in Backends : \A msg \in Elems(wire'[d][o]) : AnswerOwned(d, msg)
  BY <1>0
<1>q. wire' = wire => \A d \in Clients, o \in Backends : \A msg \in Elems(wire'[d][o]) : AnswerOwned(d, msg)
  BY <1>0
<1>s. Shrinks(entries') => \A k \in Keys : entries'[k] # None /\ entries'[k].result.scope = "private"
                                => entries'[k].result.asker = entries'[k].principal
  BY <1>0 DEF Shrinks
<1>d. ASSUME \A d \in Clients, o \in Backends : \A msg \in Elems(wire'[d][o]) : AnswerOwned(d, msg),
             \A d \in Clients, o \in Backends : PartOwned(d, loop'[d].part[o]),
             \A k \in Keys : entries'[k] # None /\ entries'[k].result.scope = "private"
                => entries'[k].result.asker = entries'[k].principal
      PROVE  PrivacyInv'
  BY <1>d DEF PrivacyInv, AnswerOwned, PartOwned, Elems, Keys, Backends
<1>m. \A d \in Clients, o \in Backends : Marks(loop[d].part[o], loop'[d].part[o]) => PartOwned(d, loop'[d].part[o])
  BY <1>0 DEF Marks, PartOwned
<1>c. ASSUME Calm PROVE PrivacyInv'
  <2>1. \A d \in Clients, o \in Backends : PartOwned(d, loop'[d].part[o])
    BY <1>c, <1>m DEF Calm, PartOwned
  <2> QED BY <1>c, <1>d, <1>q, <1>s, <2>1 DEF Calm
<1>1. ASSUME NEW c \in Clients, NEW m \in Methods, List(c, m) PROVE PrivacyInv'
  <2>1. ASSUME NEW b \in Backends PROVE PartOwned(c, loop'[c].part[b])
    <3>1. CASE loop'[c].part[b].src \in {"none", "wait"}
      BY <3>1 DEF PartOwned
    <3>2. CASE /\ loop'[c].part[b].src = "cache" /\ <<b, m>> \in Keys
               /\ entries[<<b, m>>] # None /\ Readable(entries[<<b, m>>], Principal[c])
               /\ loop'[c].part[b].scope = entries[<<b, m>>].result.scope
               /\ loop'[c].part[b].asker = entries[<<b, m>>].result.asker
      BY <1>0, <3>2 DEF PartOwned, Readable
    <3> QED BY <1>1, <3>1, <3>2, Listing
  <2>2. \A d \in Clients, o \in Backends : PartOwned(d, loop'[d].part[o])
    BY <1>0, <1>1, <2>1, Listing
  <2>3. Shrinks(entries') /\ wire' = wire
    BY <1>1, Listing
  <2> QED BY <1>d, <1>q, <1>s, <2>2, <2>3
<1>2. ASSUME NEW c \in Clients, Gathered(c) PROVE PrivacyInv'
  <2>1. \A d \in Clients, o \in Backends : PartOwned(d, loop'[d].part[o])
    BY <1>0, <1>2, Gathering
  <2>2. ASSUME NEW k \in Keys, entries'[k] # None, entries'[k].result.scope = "private"
        PROVE  entries'[k].result.asker = entries'[k].principal
    <3>1. CASE entries[k] # None /\ entries'[k] = entries[k]
      BY <1>0, <2>2, <3>1
    <3>2. CASE /\ k[1] \in Backends /\ loop[c].part[k[1]].src = "fetched" /\ loop[c].part[k[1]].ttl > 0
               /\ entries'[k] = Entry(loop[c].part[k[1]], Principal[c])
      <4>1. loop[c].part[k[1]] \in Slot /\ loop[c].part[k[1]].asker = Principal[c]
        BY <1>0, <3>2 DEF Route, PartOwned
      <4> QED BY <2>2, <3>2, <4>1, NewEntry
    <3> QED BY <1>2, <2>2, <3>1, <3>2, Gathering
  <2>3. wire' = wire
    BY <1>2, Gathering
  <2> QED BY <1>d, <1>q, <2>1, <2>2, <2>3
<1>p. ASSUME NEW c \in Clients, NEW b \in Backends, NEW r \in Slot, PartSet(c, b, r), PartOwned(c, r)
      PROVE  \A d \in Clients, o \in Backends : PartOwned(d, loop'[d].part[o])
  BY <1>0, <1>p DEF PartSet
<1>3. ASSUME NEW c \in Clients, NEW b \in Backends, Fail(c, b) PROVE PrivacyInv'
  <2>1. PICK r \in Slot : r.src = "failed" /\ PartSet(c, b, r)
    BY <1>3, Failing
  <2>2. PartOwned(c, r)
    BY <2>1 DEF PartOwned
  <2>3. Shrinks(entries') /\ wire' = wire
    BY <1>3, Failing
  <2> QED BY <1>d, <1>p, <1>q, <1>s, <2>1, <2>2, <2>3
<1>4. ASSUME NEW c \in Clients, NEW b \in Backends, Deliver(c, b) PROVE PrivacyInv'
  <2>1. PICK msg \in Elems(wire[c][b]) : AnswerTaken(c, b, msg) \/ ChangeTaken(b, msg)
    BY <1>4, Delivering
  <2>2. \A d \in Clients, o \in Backends : \A x \in Elems(wire'[d][o]) : AnswerOwned(d, x)
    BY <1>4, <1>w, Delivering
  <2>3. ASSUME AnswerTaken(c, b, msg) PROVE PrivacyInv'
    <3>1. AnswerOwned(c, msg) /\ Shrinks(entries')
      BY <1>0, <2>3, Shrinking DEF AnswerTaken
    <3>2. ASSUME NEW r \in Slot, r.src = msg.result.src, r.asker = msg.result.asker PROVE PartOwned(c, r)
      BY <2>3, <3>1, <3>2 DEF PartOwned, AnswerOwned, AnswerTaken
    <3>3. \A d \in Clients, o \in Backends : PartOwned(d, loop'[d].part[o])
      BY <1>0, <1>p, <2>3, <3>2 DEF AnswerTaken
    <3> QED BY <1>d, <1>s, <2>2, <3>1, <3>3
  <2>4. ASSUME ChangeTaken(b, msg) PROVE PrivacyInv'
    <3>1. loop' = Overtaken({b}, loop) /\ Shrinks(entries')
      BY <2>4, Shrinking DEF ChangeTaken
    <3>2. \A d \in Clients, o \in Backends : Marks(loop[d].part[o], loop'[d].part[o])
      BY <1>0, <3>1, Marking
    <3>3. \A d \in Clients, o \in Backends : PartOwned(d, loop'[d].part[o])
      BY <1>m, <3>2
    <3> QED BY <1>d, <1>s, <2>2, <3>1, <3>3
  <2> QED BY <2>1, <2>3, <2>4
<1>5. ASSUME NEW c \in Clients, NEW b \in Backends, Answer(c, b) PROVE PrivacyInv'
  <2>1. \A d \in Clients, o \in Backends : \A msg \in Elems(wire'[d][o]) : AnswerOwned(d, msg)
    <3>1. PICK new \in Message : Queued(c, b, new) /\ new.result.src = "fetched" /\ new.result.asker = Principal[c]
      BY <1>5, Answering
    <3>2. \A d \in Clients, o \in Backends : (d = c /\ o = b) \/ wire'[d][o] = wire[d][o]
      BY <1>5, Answering
    <3>3. AnswerOwned(c, new)
      BY <3>1 DEF AnswerOwned
    <3> QED BY <1>w, <3>1, <3>2, <3>3 DEF Queued
  <2>2. Shrinks(entries') /\ loop' = loop
    BY <1>5, Answering, Shrinking
  <2> QED BY <1>0, <1>d, <1>s, <2>1, <2>2
<1>6. ASSUME NEW b \in Backends, Change(b) PROVE PrivacyInv'
  <2>1. ASSUME NEW d \in Clients, NEW o \in Backends, NEW msg \in Elems(wire'[d][o])
        PROVE  msg \in Elems(wire[d][o]) \/ AnswerOwned(d, msg)
    <3>1. \/ wire'[d][o] = wire[d][o]
          \/ \E new \in Message : Queued(d, o, new) /\ new.kind = "changed"
      BY <1>6, Changing
    <3> QED BY <3>1 DEF Queued, AnswerOwned
  <2>2. Shrinks(entries') /\ loop' = loop
    BY <1>6, Changing, Shrinking
  <2> QED BY <1>0, <1>d, <1>s, <1>w, <2>1, <2>2
<1> QED BY <1>c, <1>1, <1>2, <1>3, <1>4, <1>5, <1>6, SentCalm, BreakerCalm, TickCalm DEF Next

-----------------------------------------------------------------------------
\* How current the results are.
LEMMA CurrencyNext ==
  ASSUME TypeOK, PartsInv, PrivacyInv, CurrencyInv, Next
  PROVE  CurrencyInv'
<1>0. /\ loop \in [Clients -> Route] /\ wire \in [Clients -> [Backends -> Seq(Message)]]
      /\ \A d \in Clients : lists[d] \in Nat
      /\ \A o \in Backends : told[o] \in Nat /\ version[o] \in Nat /\ told[o] <= version[o]
      /\ \A d \in Clients, o \in Backends : \A msg \in Elems(wire[d][o]) :
            /\ Dated(msg, version[o], lists[d])
            /\ ReplyCurrent(msg, loop[d].part[o], lists[d], told[o])
      /\ \A d \in Clients, o \in Backends : PartCurrent(loop[d], o, told[o])
      /\ \A k \in Keys : entries[k] # None /\ entries[k].result.version < told[k[1]] => entries[k].result.overtaken
  <2>1. /\ lists \in [Clients -> 0 .. MaxLists] /\ told \in [Backends -> 0 .. MaxVersion]
        /\ version \in [Backends -> 0 .. MaxVersion]
        /\ loop \in [Clients -> Route] /\ wire \in [Clients -> [Backends -> Seq(Message)]]
    BY DEF TypeOK
  <2>2. /\ \A d \in Clients : lists[d] \in Nat
        /\ \A o \in Backends : told[o] \in Nat /\ version[o] \in Nat
    BY <2>1, Constants
  <2> QED BY <2>1, <2>2 DEF CurrencyInv, StaleOnlyIfOvertaken
<1> DEFINE Capped == \A o \in Backends : told'[o] <= version'[o]
           Sent1 == \A d \in Clients, o \in Backends : \A msg \in Elems(wire'[d][o]) : Dated(msg, version'[o], lists'[d])
           Sent2 == \A d \in Clients, o \in Backends : \A msg \in Elems(wire'[d][o]) :
                       ReplyCurrent(msg, loop'[d].part[o], lists'[d], told'[o])
           Parts == \A d \in Clients, o \in Backends : PartCurrent(loop'[d], o, told'[o])
           Stale == \A k \in Keys : entries'[k] # None /\ entries'[k].result.version < told'[k[1]]
                       => entries'[k].result.overtaken
<1>d. Capped /\ Sent1 /\ Sent2 /\ Parts /\ Stale => CurrencyInv'
  BY DEF CurrencyInv, StaleOnlyIfOvertaken, Dated, ReplyCurrent, PartCurrent, Elems, Keys, Backends
<1>k. UNCHANGED <<told, version, wire, lists>> => Capped /\ Sent1
  BY <1>0
<1>s. Shrinks(entries') /\ told' = told => Stale
  BY <1>0 DEF Shrinks
<1>m. ASSUME NEW d \in Clients, NEW o \in Backends, Marks(loop[d].part[o], loop'[d].part[o])
      PROVE  /\ \A msg, n, t : ReplyCurrent(msg, loop[d].part[o], n, t) => ReplyCurrent(msg, loop'[d].part[o], n, t)
             /\ loop'[d].pc = loop[d].pc => \A t : PartCurrent(loop[d], o, t) => PartCurrent(loop'[d], o, t)
  BY <1>m DEF Marks, ReplyCurrent, PartCurrent
<1> HIDE DEF Capped, Sent1, Sent2, Parts, Stale
<1>c. ASSUME Calm PROVE CurrencyInv'
  <2>1. UNCHANGED <<told, version, wire, lists>> /\ Shrinks(entries')
    BY <1>c DEF Calm
  <2>2. ASSUME NEW d \in Clients, NEW o \in Backends
        PROVE  /\ \A msg \in Elems(wire[d][o]) : ReplyCurrent(msg, loop'[d].part[o], lists[d], told[o])
               /\ PartCurrent(loop'[d], o, told[o])
    <3>1. CASE loop'[d].pc = loop[d].pc /\ Marks(loop[d].part[o], loop'[d].part[o])
      BY <1>0, <1>m, <3>1
    <3>2. CASE loop'[d].pc = "idle" /\ loop'[d].part[o].src = "none"
      BY <3>2 DEF ReplyCurrent, PartCurrent
    <3> QED BY <1>c, <3>1, <3>2 DEF Calm
  <2>3. Sent2 /\ Parts
    BY <2>1, <2>2 DEF Sent2, Parts
  <2> QED BY <1>d, <1>k, <1>s, <2>1, <2>3
<1>1. ASSUME NEW c \in Clients, NEW m \in Methods, List(c, m) PROVE CurrencyInv'
  <2>1. /\ loop' \in [Clients -> Route] /\ \A d \in Clients : d # c => loop'[d] = loop[d]
        /\ \A b \in Backends : loop'[c].part[b].src \in {"none", "wait", "cache"}
        /\ lists' = [lists EXCEPT ![c] = lists[c] + 1] /\ lists \in [Clients -> 0 .. MaxLists]
        /\ Shrinks(entries') /\ UNCHANGED <<told, version, wire>>
    BY <1>1, Listing DEF TypeOK
  <2>2. /\ \A d \in Clients : d # c => lists'[d] = lists[d]
        /\ lists'[c] = lists[c] + 1
    BY <2>1
  <2>3. ASSUME NEW d \in Clients, NEW o \in Backends, NEW msg \in Elems(wire[d][o])
        PROVE  Dated(msg, version[o], lists'[d]) /\ ReplyCurrent(msg, loop'[d].part[o], lists'[d], told[o])
    <3>1. CASE d # c
      BY <1>0, <2>1, <2>2, <3>1
    <3>2. CASE d = c
      <4>1. wire[d][o] \in Seq(Message)
        BY <1>0
      <4>2. msg \in Message
        BY <2>3, <4>1, QueueElems
      <4>3. msg.list \in Nat /\ lists[c] \in Nat
        BY <1>0, <4>2, Constants DEF Message
      <4>4. msg.version <= version[o]
            /\ (msg.kind = "answer" => msg.list <= lists[c] /\ msg.result.version = msg.version)
        BY <1>0, <3>2 DEF Dated
      <4>5. msg.kind = "answer" => msg.list <= lists[c] + 1 /\ msg.list # lists[c] + 1
        BY <4>3, <4>4
      <4> QED BY <2>2, <3>2, <4>4, <4>5 DEF Dated, ReplyCurrent
    <3> QED BY <3>1, <3>2
  <2>4. Sent1 /\ Sent2 /\ Capped
    BY <1>0, <2>1, <2>3 DEF Sent1, Sent2, Capped
  <2>5. Parts
    BY <1>0, <2>1 DEF Parts, PartCurrent
  <2> QED BY <1>d, <1>s, <2>1, <2>4, <2>5
<1>2. ASSUME NEW c \in Clients, Gathered(c) PROVE CurrencyInv'
  <2>1. /\ loop[c].pc = "fetching" /\ \A d \in Clients : d # c => loop'[d] = loop[d]
        /\ loop'[c].pc \in {"sending", "dead"} /\ loop'[c].part = loop[c].part
        /\ UNCHANGED <<told, version, wire, lists>>
    BY <1>2, Gathering
  <2>2. Sent2
    BY <1>0, <2>1 DEF Sent2
  <2>3. Parts
    BY <1>0, <2>1 DEF Parts, PartCurrent
  <2>4. ASSUME NEW k \in Keys, entries'[k] # None, entries'[k].result.version < told[k[1]]
        PROVE  entries'[k].result.overtaken
    <3>1. CASE entries[k] # None /\ entries'[k] = entries[k]
      BY <1>0, <2>4, <3>1
    <3>2. CASE /\ k[1] \in Backends /\ loop[c].part[k[1]].src = "fetched" /\ loop[c].part[k[1]].ttl > 0
               /\ entries'[k] = Entry(loop[c].part[k[1]], Principal[c])
      <4>1. loop[c].part[k[1]] \in Slot /\ PartCurrent(loop[c], k[1], told[k[1]])
        BY <1>0, <3>2 DEF Route
      <4>2. entries'[k].result = loop[c].part[k[1]]
        BY <3>2, <4>1, NewEntry
      <4> QED BY <2>1, <2>4, <3>2, <4>1, <4>2 DEF PartCurrent
    <3> QED BY <1>2, <2>4, <3>1, <3>2, Gathering
  <2>5. Stale
    BY <2>1, <2>4 DEF Stale
  <2> QED BY <1>d, <1>k, <2>1, <2>2, <2>3, <2>5
<1>3. ASSUME NEW c \in Clients, NEW b \in Backends, Fail(c, b) PROVE CurrencyInv'
  <2>1. PICK r \in Slot : r.src = "failed" /\ PartSet(c, b, r)
    BY <1>3, Failing
  <2>2. Shrinks(entries') /\ UNCHANGED <<told, version, wire, lists>>
    BY <1>3, Failing
  <2>3. ASSUME NEW d \in Clients, NEW o \in Backends
        PROVE  /\ \A msg \in Elems(wire[d][o]) : ReplyCurrent(msg, loop'[d].part[o], lists[d], told[o])
               /\ PartCurrent(loop'[d], o, told[o])
    <3>1. CASE d = c /\ o = b
      BY <2>1, <3>1 DEF PartSet, ReplyCurrent, PartCurrent
    <3>2. CASE ~(d = c /\ o = b)
      <4>1. loop'[d].part[o] = loop[d].part[o] /\ loop'[d].pc = loop[d].pc
        BY <2>1, <3>2 DEF PartSet
      <4> QED BY <1>0, <4>1 DEF PartCurrent
    <3> QED BY <3>1, <3>2
  <2>4. Sent2 /\ Parts
    BY <2>2, <2>3 DEF Sent2, Parts
  <2> QED BY <1>d, <1>k, <1>s, <2>2, <2>4
<1>4. ASSUME NEW c \in Clients, NEW b \in Backends, Deliver(c, b) PROVE CurrencyInv'
  <2>1. PICK msg \in Elems(wire[c][b]) : AnswerTaken(c, b, msg) \/ ChangeTaken(b, msg)
    BY <1>4, Delivering
  <2>2. /\ \A d \in Clients, o \in Backends : Elems(wire'[d][o]) \subseteq Elems(wire[d][o])
        /\ UNCHANGED <<version, lists>>
    BY <1>4, Delivering
  <2>3. Sent1
    BY <1>0, <2>2 DEF Sent1
  <2>4. ASSUME AnswerTaken(c, b, msg) PROVE CurrencyInv'
    <3>1. told' = told /\ Shrinks(entries') /\ msg.kind = "answer"
      BY <2>4, Shrinking DEF AnswerTaken
    <3>2. Capped
      BY <1>0, <2>2, <3>1 DEF Capped
    <3>3. CASE loop' = loop
      <4>1. Sent2 /\ Parts
        BY <1>0, <2>2, <3>1, <3>3 DEF Sent2, Parts
      <4> QED BY <1>d, <1>s, <2>3, <3>1, <3>2, <4>1
    <3>4. ASSUME NEW r \in Slot, PartSet(c, b, r), loop[c].part[b].src = "wait", msg.list = lists[c],
                 r.src = msg.result.src, r.version = msg.result.version, r.overtaken = loop[c].part[b].overtaken
          PROVE  CurrencyInv'
      <4>1. r.src = "fetched" /\ (r.version < told[b] => r.overtaken)
        BY <1>0, <3>1, <3>4 DEF PrivacyInv, AnswerOwned, Dated, ReplyCurrent
      <4>2. ASSUME NEW d \in Clients, NEW o \in Backends
            PROVE  /\ \A x \in Elems(wire[d][o]) : ReplyCurrent(x, loop'[d].part[o], lists[d], told[o])
                   /\ PartCurrent(loop'[d], o, told[o])
        <5>1. CASE d = c /\ o = b
          BY <3>4, <4>1, <5>1 DEF PartSet, ReplyCurrent, PartCurrent
        <5>2. CASE ~(d = c /\ o = b)
          <6>1. loop'[d].part[o] = loop[d].part[o] /\ loop'[d].pc = loop[d].pc
            BY <3>4, <5>2 DEF PartSet
          <6> QED BY <1>0, <6>1 DEF PartCurrent
        <5> QED BY <5>1, <5>2
      <4>3. Sent2 /\ Parts
        BY <2>2, <3>1, <4>2 DEF Sent2, Parts
      <4> QED BY <1>d, <1>s, <2>3, <3>1, <3>2, <4>3
    <3> QED BY <2>4, <3>3, <3>4 DEF AnswerTaken
  <2>5. ASSUME ChangeTaken(b, msg) PROVE CurrencyInv'
    <3>1. /\ entries' = Dropped({b}, entries) /\ loop' = Overtaken({b}, loop)
          /\ told' = [told EXCEPT ![b] = IF msg.version > told[b] THEN msg.version ELSE told[b]]
          /\ told \in [Backends -> 0 .. MaxVersion]
      BY <2>5 DEF ChangeTaken, TypeOK
    <3>2. \A o \in Backends : o # b => told'[o] = told[o]
      BY <3>1
    <3>3. msg.version <= version[b]
      BY <1>0 DEF Dated
    <3>4. Capped
      BY <1>0, <2>2, <3>1, <3>2, <3>3 DEF Capped
    <3>5. ASSUME NEW d \in Clients, NEW o \in Backends
          PROVE  /\ \A x \in Elems(wire[d][o]) : ReplyCurrent(x, loop'[d].part[o], lists[d], told'[o])
                 /\ PartCurrent(loop'[d], o, told'[o])
      <4>1. /\ loop'[d].pc = loop[d].pc /\ Marks(loop[d].part[o], loop'[d].part[o])
            /\ o \in {b} /\ loop[d].pc = "fetching" => loop'[d].part[o].overtaken
        BY <1>0, <3>1, Marking
      <4>2. CASE o # b
        BY <1>0, <1>m, <3>2, <4>1, <4>2
      <4>3. CASE o = b
        <5>1. loop[d].pc # "fetching" => loop[d].part[o].src # "wait"
          BY DEF PartsInv, PartsAre
        <5>2. loop'[d].part[o].src = loop[d].part[o].src
          BY <4>1 DEF Marks
        <5> QED BY <4>1, <4>3, <5>1, <5>2 DEF ReplyCurrent, PartCurrent
      <4> QED BY <4>2, <4>3
    <3>6. Sent2 /\ Parts
      BY <2>2, <3>5 DEF Sent2, Parts
    <3>7. ASSUME NEW k \in Keys, entries'[k] # None, entries'[k].result.version < told'[k[1]]
          PROVE  entries'[k].result.overtaken
      <4>1. k[1] # b /\ entries'[k] = entries[k] /\ k[1] \in Backends
        BY <3>1, <3>7 DEF Dropped, Keys
      <4> QED BY <1>0, <3>2, <3>7, <4>1
    <3>8. Stale
      BY <3>7 DEF Stale
    <3> QED BY <1>d, <2>3, <3>4, <3>6, <3>8
  <2> QED BY <2>1, <2>4, <2>5
<1>5. ASSUME NEW c \in Clients, NEW b \in Backends, Answer(c, b) PROVE CurrencyInv'
  <2>1. PICK new \in Message :
           /\ Queued(c, b, new) /\ new.kind = "answer" /\ new.list = lists[c] /\ new.version = version[b]
           /\ new.result.version = version[b]
    BY <1>5, Answering
  <2>2. /\ \A d \in Clients, o \in Backends : (d = c /\ o = b) \/ wire'[d][o] = wire[d][o]
        /\ Shrinks(entries') /\ UNCHANGED <<loop, told, version, lists>>
    BY <1>5, Answering, Shrinking
  <2>3. Dated(new, version[b], lists[c]) /\ ReplyCurrent(new, loop[c].part[b], lists[c], told[b])
    BY <1>0, <2>1 DEF Dated, ReplyCurrent
  <2>4. ASSUME NEW d \in Clients, NEW o \in Backends, NEW msg \in Elems(wire'[d][o])
        PROVE  Dated(msg, version[o], lists[d]) /\ ReplyCurrent(msg, loop[d].part[o], lists[d], told[o])
    <3>1. msg \in Elems(wire[d][o]) \/ (d = c /\ o = b /\ msg = new)
      BY <2>1, <2>2, <2>4 DEF Queued
    <3> QED BY <1>0, <2>3, <3>1
  <2>5. Sent1 /\ Sent2
    BY <2>2, <2>4 DEF Sent1, Sent2
  <2>6. Capped /\ Parts
    BY <1>0, <2>2 DEF Capped, Parts
  <2> QED BY <1>d, <1>s, <2>2, <2>5, <2>6
<1>6. ASSUME NEW b \in Backends, Change(b) PROVE CurrencyInv'
  <2>1. /\ \A o \in Backends : version[o] <= version'[o] /\ version'[o] \in Nat
        /\ Shrinks(entries') /\ UNCHANGED <<loop, told, lists>>
    BY <1>6, Changing, Shrinking, Constants
  <2>2. ASSUME NEW d \in Clients, NEW o \in Backends, NEW msg \in Elems(wire'[d][o])
        PROVE  Dated(msg, version'[o], lists[d]) /\ ReplyCurrent(msg, loop[d].part[o], lists[d], told[o])
    <3>1. \/ wire'[d][o] = wire[d][o]
          \/ \E new \in Message : Queued(d, o, new) /\ new.kind = "changed" /\ new.version <= version'[o]
      BY <1>6, Changing
    <3>2. CASE msg \in Elems(wire[d][o])
      <4>1. wire[d][o] \in Seq(Message)
        BY <1>0
      <4>2. msg \in Message
        BY <3>2, <4>1, QueueElems
      <4>3. msg.version \in Nat
        BY <4>2, Constants DEF Message
      <4>4. Dated(msg, version[o], lists[d]) /\ ReplyCurrent(msg, loop[d].part[o], lists[d], told[o])
        BY <1>0, <3>2
      <4>5. msg.version <= version[o] => msg.version <= version'[o]
        BY <1>0, <2>1, <4>3
      <4> QED BY <4>4, <4>5 DEF Dated
    <3>3. CASE msg.kind = "changed" /\ msg.version <= version'[o]
      BY <3>3 DEF Dated, ReplyCurrent
    <3> QED BY <2>2, <3>1, <3>2, <3>3 DEF Queued
  <2>3. Sent1 /\ Sent2
    BY <2>1, <2>2 DEF Sent1, Sent2
  <2>4. ASSUME NEW o \in Backends PROVE told'[o] <= version'[o]
    BY <1>0, <2>1
  <2>5. Capped
    BY <2>4 DEF Capped
  <2>6. Parts
    BY <1>0, <2>1 DEF Parts
  <2> QED BY <1>d, <1>s, <2>1, <2>3, <2>5, <2>6
<1> QED BY <1>c, <1>1, <1>2, <1>3, <1>4, <1>5, <1>6, SentCalm, BreakerCalm, TickCalm DEF Next

-----------------------------------------------------------------------------
\* The theorems.
LEMMA InitInv ==
  ASSUME Init
  PROVE  IndInv
<1>1. Idle \in Route /\ Idle.pc = "idle" /\ \A b \in Backends : Idle.part[b].src = "none"
  <2>1. [b \in Backends |-> Nothing] \in [Backends -> Slot] /\ \A b \in Backends : [d \in Backends |-> Nothing][b].src = "none"
    BY NothingSlot
  <2>2. [b \in Backends |-> 0] \in [Backends -> 0 .. MaxVersion]
    BY Constants
  <2>3. Idle.method \in Methods
    BY Constants
  <2> QED BY <2>1, <2>2, <2>3 DEF Idle, Route
<1>2. <<>> \in Seq(Message) /\ Elems(<<>>) = {}
  BY DEF Elems
<1>3. TypeOK
  <2>1. wire \in [Clients -> [Backends -> Seq(Message)]] /\ loop \in [Clients -> Route]
    BY <1>1, <1>2 DEF Init
  <2>2. /\ now \in 0 .. MaxTime /\ version \in [Backends -> 0 .. MaxVersion] /\ lists \in [Clients -> 0 .. MaxLists]
        /\ seen \in [Clients -> [Backends -> 0 .. MaxVersion]] /\ told \in [Backends -> 0 .. MaxVersion]
    BY Constants DEF Init
  <2>3. /\ entries \in [Keys -> Cached \union {None}] /\ \A k \in Keys : entries[k] = None
        /\ open \in [Clients -> SUBSET Backends] /\ surface \in [Clients -> SUBSET Backends]
    BY DEF Init
  <2> QED BY <2>1, <2>2, <2>3 DEF TypeOK
<1>4. PartsInv
  BY <1>1 DEF Init, PartsInv, PartsAre
<1>5. /\ \A c \in Clients, b \in Backends : Elems(wire[c][b]) = {} /\ loop[c] = Idle
      /\ \A k \in Keys : entries[k] = None
      /\ \A b \in Backends : told[b] = 0 /\ version[b] = 0
  BY <1>2 DEF Init
<1>6. PrivacyInv
  BY <1>1, <1>5 DEF PrivacyInv, PartOwned
<1>7. CurrencyInv
  BY <1>1, <1>5 DEF CurrencyInv, StaleOnlyIfOvertaken, PartCurrent
<1> QED BY <1>3, <1>4, <1>6, <1>7 DEF IndInv

LEMMA NextInv ==
  ASSUME IndInv, [Next]_vars
  PROVE  IndInv'
<1>1. CASE Next
  BY <1>1, TypeNext, PartsNext, PrivacyNext, CurrencyNext DEF IndInv
<1>2. CASE UNCHANGED vars
  BY <1>2 DEF vars, IndInv, TypeOK, PartsInv, PartsAre, PrivacyInv, AnswerOwned, PartOwned,
              CurrencyInv, Dated, ReplyCurrent, PartCurrent, StaleOnlyIfOvertaken, Elems, Keys, Backends
<1> QED BY <1>1, <1>2

\* The inductive invariant of the shared cache holds in every reachable state
\* (ListCache in src/yamp/cache.py, ForwardRouter._collect in router.py).
THEOREM Invariance == Spec => []IndInv
<1>1. Init => IndInv
  BY InitInv
<1>2. IndInv /\ [Next]_vars => IndInv'
  BY NextInv
<1> QED BY <1>1, <1>2, PTL DEF Spec

\* Every variable keeps its type: the fields of ListCache and ForwardRouter.
THEOREM TypeCorrect == Spec => []TypeOK
<1>1. IndInv => TypeOK
  BY DEF IndInv
<1> QED BY <1>1, Invariance, PTL

\* What the cache serves from a private result was asked for on behalf of the
\* same principal, however many connections share the cache (ListCache.get,
\* put, and the principal each router passes to them).
THEOREM PrivateResultsStayPrivate == Spec => []PrivateStaysPrivate
<1>1. IndInv => PrivateStaysPrivate
  BY DEF IndInv, PrivacyInv, PartOwned, PrivateStaysPrivate
<1> QED BY <1>1, Invariance, PTL

\* An entry older than what has been announced to any router was requested
\* before the announcement was processed: invalidation misses nothing that is
\* already cached (_server_message and emit_if_surface_changed invalidate,
\* _collect stores).
THEOREM StaleEntriesWereOvertaken == Spec => []StaleOnlyIfOvertaken
<1>1. IndInv => StaleOnlyIfOvertaken
  BY DEF IndInv, CurrencyInv
<1> QED BY <1>1, Invariance, PTL

\* A list declares unavailable exactly the backends that it has no result of,
\* but for those whose reset timeout ended between the two readings of the
\* breakers (available, unavailable and results in _collect).
THEOREM MissingPartsDeclared == Spec => []NothingMissingSilently
<1>1. IndInv => NothingMissingSilently
  BY DEF IndInv, PartsInv, PartsAre, NothingMissingSilently, Absent
<1> QED BY <1>1, Invariance, PTL

================================================================================
