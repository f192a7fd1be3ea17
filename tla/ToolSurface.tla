---------------------------- MODULE ToolSurface ----------------------------
(* The tool surface of the forward router: what tools/list serves (labels,   *)
(* collision strategies, filters, composite cursors, disclosure), and which  *)
(* backend a tools/call by a served name reaches.  router.py, collision.py,  *)
(* variants.py, routing.py, capability.py and handler.py.                    *)
(*                                                                           *)
(* A backend answers tools/list page by page; its cursor is the number of    *)
(* tools already given.  The cache is ListServing's subject and is left out; *)
(* the proxy is resilient, so a backend that fails a fetch or whose breaker  *)
(* is open is reported and left out.  The route loop serves one request at a *)
(* time, so a request is one step.                                           *)
EXTENDS Integers, FiniteSets, Sequences, SequencesExt, Namespace

CONSTANTS
  Configs,     \* the configurations the router may be started with
  OfferSets,   \* what a backend may offer: sequences of original names
  MaxChanges,  \* bound: how often the backends' offers change
  MaxOutages   \* bound: how often a breaker changes its mind

ASSUME OffersAssumption ==
  /\ OfferSets \subseteq Seq(Seq(Characters) \ {None})
  /\ MaxChanges \in Nat /\ MaxOutages \in Nat

NoVariant == "none"

VARIABLES
  config,   \* [backends, handlers, strategy, overrides, priority, disclose,
            \*  variants, filters, page, pushdown, keywords]
  offers,   \* the tools each backend offers now, in its order
  up,       \* the backends whose breaker permits traffic
  reverse,  \* self._reverse: the owner recorded for each passthrough name
  raw,      \* the entries of the last tools/list before collision resolution
  page,     \* the entries it served
  cursor,   \* the nextCursor the client holds: << >> or [variant, cursors]
  walk,     \* the client's walk through the pages, for the properties
  changes, outages

surfaceVars == <<config, offers, up, reverse, raw, page, cursor, walk, changes, outages>>

BackendIds == ToSet(config.backends)
HandlerTool == <<"m">>   \* the one tool each local handler has
ProxySearchTool == prefix(<<"p">>, <<"s">>)   \* proxy__search_tools

\* An entry of a list: the name served, who serves it, its name there.
Entry(name, owner, original) == [name |-> name, owner |-> owner, original |-> original]

\* A single-backend intermediary does not modify names.
Single == Len(config.backends) = 1 /\ config.handlers = << >>
Label(b, t) == IF Single THEN t ELSE prefix(b, t)
Passthrough == config.strategy = "passthrough" /\ ~Single

\* What b's tool t is listed as, before collisions are resolved.
ShownAs(b, t) == IF Passthrough THEN t ELSE Label(b, t)

\* At i: the members of S among the first i of s, in their order.
Sifted(s, S) ==
  LET sifted[i \in 0..Len(s)] ==
        IF i = 0 THEN << >>
        ELSE IF s[i] \in S THEN Append(sifted[i - 1], s[i]) ELSE sifted[i - 1]
  IN  sifted

Sift(s, S) == Sifted(s, S)[Len(s)]

(***************************************************************************)
(* routing.py: name patterns and keyword selection.                        *)
(***************************************************************************)
StartsWith(s, p) == Len(p) <= Len(s) /\ SubSeq(s, 1, Len(p)) = p
EndsWith(s, p)   == Len(p) <= Len(s) /\ SubSeq(s, Len(s) - Len(p) + 1, Len(s)) = p
Within(s, p)     == \E i \in 1..(Len(s) + 1) : StartsWith(SubSeq(s, i, Len(s)), p)

Glob(pattern, name) ==
  LET starts == StartsWith(pattern, <<"*">>)
      ends   == EndsWith(pattern, <<"*">>)
      inner  == SubSeq(pattern, IF starts THEN 2 ELSE 1, Len(pattern) - (IF ends THEN 1 ELSE 0))
  IN  \/ pattern = <<"*">>
      \/ starts /\ ends /\ Within(name, inner)
      \/ ~starts /\ ends /\ StartsWith(name, inner)
      \/ starts /\ ~ends /\ EndsWith(name, inner)
      \/ ~starts /\ ~ends /\ name = pattern

name_matches(name, patterns) == patterns = {} \/ \E p \in patterns : Glob(p, name)

Filtered(entries, filter) ==
  Sift(entries, {e \in ToSet(entries) : name_matches(e.name, filter.patterns)})

backend_selected(declared, wanted) ==
  declared = {} \/ wanted = {} \/ declared \cap wanted # {}

(***************************************************************************)
(* collision.py                                                            *)
(***************************************************************************)
Rank(id) ==
  LET places == {i \in 1..Len(config.priority) : config.priority[i] = id}
  IN  IF places = {} THEN Len(config.priority) + 1 ELSE Max(places)

RankOf_Equal(name) == 0   \* mutant: the first copy wins, whatever its backend
OriginalOf(name) == LET r == split(name) IN IF r = None THEN name ELSE r[2]
RankOf(name)     == LET r == split(name) IN IF r = None THEN Len(config.priority) + 1 ELSE Rank(r[1])

Copies(entries, o) == {i \in 1..Len(entries) : OriginalOf(entries[i].name) = o}

\* The copy with the lowest rank, the earliest of these.
BestCopy(entries, o) ==
  CHOOSE i \in Copies(entries, o) : \A j \in Copies(entries, o) :
     \/ RankOf(entries[i].name) < RankOf(entries[j].name)
     \/ RankOf(entries[i].name) = RankOf(entries[j].name) /\ i <= j

\* The best copy of each original name, at the place where that name first
\* occurred.
apply_priority(entries) ==
  LET Original(i) == OriginalOf(entries[i].name)
      order == Sift([i \in 1..Len(entries) |-> i],
                    {i \in 1..Len(entries) : i = First(Copies(entries, Original(i)))})
  IN  [k \in 1..Len(order) |-> entries[BestCopy(entries, Original(order[k]))]]

\* overrides is the sequence of its <<namespaced, exposed>> items.
Renames(k, name) == {i \in 1..Len(config.overrides) : config.overrides[i][k] = name}
Exposed(name) == IF Renames(1, name) = {} THEN name ELSE config.overrides[Max(Renames(1, name))][2]

\* resolve_manual raises when two names would be exposed as one.
UnresolvedCollision(entries) ==
  \E i, j \in 1..Len(entries) : /\ entries[i].name # entries[j].name
                                /\ Exposed(entries[i].name) = Exposed(entries[j].name)
resolve_manual(entries) ==
  [i \in 1..Len(entries) |-> [entries[i] EXCEPT !.name = Exposed(@)]]

Namespaced_Not(name) == name   \* mutant: the renames are not inverted
\* {exposed: namespaced for namespaced, exposed in overrides}: the last one wins.
Namespaced(name) == IF Renames(2, name) = {} THEN name ELSE config.overrides[Max(Renames(2, name))][1]

(***************************************************************************)
(* tools/list: _collect and _aggregate.                                    *)
(***************************************************************************)
EffectiveVariant(v) ==
  IF v # NoVariant THEN v
  ELSE IF config.variants = << >> THEN NoVariant ELSE config.variants[1]

VariantError(v) == v # NoVariant /\ v \notin ToSet(config.variants)

\* What backend b answers when asked for the page after `from` tools.  A backend
\* that honours the filter pushed down to it applies it to its own names.
AnswerPage(b, from, filter) ==
  LET given == IF config.pushdown THEN Sift(offers[b], {t \in ToSet(offers[b]) : name_matches(t, filter.patterns)})
               ELSE offers[b]
      last  == IF from + config.page < Len(given) THEN from + config.page ELSE Len(given)
  IN  [items |-> SubSeq(given, from + 1, last),
       next  |-> IF last < Len(given) /\ from < last THEN last ELSE 0]

\* The backends a request goes to: permitted, selected by keyword, and on a
\* continuation only those the cursor names.
AskedBackends(filter, cur) ==
  {b \in up : /\ backend_selected(config.keywords[b], filter.keywords)
              /\ cur # None => b \in DOMAIN cur.cursors}

\* Those of them that answer, and what they answer.
AnsweringBackends(filter, cur, failing) == AskedBackends(filter, cur) \ failing

Given(b, filter, cur) == AnswerPage(b, IF cur = None THEN 0 ELSE cur.cursors[b], filter)

\* b's entries, labelled and filtered by the names they are shown under.
ListedBy(b, filter, cur) ==
  LET items == Given(b, filter, cur).items
  IN  Filtered([i \in 1..Len(items) |-> Entry(ShownAs(b, items[i]), b, items[i])], filter)

\* The answers, merged in the order of the backends.
Merged(filter, cur, failing) ==
  LET merged[k \in 0..Len(config.backends)] ==
        IF k = 0 THEN << >>
        ELSE IF config.backends[k] \in AnsweringBackends(filter, cur, failing)
        THEN merged[k - 1] \o ListedBy(config.backends[k], filter, cur)
        ELSE merged[k - 1]
  IN  merged

Collected(filter, cur, failing) == Merged(filter, cur, failing)[Len(config.backends)]

NextCursors_Last(filter, cur, failing) ==   \* mutant: the last backend's cursor replaces the others
  LET more == SelectSeq(config.backends,
                LAMBDA b : b \in AnsweringBackends(filter, cur, failing) /\ Given(b, filter, cur).next > 0)
  IN  [b \in IF more = << >> THEN {} ELSE {Last(more)} |-> Given(b, filter, cur).next]

\* nextCursor of every answering backend that still has pages.
NextCursors(filter, cur, failing) ==
  [b \in {a \in AnsweringBackends(filter, cur, failing) : Given(a, filter, cur).next > 0} |->
     Given(b, filter, cur).next]

Unavailable(filter, cur, failing) == (BackendIds \ up) \cup (AskedBackends(filter, cur) \cap failing)

\* self._reverse.setdefault: the first backend a name was listed by keeps it.
ReverseMap(filter, cur, failing) ==
  LET listers(n) == {k \in 1..Len(config.backends) :
                       /\ config.backends[k] \in AnsweringBackends(filter, cur, failing)
                       /\ n \in ToSet(Given(config.backends[k], filter, cur).items)}
      listed == UNION {ToSet(Given(b, filter, cur).items) : b \in AnsweringBackends(filter, cur, failing)}
  IN  IF ~Passthrough THEN reverse
      ELSE [n \in DOMAIN reverse \cup listed |->
              IF n \in DOMAIN reverse THEN reverse[n] ELSE config.backends[First(listers(n))]]

\* Registry.list_tools: every handler's tools under the handler's id.
LocalTools(filter) ==
  Filtered([i \in 1..Len(config.handlers) |->
             Entry(prefix(config.handlers[i], HandlerTool), config.handlers[i], HandlerTool)], filter)

disclose(entries) ==
  IF config.disclose > 0 /\ Len(entries) > config.disclose
  THEN Append(SubSeq(entries, 1, config.disclose),
              Entry(ProxySearchTool, None, ProxySearchTool))
  ELSE entries

Resolved(entries) ==
  IF config.strategy = "manual" THEN resolve_manual(entries)
  ELSE IF config.strategy = "priority" THEN apply_priority(entries)
  ELSE entries

OfBackends(entries) == Sift(entries, {e \in ToSet(entries) : e.owner \in BackendIds})

\* tools/list, fresh or with the cursor of the page before.  `failing` are the
\* backends whose fetch raises.
ListTools(variant, filter, cur, failing) ==
  LET effective == EffectiveVariant(variant)
      entries == Collected(filter, cur, failing) \o LocalTools(filter)
      next == NextCursors(filter, cur, failing)
      lost == Unavailable(filter, cur, failing)
      before == IF cur = None
                THEN [seen |-> << >>, lost |-> {}, variants |-> {}, pages |-> 0, steady |-> TRUE]
                ELSE walk
  IN  /\ ~VariantError(variant)
      /\ cur # None => cur.variant = effective   \* else: cursor invalid for the variant
      /\ reverse' = ReverseMap(filter, cur, failing)
      /\ IF config.strategy = "manual" /\ UnresolvedCollision(entries)
         THEN UNCHANGED <<raw, page, cursor, walk>>   \* an internal error
         ELSE /\ raw' = entries
              /\ page' = disclose(Resolved(entries))
              /\ cursor' = IF next = << >> THEN None ELSE [variant |-> effective, cursors |-> next]
              /\ walk' = [seen     |-> before.seen \o OfBackends(page'),
                          lost     |-> before.lost \cup lost,
                          variants |-> before.variants \cup {effective},
                          filter   |-> filter,
                          pages    |-> before.pages + 1,
                          steady   |-> before.steady]
      /\ UNCHANGED <<config, offers, up, changes, outages>>

(***************************************************************************)
(* tools/call: where _route_call sends a name.                             *)
(***************************************************************************)
Unknown == [kind |-> "unknown", owner |-> None, original |-> None]
Target(kind, owner, original) == [kind |-> kind, owner |-> owner, original |-> original]

ToBackend(r) == IF r # None /\ r[1] \in BackendIds THEN Target("backend", r[1], r[2]) ELSE Unknown

Resolve(value) ==
  LET r == split(value)
  IN  IF config.disclose > 0 /\ value = ProxySearchTool THEN Target("search", None, value)
      ELSE IF r # None /\ r[1] \in ToSet(config.handlers) THEN Target("local", r[1], r[2])
      ELSE IF Single THEN Target("backend", config.backends[1], value)
      ELSE IF config.strategy = "manual" THEN ToBackend(split(Namespaced(value)))
      ELSE IF Passthrough
           THEN IF value \in DOMAIN reverse THEN ToBackend(<<reverse[value], value>>) ELSE Unknown
      ELSE ToBackend(r)

NoFilter == [patterns |-> {}, keywords |-> {}]

\* search_tools over what _collect gives, which is what the search tool returns.
Found(needle) ==
  {e.name : e \in {x \in ToSet(Collected(NoFilter, None, {})) : Within(x.name, needle)}}

\* A call by a name that no list recorded warms the reverse map with a list
\* fan-out first, and so does a search; other calls change nothing here.
Call(value, failing) ==
  /\ \/ Passthrough /\ Resolve(value).kind = "unknown" /\ value \notin DOMAIN reverse
     \/ Resolve(value).kind = "search"
  /\ reverse' = ReverseMap(NoFilter, None, failing)
  /\ UNCHANGED <<config, offers, up, raw, page, cursor, walk, changes, outages>>

(***************************************************************************)
(* The environment.                                                        *)
(***************************************************************************)
OffersChange(b, o) ==
  /\ changes < MaxChanges
  /\ o # offers[b]
  /\ offers' = [offers EXCEPT ![b] = o]
  /\ changes' = changes + 1
  /\ walk' = [walk EXCEPT !.steady = FALSE]
  /\ UNCHANGED <<config, up, reverse, raw, page, cursor, outages>>

BreakerChanges(b) ==
  /\ outages < MaxOutages
  /\ up' = IF b \in up THEN up \ {b} ELSE up \cup {b}
  /\ outages' = outages + 1
  /\ UNCHANGED <<config, offers, reverse, raw, page, cursor, walk, changes>>

(***************************************************************************)
(* Specification.                                                          *)
(***************************************************************************)
SurfaceInit ==
  /\ config \in Configs
  /\ offers \in [BackendIds -> OfferSets]
  /\ up = BackendIds
  /\ reverse = << >>
  /\ raw = << >> /\ page = << >> /\ cursor = None
  /\ walk = [seen |-> << >>, lost |-> {}, variants |-> {}, filter |-> NoFilter,
             pages |-> 0, steady |-> TRUE]
  /\ changes = 0 /\ outages = 0

Variants == {NoVariant, "v1", "v2"}

\* A client asks for the next page with the filter of the page before.
SurfaceNext ==
  \/ \E v \in Variants, f \in config.filters, failing \in SUBSET BackendIds :
       ListTools(v, f, None, failing)
  \/ \E v \in Variants, failing \in SUBSET BackendIds :
       cursor # None /\ ListTools(v, walk.filter, cursor, failing)
  \/ \E b \in BackendIds, failing \in SUBSET BackendIds :
       \E n \in ToSet(offers[b]) \cup {ProxySearchTool} : Call(n, failing)
  \/ \E b \in BackendIds, o \in OfferSets : OffersChange(b, o)
  \/ \E b \in BackendIds : BreakerChanges(b)

SurfaceSpec == SurfaceInit /\ [][SurfaceNext]_surfaceVars

(***************************************************************************)
(* The configurations under which the surface keeps its promises: one        *)
(* condition for each way in which it is known to break one.                *)
(***************************************************************************)
Lone(c) == Len(c.backends) = 1 /\ c.handlers = << >>

Unlabelled(c) == Lone(c) \/ c.strategy = "passthrough"

\* Ids are distinct and can be told from the names they mark; a page holds
\* something.
WellFormed(c) ==
  /\ c.backends \in Seq(ToSet(c.backends)) /\ IsInjective(c.backends)
  /\ c.handlers \in Seq(ToSet(c.handlers)) /\ c.priority \in Seq(ToSet(c.priority))
  /\ \A id \in ToSet(c.backends) \cup ToSet(c.handlers) : PlainId(id)
  /\ ToSet(c.backends) \cap ToSet(c.handlers) = {}
  /\ c.page \in Nat \ {0} /\ c.disclose \in Nat

\* No name that is served without its owner's id, because it is renamed, passed
\* through or of the only backend, reads as somebody else's.
Callable(c) ==
  /\ c.disclose > 0 => <<"p">> \notin ToSet(c.backends) \cup ToSet(c.handlers)
  /\ Unlabelled(c) => \A o \in OfferSets : \A t \in ToSet(o) :
       /\ split(t) # None => split(t)[1] \notin ToSet(c.handlers)
       /\ c.disclose > 0 => t # ProxySearchTool
  /\ c.strategy = "manual" =>
       /\ ~Lone(c)
       /\ c.overrides \in Seq(ToSet(c.overrides))
       /\ \A o \in ToSet(c.overrides) :
            split(o[1]) # None /\ split(o[1])[1] \in ToSet(c.backends) /\ split(o[2]) = None
       /\ \A i, j \in 1..Len(c.overrides) :
            c.overrides[i][1] = c.overrides[j][1] \/ c.overrides[i][2] = c.overrides[j][2] => i = j

(***************************************************************************)
(* Properties.                                                             *)
(***************************************************************************)
SurfaceTypeOK ==
  /\ config \in Configs
  /\ up \subseteq BackendIds
  /\ \A n \in DOMAIN reverse : reverse[n] \in BackendIds
  /\ \A i \in 1..Len(page) : page[i].owner = None \/ page[i].owner \in BackendIds \cup ToSet(config.handlers)
  /\ cursor = None \/ DOMAIN cursor.cursors \subseteq BackendIds
  /\ changes \in 0..MaxChanges /\ outages \in 0..MaxOutages

\* A call by a name the client was just served reaches the party that listed
\* it, under the name it listed.  With the passthrough strategy, where one name
\* may be listed by several, it reaches one of those that listed it.
CallReachesLister ==
  \A e \in ToSet(page) :
    LET to == Resolve(e.name)
    IN  IF e.owner = None THEN to.kind = "search"
        ELSE IF e.owner \notin BackendIds THEN to = Target("local", e.owner, e.original)
        ELSE IF Passthrough THEN to.kind = "backend" /\ to.original = e.original
        ELSE to = Target("backend", e.owner, e.original)

\* Whether the client's walk has come to its last page undisturbed.
Walked == walk.pages > 0 /\ cursor = None /\ walk.steady

\* When a client has followed the cursors to the end, every tool that passes
\* the filter, of every backend that no page reported unavailable, was served
\* exactly once, and nothing else was.
PagesComplete ==
  (Walked /\ config.strategy # "priority" /\ config.disclose = 0) =>
    \A b \in {x \in BackendIds \ walk.lost : backend_selected(config.keywords[x], walk.filter.keywords)} :
      LET shown == Sift(walk.seen, {e \in ToSet(walk.seen) : e.owner = b})
          due   == Sift(offers[b], {t \in ToSet(offers[b]) : name_matches(ShownAs(b, t), walk.filter.patterns)})
      IN  [i \in 1..Len(shown) |-> shown[i].original] = due

\* The pages of one walk were all served under one variant.
WalkKeepsVariant == Cardinality(walk.variants) <= 1

\* With the priority strategy a page serves, for each original name, exactly one
\* copy, and no copy on that page came from a backend of higher priority.
PriorityKeepsBest ==
  config.strategy = "priority" /\ config.disclose = 0 =>
    \A e \in ToSet(raw) :
      LET copies == {i \in 1..Len(page) : page[i].original = e.original}
      IN  Cardinality(copies) = 1 /\ \A i \in copies : Rank(page[i].owner) <= Rank(e.owner)

\* Disclosure hides nothing for good: what a page cut off, the search tool finds.
RestIsFindable ==
  \A e \in ToSet(raw) :
    \/ \E i \in 1..Len(page) : page[i].owner = e.owner /\ page[i].original = e.original
    \/ e.owner \in BackendIds \ up
    \/ ~walk.steady
    \/ e.name \in Found(e.name)

\* A passthrough name is called on a backend that still offers it, whenever the
\* list just served names one that does.
PassthroughLive ==
  Passthrough /\ walk.steady =>
    \A e \in ToSet(page) : e.owner \in BackendIds => e.original \in ToSet(offers[Resolve(e.name).owner])
=============================================================================
