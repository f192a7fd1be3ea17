---------------------------- MODULE Composition ----------------------------
(* What the proxy advertises of its backends: the capabilities composed at   *)
(* the handshake (capability.py), the server variants (variants.py) and the  *)
(* override that router._handshake makes of the one by the other.            *)
(*                                                                           *)
(* Capabilities are a function from the names present to their values: of a  *)
(* primitive a function from sub-flags to BOOLEAN, of "extensions" one from  *)
(* extension ids to payloads.  The payload of the variants extension is the  *)
(* sequence of the variant ids.                                              *)
EXTENDS Integers, Sequences, FiniteSets, SequencesExt

Primitives == {"tools", "resources", "prompts", "logging", "sampling"}
EXTENSION_ID == "server-variants"
Nothing == [x \in {} |-> {}]

\* dict.update and dict.setdefault.
Update(f, g)     == [x \in DOMAIN f \cup DOMAIN g |-> IF x \in DOMAIN g THEN g[x] ELSE f[x]]
SetDefault(f, g) == Update(g, f)

Having(caps, name) == SelectSeq(caps, LAMBDA c : name \in DOMAIN c)

compose_capabilities(backend_caps, client_caps) ==
  LET Merged(name) == FoldLeft(LAMBDA m, c : Update(m, c[name]), Nothing, Having(backend_caps, name))
      primitives == {p \in Primitives : Having(backend_caps, p) # << >>}
      extensions == FoldLeft(LAMBDA m, c : SetDefault(m, c["extensions"]), Nothing,
                             Having(backend_caps, "extensions"))
      names == primitives \cup (IF "elicitation" \in DOMAIN client_caps THEN {"elicitation"} ELSE {})
                          \cup (IF extensions # Nothing THEN {"extensions"} ELSE {})
  IN  [n \in names |-> IF n = "extensions" THEN extensions
                       ELSE IF n = "elicitation" THEN client_caps[n] ELSE Merged(n)]

\* _payload: the variants a backend declares, none when it has no extension.
Declares(caps) == "extensions" \in DOMAIN caps /\ EXTENSION_ID \in DOMAIN caps["extensions"]
Payload(caps) == IF Declares(caps) THEN caps["extensions"][EXTENSION_ID] ELSE << >>

compose_variants_Union(backend_caps) ==   \* mutant: any backend's variant will do
  LET offered == FlattenSeq([i \in DOMAIN backend_caps |-> Payload(backend_caps[i])])
  IN  FoldLeft(LAMBDA out, v : IF v \in ToSet(out) THEN out ELSE Append(out, v), << >>, offered)

\* An empty list is false in Python: its backend does not count as supporting.
compose_variants(backend_caps) ==
  LET supporting == SelectSeq(backend_caps, LAMBDA c : Payload(c) # << >>)
      common == {v \in UNION {ToSet(Payload(c)) : c \in ToSet(supporting)} :
                   \A c \in ToSet(supporting) : v \in ToSet(Payload(c))}
  IN  IF supporting = << >> THEN << >>
      ELSE SelectSeq(Payload(supporting[1]), LAMBDA v : v \in common)

\* What _handshake advertises: local handlers add the tools capability, and the
\* composed variants replace the payload that the union of extensions took
\* from one backend.
Advertised(backend_caps, client_caps, handlers) ==
  LET composed == compose_capabilities(backend_caps, client_caps)
      base == IF handlers THEN SetDefault(composed, [t \in {"tools"} |-> Nothing]) ELSE composed
      variants == compose_variants(backend_caps)
      extensions == IF "extensions" \in DOMAIN base THEN base["extensions"] ELSE Nothing
      others == [x \in DOMAIN extensions \ {EXTENSION_ID} |-> extensions[x]]
  IN  IF variants # << >>
      THEN Update(base, [e \in {"extensions"} |-> Update(others, [x \in {EXTENSION_ID} |-> variants])])
      ELSE IF others # Nothing THEN Update(base, [e \in {"extensions"} |-> others])
      ELSE [n \in DOMAIN base \ {"extensions"} |-> base[n]]

(***************************************************************************)
(* capability.compose: how the tools of several backends make one list.    *)
(***************************************************************************)
Names(list) == {list[i].name : i \in 1..Len(list)}

compose(per_backend, mode, curated) ==
  LET all == FlattenSeq(per_backend)
      common == {n \in Names(all) : \A k \in 1..Len(per_backend) : n \in Names(per_backend[k])}
      AddNew(out, tool) == IF tool.name \in common \ Names(out) THEN Append(out, tool) ELSE out
  IN  CASE mode = "union"        -> all
        [] mode = "intersection" -> FoldLeft(AddNew, << >>, all)
        [] mode = "curated"      -> SelectSeq(all, LAMBDA t : t.name \in curated)

(***************************************************************************)
(* Properties of one composition, for the backends' capabilities caps.     *)
(***************************************************************************)
\* A primitive is advertised exactly when some backend has it, or, for tools,
\* when the proxy has handlers; elicitation exactly when the client has it.
AdvertisesAny(caps, client, handlers) ==
  LET served == Advertised(caps, client, handlers)
      someone == UNION {DOMAIN caps[i] : i \in 1..Len(caps)}
  IN  /\ \A p \in Primitives : p \in DOMAIN served <=> p \in someone \/ (p = "tools" /\ handlers)
      /\ "elicitation" \in DOMAIN served <=> "elicitation" \in DOMAIN client

\* A variant is advertised only if every backend with variants serves it, and
\* every variant that all of them serve is advertised; the extension is gone
\* when there is none, and no other extension goes with it.
VariantsServable(caps, client, handlers) ==
  LET served == Advertised(caps, client, handlers)
      offering == {i \in 1..Len(caps) : Payload(caps[i]) # << >>}
      everywhere == {v \in UNION {ToSet(Payload(caps[i])) : i \in offering} :
                       \A i \in offering : v \in ToSet(Payload(caps[i]))}
      others == UNION {DOMAIN caps[i]["extensions"] : i \in {k \in 1..Len(caps) : "extensions" \in DOMAIN caps[k]}}
                \ {EXTENSION_ID}
      shown == IF "extensions" \in DOMAIN served THEN DOMAIN served["extensions"] ELSE {}
  IN  /\ ToSet(Payload(served)) = everywhere
      /\ shown = others \cup (IF everywhere # {} THEN {EXTENSION_ID} ELSE {})

\* The intersection shows each name that all backends have once, with the tool
\* of the first backend; the union loses nothing; the modes are ordered.
ModesAgree(lists, curated) ==
  LET union == compose(lists, "union", curated)
      both == compose(lists, "intersection", curated)
  IN  /\ lists # << >> => Names(both) = {n \in Names(union) : \A k \in DOMAIN lists : n \in Names(lists[k])}
      /\ \A i, j \in DOMAIN both : both[i].name = both[j].name => i = j
      /\ \A i \in DOMAIN both : both[i] \in ToSet(lists[1])
      /\ ToSet(union) = UNION {ToSet(lists[k]) : k \in DOMAIN lists}
      /\ ToSet(compose(lists, "curated", curated)) = {t \in ToSet(union) : t.name \in curated}

\* A sub-flag that some backend raises is advertised as raised.
FlagsRaised(caps, client, handlers) ==
  LET served == Advertised(caps, client, handlers)
  IN  \A i \in 1..Len(caps), p \in Primitives :
        p \in DOMAIN caps[i] => \A f \in DOMAIN caps[i][p] : caps[i][p][f] => served[p][f]

\* "the proxy cannot honestly serve a variant one of its backends cannot": an
\* advertised variant is offered by every backend that carries the extension.
VariantsHonest(caps, client, handlers) ==
  \A v \in ToSet(Payload(Advertised(caps, client, handlers))) :
    \A i \in 1..Len(caps) : Declares(caps[i]) => v \in ToSet(Payload(caps[i]))
=============================================================================
