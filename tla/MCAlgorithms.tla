---------------------------- MODULE MCAlgorithms ----------------------------
(* Bounded inputs for the pure parts of the proxy: names and URIs            *)
(* (Namespace), capabilities and variants (Composition), configuration       *)
(* documents (Config), streams of messages (Framing).  A behaviour picks one *)
(* input; the invariants evaluate the operators on it.                       *)
EXTENDS Composition, Config, Framing

CONSTANTS Ids,            \* the backend ids that are tried
          Clashing,       \* whether a backend may bear the id of a meta-tools handler
          EmptyOffers     \* whether a backend may offer an empty list of variants

VARIABLE input

Letters == {"a", "_", "/"}
ValidIds == {id \in SeqOf({"a", "b", "_"}, 4) : valid_backend_id(id)}
PlainIds == {id \in ValidIds : Last(id) # "_"}

Uris == LET Parts == SeqOf({"a", "/", "_"}, 3) IN
  {scheme \o SchemeSep \o rest : scheme \in SeqOf({"a"}, 1), rest \in Parts} \cup Parts

(* Capabilities of a backend, and of up to three of them. *)
ToolsCaps == {Nothing} \cup {[p \in {"tools"} |-> [f \in {"listChanged"} |-> b]] : b \in BOOLEAN}
Offers == {<<"v">>, <<"w", "v">>} \cup IF EmptyOffers THEN {<< >>} ELSE {}
Extensions == {Nothing, [x \in {"other"} |-> << >>]}
              \cup {[x \in {EXTENSION_ID} |-> o] : o \in Offers}
              \cup {[x \in {EXTENSION_ID, "other"} |-> IF x = "other" THEN << >> ELSE <<"w">>]}
Caps == {Update(t, e) : t \in ToolsCaps,
                        e \in {Nothing} \cup {[x \in {"extensions"} |-> f] : f \in Extensions}}
Clients == {Nothing, [p \in {"elicitation"} |-> Nothing]}

(* Lists of the tools of two backends. *)
Listings == SeqOf([name : {"m", "n"}, from : {1, 2}], 2)

(* Documents: two backends and one handler, or the settings alone. *)
Backends == [id : {<<"a">>, <<"_", "_">>} \cup (IF Clashing THEN {<<"y">>} ELSE {<<"b">>}),
             form : {"object", "text", "number"}, addresses : {<< >>, <<"host">>}, token : {Absent}]
BackendMaps == {[form |-> f, items |-> s] : f \in {"map", "list"}, s \in SeqOf(Backends, 2)}
MapsOnly == {b \in BackendMaps :
  /\ \A i \in DOMAIN b.items : b.items[i].form = "text" => b.items[i].addresses # << >>
  /\ b.form = "map" => \A i, j \in DOMAIN b.items : b.items[i].id = b.items[j].id => i = j}
Specs == [id : {None, <<"r">>, <<"a">>, <<"y">>}, baseUrl : {Absent, "url"},
          tools : {<< >>, <<<<"t">>>>, <<<<"t">>, <<"t">>>>}]
Plain == [k \in Keys |-> IF k = "listen" THEN "host:port" ELSE Absent]
Documents ==
  {[object |-> TRUE, backends |-> b, rest |-> r, overrides |-> << >>, priority |-> << >>,
    settings |-> [Plain EXCEPT !["metaTools"] = m, !["listen"] = l, !["strategy"] = s]] :
     b \in MapsOnly, r \in SeqOf(Specs, 1), m \in {Absent, "true"}, l \in {Absent, "port"},
     s \in {Absent, "prefix", "other"}}
Empty == [object |-> TRUE, backends |-> [form |-> "map", items |-> << >>], rest |-> << >>,
          overrides |-> << >>, priority |-> << >>, settings |-> Plain]
SettingsOnly ==
  {[Empty EXCEPT !.settings = [Plain EXCEPT !["failureThreshold"] = t, !["requestTimeout"] = w,
                               !["enabled"] = e, !["secret"] = s]] :
     t \in {Absent, "5", "3"}, w \in {Absent, Null, "2.0"}, e \in {Absent, Null, "true", "false"},
     s \in {Absent, "", "key"}}
\* Documents that differ in what diff does not compare.
Unexplained ==
  {[Empty EXCEPT !.backends.items = b, !.rest = r, !.overrides = o, !.priority = p] :
     b \in SeqOf([id : {<<"a">>}, form : {"object"}, addresses : {<<"host">>}, token : {Absent, "token"}], 1),
     r \in SeqOf([id : {<<"r">>}, baseUrl : {"url"}, tools : {<< >>, <<<<"t">>>>}], 1),
     o \in {<< >>, <<<<"t">>, <<"a">>>>}, p \in {<< >>, <<<<"a">>>>}}

\* One payload of up to three characters, or two shorter ones.
Payloads(framing) ==
  LET Some(n) == {p \in SeqOf({"x", "space", "lf", "cr"}, n) : Carries(framing, p)}
  IN  {<<p>> : p \in Some(3)} \cup {<<p, q>> : p, q \in Some(2)}

Init == input = [of |-> "none"]

Pick(inputs) == input.of = "none" /\ input' \in inputs

PickName == Pick([of : {"name"}, id : Ids, name : SeqOf(Letters, 4)])
PickUri == Pick([of : {"uri"}, id : Ids, uri : Uris])
PickCaps == Pick([of : {"caps"}, caps : SeqOf(Caps, 3), client : Clients, handlers : BOOLEAN])
PickTools == Pick([of : {"tools"}, lists : SeqOf(Listings, 2), curated : SUBSET {"m", "n"}])
PickDocument == Pick([of : {"document"}, doc : Documents])
PickStream == \E f \in Framings : Pick([of : {"stream"}, framing : {f}, payloads : Payloads(f), cut : 0..16])
PickPair == Pick([of : {"pair"}, left : SettingsOnly \cup Unexplained, right : SettingsOnly \cup Unexplained])

Next == PickName \/ PickUri \/ PickCaps \/ PickTools \/ PickDocument \/ PickPair \/ PickStream

Spec == Init /\ [][Next]_input

-----------------------------------------------------------------------------
(* Whatever a backend calls its tools and resources, the name or URI that    *)
(* the client sees leads back to that backend and that name (namespace.py).  *)
NamesReversible ==
  /\ input.of = "name" => Reversible(input.id, input.name)
  /\ input.of = "uri"  => UriReversible(input.id, input.uri)

(* The client is promised what some backend has, and of the variants only    *)
(* those that all who offer any can serve; the lists of the backends compose *)
(* as the mode says (capability.py, variants.py).                            *)
CompositionFaithful ==
  /\ input.of = "caps" => /\ AdvertisesAny(input.caps, input.client, input.handlers)
                          /\ VariantsServable(input.caps, input.client, input.handlers)
  /\ input.of = "tools" => ModesAgree(input.lists, input.curated)

(* The checks before a start keep their promise: a document that the doctor  *)
(* passes serves every tool it lists, the stricter mode never passes more,   *)
(* adapting changes nothing that loads, and documents that do not differ     *)
(* start servers with the same settings (config.py, doctor.py).              *)
DocumentsServe ==
  /\ input.of = "document" => DoctorSound(input.doc) /\ ModesOrdered(input.doc) /\ AdaptStable(input.doc)
  /\ input.of = "pair" => DiffSound(input.left, input.right)

(* Wherever a stream ends, its reader gets the messages that were written as *)
(* a whole, in order, and of the one that was cut a beginning or nothing     *)
(* (yamp/transport).                                                         *)
FramesArrive ==
  input.of = "stream" /\ input.cut <= Len(Stream(input.framing, input.payloads)) =>
    CutSound(input.framing, input.payloads, input.cut)

-----------------------------------------------------------------------------
(* What the docs say and the code does not do (README.md).                   *)

(* "Union-of-support, not a naive last-writer-wins union" (capability.py).   *)
SubFlagsRaised == input.of = "caps" => FlagsRaised(input.caps, input.client, input.handlers)

(* "the proxy cannot honestly serve a variant one of its backends cannot"    *)
(* (variants.py).                                                            *)
VariantsOfAll == input.of = "caps" => VariantsHonest(input.caps, input.client, input.handlers)

(* "a real behavioral change is shown" (config.py).                          *)
DiffsAreAll == input.of = "pair" => DiffComplete(input.left, input.right)

(* And no other.                                                             *)
DiffsAreReal == input.of = "pair" => DiffExact(input.left, input.right)
=============================================================================
