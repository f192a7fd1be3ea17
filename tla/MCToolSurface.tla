--------------------------- MODULE MCToolSurface ---------------------------
(* Configurations of the tool surface, small enough for TLC.                 *)
EXTENDS ToolSurface

T == <<"t">>
U == <<"u">>
V == <<"b", "_", "_", "t">>   \* the name a chained proxy would offer
A == <<"a">>
B == <<"b">>
Y == <<"y">>                  \* the id of a local handler

MCOffers == {<<T>>, <<U, T>>, <<T, V, U>>}

AnyFilter == {NoFilter}
Prefixed  == [patterns |-> {<<"a", "_", "_", "*">>, <<"*", "u">>}, keywords |-> {}]
Keyed     == [patterns |-> {}, keywords |-> {"k"}]

Plain ==
  [backends |-> <<A, B>>, handlers |-> << >>, strategy |-> "prefix", overrides |-> << >>,
   priority |-> << >>, disclose |-> 0, variants |-> << >>, filters |-> {NoFilter, Prefixed, Keyed},
   page |-> 2, pushdown |-> FALSE, keywords |-> (A :> {"k"} @@ B :> {"l"} @@ Y :> {})]

Renaming == <<<<prefix(A, T), <<"x">>>>, <<prefix(B, T), <<"z">>>>>>

\* The configurations under which the surface keeps its promises.
Sound ==
  {[Plain EXCEPT !.handlers = <<Y>>],
   [Plain EXCEPT !.variants = <<"v1", "v2">>, !.page = 1, !.filters = AnyFilter],
   [Plain EXCEPT !.backends = <<A>>],
   [Plain EXCEPT !.strategy = "manual", !.overrides = Renaming, !.filters = AnyFilter],
   [Plain EXCEPT !.strategy = "priority", !.priority = <<B>>, !.page = 3, !.filters = AnyFilter],
   [Plain EXCEPT !.strategy = "passthrough", !.handlers = <<Y>>, !.filters = AnyFilter],
   [Plain EXCEPT !.handlers = <<Y>>, !.disclose = 2, !.filters = AnyFilter]}

ASSUME SoundConfigs ==
  \A c \in Sound : WellFormed(c) /\ Callable(c) /\ ~c.pushdown /\ (c.strategy = "priority" => ~Lone(c))

\* Progressive disclosure with a local handler.
Disclosing == {[Plain EXCEPT !.handlers = <<Y>>, !.disclose = 2, !.filters = AnyFilter]}

\* Passthrough, where two backends offer the same names.
Passing == {[Plain EXCEPT !.strategy = "passthrough", !.filters = AnyFilter]}

\* A backend with the id of the built-in handler, which the loader accepts.
Shadowed == {[Plain EXCEPT !.backends = <<A, Y>>, !.handlers = <<Y>>, !.filters = AnyFilter]}

\* A rename of a local handler's tool.
LocalRename == {[Plain EXCEPT !.handlers = <<Y>>, !.strategy = "manual", !.filters = AnyFilter,
                              !.overrides = <<<<prefix(Y, HandlerTool), <<"x">>>>>>]}

\* Two renames to one name, of tools on different pages.
TwiceRenamed == {[Plain EXCEPT !.strategy = "manual", !.filters = AnyFilter, !.page = 1,
                               !.overrides = <<<<prefix(A, T), <<"x">>>>, <<prefix(A, U), <<"x">>>>>>]}

\* One backend under the priority strategy: its names are not prefixed.
LonelyPriority == {[Plain EXCEPT !.backends = <<A>>, !.strategy = "priority", !.filters = AnyFilter]}

\* Backends that honour the filter the proxy pushes down to them.
Pushing == {[Plain EXCEPT !.pushdown = TRUE]}

\* All of those under which some promise of the docs fails (README.md).
Disagreeing ==
  Disclosing \cup Passing \cup Shadowed \cup LocalRename \cup TwiceRenamed \cup LonelyPriority
  \cup Pushing
=============================================================================
