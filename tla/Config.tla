------------------------------- MODULE Config -------------------------------
(* From a configuration document to a server that may be started: the checks *)
(* and the loader of yamp/config.py, the shorthand it adapts, how it explains*)
(* and compares documents, the registry of local handlers (yamp/handler.py), *)
(* the preflight of yamp/doctor.py, and the exit codes of the two command    *)
(* line tools, config_cli.py and doctor.py.                                  *)
(*                                                                           *)
(* A document is [object, backends, rest, overrides, priority, settings]:    *)
(* whether it is a JSON object; [form, items] with each backend's [id, form, *)
(* addresses, token]; the REST handlers, each [id, baseUrl, tools]; two keys *)
(* of its namespacing; and the value of each explainable key.  What is not   *)
(* there is Absent.  A backend of form "text" is the shorthand, and has an   *)
(* address even when the text is empty.                                      *)
EXTENDS Integers, Sequences, FiniteSets, SequencesExt, Namespace

Absent == "absent"
Null == "null"

\* EXPLAIN_KEYS with their built-in defaults.
Default == [listen |-> Null, failureThreshold |-> "5", resetTimeout |-> "30.0", healthInterval |-> Null,
            requestTimeout |-> Null, enabled |-> Null, strategy |-> "prefix", clientTokens |-> "[]",
            metaTools |-> "false", secret |-> Null]
Keys == DOMAIN Default

Strategies == {"prefix", "priority", "manual", "passthrough"}

(***************************************************************************)
(* _first_error: the first violation of the schema, in the order of checks.*)
(***************************************************************************)
BackendError(item) ==
  IF ~valid_backend_id(item.id) THEN "invalid-backend-id"
  ELSE IF item.form # "object" \/ item.addresses = << >> THEN "backend-no-addresses"
  ELSE Null

BackendIds(doc) == {doc.backends.items[i].id : i \in 1..Len(doc.backends.items)}

HandlerError_NoClash(doc, spec) ==   \* mutant: a handler may take a backend's id
  IF spec.id = None \/ ~valid_backend_id(spec.id) THEN "invalid-handler-id"
  ELSE IF spec.baseUrl = Absent THEN "handler-missing-baseurl"
  ELSE Null

HandlerError(doc, spec) ==
  IF spec.id = None \/ ~valid_backend_id(spec.id) THEN "invalid-handler-id"
  ELSE IF spec.id \in BackendIds(doc) THEN "handler-backend-collision"
  ELSE IF spec.baseUrl = Absent THEN "handler-missing-baseurl"
  ELSE Null

\* The first error of a sequence of checks, and Null when none fails.
FirstOf(errors) ==
  LET found == SelectSeq(errors, LAMBDA e : e # Null) IN IF found = << >> THEN Null ELSE found[1]

first_error(doc) ==
  IF ~doc.object THEN "not-object"
  ELSE IF doc.backends.form # "map" THEN "backends-not-object"
  ELSE FirstOf(
         [i \in 1..Len(doc.backends.items) |-> BackendError(doc.backends.items[i])]
         \o <<IF doc.settings["listen"] = Absent THEN "missing-listen" ELSE Null,
              IF doc.settings["strategy"] \in Strategies \cup {Absent} THEN Null
              ELSE "unknown-collision-strategy">>
         \o [i \in 1..Len(doc.rest) |-> HandlerError(doc, doc.rest[i])])

(***************************************************************************)
(* from_dict: the configuration of a document without errors.              *)
(***************************************************************************)
ValueOf(doc, key) == IF doc.settings[key] = Absent THEN Default[key] ELSE doc.settings[key]

\* An empty audit secret is treated as absent; a breaker is attached when the
\* document says so, or, when it does not say, when a timing is not the default.
from_dict(doc) ==
  LET value == [k \in Keys |-> IF k = "secret" /\ ValueOf(doc, k) = "" THEN Null ELSE ValueOf(doc, k)]
      tuned == \/ value["healthInterval"] # Null \/ value["requestTimeout"] # Null
               \/ value["failureThreshold"] # "5" \/ value["resetTimeout"] # "30.0"
      backend(item) == [id |-> item.id, addresses |-> item.addresses, token |-> item.token]
  IN  [settings |-> value,
       breakers |-> IF value["enabled"] # Null THEN value["enabled"] = "true" ELSE tuned,
       backends |-> [i \in DOMAIN doc.backends.items |-> backend(doc.backends.items[i])],
       overrides |-> doc.overrides, priority |-> doc.priority, rest |-> doc.rest]

(***************************************************************************)
(* explain, effective and diff.                                            *)
(***************************************************************************)
explain(doc, key) ==
  IF key \in Keys /\ doc.settings[key] # Absent THEN [value |-> doc.settings[key], source |-> "config"]
  ELSE IF key \in Keys THEN [value |-> Default[key], source |-> "default"]
  ELSE [value |-> Null, source |-> "unknown"]

effective(doc) == [k \in Keys |-> explain(doc, k)]

diff(left, right) == {k \in Keys : effective(left)[k].value # effective(right)[k].value}

(***************************************************************************)
(* adapt: the shorthand expanded.                                          *)
(***************************************************************************)
\* A bare port, or one after ":", binds the loopback address.
adapt_listen(listen) == IF listen \in {"port", ":port"} THEN "127.0.0.1:port" ELSE listen

\* A list of "id=address,..." is the map of the last item of each id, in the
\* order of the first; an item without "=" is dropped.
adapt_backends(backends) ==
  LET Expanded(item) == IF item.form = "text" THEN [item EXCEPT !.form = "object"] ELSE item
      entries == SelectSeq(backends.items, LAMBDA x : x.form = "text")
      Put(map, x) ==
        IF \E i \in 1..Len(map) : map[i].id = x.id
        THEN [i \in 1..Len(map) |-> IF map[i].id = x.id THEN Expanded(x) ELSE map[i]]
        ELSE Append(map, Expanded(x))
  IN  CASE backends.form = "list" -> [form |-> "map", items |-> FoldLeft(Put, << >>, entries)]
        [] backends.form = "map"  -> [backends EXCEPT !.items = [i \in DOMAIN @ |-> Expanded(@[i])]]
        [] OTHER -> backends

adapt(doc) == [doc EXCEPT !.backends = adapt_backends(@), !.settings["listen"] = adapt_listen(@)]

(***************************************************************************)
(* build_registry and doctor.check_server.                                 *)
(***************************************************************************)
MetaTools == [id |-> <<"y">>, baseUrl |-> Absent, tools |-> <<<<"b">>>>]   \* yamp__backends

Handlers(doc) == doc.rest \o (IF doc.settings["metaTools"] = "true" THEN <<MetaTools>> ELSE << >>)

\* Registry raises on a second handler of the same id.
RegistryBuilds(doc) == \A i, j \in 1..Len(Handlers(doc)) : Handlers(doc)[i].id = Handlers(doc)[j].id => i = j

\* RestToMcp keeps one operation of each name, at the place of the first.
Operations(tools) == FoldLeft(LAMBDA ops, t : IF t \in ToSet(ops) THEN ops ELSE Append(ops, t), << >>, tools)

\* Registry.list_tools.
ListedTools(doc) ==
  FlattenSeq([i \in 1..Len(Handlers(doc)) |->
    LET h == Handlers(doc)[i]
        ops == Operations(h.tools)
    IN  [k \in DOMAIN ops |-> prefix(h.id, ops[k])]])

check_server(tools) ==
  (IF tools = << >> THEN {"no-tools"} ELSE {})
  \cup (IF \E i, j \in 1..Len(tools) : i # j /\ tools[i] = tools[j] THEN {"duplicate-tool"} ELSE {})

is_ok(findings) == "duplicate-tool" \notin findings   \* the one error; no-tools is a warning

servable(findings, mode) ==
  CASE mode = "lenient" -> TRUE
    [] mode = "strict"  -> findings = {}
    [] OTHER            -> is_ok(findings)

\* config_cli.py validate, and doctor.py: an exception ends a program with 1.
ValidateExit(doc) == IF first_error(doc) # Null THEN 1 ELSE 0
DoctorExit(doc, mode) ==
  IF first_error(doc) # Null THEN 2
  ELSE IF ~RegistryBuilds(doc) THEN 1
  ELSE IF servable(check_server(ListedTools(doc)), mode) THEN 0 ELSE 1

(***************************************************************************)
(* Properties of a document, and of two.                                   *)
(***************************************************************************)
\* A document that the doctor passes, in the default mode, starts a server in
\* which every local tool is served by its own handler under a name of its own,
\* and no backend is hidden behind a handler.
DoctorSound(doc) ==
  DoctorExit(doc, "default") = 0 =>
    /\ \A i \in 1..Len(Handlers(doc)) : \A t \in ToSet(Handlers(doc)[i].tools) :
         split(prefix(Handlers(doc)[i].id, t)) = <<Handlers(doc)[i].id, t>>
    /\ \A i, j \in 1..Len(ListedTools(doc)) : ListedTools(doc)[i] = ListedTools(doc)[j] => i = j
    /\ \A h \in ToSet(Handlers(doc)) : h.id \notin BackendIds(doc)

\* The modes are ordered: what the strict doctor passes, the default one does,
\* and what that passes, the lenient one does, and validate calls it valid.
ModesOrdered(doc) ==
  /\ DoctorExit(doc, "strict") = 0 => DoctorExit(doc, "default") = 0
  /\ DoctorExit(doc, "default") = 0 => DoctorExit(doc, "lenient") = 0
  /\ DoctorExit(doc, "lenient") = 0 => ValidateExit(doc) = 0

\* adapt leaves its own output alone, and does not turn a document that loads
\* into one that does not, or into another configuration, but for the listen
\* address that it completes, which is all that diff shows of it.
AdaptStable(doc) ==
  LET once == adapt(doc)
  IN  /\ adapt(once) = once
      /\ first_error(doc) = Null =>
           /\ first_error(once) = Null
           /\ from_dict(doc) = [from_dict(once) EXCEPT !.settings["listen"] = doc.settings["listen"]]
           /\ diff(doc, once) \subseteq {"listen"}

\* Two documents without a difference start servers with the same settings, and
\* both with breakers or both without.
DiffSound(left, right) ==
  diff(left, right) = {} =>
    /\ from_dict(left).settings = from_dict(right).settings
    /\ from_dict(left).breakers = from_dict(right).breakers

\* "a real behavioral change is shown": two documents without a difference are
\* the same configuration.
DiffComplete(left, right) == diff(left, right) = {} => from_dict(left) = from_dict(right)

\* And nothing else is shown: two documents with a difference are not the same
\* configuration.
DiffExact(left, right) == diff(left, right) # {} => from_dict(left) # from_dict(right)
=============================================================================
