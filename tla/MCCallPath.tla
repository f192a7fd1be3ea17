----------------------------- MODULE MCCallPath -----------------------------
(* Filter chains and names for CallPath, small enough for TLC.               *)
EXTENDS CallPath

Everything == [methods |-> {}, directions |-> {}, tools |-> {}, content_types |-> {}]
Always(v) == [a \in Arguments |-> v]
Filter(interest, policy, evaluate) ==
  [interest |-> interest, policy |-> policy, evaluate |-> evaluate]

Allow    == [kind |-> "allow"]
Deny     == [kind |-> "deny"]
Cleaned  == [kind |-> "mutate", arguments |-> "clean"]
Swapped  == ("raw" :> Cleaned @@ "clean" :> [kind |-> "mutate", arguments |-> "raw"])
Marked   == [kind |-> "annotate", provenance |-> {"scanned"}]
OnlyClean == ("raw" :> Deny @@ "clean" :> Allow)
MarkRaw   == ("raw" :> Marked @@ "clean" :> Raises)

MCChains ==
  {<< >>,
   <<Filter(Everything, "fail_closed", Swapped), Filter(Everything, "fail_closed", OnlyClean)>>,
   <<Filter(Everything, "fail_closed", OnlyClean), Filter(Everything, "fail_closed", Always(Cleaned))>>,
   <<Filter(Everything, "fail_open", MarkRaw),
     Filter([Everything EXCEPT !.tools = {<<"a">>}], "fail_closed", Always(Raises))>>,
   <<Filter([Everything EXCEPT !.content_types = {<<"image/*">>}], "fail_closed", Always(Deny)),
     Filter([Everything EXCEPT !.methods = {ToolsCall}, !.directions = {Wildcard}], "fail_closed", MarkRaw)>>}

MCBackends == {<<"a">>, <<"b">>}
MCTaskIds  == {<<"b", "_", "_", "t">>}
MCHandlers == {<<"y">>}
NoChain    == {<< >>}
OneBackend == {<<"a">>}

\* The router that has a pool serves calls and tasks, the other one all; one
\* that gives its backends' messages to a sink has neither pool nor filters.
Within == pooled => UNCHANGED <<local, remote, expects>>

MCSpec == Init /\ (sink => ~pooled /\ chain = << >>) /\ [][Next /\ Within]_vars
=============================================================================
