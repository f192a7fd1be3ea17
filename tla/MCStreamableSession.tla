------------------------ MODULE MCStreamableSession ------------------------
(* Instances of StreamableSession for TLC, bounded by what comes from the   *)
(* outside in one behaviour, of whatever kinds it is.  The configuration is *)
(* reloaded before the session opens, or not: nothing reads it afterwards.  *)
EXTENDS StreamableSession

CONSTANT MaxInputs

Inputs ==
    Cardinality({t \in Posts : task[t].pc # "unsent"}) + Cardinality({s \in Streams : stream[s].pc # "unsent"})
      + events + current.doc

Within ==
    /\ Inputs' <= MaxInputs
    /\ current' # current => task[Opening].pc = "unsent"

MCSpec == Init /\ [][Next /\ Within]_vars
MCFairSpec == MCSpec /\ WF_vars(RouterStep) /\ \A t \in Tasks : WF_vars(HandlerStep(t))
=============================================================================
