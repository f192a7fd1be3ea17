--------------------------- MODULE MCListServing ---------------------------
(* Two small worlds of ListServing for TLC: two connections share the cache *)
(* and one backend, which only the first of them ever finds broken, while   *)
(* the other backend is out of the surface throughout; or one connection    *)
(* lists two backends, whose public surfaces never change.                  *)
EXTENDS ListServing

CONSTANTS c1, c2

VARIABLE world

\* Two connections of different principals, and one connection.
TwoPrincipals == [c \in {c1, c2} |-> IF c = c1 THEN "ann" ELSE "bob"]
Alone == [c \in {c1} |-> "ann"]

\* Backend 2 is out of the surface of both connections.
Cut == /\ open = [c \in Clients |-> {2}]
       /\ surface = [c \in Clients |-> {1}]

MCInit ==
    \/ world = "alone" /\ Init
    \/ /\ world = "shared" /\ Cut
       /\ entries = [k \in Keys |-> None] /\ now = 0
       /\ version = [b \in Backends |-> 0] /\ told = version
       /\ wire = [c \in Clients |-> [b \in Backends |-> <<>>]]
       /\ loop = [c \in Clients |-> Idle]
       /\ lists = [c \in Clients |-> 0]
       /\ seen = [c \in Clients |-> [b \in Backends |-> 0]]

\* What keeps each world small.
Within == /\ world = "shared" => /\ \A c \in Clients : 2 \in open'[c] /\ lists'[c] <= 1
                                 /\ open'[c2] = {2} /\ version'[2] = 0
          /\ world = "alone" => /\ lists'[c2] = 0 /\ open'[c2] = {}
                                /\ version' = version /\ now' = now
                                /\ \A b \in Backends : \A i \in DOMAIN wire'[c1][b] :
                                      wire'[c1][b][i].result.scope = "public"

MCSpec == MCInit /\ [][Next /\ Within /\ UNCHANGED world]_<<vars, world>>

\* One configuration, unrestricted.
FreeSpec == /\ Init /\ world = "alone"
            /\ [][Next /\ UNCHANGED world]_<<vars, world>>
=============================================================================
