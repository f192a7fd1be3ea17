--------------------------- MODULE MCBackendConn ---------------------------
(* Instances of BackendConn for TLC: the route loop and one health pinger,  *)
(* the two tasks that ForwardRouter gives each backend.                     *)
EXTENDS BackendConn

CONSTANTS route_loop, pinger

MCCallers == {route_loop, pinger}
=============================================================================
