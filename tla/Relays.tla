------------------------------- MODULE Relays -------------------------------
(***************************************************************************)
(* The intermediaries that pump messages between one client and one backend *)
(* without routing them: Relay (relay.py), TransparentL1 with a header      *)
(* policy (transparent.py) and ForwardProxy, which performs a handshake on  *)
(* both sides and then relays (forward.py).                                 *)
(*                                                                         *)
(* Two pumps run as tasks, one per direction: "c2b" and "b2c".  Each has a  *)
(* message in hand between its receive and its send.                        *)
(***************************************************************************)
EXTENDS Naturals, Sequences, FiniteSets

CONSTANTS
    BackendEarly,  \* whether the backend may send before it answers initialize
    MaxSent        \* bound: messages each side sends to be relayed

ASSUME RelaysAssumption == BackendEarly \in BOOLEAN /\ MaxSent \in Nat

VARIABLES
    relay,     \* "relay", "l1" or "forward"
    hs,        \* ForwardProxy's place in its handshake; "over" when the pumps run
    sent,      \* sent[d]: what the source of direction d has sent, in order
    ended,     \* ended[d]: it has ended its stream
    taken,     \* taken[d]: how many of its messages the intermediary received
    hand,      \* hand[d]: the message pump d is about to send
    pump,      \* pump[d]: "running", "done", or "dead" of an exception
    out,       \* out[d]: what the destination of direction d was sent
    closed,    \* closed[d]: its stream was ended
    blocked    \* TransparentL1.blocked

relayVars == <<relay, hs, sent, ended, taken, hand, pump, out, closed, blocked>>

Directions == {"c2b", "b2c"}

NoMessage == "none"   \* no message

\* What the intermediary itself consumes and says in its handshake: the first
\* messages of each stream.
Own(d) == IF relay # "forward" THEN 0 ELSE IF d = "c2b" THEN 2 ELSE 1

\* What can come from either side.  "denied" is blocked by the header policy,
\* "opaque" has no readable envelope; "hello" and "identity" are a backend's
\* log message and its answer to initialize.
ClientMessages ==
    IF relay = "forward" THEN {"initialize", "initialized", "call"} ELSE {"call", "denied", "opaque"}

BackendMessages == {"hello", "identity", "reply"}

\* A client waits for the answer to initialize and says initialized next.
ClientMaySend(m) ==
    relay = "forward" =>
        CASE sent["c2b"] = <<>>    -> m \in {"initialize", "call"}
          [] Len(sent["c2b"]) = 1  -> m = "initialized" /\ out["b2c"] # <<>>
          [] OTHER                 -> m = "call"

\* A backend answers initialize once it has been asked to, and first of all
\* unless it is BackendEarly.
BackendMaySend(m) ==
    LET answered == \E i \in DOMAIN sent["b2c"] : sent["b2c"][i] = "identity"
        asked == relay = "forward" /\ out["c2b"] # <<>>
    IN  CASE m = "identity" -> asked /\ ~answered
          [] m = "hello"    -> relay = "forward" => answered \/ (asked /\ BackendEarly)
          [] m = "reply"    -> relay = "forward" => answered

Sends(d) ==
    /\ ~ended[d] /\ Len(sent[d]) < Own(d) + MaxSent
    /\ \E m \in IF d = "c2b" THEN ClientMessages ELSE BackendMessages :
          /\ IF d = "c2b" THEN ClientMaySend(m) ELSE BackendMaySend(m)
          /\ sent' = [sent EXCEPT ![d] = Append(@, m)]
    /\ UNCHANGED <<relay, hs, ended, taken, hand, pump, out, closed, blocked>>

SourceEnds(d) ==
    /\ ~ended[d]
    /\ ended' = [ended EXCEPT ![d] = TRUE]
    /\ UNCHANGED <<relay, hs, sent, taken, hand, pump, out, closed, blocked>>

Available(d) == taken[d] < Len(sent[d])
AtEnd(d) == ended[d] /\ ~Available(d)
NextOf(d) == sent[d][taken[d] + 1]
TakeOne(d) == taken' = [taken EXCEPT ![d] = @ + 1]

(***************************************************************************)
(* ForwardProxy._handshake, one step per await                             *)
(***************************************************************************)
\* The client's first message: initialize, or an error answer and an exception.
HandshakeClient ==
    /\ hs = "client"
    /\ \/ /\ AtEnd("c2b") /\ hs' = "returned"
          /\ UNCHANGED <<taken, out>>
       \/ /\ Available("c2b") /\ TakeOne("c2b")
          /\ IF NextOf("c2b") = "initialize"
             THEN hs' = "backend" /\ out' = [out EXCEPT !["c2b"] = Append(@, "initialize")]
             ELSE hs' = "raised" /\ out' = [out EXCEPT !["b2c"] = Append(@, "error")]
    /\ UNCHANGED <<relay, sent, ended, hand, pump, closed, blocked>>

\* Whatever the backend sends first is taken for its answer; then initialized is
\* sent to it and the composed answer to the client.
HandshakeBackend ==
    /\ hs = "backend"
    /\ \/ /\ AtEnd("b2c") /\ hs' = "raised"
          /\ UNCHANGED <<taken, out>>
       \/ /\ Available("b2c") /\ TakeOne("b2c") /\ hs' = "confirm"
          /\ out' = [d \in Directions |-> Append(out[d], IF d = "c2b" THEN "initialized" ELSE "proxy identity")]
    /\ UNCHANGED <<relay, sent, ended, hand, pump, closed, blocked>>

\* The client's next message is consumed, and the relay starts.
HandshakeConfirm ==
    /\ hs = "confirm"
    /\ \/ AtEnd("c2b") /\ UNCHANGED taken
       \/ Available("c2b") /\ TakeOne("c2b")
    /\ hs' = "over"
    /\ pump' = [d \in Directions |-> "running"]
    /\ UNCHANGED <<relay, sent, ended, hand, out, closed, blocked>>

Handshake == HandshakeClient \/ HandshakeBackend \/ HandshakeConfirm

(***************************************************************************)
(* The pumps                                                               *)
(***************************************************************************)
PumpReceives(d) ==
    /\ pump[d] = "running" /\ hand[d] = NoMessage /\ Available(d)
    /\ TakeOne(d)
    /\ hand' = [hand EXCEPT ![d] = NextOf(d)]
    /\ UNCHANGED <<relay, hs, sent, ended, pump, out, closed, blocked>>

\* In L1 the headers are read and the policy asked on the way to the backend.
Inspected(d) == relay = "l1" /\ d = "c2b"

Forward(d) ==
    /\ pump[d] = "running" /\ hand[d] # NoMessage
    /\ Inspected(d) => hand[d] \notin {"denied", "opaque"}
    /\ out' = [out EXCEPT ![d] = Append(@, hand[d])]
    /\ hand' = [hand EXCEPT ![d] = NoMessage]
    /\ UNCHANGED <<relay, hs, sent, ended, taken, pump, closed, blocked>>

Deny_Silent ==   \* mutant: a denied message is dropped
    /\ Inspected("c2b") /\ pump["c2b"] = "running" /\ hand["c2b"] = "denied"
    /\ blocked' = blocked + 1
    /\ hand' = [hand EXCEPT !["c2b"] = NoMessage]
    /\ UNCHANGED <<relay, hs, sent, ended, taken, out, pump, closed>>

\* A denied message is answered on the client's side, next to the other pump;
\* once that side was ended the write raises.
Deny ==
    /\ Inspected("c2b") /\ pump["c2b"] = "running" /\ hand["c2b"] = "denied"
    /\ blocked' = blocked + 1
    /\ IF closed["b2c"]
       THEN pump' = [pump EXCEPT !["c2b"] = "dead"] /\ UNCHANGED out
       ELSE out' = [out EXCEPT !["b2c"] = Append(@, "blocked")] /\ UNCHANGED pump
    /\ hand' = [hand EXCEPT !["c2b"] = NoMessage]
    /\ UNCHANGED <<relay, hs, sent, ended, taken, closed>>

\* peek_headers raises.
Unreadable ==
    /\ Inspected("c2b") /\ pump["c2b"] = "running" /\ hand["c2b"] = "opaque"
    /\ pump' = [pump EXCEPT !["c2b"] = "dead"]
    /\ hand' = [hand EXCEPT !["c2b"] = NoMessage]
    /\ UNCHANGED <<relay, hs, sent, ended, taken, out, closed, blocked>>

PassEnd_Early(d) ==   \* mutant: the end overtakes the message in hand
    /\ pump[d] = "running" /\ AtEnd(d)
    /\ closed' = [closed EXCEPT ![d] = TRUE]
    /\ pump' = [pump EXCEPT ![d] = "done"]
    /\ UNCHANGED <<relay, hs, sent, ended, taken, hand, out, blocked>>

PassEnd(d) ==
    /\ pump[d] = "running" /\ hand[d] = NoMessage /\ AtEnd(d)
    /\ closed' = [closed EXCEPT ![d] = TRUE]
    /\ pump' = [pump EXCEPT ![d] = "done"]
    /\ UNCHANGED <<relay, hs, sent, ended, taken, hand, out, blocked>>

Pump(d) == PumpReceives(d) \/ Forward(d) \/ PassEnd(d) \/ (d = "c2b" /\ (Deny \/ Unreadable))

RelayInit ==
    /\ relay \in {"relay", "l1", "forward"}
    /\ hs = IF relay = "forward" THEN "client" ELSE "over"
    /\ sent = [d \in Directions |-> <<>>] /\ ended = [d \in Directions |-> FALSE]
    /\ taken = [d \in Directions |-> 0] /\ hand = [d \in Directions |-> NoMessage]
    /\ pump = [d \in Directions |-> IF relay = "forward" THEN "idle" ELSE "running"]
    /\ out = [d \in Directions |-> <<>>] /\ closed = [d \in Directions |-> FALSE]
    /\ blocked = 0

RelayNext ==
    \/ Handshake
    \/ \E d \in Directions : Sends(d) \/ SourceEnds(d) \/ Pump(d)

RelaySpec == RelayInit /\ [][RelayNext]_relayVars

\* The event loop runs every task that can run.
RelayFairSpec == RelaySpec /\ WF_relayVars(Handshake) /\ \A d \in Directions : WF_relayVars(Pump(d))

(***************************************************************************)
(* Properties                                                              *)
(***************************************************************************)
RelayTypeOK ==
    /\ relay \in {"relay", "l1", "forward"}
    /\ hs \in {"client", "backend", "confirm", "returned", "raised", "over"}
    /\ \A d \in Directions :
          /\ sent[d] \in Seq(ClientMessages \cup BackendMessages)
          /\ taken[d] \in 0..Len(sent[d])
          /\ pump[d] \in {"idle", "running", "done", "dead"}
    /\ blocked \in Nat

\* At i: those of the first i messages of s that come after its first n and are
\* not dropped.
Kept(s, n, dropped) ==
    LET kept[i \in 0..Len(s)] ==
            IF i <= n THEN <<>>
            ELSE IF s[i] = dropped THEN kept[i - 1] ELSE Append(kept[i - 1], s[i])
    IN  kept

\* How often m is among the first n messages of s.
Number(m, s, n) == Cardinality({i \in 1..n : s[i] = m})

Dropped(d) == IF Inspected(d) THEN "denied" ELSE NoMessage

Relayed(d) == Kept(sent[d], Own(d), Dropped(d))[Len(sent[d])]
Arrived(d) == Kept(out[d], Own(d), "blocked")[Len(out[d])]

Payloads == {"initialize", "initialized", "call", "denied", "opaque", "hello", "identity", "reply"}

Upstream == INSTANCE FifoChannel WITH
    Payload <- Payloads, sent <- Relayed("c2b"), ended <- ended["c2b"],
    got <- Arrived("c2b"), closed <- closed["c2b"]

Downstream == INSTANCE FifoChannel WITH
    Payload <- Payloads, sent <- Relayed("b2c"), ended <- ended["b2c"],
    got <- Arrived("b2c"), closed <- closed["b2c"]

\* Each direction is a FIFO channel with an end, of its own: whatever the other
\* one does, the messages the policy allows arrive once, in order and unchanged,
\* and the end after them; the handshake takes none of them (_pump,
\* _client_to_backend, _backend_to_client, ForwardProxy.serve).
PumpsAreChannels == Upstream!Spec /\ Downstream!Spec

\* A message the policy denies is answered on the client's side, once, and the
\* answers stay on this side of the end of that stream (blocked counts them).
DeniedAnswered ==
    LET answers == Number("blocked", out["b2c"], Len(out["b2c"]))
        denied == Number("denied", sent["c2b"], taken["c2b"])
    IN  relay = "l1" =>
            /\ blocked = denied - (IF hand["c2b"] = "denied" THEN 1 ELSE 0)
            /\ answers = blocked \/ (answers = blocked - 1 /\ pump["c2b"] = "dead")

\* "Backend identity is never exposed to the client" (forward.py).
BackendIdentityHidden ==
    relay = "forward" => \A i \in DOMAIN out["b2c"] : out["b2c"][i] # "identity"

\* The end of one side's stream reaches the other, even while the other still
\* sends, unless the pump died of an exception or the handshake failed.
EndPassedOn ==
    \A d \in Directions : ended[d] ~> (closed[d] \/ pump[d] = "dead" \/ hs # "over")

=============================================================================
