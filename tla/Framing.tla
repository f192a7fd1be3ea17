------------------------------ MODULE Framing ------------------------------
(* yamp/transport: the three framings of messages on a byte stream.  A      *)
(* payload is a sequence of characters, "lf" and "cr" among them.  A header *)
(* and a field name are characters too, which end where the others end: a   *)
(* cut in the middle of one is a cut before it.  A reader is given all the  *)
(* bytes that arrive before the end of the stream; how they are divided     *)
(* into packets is the StreamReader's affair.                               *)
EXTENDS Naturals, Sequences, SequencesExt, FiniteSetsExt

\* receive gives a message, or says that none is left, or raises.
Got(message, rest) == [message |-> message, rest |-> rest]
NoMore == [message |-> "none", rest |-> << >>]

Data == "data:"
Length(n) == <<"length", n>>   \* "Content-Length: n" and the empty line

\* The place of the first line feed, or 0.
LineEnd(bytes) == LET at == {i \in DOMAIN bytes : bytes[i] = "lf"}
                  IN  IF at = {} THEN 0 ELSE Min(at)
After(bytes, i) == SubSeq(bytes, i + 1, Len(bytes))

(* LineTransport: a message ends where its line ends.  What is left when    *)
(* the stream ends is a message as well.                                    *)
send_line(payload) == Append(payload, "lf")

receive_line(bytes) ==
  LET i == LineEnd(bytes)
  IN  IF i > 0 THEN Got(SubSeq(bytes, 1, i - 1), After(bytes, i))
      ELSE IF bytes # << >> THEN Got(bytes, << >>) ELSE NoMore

(* FramedTransport: the length, then that many characters, or as many as    *)
(* there are.                                                               *)
send_framed(payload) == <<Length(Len(payload))>> \o payload

receive_framed(bytes) ==
  IF bytes = << >> THEN NoMore
  ELSE LET n == bytes[1][2]
           body == After(bytes, 1)
       IN  IF Len(body) >= n THEN Got(SubSeq(body, 1, n), After(body, n))
           ELSE IF body # << >> THEN Got(body, << >>) ELSE NoMore

(* SseTransport: a field for every line of the payload, and an empty line.  *)
Lines(payload) ==
  FoldLeft(LAMBDA ls, c : IF c = "lf" THEN Append(ls, << >>)
                          ELSE [ls EXCEPT ![Len(ls)] = Append(@, c)], <<<< >>>>, payload)
Joined(lines) == Tail(FlattenSeq([i \in DOMAIN lines |-> <<"lf">> \o lines[i]]))

send_sse(payload) ==
  FlattenSeq([i \in DOMAIN Lines(payload) |-> <<Data, "space">> \o Lines(payload)[i] \o <<"lf">>])
    \o <<"lf">>

\* rstrip(b"\r\n") of a line.
Stripped(line) ==
  LET kept == {i \in DOMAIN line : line[i] \notin {"cr", "lf"}}
  IN  IF kept = {} THEN << >> ELSE SubSeq(line, 1, Max(kept))

IsData(line) == line # << >> /\ line[1] = Data
FieldValue_Strips(line) ==   \* mutant: every leading space is taken for the separator
  LET kept == {i \in 2..Len(line) : line[i] # "space"}
  IN  IF kept = {} THEN << >> ELSE After(line, Min(kept) - 1)

FieldValue(line) == IF Len(line) > 1 /\ line[2] = "space" THEN After(line, 2) ELSE Tail(line)

\* The event ends with the first empty line after some data, or with the
\* stream; its last line may then be unterminated.
receive_sse(bytes) ==
  LET lines == Lines(bytes)
      n == Len(lines)
      DataOf(k) == LET fields == SelectSeq([i \in 1..k |-> Stripped(lines[i])], IsData)
                   IN  [i \in DOMAIN fields |-> FieldValue(fields[i])]
      ends == {k \in 1..(n - 1) : Stripped(lines[k]) = << >> /\ DataOf(k) # << >>}
  IN  IF ends # {} THEN Got(Joined(DataOf(Min(ends))), Joined(SubSeq(lines, Min(ends) + 1, n)))
      ELSE IF DataOf(n) # << >> THEN Got(Joined(DataOf(n)), << >>) ELSE NoMore

-----------------------------------------------------------------------------
Framings == {"line", "framed", "sse"}

Send(framing, payload) ==
  CASE framing = "line"   -> send_line(payload)
    [] framing = "framed" -> send_framed(payload)
    [] framing = "sse"    -> send_sse(payload)

Receive(framing, bytes) ==
  CASE framing = "line"   -> receive_line(bytes)
    [] framing = "framed" -> receive_framed(bytes)
    [] framing = "sse"    -> receive_sse(bytes)

\* What a reader that reads on until there is no more gets of the stream.
Received(framing, bytes) ==
  LET Next(r, i) == LET got == Receive(framing, r.rest)
                    IN  IF r.ended \/ got = NoMore THEN [r EXCEPT !.ended = TRUE]
                        ELSE [ended |-> FALSE, rest |-> got.rest, messages |-> Append(r.messages, got.message)]
  IN  FoldLeft(Next, [ended |-> FALSE, rest |-> bytes, messages |-> << >>],
               [i \in 1..(Len(bytes) + 1) |-> i]).messages

Stream(framing, payloads) == FlattenSeq([i \in DOMAIN payloads |-> Send(framing, payloads[i])])

\* What a framing can carry: a line none of its own end, and an event no line
\* that ends in a carriage return.
Carries(framing, payload) ==
  CASE framing = "line"   -> "lf" \notin Range(payload)
    [] framing = "framed" -> TRUE
    [] framing = "sse"    -> \A i \in DOMAIN payload : payload[i] = "cr" =>
                               i < Len(payload) /\ payload[i + 1] \notin {"lf", "cr"}

\* Of a stream that ends after k characters the reader gets the messages that
\* it holds as a whole and at most one more, which is a start of the next.
CutSound(framing, payloads, k) ==
  LET r == Received(framing, SubSeq(Stream(framing, payloads), 1, k))
      whole == Max({n \in 0..Len(payloads) : Len(Stream(framing, SubSeq(payloads, 1, n))) <= k})
  IN  /\ Len(r) \in {whole, whole + 1}
      /\ SubSeq(r, 1, whole) = SubSeq(payloads, 1, whole)
      /\ Len(r) > whole => whole < Len(payloads) /\ IsPrefix(r[whole + 1], payloads[whole + 1])
=============================================================================
