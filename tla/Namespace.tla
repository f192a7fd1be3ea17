----------------------------- MODULE Namespace -----------------------------
(* yamp/namespace.py: how the proxy marks a backend's names and URIs as the  *)
(* backend's, and how it reads the mark back.  A string is the sequence of   *)
(* its characters; a character is a one-letter string, and what matters of   *)
(* it is only whether it is "_", "/", ":" or none of these.                  *)
EXTENDS Integers, Sequences

\* What Python's None is: the value a resolution that fails returns.
None == << >>

Delimiter == <<"_", "_">>
SchemeSep == <<":", "/", "/">>
Slash     == <<"/">>

\* The positions at which sep starts in s.
Occurrences(s, sep) ==
  {i \in 1..Len(s) : /\ i + Len(sep) - 1 <= Len(s)
                     /\ \A k \in 1..Len(sep) : s[i + k - 1] = sep[k]}

First(S) == CHOOSE i \in S : \A j \in S : i <= j

\* str.partition: what precedes the first sep, whether there is one, the rest.
Partition(s, sep) ==
  LET at == Occurrences(s, sep)
  IN  IF at = {} THEN [before |-> s, found |-> FALSE, after |-> << >>]
      ELSE [before |-> SubSeq(s, 1, First(at) - 1),
            found  |-> TRUE,
            after  |-> SubSeq(s, First(at) + Len(sep), Len(s))]

\* Letters, digits and "-" are the characters that are not one of these.
IdCharacter(c) == c \notin {"/", ":", "*"}

valid_backend_id(id) ==
  /\ id # << >>
  /\ \A i \in 1..Len(id) : IdCharacter(id[i])
  /\ Occurrences(id, Delimiter) = {}

prefix(id, name) == id \o Delimiter \o name

split_Last(name) ==   \* mutant: split at the last delimiter
  LET at   == Occurrences(name, Delimiter)
      last == CHOOSE i \in at : \A j \in at : j <= i
  IN  IF at = {} \/ last = 1 \/ last + 2 > Len(name) THEN None
      ELSE <<SubSeq(name, 1, last - 1), SubSeq(name, last + 2, Len(name))>>

split(name) ==
  LET p == Partition(name, Delimiter)
  IN  IF ~p.found \/ p.before = << >> \/ p.after = << >> THEN None
      ELSE <<p.before, p.after>>

prefix_uri(id, uri) ==
  LET scheme == Partition(uri, SchemeSep)
      host   == Partition(scheme.after, Slash)
      rooted == scheme.before \o SchemeSep \o host.before \o Slash \o id
  IN  IF ~scheme.found THEN uri
      ELSE IF ~host.found THEN rooted ELSE rooted \o Slash \o host.after

split_uri(uri) ==
  LET scheme == Partition(uri, SchemeSep)
      host   == Partition(scheme.after, Slash)
      owner  == Partition(host.after, Slash)
      rooted == scheme.before \o SchemeSep \o host.before
  IN  IF ~scheme.found \/ ~host.found \/ owner.before = << >> THEN None
      ELSE <<owner.before, IF owner.found THEN rooted \o Slash \o owner.after
                                          ELSE rooted>>

\* Whatever characters names are made of, the delimiter's is one of them.
Characters == STRING \cup {Delimiter[1]}
Name(s) == s \in Seq(Characters) /\ s # None

\* An id whose delimiter is the first of the names that it marks.
PlainId(id) ==
  Name(id) /\ Occurrences(id, Delimiter) = {} /\ id[Len(id)] # Delimiter[1]

(***************************************************************************)
(* Properties of one id and one name or URI.                               *)
(***************************************************************************)
\* A name that the proxy shows goes back to the backend it came from, under the
\* name the backend gave it, whatever underscores that name has (prefix, split).
Reversible(id, name) ==
  valid_backend_id(id) /\ name # << >> => split(prefix(id, name)) = <<id, name>>

\* The same of a URI with an authority, also an empty one (prefix_uri, split_uri).
UriReversible(id, uri) ==
  valid_backend_id(id) /\ Partition(uri, SchemeSep).found => split_uri(prefix_uri(id, uri)) = <<id, uri>>
=============================================================================
