-------------------------------- MODULE Head --------------------------------
(***************************************************************************)
(* The head of a request or a response while sed() works on it             *)
(* (parsers.c, list.c).  s.head maps the names of the headers that are     *)
(* present to what they say; s.flags are those of csp->flags.              *)
(***************************************************************************)
EXTENDS Integers, SequencesExt

Has(s, name)       == name \in DOMAIN s.head
Crunched(s, name)  == [s EXCEPT !.head = Restrict(@, DOMAIN @ \ {name})]
Says(s, name, v)   == [s EXCEPT !.head = [n \in DOMAIN @ \cup {name} |-> IF n = name THEN v ELSE @[n]]]
Raised(s, flag)    == [s EXCEPT !.flags = @ \cup {flag}]
When(condition, t, s) == IF condition THEN t ELSE s

\* The members of the sequence that are in T, in their order.
Keep(seq, T) ==
  LET Taken[n \in 0..Len(seq)] ==
        IF n = 0 THEN <<>> ELSE IF seq[n] \in T THEN Append(Taken[n - 1], seq[n]) ELSE Taken[n - 1]
  IN  Taken[Len(seq)]
=============================================================================
