------------------------------- MODULE Filter -------------------------------
(***************************************************************************)
(* A list without the entries that fail a test, in order: what a list      *)
(* comprehension of the API and Array.filter of the browser give.  Unlike  *)
(* SelectSeq it takes the entries to keep as a set, so that its lemmas can *)
(* be stated once for every test.                                          *)
(***************************************************************************)
EXTENDS Naturals, Sequences

Chosen(list, keep) ==
  LET upTo[n \in 0..Len(list)] ==
        IF n = 0 THEN <<>>
        ELSE IF list[n] \in keep THEN Append(upTo[n - 1], list[n])
        ELSE upTo[n - 1]
  IN upTo[Len(list)]

=============================================================================
