---------------------------- MODULE MCComparator ----------------------------
(* Comparator for model checking: lists of two or three entries each. *)
EXTENDS Comparator

E(url, ips, name, expires) == [url |-> url, ips |-> ips, name |-> name, expires |-> expires]

(* In the second one, an entry has another address, and one has lost its only address;
   in the third one, the former expires later, and another one has expired already. *)
ThreeLists == <<
  [time |-> 1, entries |-> <<E("x", {"a"}, "n", 5), E(NoUrl, {"c"}, "n", 4)>>],
  [time |-> 2, entries |-> <<E("x", {"b"}, "n", 5), E(NoUrl, {}, "n", 6), E("z", {}, "n", 6)>>],
  [time |-> 6, entries |-> <<E("x", {"b"}, "n", 7), E(NoUrl, {"c"}, "n", 4)>>]>>

=============================================================================
