----------------------------- MODULE Conditions -----------------------------
(***************************************************************************)
(* Data selection conditions (N6Lib/n6lib/data_selection_tools.py):        *)
(* immutable trees that are simplified as they are constructed, the        *)
(* visitors that transform them, and the predicates made from them.        *)
(*                                                                         *)
(* Subconditions are a set: the OPSet of the code compares equal           *)
(* whatever its order, and the order only decides which of several equally *)
(* shared subconditions is factored out first (FactoredSet has them all).  *)
(* Values of record items are numbers.  Comparisons other than equality,   *)
(* membership and intervals are left out: nothing here tells them apart    *)
(* from an interval.                                                       *)
(***************************************************************************)
EXTENDS Integers, FiniteSets

-----------------------------------------------------------------------------
(* Construction: make_cond() is _adapt_init_args(), then                   *)
(* _get_initialized_instance().                                            *)

FixedCond(truth) == [kind |-> "Fixed", truth |-> truth]

EqualCond(key, value) == [kind |-> "Equal", key |-> key, values |-> {value}]

InCond(key, values) ==
  CASE values = {}              -> FixedCond(FALSE)
    [] Cardinality(values) = 1  -> EqualCond(key, CHOOSE v \in values : TRUE)
    [] OTHER                    -> [kind |-> "In", key |-> key, values |-> values]

BetweenCond(key, lo, hi) == [kind |-> "Between", key |-> key, lo |-> lo, hi |-> hi]

IsTrueCond(key) == [kind |-> "IsTrue", key |-> key]

IsNullCond(key) == [kind |-> "IsNull", key |-> key]

NotCond(c) ==
  CASE c.kind = "Fixed" -> FixedCond(~c.truth)
    [] c.kind = "Not"   -> c.sub
    [] OTHER            -> [kind |-> "Not", sub |-> c]

MultiKinds == {"And", "Or"}

Dual(kind) == IF kind = "And" THEN "Or" ELSE "And"

\* The subconditions less the neutral element, the nested ones of the same
\* kind taken in.
Flattened(kind, subs) ==
  UNION {IF s.kind = kind THEN s.subs ELSE {s} : s \in subs \ {FixedCond(kind = "And")}}

\* AndCond and OrCond.  FixedCond(kind = "And") is the neutral element of the
\* kind, FixedCond(kind = "Or") the absorbing one.
MultiCond(kind, subs) ==
  LET flat == Flattened(kind, subs)
  IN CASE Cardinality(flat) = 1                -> CHOOSE s \in flat : TRUE
       [] flat = {}                            -> FixedCond(kind = "And")
       [] \/ FixedCond(kind = "Or") \in flat
          \/ \E s \in flat : NotCond(s) \in flat
                                               -> FixedCond(kind = "Or")
       [] OTHER                                -> [kind |-> kind, subs |-> flat]

AndCond(subs) == MultiCond("And", subs)

OrCond(subs) == MultiCond("Or", subs)

\* What the constructors promise of every condition: no superfluous nesting, no
\* constants inside, nothing that contradicts its neighbour.
RECURSIVE IsReduced(_)
IsReduced(c) ==
  CASE c.kind \in MultiKinds ->
         /\ Cardinality(c.subs) > 1
         /\ \A s \in c.subs : /\ s.kind \notin {"Fixed", c.kind}
                              /\ NotCond(s) \notin c.subs
                              /\ IsReduced(s)
    [] c.kind = "Not" -> c.sub.kind \notin {"Fixed", "Not"} /\ IsReduced(c.sub)
    [] c.kind = "In"  -> Cardinality(c.values) > 1
    [] OTHER          -> TRUE

-----------------------------------------------------------------------------
(* CondPredicateMaker.  A record maps each key to the set of its values:   *)
(* empty if the item is missing, and with several members only for items   *)
(* of addresses, where a condition holds if it does for any of them        *)
(* (_ComparableMultiValue).                                                *)

RECURSIVE Holds(_, _)
Holds(c, rec) ==
  CASE c.kind = "Fixed"            -> c.truth
    [] c.kind = "Not"              -> ~Holds(c.sub, rec)
    [] c.kind = "And"              -> \A s \in c.subs : Holds(s, rec)
    [] c.kind = "Or"               -> \E s \in c.subs : Holds(s, rec)
    [] c.kind \in {"Equal", "In"}  -> rec[c.key] \cap c.values # {}
    [] c.kind = "Between"          -> \E v \in rec[c.key] : c.lo <= v /\ v <= c.hi
    [] c.kind = "IsTrue"           -> TRUE \in rec[c.key]
    [] c.kind = "IsNull"           -> rec[c.key] = {}

-----------------------------------------------------------------------------
(* CondFactoringTransformer:                                               *)
(* (x AND a) OR (x AND b) OR e  becomes  (x AND (a OR b)) OR e, and dually *)

\* A condition that is not of the other kind counts as its only part.
Parts(kind, c) == IF c.kind = Dual(kind) THEN c.subs ELSE {c}

Parents(c, part) == {p \in c.subs : part \in Parts(c.kind, p)}

\* The second-level conditions that most parents share, in groups with the same
\* parents; the order of the subconditions says which is first.
MostShared(c) ==
  LET all    == UNION {Parts(c.kind, p) : p \in c.subs}
      shared == {x \in all : Cardinality(Parents(c, x)) > 1}
      top    == {x \in shared :
                   \A y \in shared : Cardinality(Parents(c, y)) <= Cardinality(Parents(c, x))}
  IN {g \in SUBSET top \ {{}} : \A x, y \in g : Parents(c, x) = Parents(c, y)}

\* A variant: a parent that consists of what is factored out is forgotten.
FactoredOutForgetful(c, group) ==
  LET parents == UNION {Parents(c, x) : x \in group}
      bracket == {MultiCond(Dual(c.kind), Parts(c.kind, p) \ group) :
                    p \in {q \in parents : Parts(c.kind, q) # group}}
  IN MultiCond(c.kind, (c.subs \ parents)
       \cup {MultiCond(Dual(c.kind), group \cup {MultiCond(c.kind, bracket)})})

\* If a parent consists of what is factored out, its rest is the constant that
\* absorbs the bracket.
FactoredOut(c, group) ==
  LET parents  == UNION {Parents(c, x) : x \in group}
      factor   == MultiCond(Dual(c.kind), group)
      bracket  == MultiCond(c.kind, {MultiCond(Dual(c.kind), Parts(c.kind, p) \ group) : p \in parents})
  IN MultiCond(c.kind, (c.subs \ parents) \cup {MultiCond(Dual(c.kind), {factor, bracket})})

\* All choices of one member of each of the sets f[x].
OneOfEach(f) == {g \in [DOMAIN f -> UNION {f[x] : x \in DOMAIN f}] : \A x \in DOMAIN f : g[x] \in f[x]}

RECURSIVE FactoredSet(_)
FactoredSet(c) ==
  CASE c.kind \in MultiKinds ->
         IF MostShared(c) # {}
         THEN UNION {FactoredSet(FactoredOut(c, g)) : g \in MostShared(c)}
         ELSE LET visited == [s \in c.subs |-> FactoredSet(s)]
              IN {MultiCond(c.kind, {g[s] : s \in c.subs}) : g \in OneOfEach(visited)}
    [] c.kind = "Not" -> {NotCond(s) : s \in FactoredSet(c.sub)}
    [] OTHER          -> {c}

-----------------------------------------------------------------------------
(* CondEqualityMergingTransformer:                                         *)
(* x = a OR x IN (b, c)  becomes  x IN (a, b, c);                          *)
(* NOT x = a AND NOT x = b  becomes  NOT x IN (a, b)                       *)

IsEqualityTest(c) == c.kind \in {"Equal", "In"}

\* Only negated tests can be merged in a conjunction: a record may have several
\* addresses, one with either value.
Mergeable(kind, c) ==
  IF kind = "And" THEN c.kind = "Not" /\ IsEqualityTest(c.sub) ELSE IsEqualityTest(c)

Plain(c) == IF c.kind = "Not" THEN c.sub ELSE c

\* _SubcondMerger
WithMergedSubconditions(c) ==
  LET mergeable == {s \in c.subs : Mergeable(c.kind, s)}
      ofKey(k)  == {s \in mergeable : Plain(s).key = k}
      keys      == {Plain(s).key : s \in mergeable}
      merged(k) == InCond(k, UNION {Plain(s).values : s \in ofKey(k)})
  IN IF \A k \in keys : Cardinality(ofKey(k)) = 1
     THEN c
     ELSE MultiCond(c.kind, (c.subs \ mergeable)
            \cup {IF c.kind = "And" THEN NotCond(merged(k)) ELSE merged(k) : k \in keys})

RECURSIVE Merged(_)
Merged(c) ==
  CASE c.kind \in MultiKinds ->
         LET visited == MultiCond(c.kind, {Merged(s) : s \in c.subs})
         IN IF visited.kind \in MultiKinds THEN WithMergedSubconditions(visited) ELSE visited
    [] c.kind = "Not" -> NotCond(Merged(c.sub))
    [] OTHER          -> c

-----------------------------------------------------------------------------
(* CondDeMorganTransformer                                                 *)

RECURSIVE DeMorgan(_)
DeMorgan(c) ==
  CASE c.kind = "Not" /\ c.sub.kind \in MultiKinds ->
         DeMorgan(MultiCond(Dual(c.sub.kind), {NotCond(s) : s \in c.sub.subs}))
    [] c.kind \in MultiKinds -> MultiCond(c.kind, {DeMorgan(s) : s \in c.subs})
    [] OTHER -> c

=============================================================================
