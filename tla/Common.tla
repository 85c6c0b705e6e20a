------------------------------- MODULE Common -------------------------------
(***************************************************************************)
(* Vocabulary shared by the models.  Rust's Option<T> is a set with at     *)
(* most one element: None is {}, Some(x) is {x}, is_some_and(p) is         *)
(* \E x \in o : p(x) and map(f) is {f(x) : x \in o}.                       *)
(***************************************************************************)
EXTENDS Integers, Sequences, FiniteSets

Option(S) == {{}} \cup {{x} : x \in S}

Least(a, b)    == IF a <= b THEN a ELSE b
Greatest(a, b) == IF a >= b THEN a ELSE b

(* unwrap_or                                                               *)
ValueOr(o, default) == IF o = {} THEN default ELSE CHOOSE x \in o : TRUE

(* integer_sqrt, and integer_log2 which counts binary digits.              *)
IntegerSqrt(n) == Cardinality({r \in 1..n : r * r <= n})
IntegerLog2(n) == Cardinality({k \in 0..n : 2^k <= n})

(* A trailing window: the last n elements of s once x has been appended.   *)
Push(s, x, n) == IF Len(s) < n THEN Append(s, x) ELSE Append(Tail(s), x)

(* The numbers of a set in ascending order: the k-th is the one with k     *)
(* numbers up to it.                                                       *)
Ascending(S) ==
  [k \in 1..Cardinality(S) |-> CHOOSE x \in S : Cardinality({y \in S : y <= x}) = k]

(* What a sequence has at the given places.                                *)
Only(s, places) == LET kept == Ascending(places) IN [k \in DOMAIN kept |-> s[kept[k]]]

=============================================================================
