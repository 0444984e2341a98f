------------------------------ MODULE Ordering ------------------------------
(* Entries in the order of a compare function: 1 for ascending keys, -1 for
   descending ones.  An entry is a record with a key; entries with equal keys may
   differ in the rest. *)
EXTENDS Integers, FiniteSets, Sequences

CONSTANT NULL      \* no entry, no pointer, no compare function

Compare(order, x, y) == order * (x.key - y.key)

(* The definition that the sorts are checked against: entry i goes behind the smaller
   ones and behind the equal ones that were in front of it. *)
Rank(order, s, i) ==
  1 + Cardinality({j \in DOMAIN s : \/ Compare(order, s[j], s[i]) < 0
                                    \/ Compare(order, s[j], s[i]) = 0 /\ j < i})

StablySorted(order, s) ==
  [r \in DOMAIN s |-> s[CHOOSE i \in DOMAIN s : Rank(order, s, i) = r]]

Sorted(order, s) == \A i, j \in DOMAIN s : i < j => Compare(order, s[i], s[j]) <= 0

(* The same entries, each as often *)
SameEntries(s, t) ==
  \A e \in {s[i] : i \in DOMAIN s} \cup {t[i] : i \in DOMAIN t} :
    Cardinality({i \in DOMAIN s : s[i] = e}) = Cardinality({i \in DOMAIN t : t[i] = e})
=============================================================================
