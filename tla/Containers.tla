----------------------------- MODULE Containers -----------------------------
(***************************************************************************)
(* Vec, List, Array, Set and Map (src/src/vec.h, list.h, array.h, set.h and  *)
(* map.h): what they add to the standard containers they wrap.  The first    *)
(* three are sequences, whose positions count from 0 in the code; a Set is a *)
(* set and a Map a function, which iterate in ascending order.               *)
(***************************************************************************)
EXTENDS Integers, SequencesExt, Functions

CONSTANT Default \* T(), the value of an element that is not given

ascending(s) ==
    CHOOSE q \in [1..Cardinality(s) -> s] : \A i, j \in DOMAIN q : i < j => q[i] < q[j]

\* Vec, List and Array: end() is the position behind the last.
index_of(v, x) == SelectInSeq(v, LAMBDA y : y = x) - 1
find(v, x) == LET i == index_of(v, x) IN IF i < 0 THEN Len(v) ELSE i
contains(v, x) == find(v, x) # Len(v)
count_if(v, x) == Cardinality({i \in 1..Len(v) : v[i] = x})

\* A predicate is the set of what it accepts; with an index, of pairs.
filter(v, Accepted) ==
    FlattenSeq([i \in 1..Len(v) |-> IF v[i] \in Accepted THEN <<v[i]>> ELSE <<>>])
filter_indexed(v, Accepted) ==
    FlattenSeq([i \in 1..Len(v) |-> IF <<v[i], i - 1>> \in Accepted THEN <<v[i]>> ELSE <<>>])
map(v, f) == [i \in 1..Len(v) |-> f[v[i]]]

append(v, x) == Append(v, x)
prepend(v, x) == <<x>> \o v
insert_at(v, i, x) == InsertAt(v, i + 1, x)
erase_at(v, i) == RemoveAt(v, i + 1)
remove_at(v, i) == IF i >= 0 /\ i < Len(v) THEN erase_at(v, i) ELSE v
remove(v, x) == IF contains(v, x) THEN erase_at(v, find(v, x)) ELSE v

\* Vec<Str>: the strings with a separator between them.
join(v, sep) ==
    IF v = <<>> THEN <<>>
    ELSE Head(v) \o FlattenSeq([i \in 1..(Len(v) - 1) |-> sep \o v[i + 1]])

\* List::at; the position is in the list, or an assertion fails.
at(v, i) == v[i + 1]

\* An Array of n from an initializer list, or from an Array of another size.
to_array(n, v) == [i \in 1..n |-> IF i <= Len(v) THEN v[i] ELSE Default]

-----------------------------------------------------------------------------
set_add(s, x) == s \cup {x}
set_remove(s, x) == s \ {x}
union_with(s, t) == s \cup t
intersection_with(s, t) == {x \in s : x \in t}
difference_with(s, t) == {x \in s : x \notin t}

\* Mutant: a set of the same size cannot be a subset.
proper_subset_of(s, t) == Cardinality(s) < Cardinality(t) /\ \A x \in s : x \in t
is_subset_of(s, t) == Cardinality(s) <= Cardinality(t) /\ \A x \in s : x \in t
is_superset_of(s, t) == is_subset_of(t, s)
set_filter(s, Accepted) == {x \in s : x \in Accepted}
set_map(s, f) == {f[x] : x \in s}
to_vec(s) == ascending(s)

put(m, k, v) == [x \in DOMAIN m \cup {k} |-> IF x = k THEN v ELSE m[x]]
map_remove(m, k) == Restrict(m, DOMAIN m \ {k})
keys(m) == ascending(DOMAIN m)
values(m) == [i \in 1..Len(keys(m)) |-> m[keys(m)[i]]]
map_filter(m, Accepted) == Restrict(m, {k \in DOMAIN m : <<k, m[k]>> \in Accepted})
map_values(m, f) == [k \in DOMAIN m |-> f[m[k]]]

-----------------------------------------------------------------------------
(***************************************************************************)
(* What relates them, for a sequence v of numbers.                          *)
(***************************************************************************)
set_of(v) == FoldLeft(set_add, {}, v)

\* The Map that counts the elements of v.
counts(v) == FoldLeft(LAMBDA m, x : put(m, x, IF x \in DOMAIN m THEN m[x] + 1 ELSE 1), <<>>, v)

\* What is inserted is found, and erased again; remove takes the first of its kind and
\* leaves the others in their order.
SequencesEdit(v, Elems) ==
    \A x \in Elems :
        /\ \A i \in 0..Len(v) :
              LET w == insert_at(v, i, x)
              IN  /\ at(w, i) = x /\ erase_at(w, i) = v /\ remove_at(w, Len(w)) = w
                  /\ find(w, x) <= i /\ (~contains(SubSeq(v, 1, i), x) => remove(w, x) = v)
        /\ count_if(v, x) = Len(filter(v, {x}))
        /\ contains(v, x) => count_if(remove(v, x), x) = count_if(v, x) - 1
        /\ filter(remove(v, x), Elems \ {x}) = filter(v, Elems \ {x})
        /\ filter_indexed(v, {p \in Elems \X (0..Len(v)) : p[2] # index_of(v, x)}) = remove(v, x)
        /\ prepend(v, x) = insert_at(v, 0, x) /\ append(v, x) = insert_at(v, Len(v), x)

parity(s) == [x \in s |-> x % 2]
successor(v) == [n \in 0..Len(v) |-> n + 1]

\* For the sets of a front and of the rest of v, however divided: inclusion, difference
\* and union tell the same, and the set of v is that of its parts.
SetsCompare(v) ==
    \A i \in 0..Len(v) :
        LET s == set_of(SubSeq(v, 1, i))
            t == set_of(SubSeq(v, i + 1, Len(v)))
        IN  /\ union_with(s, t) = set_of(v)
            /\ is_subset_of(s, t) <=> difference_with(s, t) = {}
            /\ is_subset_of(s, t) <=> union_with(s, t) = t
            /\ is_superset_of(s, t) <=> intersection_with(s, t) = t
            /\ union_with(difference_with(s, t), intersection_with(s, t)) = s
            /\ set_filter(s, t) = intersection_with(s, t)
            /\ \A x \in s : set_remove(s, x) = difference_with(s, {x})
            /\ set_map(s, parity(s)) = set_of(map(SubSeq(v, 1, i), parity(s)))

\* The Map that counts has the Set's elements as keys, and what it counts is there.
MapsCount(v) ==
    /\ keys(counts(v)) = to_vec(set_of(v))
    /\ \A k \in DOMAIN counts(v) : counts(v)[k] = count_if(v, k)
    /\ values(map_values(counts(v), successor(v))) = map(values(counts(v)), successor(v))
    /\ values(counts(v)) = map(keys(counts(v)), [k \in set_of(v) |-> count_if(v, k)])
    /\ \A k \in DOMAIN counts(v) :
          map_remove(counts(v), k) = counts(filter(v, set_of(v) \ {k}))
    /\ map_filter(counts(v), set_of(v) \X {1}) = Restrict(counts(v), {k \in set_of(v) : count_if(v, k) = 1})

\* An Array keeps what it has room for.
ArraysConvert(v) ==
    \A n, m \in 1..(Len(v) + 1) :
        n >= m \/ n >= Len(v) => to_array(m, to_array(n, v)) = to_array(m, v)
=============================================================================
