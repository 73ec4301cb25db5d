-------------------------------- MODULE Wire --------------------------------
(***************************************************************************)
(* What the descriptions of the generated messages of the C and of the C++ *)
(* world library have in common: the wires that a message can have, tests  *)
(* on them, sums of sizes, and catalogues of messages.                     *)
(***************************************************************************)
EXTENDS Naturals, Sequences, SequencesExt, FiniteSetsExt

CONSTANTS Lengths,   \* lengths of strings, of packed GUIDs and of masks
          Counts     \* numbers of elements of arrays

ASSUME WireAssumption == Lengths \subseteq Nat /\ Counts \subseteq Nat

(***************************************************************************)
(* What the code branches on.  A wire fixes the length of the strings, the *)
(* number of elements of the arrays, and the enumerators and flags that    *)
(* the fields hold.  Each member of enums is the set of enumerators of one *)
(* field, of which exactly one is on the wire (enumerators that all the    *)
(* functions treat alike are one); flags are independent of each other.    *)
(***************************************************************************)
OneOfEach(enums) ==
  FoldSet(LAMBDA enum, chosen : {c \union {e} : c \in chosen, e \in enum}, {{}}, enums)

Wires(lengths, counts, enums, flags) ==
  [len : lengths, count : counts,
   holds : {c \union f : c \in OneOfEach(enums),
                         f \in {{}, flags} \union {{x} : x \in flags}
                                           \union {flags \ {x} : x \in flags}}]

\* The wires of a message without branches, in which the lengths of its
\* strings, the numbers of its elements, or both vary
OfLength == Wires(Lengths, {0}, {}, {})
OfCount == Wires({0}, Counts, {}, {})
OfLengthAndCount == Wires(Lengths, Counts, {}, {})

\* Bound: an object has so many wires that an update is of one object.
UpdatedObjects == {1}

\* The only wire of a message of fixed length
Fixed == [len |-> 0, count |-> 0, holds |-> {}]

\* The field holds the enumerator, or the flag, or one of those in set.
Is(w, name) == name \in w.holds
IsIn(w, set) == w.holds \intersect set # {}

\* if (condition) { ... }: steps of a read, pointers of a free function, or
\* bytes of a write or size function.
When(condition, steps) == IF condition THEN steps ELSE <<>>
Bytes(condition, n) == IF condition THEN n ELSE 0

Repeat(n, size) == [i \in 1..n |-> size]
\* A sum by halves: the runs of READ_Un are too long for a fold.
Total(sizes) ==
  LET half(a, b) == (a + b) \div 2
      sum[a, b \in 1..Len(sizes)] ==
        IF a = b THEN sizes[a] ELSE sum[a, half(a, b)] + sum[half(a, b) + 1, b]
  IN IF sizes = <<>> THEN 0 ELSE sum[1, Len(sizes)]

\* Messages are defined in groups, each a record of functions from wires to
\* records.  A catalogue has for each message the list of its records; those
\* of a kind are listed together, which keeps the folds short.
Listing(set) == FoldSet(LAMBDA x, listed : Append(listed, x), <<>>, set)
ListedBy(kind(_), groups) ==
  LET records(m) == {m[w] : w \in DOMAIN m}
      listed(set) == FoldSet(LAMBDA k, list : list \o Listing({r \in set : kind(r) = k}),
                             <<>>, {kind(r) : r \in set})
  IN [i \in DOMAIN groups |->
       [name \in DOMAIN groups[i] |-> listed(records(groups[i][name]))] @@ <<>>]
     \o <<>>

\* The messages with these names, those without, and those Holding P
Only(groups, names) ==
  [i \in DOMAIN groups |-> [name \in DOMAIN groups[i] \intersect names |-> groups[i][name]]]
Without(groups, names) ==
  [i \in DOMAIN groups |-> [name \in DOMAIN groups[i] \ names |-> groups[i][name]]]
\* Those of a version that earlier ones do not have in the same form: they
\* would only be run again
Unlike(groups, earlier) ==
  LET alike(name, m) ==
        \E i \in DOMAIN earlier : name \in DOMAIN earlier[i] /\ earlier[i][name] = m
  IN [i \in DOMAIN groups |->
       [name \in {n \in DOMAIN groups[i] : ~alike(n, groups[i][n])} |-> groups[i][name]]]
Holding(P(_), catalogue) ==
  [i \in DOMAIN catalogue |->
    [name \in {n \in DOMAIN catalogue[i] : P(catalogue[i][n])} |-> catalogue[i][name]] @@ <<>>]
  \o <<>>
=============================================================================
