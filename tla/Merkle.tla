-------------------------------- MODULE Merkle --------------------------------
(***************************************************************************)
(* The Merkle tree of the C core (core/src/merkle.c): the root of a list   *)
(* of leaves padded to a power of two, proofs for a range of leaves, and   *)
(* their verification.  SHA-256 is a free constructor.  Indices start at   *)
(* 0 like the code's, sequences at 1.                                      *)
(***************************************************************************)
EXTENDS Naturals, Sequences

Leaf(data) == <<"leaf", data>>
NodeHash(l, r) == <<"node", l, r>>
Zero == <<"zero">>
MaxPadded == 128
MaxRange == 64     \* FORETIAS_MERKLE_MAX_RANGE_PROOF

\* merkle_log2(merkle_next_pow2(n)): the depth of the padded tree.
Pow2[k \in Nat] == IF k = 0 THEN 1 ELSE 2 * Pow2[k - 1]
Depth(n) == CHOOSE d \in 0..n : Pow2[d] >= n /\ \A c \in 0..(d - 1) : Pow2[c] < n
Fits(n) == n > 0 /\ Pow2[Depth(n)] <= MaxPadded

\* The levels of the tree, from the padded leaves up.
Padded(leaves) ==
  [i \in 1..Pow2[Depth(Len(leaves))] |-> IF i <= Len(leaves) THEN leaves[i] ELSE Zero]
Parents(level) == [i \in 1..(Len(level) \div 2) |-> NodeHash(level[2 * i - 1], level[2 * i])]
Levels(leaves) ==
  LET f[k \in 0..Depth(Len(leaves))] == IF k = 0 THEN Padded(leaves) ELSE Parents(f[k - 1]) IN f

root_from_leaves(leaves) == Levels(leaves)[Depth(Len(leaves))][1]

\* Node i of a level covers the leaves from i * 2^k; the range [s, e) of leaves
\* is the range [s / 2^k, ceil(e / 2^k)) there.
Low(s, k) == s \div Pow2[k]
High(e, k) == (e + Pow2[k] - 1) \div Pow2[k]

RangeOk(n, s, e) == Fits(n) /\ s < e /\ e <= n /\ e - s <= MaxRange

\* range_proof: the leaves, and per level the left and the right neighbour of
\* the range where it begins or ends inside a pair.
LeftOf(level, lo) == IF lo % 2 = 1 THEN <<level[lo]>> ELSE << >>
RightOf(level, size, hi) == IF hi % 2 = 1 /\ hi < size THEN <<level[hi + 1]>> ELSE << >>
Neighbours(level, size, lo, hi) == LeftOf(level, lo) \o RightOf(level, size, hi)
Siblings(levels, d, s, e) ==
  LET f[k \in 0..d] ==
        IF k = 0 THEN << >>
        ELSE f[k - 1] \o Neighbours(levels[k - 1], Pow2[d - (k - 1)], Low(s, k - 1), High(e, k - 1))
  IN  f[d]
range_proof(leaves, s, e) ==
  [n |-> Len(leaves), leaves |-> SubSeq(leaves, s + 1, e),
   siblings |-> Siblings(Levels(leaves), Depth(Len(leaves)), s, e)]

\* verify_range_proof: pair the nodes of each level, with a sibling before the
\* first if the range begins inside a pair and one after the last if it is left
\* over.  The array of siblings is zero behind the ones that were sent.
Sibling(rest) == IF rest = << >> THEN Zero ELSE Head(rest)
Behind(rest) == IF rest = << >> THEN rest ELSE Tail(rest)
TakeLeft(at, begins) ==
  IF begins THEN [nodes |-> <<Sibling(at.rest)>> \o at.nodes, rest |-> Behind(at.rest)] ELSE at
TakeRight(at) ==
  IF Len(at.nodes) % 2 = 1 THEN [nodes |-> Append(at.nodes, Sibling(at.rest)), rest |-> Behind(at.rest)]
  ELSE at
Climb(at, begins) ==
  LET paired == TakeRight(TakeLeft(at, begins))
  IN  [nodes |-> Parents(paired.nodes), rest |-> paired.rest]
Climbed(proof, s) ==
  LET f[k \in 0..Depth(proof.n)] ==
        IF k = 0 THEN [nodes |-> proof.leaves, rest |-> proof.siblings]
        ELSE Climb(f[k - 1], Low(s, k - 1) % 2 = 1)
  IN  f
verify_range_proof(root, proof, s, e) ==
  /\ proof.n > 0 /\ s < e /\ e <= proof.n /\ Len(proof.leaves) = e - s
  /\ Climbed(proof, s)[Depth(proof.n)].nodes = <<root>>
=============================================================================
