------------------------------ MODULE MCCiTree ------------------------------
\* ci_tree.c with small nodes: a tree of height 3 has 17 keys.
EXTENDS CiTree

Upto(n) == [i \in 1 .. n |-> i]

\* An empty tree, one about to grow to height 3, and two of height 3: one filled
\* in descending order, whose left branch has pairs to lend, and one with a gap,
\* whose leaves come to have pairs to lend on either side.
MCPrefilled ==
    {<<>>, Upto(16), Reverse(Upto(18)), SelectSeq(Upto(18), LAMBDA k : k # 14)}

MCVals == [k \in Keys |-> IF k = 14 THEN {140, 141} ELSE {10 * k}]
=============================================================================
