---------------------------- MODULE MCMembership ----------------------------
EXTENDS Membership, TLC

CONSTANTS w1, w2, w3, a1, a2, t1, t2

\* Kept is SelectSeq.
ASSUME KeptIsSelectSeq ==
    \A n \in 0..3 : \A order \in [1..n -> Conns], S \in SUBSET Conns :
        Kept(order, S) = SelectSeq(order, LAMBDA x : x \in S)

Sym == Permutations(Conns) \cup Permutations(Cids) \cup Permutations(Tasks)
=============================================================================
