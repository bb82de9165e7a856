---------------------- MODULE MC_HpipmTranscription ----------------------
EXTENDS HpipmTranscription

\* Entries of +-1 make every sign of every term reachable; Q, R, q fixed at
\* 1 keep the cost convex without multiplying the state count.
V == {-1, 1}
MCX0Set == {-1, 2}
MCStageSet ==
  [A : V, B : V, f : V, Q : {1}, R : {1}, S : V, q : {1}, r : V, C : V, D : V, e : V]
MCFinalSet == [Q : {1}, q : {1}, C : {0, 1}, e : {0, -1}]
MCUSet == -3..3
MCXSet == -4..4
=============================================================================
