------------------------- MODULE MC_QuadraticCost -------------------------
EXTENDS QuadraticCost

Col2(a, b) == <<<<a>>, <<b>>>>

\* Symmetric weights, one of them with a coupling term of each sign.
MCQSet == {<<<<1, 0>>, <<0, 1>>>>, <<<<2, 1>>, <<1, 1>>>>, <<<<1, -1>>, <<-1, 2>>>>}
\* A weight with an asymmetric coupling, which the constructor accepts.
MCQAsymmetricSet == {<<<<1, 1>>, <<0, 1>>>>}
MCRSet == {Scalar(1), Scalar(2)}
MCXNominalSet == {Col2(0, 0), Col2(1, -1)}
MCUNominalSet == {Scalar(0), Scalar(1)}
MCXFinalSet == {Col2(0, 0), Col2(-1, 1)}
MCQFinalSet == {<<<<1, 0>>, <<0, 1>>>>, <<<<1, 1>>, <<1, 2>>>>}
MCXSet == {Col2(a, b) : a, b \in -1..1}
MCUSet == {Scalar(-1), Scalar(1)}
=============================================================================
