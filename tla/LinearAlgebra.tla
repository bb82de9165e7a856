--------------------------- MODULE LinearAlgebra ---------------------------
(***************************************************************************)
(* Small dense integer matrices, as Eigen's matrix_t/vector_t are used in  *)
(* HpipmInterface.cpp: a matrix is a tuple of rows, a vector a one-column  *)
(* matrix.  Inverses are exact for matrices of determinant +1 or -1, the   *)
(* only ones the models invert.                                            *)
(***************************************************************************)
EXTENDS Integers, Sequences
LOCAL INSTANCE Functions

Rows(M) == Len(M)
Cols(M) == Len(M[1])

Mat(r, c, e(_, _)) == [i \in 1..r |-> [j \in 1..c |-> e(i, j)]]

Tr(M) == Mat(Cols(M), Rows(M), LAMBDA i, j : M[j][i])

MatMul(X, Y) ==
  Mat(Rows(X), Cols(Y), LAMBDA i, j : SumFunction([k \in 1..Cols(X) |-> X[i][k] * Y[k][j]]))

MatAdd(X, Y) == Mat(Rows(X), Cols(X), LAMBDA i, j : X[i][j] + Y[i][j])
MatSub(X, Y) == Mat(Rows(X), Cols(X), LAMBDA i, j : X[i][j] - Y[i][j])
MatNeg(X) == Mat(Rows(X), Cols(X), LAMBDA i, j : - X[i][j])

\* Determinant and inverse of a 1x1 or 2x2 matrix (Eigen's inverse()).
Det(M) == IF Rows(M) = 1 THEN M[1][1] ELSE M[1][1] * M[2][2] - M[1][2] * M[2][1]
Adj(M) == IF Rows(M) = 1 THEN <<<<1>>>>
          ELSE <<<<M[2][2], - M[1][2]>>, <<- M[2][1], M[1][1]>>>>
MatInv(M) == Mat(Rows(M), Cols(M), LAMBDA i, j : Adj(M)[i][j] \div Det(M))

Scalar(x) == <<<<x>>>>
=============================================================================
