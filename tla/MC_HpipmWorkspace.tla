------------------------- MODULE MC_HpipmWorkspace -------------------------
(***************************************************************************)
(* Instantiation of HpipmWorkspace for TLC: two horizons and two input     *)
(* dimensions (so that a resize can grow some blocks and not others), two  *)
(* IPM modes whose defaults differ from the requested iter_max, and the    *)
(* default OcpSize() (N = 0) and Settings().                               *)
(***************************************************************************)
EXTENDS HpipmWorkspace

\* OcpSize values: nx0 = 1 is the caller's stage-0 state dimension.
MCDefaultSize == [N |-> 0, nx0 |-> 0, nu |-> 0]
MCProblemSizes == {[N |-> n, nx0 |-> 1, nu |-> u] : n \in 1..2, u \in 1..2}
MCSizes == MCProblemSizes \cup {MCDefaultSize}

MCDefaultSettings == [mode |-> "SPEED", iter_max |-> 2]
MCSettingsSet == {MCDefaultSettings, [mode |-> "SPEED", iter_max |-> 1],
                  [mode |-> "ROBUST", iter_max |-> 2]}

MCDefaultIterMax(m) == IF m = "SPEED" THEN 1 ELSE 3

\* Memory sizes grow with the horizon and the per-stage dimensions; the IPM
\* workspace also holds one statistics row per iteration (iter_max).
MCDimMemsize(N) == N + 1
MCQpMemsize(d) == (d.N + 1) * (d.nu + 1)
MCQpSolMemsize(d) == (d.N + 1) * d.nu + 1
MCIpmArgMemsize(d) == 1
MCIpmWsMemsize(d, iter) == (d.N + 1) * (d.nu + 1) + iter
=============================================================================
