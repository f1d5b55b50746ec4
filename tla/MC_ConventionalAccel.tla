------------------------ MODULE MC_ConventionalAccel ------------------------
(* The accelerator conventionalCompute on 2 x 8 inputs and 8 x 8 weights. *)
EXTENDS ConventionalAccel, MC_DenseCases

\* Outputs holding earlier partial sums.
AccumCases == { MkCase(2, 8, 8, 1, FALSE) }
=============================================================================
