--------------------------- MODULE MCCostApproval ---------------------------
(***************************************************************************)
(* Small instance of CostApproval: three messages in two conversations the  *)
(* adapters can name and one they cannot.                                  *)
(***************************************************************************)
EXTENDS CostApproval, TLC

MCConfig(mode, local, model) ==
    [configured |-> TRUE, costApproval |-> mode, local |-> local, keys |-> TRUE, model |-> model]

\* The gate engaged, with and without a local model to fall back on; a model
\* that is billed nowhere; and the gate out of the way.
MCConfigs == {MCConfig("ask", TRUE, "byok"), MCConfig("ask", FALSE, "byok"),
              MCConfig("ask", TRUE, "vaulted"), MCConfig("always-spend", TRUE, "byok")}

Symmetry == Permutations(Turns) \cup Permutations(Keyed)
=============================================================================
