---------------------------- MODULE MCPmsInstall ----------------------------
(* Small instances of PmsInstall for TLC.                                  *)
EXTENDS PmsInstall, TLC

\* None of these differ in anything.
Symmetry == Permutations(Tabs) \cup Permutations(Users)
                \cup Permutations(Codes) \cup Permutations(Hotels)
=============================================================================
