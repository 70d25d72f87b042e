------------------------------ MODULE MCTotals ------------------------------
(* Two audits from before the migration, new ones being ingested and two   *)
(* dashboard reads.                                                        *)
EXTENDS Totals, TLC

CONSTANTS old1, old2, new1, new2, l1, l2

MCLegacy == {old1, old2}
MCAudits == MCLegacy \cup {new1, new2}
MCFewAudits == {old1, new1}
MCFewLegacy == {old1}
MCLoaders == {l1, l2}
MCSymmetry ==
    Permutations(MCLegacy) \cup Permutations({new1, new2})
        \cup Permutations(MCLoaders)
=============================================================================
