----------------------------- MODULE MCPosture -----------------------------
EXTENDS Posture, TLC

CONSTANTS aws, azure, w1, w2

MCProviders == {aws, azure}
MCWorkers == {w1, w2}
MCSeverities == {"CRITICAL", "LOW"}
(* The first and the third audit are of one provider, and the lengths of   *)
(* the keys leave every remainder by three.                                *)
MCProvider == 1 :> aws @@ 2 :> azure @@ 3 :> aws
MCKeyBytes == 1 :> 121 @@ 2 :> 122 @@ 3 :> 123
(* This container is sent the audits of one provider; those, and all of    *)
(* the other's, may also come through others.                              *)
MCHere == {1, 3}
(* -1 is raised to 1 and 9 cut to MaxLimit.                                *)
MCLimits == {-1, 1, 2, 9}
MCSymmetry == Permutations(MCWorkers)
=============================================================================
