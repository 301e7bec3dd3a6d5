---------------------------- MODULE MCAccountData ----------------------------
(* Three requests on an account with up to two dialects and one mapping. *)
EXTENDS AccountData, TLC

CONSTANTS r1, r2, r3

ThreeRequests == {r1, r2, r3}
TwoIds == 1 .. 2

Alike == Permutations(ThreeRequests)

=============================================================================
