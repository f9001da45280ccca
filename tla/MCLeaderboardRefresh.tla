------------------------ MODULE MCLeaderboardRefresh ------------------------
(* A guild with two subs who want the same name, one send of that name, the *)
(* poller and one call of the ops API.                                      *)
EXTENDS LeaderboardRefresh, MCStandings, TLC

CONSTANTS u1, u2, n1, n3, s1, lounge, hall

MCAsks == {[user |-> u1, primary |-> n1, names |-> {n1}],
           [user |-> u2, primary |-> n3, names |-> {n1, n3}]}
Symmetry == Permutations({lounge, hall})
MCLegacy == {[user |-> u2, name |-> n1]}
MCNameOf == [s \in {s1} |-> n1]
=============================================================================
