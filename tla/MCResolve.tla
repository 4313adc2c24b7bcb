----------------------------- MODULE MCResolve -----------------------------
(* Instances of Resolve for TLC. *)
EXTENDS Resolve, TLC

CONSTANTS c1, c2, r1, r2

DeadlineSet == {None}

\* A write to each thing an answer is made of.
Writes == {<<"SetUserAdmin", FALSE>>, <<"SetRateLimitOverride", "set">>,
           <<"ClearRateLimitOverride", None>>, <<"CreateCredential", 2>>,
           <<"RevokeCredential", 1>>, <<"SyncTeams", {"other"}>>,
           <<"SetOrg", "on">>, <<"SetTeamOverride", "off">>}

Conns == Permutations(Conn)
=============================================================================
