----------------------------- MODULE MCTestRuns -----------------------------
(* Instances of TestRuns for TLC.                                          *)
EXTENDS TestRuns, TLC

RequestSymmetry == Permutations(Requests)

Plain == {[kind |-> k] : k \in {"result", "close", "delete", "restore"}}
Puts  == {[kind |-> "put", status |-> s] : s \in InputStatus}
SinglePicks == {[kind |-> "cases", ids |-> {c}] : c \in Cases}
Picks == SinglePicks \union {[kind |-> "cases", ids |-> Cases]}

PlainAndPicks == Plain \union Picks
AllOps == Plain \union Puts \union Picks
=============================================================================
