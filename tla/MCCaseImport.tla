---------------------------- MODULE MCCaseImport ----------------------------
(* Instance of CaseImport for TLC.                                         *)
EXTENDS CaseImport

CONSTANTS q1, q2, q3

\* Three tags, one of them in two spellings, and a name of blanks.
Normal == [x \in {"a", " A", "b", "c", " "} |->
             IF x = " A" THEN "a" ELSE IF x = " " THEN "" ELSE x]

R(names) == [tags |-> names, bad |-> FALSE]
NoSuite  == [tags |-> <<>>, bad |-> TRUE]

(* Two imports that want a and b in opposite orders, and one case that     *)
(* wants c, which the first import wants too, and b.                       *)
Asked == [q \in Requests |->
  CASE q = q1 -> <<R(<<"a", " A">>), NoSuite, R(<<"c", "b">>), R(<<"a">>)>>
    [] q = q2 -> <<R(<<"b">>), R(<<" ", "a">>)>>
    [] OTHER  -> <<R(<<"c", "b">>)>>]
=============================================================================
