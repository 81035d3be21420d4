------------------------------ MODULE MCUpload ------------------------------
(* Instance of Upload for TLC.                                             *)
EXTENDS Upload

CONSTANTS u1, u2, u3, c1, c2, c3

(* c2 and c3 have one automation_id, which is the title of c2 as well; c1  *)
(* and c3 have one title.                                                  *)
AutomationOf == [c \in Cases |-> IF c = c1 THEN "m.py::t" ELSE "m.py::s"]
TitleOf == [c \in Cases |-> IF c = c2 THEN "m.s" ELSE "t"]

DottedForm == [k \in {"m.py::t", "m.py::s", "t", "m.s"} |->
  CASE k = "m.py::t" -> "m.t" [] k = "m.py::s" -> "m.s" [] OTHER -> k]

Element(key, name, mark) == [key |-> key, name |-> name, mark |-> mark]

(* The dotted form of c1 and of the pair, and a title.  In a JSON report   *)
(* the entry with the title has a status that is none: it goes to c3 once  *)
(* c1 is deleted, and is one entry too many for c1 once c3 is.             *)
JUnit == <<Element("m.t", "t", "error"), Element("m.s", "s", None),
           Element("m", None, "failure")>>
Json == <<Element("m.t", "t", "passed"), Element("m.s", "s", "skipped"),
          Element("t", "t", "unknown")>>
Files == [u \in Uploads |-> IF u = u1 THEN JUnit ELSE Json]

Args(create, strict, close, form, files) ==
  [create |-> create, strict |-> strict, close |-> close, form |-> form,
   files |-> files]
Scripts == [u \in Uploads |->
  CASE u = u1 -> Args(TRUE, TRUE, TRUE, "junit", {"m.py::t"})
    [] u = u2 -> Args(FALSE, FALSE, TRUE, "json", {})
    [] OTHER  -> Args(FALSE, FALSE, FALSE, "json", {"m.py::t", "m.py::s"})]
=============================================================================
