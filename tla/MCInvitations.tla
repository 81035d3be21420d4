--------------------------- MODULE MCInvitations ----------------------------
(* Instance of Invitations for TLC.                                        *)
EXTENDS Invitations

CONSTANTS a, b, c

\* a and c have one e-mail.
Clashes == {<<p, p>> : p \in People} \union {<<a, c>>, <<c, a>>}
RoleAt  == [p \in People |-> IF p = b THEN "lead" ELSE "tester"]

Req(kind, rows, strict, actor, role) ==
  [kind |-> kind, rows |-> rows, strict |-> strict, actor |-> actor,
   role |-> role, active |-> TRUE]

\* Two bulk requests that insert who clashes in opposite orders, and the
\* life of a user with its tokens.
Asked ==
  {Req("create", <<a>>, FALSE, "lead", None),
   Req("bulk", <<a, b>>, TRUE, "lead", None),
   Req("bulk", <<b, c>>, FALSE, "admin", None),
   Req("forgot", <<>>, FALSE, "lead", None),
   Req("reset", <<>>, FALSE, "lead", None),
   Req("edit", <<>>, FALSE, "admin", "admin"),
   [Req("edit", <<>>, FALSE, "lead", "lead") EXCEPT !.active = FALSE],
   Req("delete", <<>>, FALSE, "lead", None)}
=============================================================================
