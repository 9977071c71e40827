------------------------------- MODULE MCImport -------------------------------
(* Two revisions of a split of four items.  The second revision changes the *)
(* sessions of the first item and replaces the last two; one question is    *)
(* asked twice, one item of it has no sessions.                             *)
EXTENDS Import

CONSTANTS q1, q2, s1, s2, s3, U

MCData == <<
  << [q |-> q1, hay |-> <<s1, s2>>], [q |-> q1, hay |-> <<s2>>],
     [q |-> q2, hay |-> <<s1>>], [q |-> q2, hay |-> <<s3>>] >>,
  << [q |-> q1, hay |-> <<s3>>], [q |-> q1, hay |-> <<s2>>],
     [q |-> q2, hay |-> <<s2>>], [q |-> q1, hay |-> <<>>] >> >>

Conf(method, pin, limit, seed, mode) ==
  [method |-> method, pin |-> pin, limit |-> limit, seed |-> seed, mode |-> mode]

MCConfigs ==
  {Conf(m, U, l, 0, "context") : m \in {"download", "rows"}, l \in {0, 3}}
    \cup {Conf("download", 1, l, 7, "context") : l \in {0, 2}}
    \cup {Conf("rows", 1, 2, 7, "memory"), Conf("download", U, 2, 7, "context")}
=============================================================================
