----------------------------- MODULE MCSession -----------------------------
(* TLC instances of Session, and what the code says of itself where it does *)
(* otherwise.                                                               *)
EXTENDS Session

\* api/auth_routes.py:94: the first user to register becomes administrator,
\* and so only one does.
OneAdmin == Cardinality({i \in Ids : users[i].admin}) <= 1
=============================================================================
