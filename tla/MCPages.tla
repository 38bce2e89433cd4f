------------------------------- MODULE MCPages -------------------------------
(***************************************************************************)
(* A small instance of Pages: a few mixes of what may happen.              *)
(***************************************************************************)
EXTENDS Pages

Never == [event \in Events |-> 0]

Mixes == {
    [Never EXCEPT !["keys"] = 1, !["changes"] = 1, !["failures"] = 1],
    [Never EXCEPT !["submits"] = 2, !["expiries"] = 1],
    [Never EXCEPT !["submits"] = 1, !["expiries"] = 1, !["failures"] = 1],
    [Never EXCEPT !["submits"] = 2, !["expiries"] = 1, !["logouts"] = 1],
    [Never EXCEPT !["submits"] = 1, !["expiries"] = 1, !["visits"] = 1],
    [Never EXCEPT !["suspensions"] = 1, !["expiries"] = 1, !["submits"] = 1]}
=============================================================================
