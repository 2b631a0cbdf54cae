------------------------------ MODULE MCSession ------------------------------
(***************************************************************************)
(* An instance of Session for TLC: an account with a username and one      *)
(* without, and a name that is free.                                       *)
(***************************************************************************)
EXTENDS Session

CONSTANTS a, b, n1, n2

MCStarts ==
    {[x \in {a, b} |-> [account |-> x, exists |-> TRUE, saved |-> FALSE,
                        name |-> IF x = a THEN n1 ELSE None]]}

\* A bound: once the token was replaced under the page, a second request is explored
\* only beside one of the login form.
Bound == replaced => Len(calls) <= 1 \/ \E i \in CallIds : calls[i].hook = "login"
=============================================================================
