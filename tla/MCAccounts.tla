----------------------------- MODULE MCAccounts -----------------------------
(* The operations that compete for an account, and for a counter of a Redis *)
(* that may fail; and those for the sessions of an account.                 *)
EXTENDS Accounts, TLC

MCScenes ==
    [ops : {{"register", "login"}}, alone : {FALSE}, steady : BOOLEAN]
        \cup [ops : {{"login", "refresh", "logout"}}, alone : BOOLEAN, steady : {TRUE}]

\* Which worker runs a request, and which browser sends it, makes no difference.
Interchangeable == Permutations(Workers) \cup Permutations(Browsers)
=============================================================================
