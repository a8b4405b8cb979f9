---------------------------- MODULE MCTokenRefresh ----------------------------
(* The surroundings that the runs of TokenRefresh start in.                  *)
EXTENDS TokenRefresh

Around(signed_in, authorizes, prompt, faults, restarts) ==
    [signed_in |-> signed_in, authorizes |-> authorizes, prompt |-> prompt,
     faults |-> faults, restarts |-> restarts]

\* Nothing fails and nothing is slow.
Steady == Around(TRUE, TRUE, TRUE, {}, 0)

\* Answers of the endpoint are lost, the store refuses, and every await may last.
Storm == Around(TRUE, TRUE, FALSE, {"Network", "Store"}, 0)

\* Sessions fail to authenticate, the store refuses, and the program stops once.
Broken == Around(TRUE, FALSE, FALSE, {"Pipe", "Store"}, 1)

\* Endpoint and sessions fail, and the user revokes the access.
Revoked == Around(TRUE, FALSE, FALSE, {"Network", "Pipe", "Revocation"}, 1)

EveryWorld == {Steady, Storm, Broken, Revoked}

\* The program starts with nothing stored, and the user authorizes it.
FreshInstall == {Around(FALSE, TRUE, TRUE, {}, 0)}
=============================================================================
