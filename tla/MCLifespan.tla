----------------------------- MODULE MCLifespan -----------------------------
(* Containers and services of the small instance of Lifespan.               *)
EXTENDS Lifespan, TLC

CONSTANTS web, ui

MCNameOf == [c \in Container |-> IF c = web THEN <<"bag", "main", "vite", "1">>
                                 ELSE <<"bag", "main", "ui", "1">>]
MCServices == <<"vite", "ui">>
MCProject == [s \in {"vite", "ui"} |-> <<"bag", "main">>]
MCComposeService == [s \in {"vite", "ui"} |-> <<s>>]
Symmetric == Permutations(Task)
=============================================================================
