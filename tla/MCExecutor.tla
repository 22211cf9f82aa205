----------------------------- MODULE MCExecutor -----------------------------
(* TLC instance of Executor. *)
EXTENDS Executor

CONSTANTS p1, p2, t1

Plan(key, steps) == [key |-> key, steps |-> steps]

\* Two requests on one target key: a step of every kind before another
\* (press_enter only differs from press by a further call of the same sort),
\* and two mutating plans that contend for the mutex.
MCWorkload ==
    {(p1 :> Plan(t1, <<k, "click">>) @@ p2 :> Plan(t1, <<"wait">>)) : k \in Kinds \ {"press_enter"}}
        \cup {(p1 :> Plan(t1, <<"type">>) @@ p2 :> Plan(t1, <<"navigate">>))}

=============================================================================
