---------------------------- MODULE MCTurnQueue ----------------------------
(* Small instances of TurnQueue *)
EXTENDS TurnQueue, TLC

CONSTANTS t1, t2, t3, c1, c2

MCTurns    == {t1, t2, t3}
MCBrowsers == {c1, c2}

\* An unbound turn between the turns of two clients, and a client turn
\* between two unbound ones.
MCBindings ==
    {t1 :> c1 @@ t2 :> Global @@ t3 :> c2,
     t1 :> Global @@ t2 :> c1 @@ t3 :> Global}
=============================================================================
