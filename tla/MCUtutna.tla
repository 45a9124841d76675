------------------------------ MODULE MCUtutna ------------------------------
(* Instances of Ututna for TLC: command lines, and small default loops.    *)
EXTENDS Ututna

FewLoops == [FFT |-> 2, GEMM |-> 3, MAP |-> 2, PNG |-> 2, PHYSICS |-> 2,
             HASH |-> 2]

OneCounter == {<<"r", 29>>}

\* No id; each id with no, one and more loops; an id that selects nothing,
\* and the self test's.
AllArgs == {[id |-> 0, loops |-> 0]} \cup
           [id : {600, 601, 603, 609, 614, 607}, loops : {1, 3}] \cup
           [id : {0, 600, 601, 603, 609, 614, 607}, loops : {-1}] \cup
           {[id |-> 7, loops |-> 0], [id |-> 1000, loops |-> 0]}
=============================================================================
