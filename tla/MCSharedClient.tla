---------------------------- MODULE MCSharedClient ----------------------------
(* SharedClient for TLC: three tasks on two loops want one slot.  Of plans *)
(* that differ in the names of tasks and loops only one is taken.          *)
EXTENDS SharedClient, TLC

CONSTANTS t1, t2, t3, l1, l2

MCTasks == {t1, t2, t3}
MCLoops == {l1, l2}

Named(k, onSecond) ==
    [kind |-> t1 :> k[1] @@ t2 :> k[2] @@ t3 :> k[3],
     loop |-> t1 :> l1 @@ t2 :> onSecond @@ t3 :> onSecond]
Order == [request |-> 1, sync |-> 2, stream |-> 3, embed |-> 4]
Sorted(k, from, to) == Order[k[from]] <= Order[k[to]]
MCPlans ==
    {Named(k, l1) : k \in {f \in [1..3 -> Kinds] : Sorted(f, 1, 2) /\ Sorted(f, 2, 3)}}
    \cup {Named(k, l2) : k \in {f \in [1..3 -> Kinds] : Sorted(f, 2, 3)}}
=============================================================================
