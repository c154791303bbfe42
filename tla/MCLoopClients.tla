---------------------------- MODULE MCLoopClients ----------------------------
(***************************************************************************)
(* LoopClients with two threads.  Four addresses are enough for two loops  *)
(* in each thread; entries of closed loops compete for them, as they do    *)
(* for memory, so addresses are reused.                                    *)
(***************************************************************************)
EXTENDS LoopClients, TLC

CONSTANTS t1, t2, i1, i2, i3, i4

MCThreads == {t1, t2}
MCIds == {i1, i2, i3, i4}

(* Workers of a thread pool that do nothing but chat().                    *)
PoolStep(t) ==
    \/ Chat(t)
    \/ ScanEnd(t) \/ ScanFails(t) \/ SweepFails(t) \/ SweepEnd(t)
    \/ Lookup(t) \/ FillFresh(t)
    \/ \E k \in Ids : ScanKey(t, k) \/ Sweep(t, k)
    \/ \E how \in {"value", "error", "runtime"} : Finish(t, how)

PoolNext == (\E t \in Threads : PoolStep(t)) \/ Terminated

PoolSpec == Init /\ [][PoolNext]_vars

Symmetric == Permutations(MCThreads) \cup Permutations(MCIds)
=============================================================================
