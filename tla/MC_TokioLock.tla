---------------------------- MODULE MC_TokioLock ----------------------------
(***************************************************************************)
(* TokioLock with three callers, which suffices for one that holds, one    *)
(* that leaves and one that comes, and a second key to tell tables from    *)
(* single entries.  Every caller and every key may need its own mutex.     *)
(***************************************************************************)
EXTENDS TokioLock

CONSTANTS c1, c2, c3, k1, k2, m1, m2, m3, none

MCCaller == {c1, c2, c3}
MCKey == {k1, k2}
MCMutex == {m1, m2, m3}
=============================================================================
