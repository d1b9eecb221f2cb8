---------------------------- MODULE MCThreadList ----------------------------
(***************************************************************************)
(* Small instances of ThreadList.  Threads are interchangeable except for  *)
(* the debugger's; the configurations that use Symmetry attach all threads *)
(* or only the debugger's at the start, so Attached is symmetric as well.  *)
(***************************************************************************)
EXTENDS ThreadList, TLC

Symmetry == Permutations(Threads \ {DebugThread})
=============================================================================
