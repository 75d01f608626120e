---------------------------- MODULE MCCacheMiss ----------------------------
(***************************************************************************)
(* Small instances of CacheMiss.                                           *)
(***************************************************************************)
EXTENDS CacheMiss

(***************************************************************************)
(* A free slot's request and waiting bit are overwritten before any step   *)
(* reads them, so states that differ only in them have the same futures:   *)
(* the view is sound for the liveness properties as well.                  *)
(***************************************************************************)
View == <<freemap, waiting \ freemap, ready, [s \in Slot \ freemap |-> reqs[s]],
          missbufs, robVars, fillwait, recoveries>>
=============================================================================
