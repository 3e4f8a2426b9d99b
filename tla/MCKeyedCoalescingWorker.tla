------------------------ MODULE MCKeyedCoalescingWorker ------------------------
(* Small instances of the keyed coalescing worker.                         *)
EXTENDS KeyedCoalescingWorker

CONSTANTS k1, k2, k3
=============================================================================
