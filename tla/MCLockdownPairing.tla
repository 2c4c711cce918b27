-------------------------- MODULE MCLockdownPairing --------------------------
(* LockdownPairing with two devices; the bounds on faults.                 *)
EXTENDS LockdownPairing

\* each behaviour has some of the faults, some of them twice
Allow(once, twice) ==
    [f \in FaultNames |-> IF f \in twice THEN 2 ELSE IF f \in once THEN 1 ELSE 0]
PairingFaults == {
    Allow({"lost", "save", "crash", "unplug", "restore", "remove"}, {}),
    Allow({"refuse", "crypto", "load", "unplug", "flush", "restore"}, {}),
    Allow({"unplug", "restore", "save"}, {"crash", "lost"}) }
=============================================================================
