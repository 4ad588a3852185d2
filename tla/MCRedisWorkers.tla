---------------------------- MODULE MCRedisWorkers ----------------------------
(***************************************************************************)
(* Small instances of RedisWorkers for TLC.                                *)
(***************************************************************************)
EXTENDS RedisWorkers

NoDisturbance == [d \in Disturbance |-> 0]

StopsOnly == [NoDisturbance EXCEPT !["stop"] = 1]

CrashesAndStops == [StopsOnly EXCEPT !["crash"] = 1]

(* Anything but a failing activity entry, which the contract excludes.      *)
OutsideEntries == [CrashesAndStops EXCEPT !["storage"] = 1]

OneFault == [NoDisturbance EXCEPT !["crash"] = 1, !["storage"] = 1, !["audit"] = 1]

BoundaryAttempts == {-1, 0, 2}
===============================================================================
