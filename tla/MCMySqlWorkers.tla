---------------------------- MODULE MCMySqlWorkers ----------------------------
(***************************************************************************)
(* Small instances of MySqlWorkers for TLC.                                *)
(***************************************************************************)
EXTENDS MySqlWorkers, TLC

NoDisturbance == [d \in Disturbance |-> 0]

StopsOnly == [NoDisturbance EXCEPT !["stop"] = 1]

CrashesAndStops == [StopsOnly EXCEPT !["crash"] = 1]

OneFault == [NoDisturbance EXCEPT !["crash"] = 1, !["storage"] = 1, !["audit"] = 1]

(* Below, at and above the least number of attempts a push may ask for.     *)
BoundaryAttempts == {-1, 0, 2}

DecodableSymmetry == Permutations(Worker) \cup Permutations(Job \ Undecodable)

(* Without a quota no guard reads the two counters of a process, and the    *)
(* properties of mysql_faults do not either.                                *)
CountersHidden ==
    <<pc, held, stopping, tableVars, historyVars, dispatching, trail, left>>

(* No guard reads the activity log, the count of failures or of successes,  *)
(* and of the properties of mysql_contract only the type invariant does.    *)
TrailHidden ==
    <<pc, held, processed, stopping, tableVars, delivered, outcome, dispatching, left>>
===============================================================================
