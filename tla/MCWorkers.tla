------------------------------ MODULE MCWorkers ------------------------------
(***************************************************************************)
(* Two workers on one queue.  In a storm they have the job of an upload;   *)
(* in calm weather and in quiet times two jobs compete, that of the upload *)
(* is the more urgent one, and clients repeat their requests with          *)
(* idempotency keys.                                                       *)
(***************************************************************************)
EXTENDS MCJobQueue

CONSTANT k1   \* a client's idempotency key

UploadsFirst == [j \in Jobs |-> IF j = j1 THEN 0 ELSE 1]

WeatherNext == Next /\ (weather = "storm" => status'[j2] = "absent")

WeatherSpec == Init /\ [][WeatherNext]_vars
=============================================================================
