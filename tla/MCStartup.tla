----------------------------- MODULE MCStartup -----------------------------
(* A deployment in progress: one container ships a migration the other one *)
(* does not know.                                                          *)
EXTENDS Startup

CONSTANTS api, api2

MCRelease == [c \in Containers |-> IF c = api THEN 3 ELSE 2]
=============================================================================
