---------------------------- MODULE MCConnection ----------------------------
(* Constants for model checking the connection to the PostgreSQL server.     *)
EXTENDS PQConnection

CONSTANTS r1, r2, r3, r4
=============================================================================
