----------------------------- MODULE MCTelemetry ------------------------------
(* A small instance of Telemetry: two chunks, windows of up to two.          *)
EXTENDS Telemetry
===============================================================================
