---------------------------- MODULE MCCronService ----------------------------
(* Errors are followed by delays of one and then two time units.            *)
EXTENDS CronService

MCBackoffs == <<1, 2>>
=============================================================================
