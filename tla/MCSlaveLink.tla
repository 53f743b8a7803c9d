---- MODULE MCSlaveLink ----
(* Instances of SlaveLink for TLC. *)
EXTENDS SlaveLink

====
