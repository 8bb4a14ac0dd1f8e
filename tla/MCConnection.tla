----------------------------- MODULE MCConnection -----------------------------
(* Both transports, one repeated hello at a time.                             *)
EXTENDS Connection
===============================================================================
