---------------------------- MODULE MCMigrations -----------------------------
(* Model values and instances for TLC.                                       *)
EXTENDS Migrations

CONSTANTS r1, r2

(* Like 0000_init.sql, whose statements all create something, 0001_fulltext, *)
(* whose statements can all be run again, and a file that mixes the two.     *)
ThreeFiles == << <<FALSE, FALSE>>, <<TRUE>>, <<TRUE, FALSE>> >>
==============================================================================
