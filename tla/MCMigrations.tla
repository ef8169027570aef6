---------------------------- MODULE MCMigrations ----------------------------
(* Small instances of Migrations for TLC. *)
EXTENDS Migrations

CONSTANTS m1, m2

(* Three contexts; the last file of the second is the one in doubt. *)
MCFileCount == <<1, 2, 1>>

MCDoubtful == {<<2, 2>>}
=============================================================================
