---------------------------- MODULE MCMigrations ----------------------------
(* Migrations for TLC: the migrators of two releases, of one in which the  *)
(* second file was edited and of one with two files for a version.         *)
EXTENDS Migrations

CONSTANTS old, new, edited, twin, c, e

Entry(v, sum) == [version |-> v, checksum |-> sum]

ReleaseOf ==
  [m \in {old, new, edited, twin} |->
    CASE m = old    -> <<Entry(1, c), Entry(2, c)>>
      [] m = new    -> <<Entry(1, c), Entry(2, c), Entry(3, c)>>
      [] m = edited -> <<Entry(1, c), Entry(2, e)>>
      [] m = twin   -> <<Entry(1, c), Entry(1, e)>>]
=============================================================================
