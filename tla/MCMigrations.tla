--------------------------- MODULE MCMigrations ---------------------------
(***************************************************************************)
(* An instance of Migrations: the revisions an operator moves to, on both  *)
(* sides of every revision that looks at rows or at the dialect.           *)
(***************************************************************************)
EXTENDS Migrations

MCTargets == {1, 10, 15, 17}

\* The same down to an empty database, whose enum types a downgrade leaves.
MCDeepTargets == {0, 8}

\* b8c9d0e1f2a3:124, "Resolve or delete them, then re-run upgrade", on both databases.
RerunCompletes == <>[](disk.version = Latest /\ ~run.on)

\* d3e4f5a6b7c8:21, on SQLite "the model and migration already agree".
MandatesReadable == disk.version = Latest => disk.rows.mandate # "active"
=============================================================================
