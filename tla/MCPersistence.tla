---------------------------- MODULE MCPersistence ----------------------------
(***************************************************************************)
(* The modules of the database.  A behaviour of this module is one of the  *)
(* repositories that compute what they write, of those that keep records,  *)
(* or of the migrations, while the rest of the database is left alone.     *)
(***************************************************************************)
EXTENDS Repositories, TenantRecords, Migrations, TLC

VARIABLE focus   \* the part of the database in use

Init ==
  /\ focus \in {"repositories", "records", "migrations"}
  /\ RepositoriesInit /\ RecordsInit /\ MigrationsInit

Next ==
  /\ UNCHANGED focus
  /\ \/ focus = "repositories" /\ RepositoriesNext /\ UNCHANGED <<recordVars, migrationVars>>
     \/ focus = "records" /\ RecordsNext /\ UNCHANGED <<repositoryVars, migrationVars>>
     \/ focus = "migrations" /\ MigrationsNext /\ UNCHANGED <<repositoryVars, recordVars>>

Spec == Init /\ [][Next]_<<repositoryVars, recordVars, migrationVars, focus>>

TypeOK == RepositoriesTypeOK /\ RecordsTypeOK /\ MigrationsTypeOK

Symmetry == Permutations(Callers)

=============================================================================
