------------------------------- MODULE MCStores -------------------------------
(***************************************************************************)
(* Where records are kept: the database, and the memory of the control     *)
(* plane.  They share nothing, so a behaviour of this module is one of     *)
(* either, while the other is left alone.  The configuration takes one set *)
(* of names for the callers of the one and the threads of the other.       *)
(***************************************************************************)
EXTENDS MCPersistence, ControlPlane

VARIABLE side   \* the store in use

StoresInit ==
  /\ Init /\ ControlInit
  /\ \/ side = "database" /\ workers = 1
     \/ side = "memory" /\ focus = "repositories"

databaseVars == <<repositoryVars, recordVars, migrationVars, focus>>

StoresNext ==
  /\ UNCHANGED side
  /\ \/ side = "database" /\ Next /\ UNCHANGED controlVars
     \/ side = "memory" /\ ControlNext /\ UNCHANGED databaseVars

StoresSpec == StoresInit /\ [][StoresNext]_<<databaseVars, controlVars, side>>

StoresTypeOK == TypeOK /\ ControlTypeOK

===============================================================================
