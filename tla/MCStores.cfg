\* Three sessions of one tenant, two saves and two audit entries; two callers, three
\* records and two checks of API keys; every migration from every revision.  Two threads of
\* the control plane; two failures lock an account for two ticks.
CONSTANTS
  Sessions = {c1, c2, c3}
  Tenants = {acme}
  Events = {login, save}
  MaxSaves = 2
  MaxEntries = 2
  NoTenant = none
  Callers = {c1, c2}
  TenantNames = {acme, zeta}
  Names = {a}
  MaxRows = 3
  MaxChecks = 2
  Threads = {c1, c2}
  NewEmails = {"new"}
  Logins = {"SUPER_ADMIN", "VIEWER", "new"}
  MaxFailures = 2
  LockTime = 2
  SessionTime = 2
  MaxTime = 3
  MaxRecords = 3
  MaxUsers = 6
SPECIFICATION StoresSpec
SYMMETRY Symmetry
CHECK_DEADLOCK FALSE
INVARIANTS StoresTypeOK EveryReaderVerifies SerialSavesCount TenantsApart LiveStartsAreChecked SoundCommandsSucceed StampedTablesExist EverythingIsAudited NoRecordIsLost SerialRequestsAreSound GuessesBounded
