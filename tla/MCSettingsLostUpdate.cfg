\* Two saves of two sessions with the same expected version.
CONSTANTS
  Sessions = {s1, s2}
  Tenants = {acme}
  Events = {login, save}
  MaxSaves = 2
  MaxEntries = 3
  NoTenant = none
  Callers = {c1, c2}
  TenantNames = {acme, zeta}
  Names = {a}
  MaxRows = 3
  MaxChecks = 2
SPECIFICATION Spec
INVARIANT NoLostUpdate
