---------------------------- MODULE TenantRecords ----------------------------
(***************************************************************************)
(* The SQL repositories of db/repositories.py that keep one row per record *)
(* of a tenant: TenantRepository, BotInstanceRepository and                *)
(* ExchangeCredentialRepository, and live_start_allowed, which decides on  *)
(* a credential that a repository returned.                                *)
(*                                                                         *)
(* A session begins a transaction for the tenant its caller was resolved   *)
(* to, or for no tenant (a platform operator), and calls the repositories  *)
(* with identifiers that may be anyone's.  The database is external and at *)
(* READ COMMITTED, as in Repositories.  An exception rolls the transaction *)
(* back.  uuid4 never repeats: an identifier is the next number.           *)
(*                                                                         *)
(* What the exchange says of an API key is external too: a check finds     *)
(* that it may withdraw or that it may not, and is recorded later.  A name *)
(* stands for a name, or for an exchange and a masked key; the encrypted   *)
(* payload and the times are dropped.                                      *)
(***************************************************************************)
EXTENDS Naturals, Sequences

CONSTANTS
  Callers,     \* the sessions
  TenantNames, \* names of tenants
  Names,       \* names of bots, and exchanges with masked API keys
  MaxRows,     \* bound of the model: rows ever inserted
  MaxChecks    \* bound of the model: checks of API keys

ASSUME RecordBoundsAssumption == MaxRows \in Nat /\ MaxChecks \in Nat

Operator == 0   \* the tenant of a session that works for none
Ids == 1..MaxRows

VARIABLES
  rows,      \* the committed rows of the three tables, by identifier
  work,      \* the transaction of each session
  issued,    \* how many identifiers were used
  findings,  \* what each check found: whether the key may withdraw
  latest,    \* the latest check of each credential of which a record was committed
  raced      \* the credentials of which two checks overlapped

recordVars == <<rows, work, issued, findings, latest, raced>>

-----------------------------------------------------------------------------
(* Rows.                                                                   *)
(*                                                                         *)
(* withdrawal is withdrawal_permission_verified, and check the check that  *)
(* the last UPDATE of a credential recorded, 0 if none.                    *)

NewRow(table, owner, name) ==
  [table |-> table, owner |-> owner, name |-> name,
   status |-> CASE table = "tenants" -> "ACTIVE"
                [] table = "bot_instances" -> "STOPPED"
                [] OTHER -> "PENDING",
   withdrawal |-> "unknown", check |-> 0]

\* The unique constraints: (name), (tenant_id, name), (tenant_id, exchange, api_key_masked).
SameKey(r, q) ==
  r.table = q.table /\ r.name = q.name /\ (r.table = "tenants" \/ r.owner = q.owner)

\* active   whether a transaction is open
\* tenant   the tenant the session works for
\* mine     the rows inserted and updated, not committed
\* held     the rows that the last read returned
\* credential   the credential that was checked, 0 if none
\* check    the number of a check that is not recorded yet, 0 if none
\* allowed  whether live_start_allowed allowed a live start on the rows held
Closed == [active |-> FALSE, tenant |-> Operator, mine |-> <<>>, held |-> <<>>,
           credential |-> 0, check |-> 0, allowed |-> FALSE]

Open(s) == work[s].active

\* What a statement of the session sees: its own writes, and otherwise what is committed.
Visible(s) ==
  [id \in DOMAIN work[s].mine \cup DOMAIN rows |->
     IF id \in DOMAIN work[s].mine THEN work[s].mine[id] ELSE rows[id]]

\* A table in which one row is new or replaced.
With(table, id, row) ==
  [x \in DOMAIN table \cup {id} |-> IF x = id THEN row ELSE table[x]]
Only(id, row) == With(<<>>, id, row)

OtherCallers(s) == Callers \ {s}

\* Rows matched by WHERE id AND tenant_id.
FaultyMatches(s, table, id) == id \in DOMAIN Visible(s) /\ Visible(s)[id].table = table
Matches(s, table, id) ==
  /\ id \in DOMAIN Visible(s)
  /\ Visible(s)[id].table = table
  /\ Visible(s)[id].owner = work[s].tenant

RecordsInit ==
  /\ rows = <<>>
  /\ work = [s \in Callers |-> Closed]
  /\ issued = 0
  /\ findings = <<>>
  /\ latest = [id \in Ids |-> 0]
  /\ raced = {}

BeginFor(s, tenant) ==
  /\ ~Open(s)
  /\ tenant = Operator \/ (tenant \in DOMAIN rows /\ rows[tenant].table = "tenants")
  /\ work' = [work EXCEPT ![s] = [Closed EXCEPT !.active = TRUE, !.tenant = tenant]]
  /\ UNCHANGED <<rows, issued, findings, latest, raced>>

Greater(a, b) == IF a > b THEN a ELSE b

CommitRecords(s) ==
  /\ Open(s)
  /\ rows' = Visible(s)
  /\ latest' = [id \in Ids |-> IF id \in DOMAIN work[s].mine
                               THEN Greater(latest[id], work[s].mine[id].check)
                               ELSE latest[id]]
  /\ work' = [work EXCEPT ![s] = Closed]
  /\ UNCHANGED <<issued, findings, raced>>

Undo(s) == work' = [work EXCEPT ![s] = Closed]

\* The caller gives up or crashes, or the database resolves a deadlock.
RollbackRecords(s) ==
  /\ Open(s)
  /\ Undo(s)
  /\ UNCHANGED <<rows, issued, findings, latest, raced>>

-----------------------------------------------------------------------------
(* The repositories.                                                       *)

Returned(s, table) == [work[s] EXCEPT !.held = table, !.allowed = FALSE]

Inserted(r) == DOMAIN work[r].mine \ DOMAIN rows

\* INSERT and the SELECT that follows it; it waits while another transaction has inserted the
\* same key, and fails if the key exists or the tenant does not (IntegrityError).
Insert(s, row) ==
  /\ Open(s)
  /\ issued < MaxRows
  /\ ~\E r \in OtherCallers(s) : \E id \in Inserted(r) : SameKey(work[r].mine[id], row)
  /\ IF \/ \E id \in DOMAIN Visible(s) : SameKey(Visible(s)[id], row)
        \/ row.table # "tenants" /\ row.owner \notin DOMAIN Visible(s)
     THEN Undo(s) /\ UNCHANGED issued
     ELSE /\ issued' = issued + 1
          /\ work' = [work EXCEPT ![s] = [Returned(s, Only(issued + 1, row)) EXCEPT
                                            !.mine = With(@, issued + 1, row)]]
  /\ UNCHANGED <<rows, findings, latest, raced>>

CreateTenant(s, name) == Insert(s, NewRow("tenants", issued + 1, name))
CreateBot(s, name) == Insert(s, NewRow("bot_instances", work[s].tenant, name))
SaveCredential(s, name) == Insert(s, NewRow("exchange_credentials", work[s].tenant, name))

\* The get of each repository.
Get(s, table, id) ==
  /\ Open(s)
  /\ IF Matches(s, table, id)
     THEN work' = [work EXCEPT ![s] = Returned(s, Only(id, Visible(s)[id]))]
     ELSE Undo(s)                                     \* RepositoryNotFoundError
  /\ UNCHANGED <<rows, issued, findings, latest, raced>>

\* BotInstanceRepository.list
ListBots(s) ==
  /\ Open(s)
  /\ LET bots == {id \in DOMAIN Visible(s) : Matches(s, "bot_instances", id)} IN
     work' = [work EXCEPT ![s] = Returned(s, [id \in bots |-> Visible(s)[id]])]
  /\ UNCHANGED <<rows, issued, findings, latest, raced>>

\* An UPDATE waits while another transaction has written the row.  One that matches no row
\* is found out by its rowcount, or by the SELECT that follows it.
Update(s, table, id, row) ==
  /\ ~\E r \in OtherCallers(s) : id \in DOMAIN rows \cap DOMAIN work[r].mine
  /\ IF Matches(s, table, id)
     THEN work' = [work EXCEPT ![s] = [Returned(s, Only(id, row)) EXCEPT
                      !.mine = With(@, id, row),
                      !.check = IF id = work[s].credential THEN 0 ELSE @]]
     ELSE Undo(s)                                     \* RepositoryNotFoundError

\* BotInstanceRepository.set_status
SetStatus(s, id, status) ==
  /\ Open(s)
  /\ Update(s, "bot_instances", id, [Visible(s)[id] EXCEPT !.status = status])
  /\ UNCHANGED <<rows, issued, findings, latest, raced>>

\* The exchange is asked what a key may do: the result is recorded later.
CheckKey(s, id, finding) ==
  /\ Open(s)
  /\ Len(findings) < MaxChecks
  /\ work[s].check = 0 /\ work[s].credential \in {0, id}
  /\ Matches(s, "exchange_credentials", id)
  /\ findings' = Append(findings, finding)
  /\ work' = [work EXCEPT ![s].credential = id, ![s].check = Len(findings) + 1]
  /\ raced' = IF \E r \in OtherCallers(s) : work[r].credential = id THEN raced \cup {id} ELSE raced
  /\ UNCHANGED <<rows, issued, latest>>

Verification(finding) ==
  IF finding = "no" THEN "VERIFIED" ELSE "REJECTED_WITHDRAWAL_PERMISSION"

\* ExchangeCredentialRepository.mark_verified
MarkVerified(s) ==
  /\ Open(s)
  /\ work[s].check > 0
  /\ LET id == work[s].credential
         finding == findings[work[s].check]
     IN  Update(s, "exchange_credentials", id,
                [Visible(s)[id] EXCEPT !.status = Verification(finding),
                                       !.withdrawal = finding, !.check = work[s].check])
  /\ UNCHANGED <<rows, issued, findings, latest, raced>>

\* A credential is good unless it was found that it may withdraw.
FaultyCredentialVerified(row) == row.table = "exchange_credentials" /\ row.withdrawal # "yes"
CredentialVerified(row) ==
  row.table = "exchange_credentials" /\ row.status = "VERIFIED" /\ row.withdrawal = "no"

\* live_start_allowed on the credential read before, if any.  permitted stands for its other
\* conditions: the environment, the approved strategy, the risk settings, the confirmation.
LiveStart(s, permitted) ==
  /\ Open(s)
  /\ LET verified == \E id \in DOMAIN work[s].held : CredentialVerified(work[s].held[id])
     IN  work' = [work EXCEPT ![s].allowed = verified /\ permitted]
  /\ UNCHANGED <<rows, issued, findings, latest, raced>>

RecordsNext ==
  \E s \in Callers :
    \/ \E tenant \in Ids \cup {Operator} : BeginFor(s, tenant)
    \/ CommitRecords(s) \/ RollbackRecords(s) \/ ListBots(s) \/ MarkVerified(s)
    \/ \E name \in TenantNames : CreateTenant(s, name)
    \/ \E name \in Names : CreateBot(s, name) \/ SaveCredential(s, name)
    \/ Get(s, "tenants", work[s].tenant)
    \/ \E id \in Ids : \/ Get(s, "bot_instances", id) \/ Get(s, "exchange_credentials", id)
                      \/ \E status \in {"RUNNING", "STOPPED"} : SetStatus(s, id, status)
                      \/ \E finding \in {"yes", "no"} : CheckKey(s, id, finding)
    \/ \E permitted \in BOOLEAN : LiveStart(s, permitted)

RecordsSpec == RecordsInit /\ [][RecordsNext]_recordVars

-----------------------------------------------------------------------------
(* Properties.                                                             *)

Records ==
  [table : {"tenants", "bot_instances", "exchange_credentials"}, owner : Ids,
   name : TenantNames \cup Names,
   status : {"ACTIVE", "STOPPED", "RUNNING", "PENDING", "VERIFIED", "REJECTED_WITHDRAWAL_PERMISSION"},
   withdrawal : {"unknown", "yes", "no"}, check : 0..MaxChecks]

RecordTable(t) == DOMAIN t \subseteq Ids /\ \A id \in DOMAIN t : t[id] \in Records

RecordsTypeOK ==
  /\ RecordTable(rows)
  /\ \A s \in Callers :
       /\ work[s].active \in BOOLEAN /\ work[s].allowed \in BOOLEAN
       /\ work[s].tenant \in Ids \cup {Operator} /\ work[s].credential \in Ids \cup {0}
       /\ work[s].check \in 0..MaxChecks
       /\ RecordTable(work[s].mine) /\ RecordTable(work[s].held)
  /\ issued \in 0..MaxRows
  /\ findings \in Seq({"yes", "no"})
  /\ latest \in [Ids -> 0..MaxChecks]
  /\ raced \subseteq Ids

\* No transaction reads or writes a row of another tenant, whatever identifiers its caller
\* passes (the tenant_id in every WHERE; "No method accepts an unscoped customer-owned
\* identifier").
TenantsApart ==
  \A s \in Callers : \A table \in {work[s].mine, work[s].held} : \A id \in DOMAIN table :
    table[id].table # "tenants" => table[id].owner = work[s].tenant

\* Live trading is allowed only on a credential of the caller's tenant whose recorded check
\* found that the key may not withdraw; and the recorded check is the latest one of which a
\* record was committed, unless checks of the credential overlapped (mark_verified,
\* live_start_allowed).
LiveStartsAreChecked ==
  /\ \A s \in Callers : work[s].allowed =>
       \E id \in DOMAIN work[s].held :
         /\ work[s].held[id].owner = work[s].tenant
         /\ work[s].held[id].check > 0
         /\ findings[work[s].held[id].check] = "no"
  /\ \A id \in DOMAIN rows \ raced : rows[id].check = latest[id]

=============================================================================
