---------------------------- MODULE Repositories ----------------------------
(***************************************************************************)
(* The SQL repositories of db/repositories.py that read a row and write    *)
(* what they computed from it: VersionedSettingsRepository.save and        *)
(* AuditChainRepository.append and verify, with the hash chain of          *)
(* services/durable_security.py.                                           *)
(*                                                                         *)
(* A session is a caller with one database connection.  It begins a        *)
(* transaction, calls the repositories, and commits; an exception, a crash *)
(* or the database rolls the transaction back.  The database is external:  *)
(* PostgreSQL at its default isolation level, READ COMMITTED.  A statement *)
(* sees what is committed, and the writes of its own transaction; a write  *)
(* waits while another transaction holds the row, or has inserted the same *)
(* unique key.                                                             *)
(*                                                                         *)
(* Each tenant has one settings key, whose value is dropped.  A hash is    *)
(* the history it commits to: the sequence of events up to its entry.      *)
(***************************************************************************)
EXTENDS Naturals, Sequences, FiniteSets

CONSTANTS
  Sessions,      \* the callers
  Tenants,       \* the tenants
  Events,        \* the audit events
  MaxSaves,      \* bound of the model: settings versions
  MaxEntries,    \* bound of the model: entries of one chain
  NoTenant       \* the session is outside any transaction

ASSUME NoTenantAssumption == NoTenant \notin Tenants
ASSUME BoundsAssumption == MaxSaves \in Nat /\ MaxEntries \in Nat

VARIABLES
  settings,    \* the committed version of each tenant's settings row, 0 without one
  chain,       \* the committed rows of audit_log_chain of each tenant
  tx,          \* the transaction of each session
  saves,       \* how many saves were committed
  overlapped   \* whether two saves of a tenant overlapped: one read its row while
               \* another had read it and not yet committed

db == <<settings, chain>>
ghosts == <<saves, overlapped>>
repositoryVars == <<db, tx, ghosts>>

-----------------------------------------------------------------------------
(* The hash chain.                                                         *)

\* Rows, ORDER BY sequence.
Sorted(rows) ==
  [i \in 1..Cardinality(rows) |->
     CHOOSE r \in rows : Cardinality({q \in rows : q.sequence < r.sequence}) = i - 1]

EntryHash(r) == Append(r.previous_hash, r.event)
LastHash(rows) == IF rows = {} THEN <<>> ELSE EntryHash(Sorted(rows)[Cardinality(rows)])

\* AuditHashChain.verify
Verify(rows) ==
  /\ Cardinality({r.sequence : r \in rows}) = Cardinality(rows)
  /\ \A i \in 1..Cardinality(rows) :
       LET r == Sorted(rows)[i] IN
       /\ r.sequence = i
       /\ r.previous_hash = (IF i = 1 THEN <<>> ELSE EntryHash(Sorted(rows)[i - 1]))

\* The sequence counts from zero.
FaultyNewEntry(rows, e) ==
  [sequence |-> Cardinality(rows), previous_hash |-> LastHash(rows), event |-> e]

\* AuditHashChain.append: the entry that follows the rows read.
NewEntry(rows, e) ==
  [sequence |-> Cardinality(rows) + 1, previous_hash |-> LastHash(rows), event |-> e]

-----------------------------------------------------------------------------
(* Transactions.                                                           *)
(*                                                                         *)
(* pc       the next step                                                  *)
(* tenant   the tenant the transaction works for                           *)
(* read     what save read: the version of the row                         *)
(* entry    the entry append is about to insert                            *)
(* version  the row written and not committed, 0 if none                   *)
(* rows     the chain entries inserted and not committed                   *)
(* saved    the saves of the transaction                                   *)

NoEntry == [sequence |-> 0, previous_hash |-> <<>>, event |-> NoTenant]
Outside == [pc |-> "outside", tenant |-> NoTenant, read |-> 0, entry |-> NoEntry,
            version |-> 0, rows |-> {}, saved |-> 0]

At(s, label) == tx[s].pc = label
Tenant(s) == tx[s].tenant
Others(s) == {r \in Sessions \ {s} : Tenant(r) = Tenant(s)}

\* What a statement of the session sees.
Version(s) == IF tx[s].version > 0 THEN tx[s].version ELSE settings[Tenant(s)]
Rows(s) == chain[Tenant(s)] \cup tx[s].rows

RepositoriesInit ==
  /\ settings = [t \in Tenants |-> 0]
  /\ chain = [t \in Tenants |-> {}]
  /\ tx = [s \in Sessions |-> Outside]
  /\ saves = [t \in Tenants |-> 0]
  /\ overlapped = [t \in Tenants |-> FALSE]

Begin(s, t) ==
  /\ At(s, "outside")
  /\ tx' = [tx EXCEPT ![s] = [Outside EXCEPT !.pc = "open", !.tenant = t]]
  /\ UNCHANGED <<db, ghosts>>

Commit(s) ==
  /\ At(s, "open")
  /\ settings' = [settings EXCEPT ![Tenant(s)] = Version(s)]
  /\ chain' = [chain EXCEPT ![Tenant(s)] = Rows(s)]
  /\ saves' = [saves EXCEPT ![Tenant(s)] = @ + tx[s].saved]
  /\ tx' = [tx EXCEPT ![s] = Outside]
  /\ UNCHANGED overlapped

\* The caller gives up or crashes, an exception leaves its transaction, or the database
\* ends it to resolve a deadlock.
Rollback(s) ==
  /\ ~At(s, "outside")
  /\ tx' = [tx EXCEPT ![s] = Outside]
  /\ UNCHANGED <<db, ghosts>>

Abort(s) == tx' = [tx EXCEPT ![s] = Outside]

-----------------------------------------------------------------------------
(* VersionedSettingsRepository.save                                        *)

\* Whether the session is between the SELECT of a save and the end of its transaction.
Saving(s) == At(s, "insert") \/ At(s, "update") \/ tx[s].saved > 0

\* The caller's expected_version is compared with the row; None is as good as 0.
SaveRead(s, expected) ==
  /\ At(s, "open")
  /\ saves[Tenant(s)] + tx[s].saved < MaxSaves
  /\ overlapped' = [overlapped EXCEPT ![Tenant(s)] = @ \/ \E r \in Others(s) : Saving(r)]
  /\ IF expected = Version(s)
     THEN tx' = [tx EXCEPT ![s].pc = IF Version(s) = 0 THEN "insert" ELSE "update",
                           ![s].read = Version(s)]
     ELSE Abort(s)                                    \* RepositoryConflictError
  /\ UNCHANGED <<db, saves>>

\* The write waits for the transactions that wrote the row or inserted its key.
RowLocked(s) == \E r \in Others(s) : tx[r].version > 0

SaveInsert(s) ==
  /\ At(s, "insert")
  /\ ~RowLocked(s)
  /\ IF settings[Tenant(s)] = 0
     THEN tx' = [tx EXCEPT ![s].pc = "open", ![s].version = 1, ![s].saved = @ + 1]
     ELSE Abort(s)                                    \* IntegrityError
  /\ UNCHANGED <<db, ghosts>>

\* The version is not incremented.
FaultySaveUpdate(s) ==
  /\ At(s, "update")
  /\ ~RowLocked(s)
  /\ tx' = [tx EXCEPT ![s].pc = "open", ![s].version = tx[s].read, ![s].saved = @ + 1]
  /\ UNCHANGED <<db, ghosts>>

\* UPDATE ... WHERE id: the version of the row is not looked at again.
SaveUpdate(s) ==
  /\ At(s, "update")
  /\ ~RowLocked(s)
  /\ tx' = [tx EXCEPT ![s].pc = "open", ![s].version = tx[s].read + 1, ![s].saved = @ + 1]
  /\ UNCHANGED <<db, ghosts>>

-----------------------------------------------------------------------------
(* AuditChainRepository.append                                             *)

AppendRead(s, e) ==
  /\ At(s, "open")
  /\ Cardinality(Rows(s)) < MaxEntries
  /\ tx' = [tx EXCEPT ![s].pc = "append", ![s].entry = NewEntry(Rows(s), e)]
  /\ UNCHANGED <<db, ghosts>>

SequenceIn(s, rows) == \E r \in rows : r.sequence = tx[s].entry.sequence

\* There is no UniqueConstraint("tenant_id", "sequence").
FaultyAppendInsert(s) ==
  /\ At(s, "append")
  /\ tx' = [tx EXCEPT ![s].pc = "open", ![s].rows = @ \cup {tx[s].entry}]
  /\ UNCHANGED <<db, ghosts>>

AppendInsert(s) ==
  /\ At(s, "append")
  /\ \A r \in Others(s) : ~SequenceIn(s, tx[r].rows)
  /\ IF SequenceIn(s, chain[Tenant(s)])
     THEN Abort(s)                                    \* IntegrityError
     ELSE tx' = [tx EXCEPT ![s].pc = "open", ![s].rows = @ \cup {tx[s].entry}]
  /\ UNCHANGED <<db, ghosts>>

-----------------------------------------------------------------------------

RepositoriesNext ==
  \E s \in Sessions :
    \/ \E t \in Tenants : Begin(s, t)
    \/ \E v \in 0..MaxSaves : SaveRead(s, v)
    \/ \E e \in Events : AppendRead(s, e)
    \/ SaveInsert(s) \/ SaveUpdate(s) \/ AppendInsert(s)
    \/ Commit(s) \/ Rollback(s)

RepositoriesSpec == RepositoriesInit /\ [][RepositoriesNext]_repositoryVars

-----------------------------------------------------------------------------
(* Properties.                                                             *)

Entries == [sequence : Nat \ {0}, previous_hash : Seq(Events), event : Events]

Transactions ==
  [pc : {"outside", "open", "insert", "update", "append"}, tenant : Tenants \cup {NoTenant},
   read : Nat, entry : Entries \cup {NoEntry}, version : Nat, rows : SUBSET Entries,
   saved : Nat]

RepositoriesTypeOK ==
  /\ settings \in [Tenants -> Nat]
  /\ chain \in [Tenants -> SUBSET Entries]
  /\ tx \in [Sessions -> Transactions]
  /\ saves \in [Tenants -> Nat]
  /\ overlapped \in [Tenants -> BOOLEAN]

\* However transactions interleave, fail or crash, the chain that any of them reads, its
\* own entries included, verifies: it has no fork, no gap and no entry out of place
\* (append, verify and the unique constraint on tenant and sequence).
EveryReaderVerifies ==
  /\ \A t \in Tenants : Verify(chain[t])
  /\ \A s \in Sessions : ~At(s, "outside") => Verify(Rows(s))

\* A tenant's version counts its committed saves, if no two of them ever overlapped.
SerialSavesCount ==
  \A t \in Tenants : ~overlapped[t] => settings[t] = saves[t]

\* A save succeeds only against the version it expected, as the row is when the save
\* commits: the version of the row counts the saves.
NoLostUpdate == \A t \in Tenants : settings[t] = saves[t]

=============================================================================
