-------------------------- MODULE Persistence_proofs --------------------------
(***************************************************************************)
(* Theorems about the database as MCPersistence composes it.               *)
(*                                                                         *)
(* The repositories that keep one row per record, for any number of        *)
(* sessions, names, rows and checks of API keys: no transaction touches a  *)
(* row of another tenant, and a live start rests on a check of the key.    *)
(* WorkOK says of one transaction what it may hold, and Apart what two     *)
(* transactions may not hold together: no two of them write the same row,  *)
(* and two that check the same credential are raced.                       *)
(*                                                                         *)
(* The migrations, for every sequence of commands, failures and crashes.   *)
(* A table has a place in the order in which the revisions create it, and  *)
(* refers to tables before it.  A sound command sees the tables up to a    *)
(* place, which each statement moves by one; what an unsound script has    *)
(* created is in the database, and what it may have dropped is marked by   *)
(* `unfinished'.                                                           *)
(*                                                                         *)
(* The whole, of which each part runs while the others are left alone.     *)
(***************************************************************************)
EXTENDS MCPersistence, Repositories_proofs, Integers, TLAPS

-----------------------------------------------------------------------------
(* Tables.                                                                 *)

Tables == UNION {[D -> Records] : D \in SUBSET Ids}

LEMMA TableFacts ==
  ASSUME NEW t \in Tables
  PROVE  DOMAIN t \subseteq Ids /\ \A id \in DOMAIN t : t[id] \in Records
BY DEF Tables

LEMMA TableOf ==
  ASSUME NEW D \in SUBSET Ids, NEW t \in [D -> Records]
  PROVE  t \in Tables
BY DEF Tables

LEMMA EmptyTable == <<>> \in Tables /\ DOMAIN <<>> = {}
<1>1. <<>> \in [{} -> Records] /\ DOMAIN <<>> = {}
  OBVIOUS
<1> QED
  BY <1>1 DEF Tables

LEMMA WithRow ==
  ASSUME NEW t \in Tables, NEW id \in Ids, NEW row \in Records
  PROVE  /\ With(t, id, row) \in Tables
         /\ DOMAIN With(t, id, row) = DOMAIN t \cup {id}
         /\ With(t, id, row)[id] = row
         /\ \A x \in DOMAIN t \ {id} : With(t, id, row)[x] = t[x]
<1> DEFINE D == DOMAIN t \cup {id}
           f == [x \in D |-> IF x = id THEN row ELSE t[x]]
<1>1. D \in SUBSET Ids /\ f \in [D -> Records]
  BY TableFacts
<1>2. f \in Tables
  BY <1>1, TableOf
<1> QED
  BY <1>2 DEF With

LEMMA OnlyRow ==
  ASSUME NEW id \in Ids, NEW row \in Records
  PROVE  Only(id, row) \in Tables /\ DOMAIN Only(id, row) = {id} /\ Only(id, row)[id] = row
<1> DEFINE t == <<>>
<1>1. t \in Tables /\ DOMAIN t = {} /\ Only(id, row) = With(t, id, row)
  BY EmptyTable DEF Only
<1> HIDE DEF t
<1> QED
  BY <1>1, WithRow

-----------------------------------------------------------------------------
(* The inductive invariant.                                                *)

Works ==
  [active : BOOLEAN, tenant : Ids \cup {Operator}, mine : Tables, held : Tables,
   credential : Ids \cup {0}, check : 0..MaxChecks, allowed : BOOLEAN]

Findings == {"yes", "no"}

RecordTypes ==
  /\ rows \in Tables
  /\ work \in [Callers -> Works]
  /\ issued \in 0..MaxRows
  /\ findings \in Seq(Findings) /\ Len(findings) \in 0..MaxChecks
  /\ latest \in [Ids -> 0..Len(findings)]
  /\ raced \subseteq Ids

\* A row says of withdrawals what its check found.
Sound(row) ==
  /\ row.check \in 0..Len(findings)
  /\ row.withdrawal # "unknown" => row.check > 0 /\ findings[row.check] = row.withdrawal

\* A row of the tenant that a transaction works for, tenants themselves apart.
Owned(w, row) == row.table # "tenants" => row.owner = w.tenant

\* The rows that a transaction wrote and holds are its tenant's and sound; what it wrote of a
\* credential is no older than what is recorded, and newer only by its own check.
WorkOK(w) ==
  /\ DOMAIN w.mine \subseteq 1..issued
  /\ \A id \in DOMAIN w.mine : Owned(w, w.mine[id]) /\ Sound(w.mine[id])
  /\ \A id \in DOMAIN w.held : Owned(w, w.held[id]) /\ Sound(w.held[id])
  /\ w.allowed => \E id \in DOMAIN w.held : CredentialVerified(w.held[id])
  /\ w.check <= Len(findings)
  /\ w.check > 0 => w.credential \in Ids
  /\ w.check > 0 /\ w.credential \notin raced => w.check > latest[w.credential]
  /\ \A id \in DOMAIN w.mine \ raced :
       /\ w.mine[id].check >= latest[id]
       /\ w.mine[id].check > latest[id] => w.credential = id

Apart(w, v) ==
  /\ \A id \in DOMAIN w.mine : id \notin DOMAIN v.mine
  /\ w.credential = v.credential => w.credential \in raced \cup {0}

StoredOK ==
  /\ DOMAIN rows \subseteq 1..issued
  /\ \A id \in DOMAIN rows : Sound(rows[id])
  /\ \A id \in DOMAIN rows \ raced : rows[id].check = latest[id]
  /\ \A id \in Ids \ DOMAIN rows : latest[id] = 0

RecordsInv ==
  /\ RecordTypes
  /\ StoredOK
  /\ \A s \in Callers : WorkOK(work[s])
  /\ \A s, r \in Callers : s # r => Apart(work[s], work[r])

LEMMA ClosedIsFine == RecordTypes => /\ Closed \in Works /\ WorkOK(Closed)
                                     /\ \A v \in Works : Apart(Closed, v)
<1> SUFFICES ASSUME RecordTypes
             PROVE  /\ Closed \in Works /\ WorkOK(Closed)
                    /\ \A v \in Works : Apart(Closed, v)
  OBVIOUS
<1>1. /\ Closed.mine = <<>> /\ Closed.held = <<>> /\ Closed.credential = 0 /\ Closed.check = 0
      /\ Closed.allowed = FALSE /\ Closed.tenant = Operator /\ Closed.active = FALSE
  BY DEF Closed
<1>2. Closed \in Works
  BY EmptyTable, RecordBoundsAssumption DEF Closed, Works
<1>3. WorkOK(Closed)
  BY <1>1, EmptyTable DEF WorkOK, RecordTypes
<1>4. \A v \in Works : Apart(Closed, v)
  BY <1>1, EmptyTable DEF Apart
<1> QED
  BY <1>2, <1>3, <1>4

LEMMA RecordsStart == RecordsInit => RecordsInv
<1> SUFFICES ASSUME RecordsInit
             PROVE  RecordsInv
  OBVIOUS
<1>1. Closed \in Works
  BY EmptyTable, RecordBoundsAssumption DEF Closed, Works
<1>2. RecordTypes
  <2>1. findings \in Seq(Findings) /\ Len(findings) = 0
    BY DEF RecordsInit
  <2> QED
    BY <1>1, <2>1, EmptyTable, RecordBoundsAssumption DEF RecordsInit, RecordTypes
<1>3. StoredOK
  BY EmptyTable DEF RecordsInit, StoredOK
<1>4. \A s \in Callers : work[s] = Closed
  BY DEF RecordsInit
<1> QED
  BY <1>1, <1>2, <1>3, <1>4, ClosedIsFine DEF RecordsInv

\* One transaction takes a step of its own, and the committed rows stay.
LEMMA WorkMove ==
  ASSUME RecordsInv, NEW s \in Callers, NEW h \in Works, work' = [work EXCEPT ![s] = h],
         UNCHANGED <<rows, issued, findings, latest, raced>>,
         WorkOK(h), \A r \in Callers \ {s} : Apart(h, work[r])
  PROVE  RecordsInv'
<1>1. work \in [Callers -> Works]
  BY DEF RecordsInv, RecordTypes
<1>2. work'[s] = h /\ \A r \in Callers \ {s} : work'[r] = work[r]
  BY <1>1
<1>3. RecordTypes' /\ StoredOK'
  BY <1>1 DEF RecordsInv, RecordTypes, StoredOK, Sound
<1>4. \A r \in Callers : WorkOK(work[r])'
  <2>1. WorkOK(work[s])'
    BY <1>2 DEF WorkOK, Sound
  <2>2. \A r \in Callers \ {s} : WorkOK(work[r])'
    BY <1>2 DEF RecordsInv, WorkOK, Sound
  <2> QED
    BY <2>1, <2>2
<1>5. ASSUME NEW p \in Callers, NEW q \in Callers, p # q
      PROVE  Apart(work[p], work[q])'
  <2>1. CASE p = s
    BY <1>2, <1>5, <2>1 DEF Apart
  <2>2. CASE q = s
    <3>1. Apart(h, work[p]) /\ work'[p] = work[p] /\ work'[q] = h
      BY <1>2, <1>5, <2>2
    <3> QED
      BY <3>1 DEF Apart
  <2>3. CASE p # s /\ q # s
    <3>1. Apart(work[p], work[q]) /\ work'[p] = work[p] /\ work'[q] = work[q]
      BY <1>2, <1>5, <2>3 DEF RecordsInv
    <3> QED
      BY <3>1 DEF Apart
  <2> QED
    BY <2>1, <2>2, <2>3
<1> QED
  BY <1>3, <1>4, <1>5 DEF RecordsInv

LEMMA UndoMove ==
  ASSUME RecordsInv, NEW s \in Callers, Undo(s),
         UNCHANGED <<rows, issued, findings, latest, raced>>
  PROVE  RecordsInv'
<1>1. RecordTypes /\ \A r \in Callers : work[r] \in Works
  BY DEF RecordsInv, RecordTypes
<1>2. Closed \in Works /\ WorkOK(Closed) /\ \A r \in Callers \ {s} : Apart(Closed, work[r])
  BY <1>1, ClosedIsFine
<1> HIDE DEF Closed
<1> QED
  BY <1>2, WorkMove DEF Undo

\* What a session sees is sound, and what matches is its tenant's.
LEMMA VisibleFacts ==
  ASSUME RecordsInv, NEW s \in Callers
  PROVE  /\ Visible(s) \in Tables
         /\ DOMAIN Visible(s) = DOMAIN work[s].mine \cup DOMAIN rows
         /\ \A id \in DOMAIN work[s].mine : Visible(s)[id] = work[s].mine[id]
         /\ \A id \in DOMAIN rows \ DOMAIN work[s].mine : Visible(s)[id] = rows[id]
         /\ \A id \in DOMAIN Visible(s) : Visible(s)[id] \in Records /\ Sound(Visible(s)[id])
         /\ DOMAIN Visible(s) \subseteq 1..issued /\ 1..issued \subseteq Ids
<1> DEFINE D == DOMAIN work[s].mine \cup DOMAIN rows
           f == [id \in D |-> IF id \in DOMAIN work[s].mine THEN work[s].mine[id] ELSE rows[id]]
<1>1. rows \in Tables /\ work[s].mine \in Tables
  BY DEF RecordsInv, RecordTypes, Works
<1>2. D \in SUBSET Ids /\ f \in [D -> Records]
  BY <1>1, TableFacts
<1>3. f \in Tables
  BY <1>2, TableOf
<1>4. Visible(s) = f
  BY DEF Visible
<1>5. \A id \in D : f[id] \in Records /\ Sound(f[id])
  BY <1>2 DEF RecordsInv, StoredOK, WorkOK
<1>6. D \subseteq 1..issued
  BY DEF RecordsInv, StoredOK, WorkOK
<1>7. 1..issued \subseteq Ids
  BY RecordBoundsAssumption DEF RecordsInv, RecordTypes, Ids
<1> QED
  BY <1>2, <1>3, <1>4, <1>5, <1>6, <1>7

LEMMA WorkFacts ==
  ASSUME RecordsInv, NEW s \in Callers
  PROVE  /\ work[s] \in Works /\ WorkOK(work[s]) /\ RecordTypes
         /\ \A r \in Callers \ {s} : Apart(work[s], work[r]) /\ work[r] \in Works
BY DEF RecordsInv, RecordTypes

\* A read: the transaction holds what was returned.
LEMMA ReadMove ==
  ASSUME RecordsInv, NEW s \in Callers, NEW t \in Tables,
         \A id \in DOMAIN t : Owned(work[s], t[id]) /\ Sound(t[id]),
         work' = [work EXCEPT ![s] = Returned(s, t)],
         UNCHANGED <<rows, issued, findings, latest, raced>>
  PROVE  RecordsInv'
<1> DEFINE h == [work[s] EXCEPT !.held = t, !.allowed = FALSE]
<1>1. /\ work[s] \in Works /\ WorkOK(work[s]) /\ RecordTypes
      /\ \A r \in Callers \ {s} : Apart(work[s], work[r])
  BY WorkFacts
<1>2. /\ h \in Works /\ h.mine = work[s].mine /\ h.held = t /\ h.tenant = work[s].tenant
      /\ h.credential = work[s].credential /\ h.check = work[s].check /\ h.allowed = FALSE
  BY <1>1 DEF Works
<1>3. work' = [work EXCEPT ![s] = h]
  BY DEF Returned
<1> HIDE DEF h
<1>4. WorkOK(h)
  BY <1>1, <1>2 DEF WorkOK, Owned
<1>5. \A r \in Callers \ {s} : Apart(h, work[r])
  BY <1>1, <1>2 DEF Apart
<1> QED
  BY <1>2, <1>3, <1>4, <1>5, WorkMove

LEMMA GetStep ==
  ASSUME RecordsInv, NEW s \in Callers, NEW table, NEW id, Get(s, table, id)
  PROVE  RecordsInv'
<1>1. CASE Matches(s, table, id)
  <2>1. /\ id \in DOMAIN Visible(s) /\ id \in Ids
        /\ Visible(s)[id].owner = work[s].tenant
        /\ Visible(s)[id] \in Records /\ Sound(Visible(s)[id])
    BY <1>1, VisibleFacts DEF Matches
  <2> DEFINE t == Only(id, Visible(s)[id])
  <2>2. t \in Tables /\ DOMAIN t = {id} /\ t[id] = Visible(s)[id]
    BY <2>1, OnlyRow
  <2>3. \A x \in DOMAIN t : Owned(work[s], t[x]) /\ Sound(t[x])
    BY <2>1, <2>2 DEF Owned
  <2>4. /\ work' = [work EXCEPT ![s] = Returned(s, t)]
        /\ UNCHANGED <<rows, issued, findings, latest, raced>>
    BY <1>1 DEF Get
  <2> HIDE DEF t
  <2> QED
    BY <2>2, <2>3, <2>4, ReadMove
<1>2. CASE ~Matches(s, table, id)
  BY <1>2, UndoMove DEF Get
<1> QED
  BY <1>1, <1>2

LEMMA ListStep ==
  ASSUME RecordsInv, NEW s \in Callers, ListBots(s)
  PROVE  RecordsInv'
<1> DEFINE bots == {id \in DOMAIN Visible(s) : Matches(s, "bot_instances", id)}
           t == [id \in bots |-> Visible(s)[id]]
<1>1. \A id \in bots : /\ id \in Ids /\ Visible(s)[id].owner = work[s].tenant
                       /\ Visible(s)[id] \in Records /\ Sound(Visible(s)[id])
  BY VisibleFacts DEF Matches
<1>2. t \in Tables
  <2>1. bots \in SUBSET Ids /\ t \in [bots -> Records]
    BY <1>1
  <2> HIDE DEF t, bots
  <2> QED
    BY <2>1, TableOf
<1>3. \A x \in DOMAIN t : Owned(work[s], t[x]) /\ Sound(t[x])
  BY <1>1 DEF Owned
<1>4. /\ work' = [work EXCEPT ![s] = Returned(s, t)]
      /\ UNCHANGED <<rows, issued, findings, latest, raced>>
  BY DEF ListBots
<1> HIDE DEF t
<1> QED
  BY <1>2, <1>3, <1>4, ReadMove

LEMMA BeginStep ==
  ASSUME RecordsInv, NEW s \in Callers, NEW tenant \in Ids \cup {Operator}, BeginFor(s, tenant)
  PROVE  RecordsInv'
<1> DEFINE h == [Closed EXCEPT !.active = TRUE, !.tenant = tenant]
<1>1. /\ h.mine = <<>> /\ h.held = <<>> /\ h.credential = 0 /\ h.check = 0 /\ h.allowed = FALSE
  BY DEF Closed
<1>2. h \in Works
  <2>1. Closed \in Works
    BY ClosedIsFine DEF RecordsInv
  <2> HIDE DEF Closed
  <2> QED
    BY <2>1 DEF Works
<1>3. /\ work' = [work EXCEPT ![s] = h]
      /\ UNCHANGED <<rows, issued, findings, latest, raced>>
  BY DEF BeginFor
<1> HIDE DEF h
<1>4. WorkOK(h)
  BY <1>1, EmptyTable DEF WorkOK, RecordsInv, RecordTypes
<1>5. \A r \in Callers \ {s} : Apart(h, work[r])
  BY <1>1, EmptyTable DEF Apart
<1> QED
  BY <1>2, <1>3, <1>4, <1>5, WorkMove

LEMMA LiveStartStep ==
  ASSUME RecordsInv, NEW s \in Callers, NEW permitted \in BOOLEAN, LiveStart(s, permitted)
  PROVE  RecordsInv'
<1> DEFINE verified == \E id \in DOMAIN work[s].held : CredentialVerified(work[s].held[id])
           ok == verified /\ permitted
           h == [work[s] EXCEPT !.allowed = ok]
<1>1. /\ work[s] \in Works /\ WorkOK(work[s]) /\ RecordTypes
      /\ \A r \in Callers \ {s} : Apart(work[s], work[r])
  BY WorkFacts
<1>2. ok \in BOOLEAN
  OBVIOUS
<1>3. /\ work' = [work EXCEPT ![s] = h]
      /\ UNCHANGED <<rows, issued, findings, latest, raced>>
  <2>1. work' = [work EXCEPT ![s] = [work[s] EXCEPT !.allowed = ok]]
    BY <1>1 DEF LiveStart, RecordTypes
  <2> QED
    BY <2>1 DEF LiveStart
<1>4. ok => verified
  OBVIOUS
<1> HIDE DEF ok
<1>5. /\ h \in Works /\ h.mine = work[s].mine /\ h.held = work[s].held
      /\ h.tenant = work[s].tenant /\ h.credential = work[s].credential
      /\ h.check = work[s].check /\ h.allowed = ok
  BY <1>1, <1>2 DEF Works
<1> HIDE DEF h
<1>6. WorkOK(h)
  BY <1>1, <1>4, <1>5 DEF WorkOK, Owned
<1>7. \A r \in Callers \ {s} : Apart(h, work[r])
  BY <1>1, <1>5 DEF Apart
<1> QED
  BY <1>3, <1>5, <1>6, <1>7, WorkMove

\* An UPDATE: the row written matched, and no other open transaction has written it.
LEMMA UpdateMove ==
  ASSUME RecordsInv, NEW s \in Callers, NEW table, NEW id, NEW row \in Records,
         Matches(s, table, id), table # "tenants", Update(s, table, id, row),
         UNCHANGED <<rows, issued, findings, latest, raced>>,
         row.owner = Visible(s)[id].owner, Sound(row),
         \/ row.check = Visible(s)[id].check
         \/ row.check = work[s].check /\ work[s].check > 0 /\ id = work[s].credential
  PROVE  RecordsInv'
<1> DEFINE w == work[s]
           t == Only(id, row)
           m == With(w.mine, id, row)
           n == IF id = w.credential THEN 0 ELSE w.check
           h == [w EXCEPT !.held = t, !.allowed = FALSE, !.mine = m, !.check = n]
<1>1. /\ w \in Works /\ WorkOK(w) /\ RecordTypes
      /\ \A r \in Callers \ {s} : Apart(w, work[r]) /\ work[r] \in Works
  BY WorkFacts
<1>2. /\ id \in DOMAIN Visible(s) /\ id \in Ids /\ id \in 1..issued
      /\ row.owner = w.tenant
  BY VisibleFacts DEF Matches
<1>3. t \in Tables /\ DOMAIN t = {id} /\ t[id] = row
  BY <1>2, OnlyRow
<1>4. /\ m \in Tables /\ DOMAIN m = DOMAIN w.mine \cup {id} /\ m[id] = row
      /\ \A x \in DOMAIN w.mine \ {id} : m[x] = w.mine[x]
  <2> DEFINE u == w.mine
  <2>1. u \in Tables /\ m = With(u, id, row)
    BY <1>1 DEF Works
  <2>2. id \in Ids
    BY <1>2
  <2> HIDE DEF h, n, t, u, m
  <2>3. /\ With(u, id, row) \in Tables
        /\ DOMAIN With(u, id, row) = DOMAIN u \cup {id}
        /\ With(u, id, row)[id] = row
        /\ \A x \in DOMAIN u \ {id} : With(u, id, row)[x] = u[x]
    BY <2>1, <2>2, WithRow
  <2> QED
    BY <2>1, <2>3 DEF u
<1>5. work' = [work EXCEPT ![s] = h]
  BY DEF Update, Returned
<1> HIDE DEF t, m
<1>6. n \in 0..MaxChecks /\ n <= w.check /\ (n > 0 => n = w.check /\ id # w.credential)
  BY <1>1, RecordBoundsAssumption DEF Works
<1> HIDE DEF n
<1>7. /\ h \in Works /\ h.mine = m /\ h.held = t /\ h.tenant = w.tenant /\ h.check = n
      /\ h.credential = w.credential /\ h.allowed = FALSE
  BY <1>1, <1>3, <1>4, <1>6 DEF Works
<1> HIDE DEF h
<1>8. \A x \in DOMAIN m : Owned(h, m[x]) /\ Sound(m[x])
  BY <1>1, <1>2, <1>4, <1>7 DEF WorkOK, Owned
<1>9. w.check \in Nat /\ Len(findings) \in Nat /\ latest \in [Ids -> 0..Len(findings)]
  BY <1>1, RecordBoundsAssumption DEF Works, RecordTypes
<1>10. \A x \in DOMAIN m \ raced :
         /\ m[x].check >= latest[x]
         /\ m[x].check > latest[x] => h.credential = x
  <2> SUFFICES ASSUME NEW x \in DOMAIN m \ raced
               PROVE  /\ m[x].check >= latest[x]
                      /\ m[x].check > latest[x] => h.credential = x
    OBVIOUS
  <2>1. CASE x # id
    BY <1>1, <1>4, <1>7, <2>1 DEF WorkOK
  <2>2. CASE x = id /\ row.check = work[s].check /\ work[s].check > 0 /\ id = work[s].credential
    <3>1. w.check > latest[id]
      BY <1>1, <2>2 DEF WorkOK
    <3> QED
      BY <1>2, <1>4, <1>7, <1>9, <2>2, <3>1
  <2>3. CASE x = id /\ row.check = Visible(s)[id].check
    <3>1. CASE id \in DOMAIN w.mine
      <4>1. row.check = w.mine[id].check
        BY <2>3, <3>1, VisibleFacts
      <4> QED
        BY <1>1, <1>4, <1>7, <2>3, <3>1, <4>1 DEF WorkOK
    <3>2. CASE id \notin DOMAIN w.mine
      <4>1. id \in DOMAIN rows /\ row.check = rows[id].check
        BY <1>2, <2>3, <3>2, VisibleFacts
      <4>2. row.check = latest[id]
        BY <2>3, <4>1 DEF RecordsInv, StoredOK
      <4> QED
        BY <1>2, <1>4, <1>9, <2>3, <4>2
    <3> QED
      BY <3>1, <3>2
  <2> QED
    BY <2>1, <2>2, <2>3
<1>11. WorkOK(h)
  <2>1. DOMAIN m \subseteq 1..issued
    BY <1>1, <1>2, <1>4 DEF WorkOK
  <2>2. \A x \in DOMAIN t : Owned(h, t[x]) /\ Sound(t[x])
    BY <1>2, <1>3, <1>7 DEF Owned
  <2>3. /\ n <= Len(findings)
        /\ n > 0 => w.credential \in Ids
        /\ n > 0 /\ w.credential \notin raced => n > latest[w.credential]
    BY <1>1, <1>6, <1>9 DEF WorkOK
  <2>4. \A x \in DOMAIN h.mine : Owned(h, h.mine[x]) /\ Sound(h.mine[x])
    BY <1>7, <1>8
  <2>5. \A x \in DOMAIN h.held : Owned(h, h.held[x]) /\ Sound(h.held[x])
    BY <1>7, <2>2
  <2>6. \A x \in DOMAIN h.mine \ raced :
          /\ h.mine[x].check >= latest[x]
          /\ h.mine[x].check > latest[x] => h.credential = x
    BY <1>7, <1>10
  <2>7. /\ h.check <= Len(findings)
        /\ h.check > 0 => h.credential \in Ids
        /\ h.check > 0 /\ h.credential \notin raced => h.check > latest[h.credential]
    BY <1>7, <2>3
  <2>8. DOMAIN h.mine \subseteq 1..issued /\ ~h.allowed
    BY <1>7, <2>1
  <2> QED
    BY <2>4, <2>5, <2>6, <2>7, <2>8 DEF WorkOK
<1>12. ASSUME NEW r \in Callers \ {s}
       PROVE  Apart(h, work[r])
  <2>1. id \notin DOMAIN work[r].mine
    <3>1. CASE id \in DOMAIN rows
      BY <3>1 DEF Update, OtherCallers
    <3>2. CASE id \in DOMAIN w.mine
      BY <1>1, <3>2 DEF Apart
    <3> QED
      BY <1>2, <3>1, <3>2, VisibleFacts
  <2> QED
    BY <1>1, <1>4, <1>7, <2>1 DEF Apart
<1> QED
  BY <1>5, <1>7, <1>11, <1>12, WorkMove

LEMMA UpdateFails ==
  ASSUME RecordsInv, NEW s \in Callers, NEW table, NEW id, NEW row,
         ~Matches(s, table, id), Update(s, table, id, row),
         UNCHANGED <<rows, issued, findings, latest, raced>>
  PROVE  RecordsInv'
BY UndoMove DEF Update

LEMMA StatusStep ==
  ASSUME RecordsInv, NEW s \in Callers, NEW id, NEW status \in {"RUNNING", "STOPPED"},
         SetStatus(s, id, status)
  PROVE  RecordsInv'
<1> DEFINE row == [Visible(s)[id] EXCEPT !.status = status]
<1>1. /\ Update(s, "bot_instances", id, row)
      /\ UNCHANGED <<rows, issued, findings, latest, raced>>
  BY DEF SetStatus
<1>2. CASE Matches(s, "bot_instances", id)
  <2>1. Visible(s)[id] \in Records /\ Sound(Visible(s)[id])
    BY <1>2, VisibleFacts DEF Matches
  <2>2. /\ row \in Records /\ row.owner = Visible(s)[id].owner
        /\ row.check = Visible(s)[id].check /\ row.withdrawal = Visible(s)[id].withdrawal
    BY <2>1 DEF Records
  <2> HIDE DEF row
  <2>3. Sound(row)
    BY <2>1, <2>2 DEF Sound
  <2> QED
    BY <1>1, <1>2, <2>2, <2>3, UpdateMove
<1>3. CASE ~Matches(s, "bot_instances", id)
  BY <1>1, <1>3, UpdateFails
<1> QED
  BY <1>2, <1>3

LEMMA MarkStep ==
  ASSUME RecordsInv, NEW s \in Callers, MarkVerified(s)
  PROVE  RecordsInv'
<1> DEFINE id == work[s].credential
           finding == findings[work[s].check]
           row == [Visible(s)[id] EXCEPT !.status = Verification(finding),
                                         !.withdrawal = finding, !.check = work[s].check]
<1>1. /\ Update(s, "exchange_credentials", id, row) /\ work[s].check > 0
      /\ UNCHANGED <<rows, issued, findings, latest, raced>>
  BY DEF MarkVerified
<1>2. CASE Matches(s, "exchange_credentials", id)
  <2>1. Visible(s)[id] \in Records
    BY <1>2, VisibleFacts DEF Matches
  <2>2. /\ work[s].check \in 0..MaxChecks /\ work[s].check <= Len(findings)
        /\ findings \in Seq(Findings) /\ Len(findings) \in Nat /\ MaxChecks \in Nat
    BY WorkFacts, RecordBoundsAssumption DEF Works, WorkOK, RecordTypes
  <2>3. work[s].check \in 1..Len(findings) /\ finding \in Findings
    BY <1>1, <2>2
  <2>4. Verification(finding) \in {"VERIFIED", "REJECTED_WITHDRAWAL_PERMISSION"}
    BY DEF Verification
  <2> HIDE DEF finding
  <2>5. /\ row \in Records /\ row.owner = Visible(s)[id].owner
        /\ row.check = work[s].check /\ row.withdrawal = finding
    BY <2>1, <2>2, <2>3, <2>4 DEF Records, Findings
  <2> HIDE DEF row
  <2>6. Sound(row)
    BY <1>1, <2>2, <2>3, <2>5 DEF Sound, finding
  <2> QED
    BY <1>1, <1>2, <2>5, <2>6, UpdateMove
<1>3. CASE ~Matches(s, "exchange_credentials", id)
  <2> HIDE DEF row
  <2> QED
    BY <1>1, <1>3, UpdateFails
<1> QED
  BY <1>2, <1>3

\* An INSERT takes an identifier that no row has.
LEMMA InsertStep ==
  ASSUME RecordsInv, NEW s \in Callers, NEW row \in Records, Insert(s, row),
         row.check = 0, row.withdrawal = "unknown", Owned(work[s], row)
  PROVE  RecordsInv'
<1> DEFINE w == work[s]
           k == issued + 1
<1>1. /\ w \in Works /\ WorkOK(w) /\ RecordTypes
      /\ \A r \in Callers \ {s} : Apart(w, work[r]) /\ work[r] \in Works
  BY WorkFacts
<1>2. UNCHANGED <<rows, findings, latest, raced>> /\ issued < MaxRows
  BY DEF Insert
<1>3. CASE issued' = issued /\ Undo(s)
  BY <1>2, <1>3, UndoMove
<1>4. CASE /\ issued' = k
           /\ work' = [work EXCEPT ![s] = [Returned(s, Only(k, row)) EXCEPT
                                             !.mine = With(@, k, row)]]
  <2> DEFINE t == Only(k, row)
             u == w.mine
             m == With(u, k, row)
             h == [w EXCEPT !.held = t, !.allowed = FALSE, !.mine = m]
  <2>1. issued \in Nat /\ k \in Ids /\ k \in 0..MaxRows
    BY <1>1, <1>2, RecordBoundsAssumption DEF RecordTypes, Ids
  <2>2. t \in Tables /\ DOMAIN t = {k} /\ t[k] = row
    BY <2>1, OnlyRow
  <2>3. u \in Tables
    BY <1>1 DEF Works
  <2>4. work' = [work EXCEPT ![s] = h]
    BY <1>4 DEF Returned
  <2>5. /\ m \in Tables /\ DOMAIN m = DOMAIN u \cup {k} /\ m[k] = row
        /\ \A x \in DOMAIN u \ {k} : m[x] = u[x]
    <3> HIDE DEF u
    <3> QED
      BY <2>1, <2>3, WithRow
  <2> HIDE DEF t, m
  <2>6. /\ h \in Works /\ h.mine = m /\ h.held = t /\ h.tenant = w.tenant
        /\ h.check = w.check /\ h.credential = w.credential /\ ~h.allowed
    BY <1>1, <2>2, <2>5 DEF Works
  <2> HIDE DEF h
  <2>7. work'[s] = h /\ \A r \in Callers \ {s} : work'[r] = work[r]
    BY <1>1, <2>4 DEF RecordTypes
  <2>8. RecordTypes'
    BY <1>1, <1>2, <1>4, <2>1, <2>4, <2>6 DEF RecordTypes
  <2>9. DOMAIN rows \subseteq 1..issued /\ k \notin DOMAIN rows /\ 1..issued \subseteq 1..k
    BY <2>1 DEF RecordsInv, StoredOK
  <2>10. StoredOK'
    BY <1>2, <1>4, <2>9 DEF RecordsInv, StoredOK, Sound
  <2>11. Sound(row)' /\ Sound(row)
    BY <1>1, <1>2 DEF Sound, RecordTypes
  <2>12. k \notin DOMAIN u /\ DOMAIN u \subseteq 1..issued
    BY <1>1, <2>1 DEF WorkOK
  <2>13. latest[k] = 0
    BY <2>1, <2>9 DEF RecordsInv, StoredOK
  <2>14. WorkOK(work[s])'
    <3>1. \A x \in DOMAIN m : Owned(h, m[x]) /\ Sound(m[x])
      BY <1>1, <2>5, <2>6, <2>11 DEF WorkOK, Owned
    <3>2. \A x \in DOMAIN t : Owned(h, t[x]) /\ Sound(t[x])
      BY <2>2, <2>6, <2>11 DEF Owned
    <3>3. \A x \in DOMAIN m \ raced :
            /\ m[x].check >= latest[x]
            /\ m[x].check > latest[x] => h.credential = x
      BY <1>1, <2>5, <2>6, <2>12, <2>13 DEF WorkOK
    <3>4. DOMAIN m \subseteq 1..k
      BY <2>1, <2>5, <2>9, <2>12
    <3>5. /\ h.check <= Len(findings)
          /\ h.check > 0 => h.credential \in Ids
          /\ h.check > 0 /\ h.credential \notin raced => h.check > latest[h.credential]
      BY <1>1, <2>6 DEF WorkOK
    <3>6. \A x \in DOMAIN h.mine : Owned(h, h.mine[x]) /\ Sound(h.mine[x])
      BY <2>6, <3>1
    <3>7. \A x \in DOMAIN h.held : Owned(h, h.held[x]) /\ Sound(h.held[x])
      BY <2>6, <3>2
    <3>8. \A x \in DOMAIN h.mine \ raced :
            /\ h.mine[x].check >= latest[x]
            /\ h.mine[x].check > latest[x] => h.credential = x
      BY <2>6, <3>3
    <3>9. DOMAIN h.mine \subseteq 1..issued' /\ ~h.allowed
      BY <1>4, <2>6, <3>4
    <3> QED
      BY <1>2, <2>7, <3>5, <3>6, <3>7, <3>8, <3>9 DEF WorkOK, Sound
  <2>15. \A r \in Callers \ {s} : WorkOK(work[r])'
    BY <1>2, <1>4, <2>7, <2>9 DEF RecordsInv, WorkOK, Sound
  <2>16. ASSUME NEW r \in Callers \ {s}
         PROVE  Apart(h, work[r]) /\ Apart(work[r], h)
    <3>1. DOMAIN work[r].mine \subseteq 1..issued
      BY DEF RecordsInv, WorkOK
    <3>2. k \notin DOMAIN work[r].mine
      BY <2>1, <3>1
    <3> QED
      BY <1>1, <2>5, <2>6, <3>2 DEF Apart
  <2>17. ASSUME NEW p \in Callers, NEW q \in Callers, p # q
         PROVE  Apart(work[p], work[q])'
    <3>1. Apart(work'[p], work'[q])
      <4>1. CASE p = s
        BY <2>7, <2>16, <2>17, <4>1
      <4>2. CASE q = s
        BY <2>7, <2>16, <2>17, <4>2
      <4>3. CASE p # s /\ q # s
        BY <2>7, <2>17, <4>3 DEF RecordsInv
      <4> QED
        BY <4>1, <4>2, <4>3
    <3> QED
      BY <1>2, <3>1 DEF Apart
  <2> QED
    BY <2>8, <2>10, <2>14, <2>15, <2>17, <2>7 DEF RecordsInv
<1> QED
  BY <1>3, <1>4 DEF Insert

LEMMA CreateStep ==
  ASSUME RecordsInv, NEW s \in Callers,
         \/ \E name \in TenantNames : CreateTenant(s, name)
         \/ \E name \in Names : CreateBot(s, name) \/ SaveCredential(s, name)
  PROVE  RecordsInv'
<1>1. work[s].tenant \in Ids \cup {Operator} /\ issued \in 0..MaxRows
  BY WorkFacts DEF Works, RecordTypes
<1>2. \A table \in {"tenants", "bot_instances", "exchange_credentials"} :
      \A owner \in Ids : \A name \in TenantNames \cup Names :
        /\ NewRow(table, owner, name) \in Records
        /\ NewRow(table, owner, name).check = 0
        /\ NewRow(table, owner, name).withdrawal = "unknown"
        /\ NewRow(table, owner, name).table = table
        /\ NewRow(table, owner, name).owner = owner
  BY RecordBoundsAssumption DEF NewRow, Records
<1>3. ASSUME NEW name \in TenantNames, CreateTenant(s, name)
      PROVE  RecordsInv'
  <2> DEFINE row == NewRow("tenants", issued + 1, name)
  <2>1. issued + 1 \in Ids
    BY <1>1, <1>3, RecordBoundsAssumption DEF CreateTenant, Insert, Ids
  <2>2. /\ row \in Records /\ row.check = 0 /\ row.withdrawal = "unknown"
        /\ row.table = "tenants"
    BY <1>2, <2>1
  <2>3. Insert(s, row)
    BY <1>3 DEF CreateTenant
  <2> HIDE DEF row
  <2> QED
    BY <2>2, <2>3, InsertStep DEF Owned
\* A bot or a credential of no tenant is refused by its foreign key.
<1>4. ASSUME NEW name \in Names, NEW table \in {"bot_instances", "exchange_credentials"},
             Insert(s, NewRow(table, work[s].tenant, name))
      PROVE  RecordsInv'
  <2> DEFINE row == NewRow(table, work[s].tenant, name)
  <2>1. CASE work[s].tenant \in Ids
    <3>1. /\ row \in Records /\ row.check = 0 /\ row.withdrawal = "unknown"
          /\ row.owner = work[s].tenant
      BY <1>2, <2>1
    <3>2. Insert(s, row)
      BY <1>4
    <3> HIDE DEF row
    <3> QED
      BY <3>1, <3>2, InsertStep DEF Owned
  <2>2. CASE work[s].tenant \notin Ids
    <3>1. row.table = table /\ row.owner = Operator
      BY <1>1, <2>2 DEF NewRow
    <3>2. Operator \notin DOMAIN Visible(s)
      <4>1. DOMAIN Visible(s) \subseteq 1..issued
        BY VisibleFacts
      <4> QED
        BY <1>1, <4>1 DEF Operator
    <3>3. Undo(s) /\ UNCHANGED <<rows, issued, findings, latest, raced>>
      <4> HIDE DEF row
      <4>1. Insert(s, row)
        BY <1>4 DEF row
      <4> QED
        BY <3>1, <3>2, <4>1 DEF Insert
    <3> QED
      BY <3>3, UndoMove
  <2> QED
    BY <2>1, <2>2
<1> QED
  BY <1>3, <1>4 DEF CreateBot, SaveCredential

LEMMA CheckStep ==
  ASSUME RecordsInv, NEW s \in Callers, NEW id \in Ids, NEW finding \in Findings,
         CheckKey(s, id, finding)
  PROVE  RecordsInv'
<1> DEFINE w == work[s]
           k == Len(findings) + 1
           h == [w EXCEPT !.credential = id, !.check = k]
<1>1. /\ w \in Works /\ WorkOK(w) /\ RecordTypes
      /\ \A r \in Callers \ {s} : Apart(w, work[r]) /\ work[r] \in Works
  BY WorkFacts
<1>2. /\ UNCHANGED <<rows, issued, latest>> /\ Len(findings) < MaxChecks
      /\ w.credential \in {0, id} /\ findings' = Append(findings, finding)
      /\ work' = [work EXCEPT ![s] = h]
      /\ raced' = IF \E r \in OtherCallers(s) : work[r].credential = id
                  THEN raced \cup {id} ELSE raced
  BY DEF CheckKey
<1>3. /\ findings \in Seq(Findings) /\ Len(findings) \in Nat /\ MaxChecks \in Nat
      /\ latest \in [Ids -> 0..Len(findings)]
  BY <1>1, RecordBoundsAssumption DEF RecordTypes
<1>4. /\ findings' \in Seq(Findings) /\ Len(findings') = k /\ k \in 1..MaxChecks
      /\ \A i \in 1..Len(findings) : findings'[i] = findings[i]
  BY <1>2, <1>3
<1>5. /\ h \in Works /\ h.mine = w.mine /\ h.held = w.held /\ h.tenant = w.tenant
      /\ h.allowed = w.allowed /\ h.credential = id /\ h.check = k
  <2>1. k \in 0..MaxChecks
    BY <1>3, <1>4
  <2> HIDE DEF k
  <2> QED
    BY <1>1, <2>1 DEF Works
<1> HIDE DEF h
<1>6. work'[s] = h /\ \A r \in Callers \ {s} : work'[r] = work[r]
  BY <1>1, <1>2 DEF RecordTypes
<1>7. raced \subseteq raced' /\ raced' \subseteq Ids
  BY <1>1, <1>2 DEF RecordTypes
<1>8. RecordTypes'
  <2>1. latest' \in [Ids -> 0..Len(findings')]
    BY <1>2, <1>3, <1>4
  <2>2. work' \in [Callers -> Works]
    BY <1>1, <1>2, <1>5 DEF RecordTypes
  <2> QED
    BY <1>1, <1>2, <1>4, <1>7, <2>1, <2>2 DEF RecordTypes
<1>9. ASSUME NEW row, Sound(row)
      PROVE  Sound(row)'
  <2>1. row.check \in 0..Len(findings')
    BY <1>3, <1>4, <1>9 DEF Sound
  <2>2. row.withdrawal # "unknown" => row.check > 0 /\ findings'[row.check] = row.withdrawal
    BY <1>3, <1>4, <1>9 DEF Sound
  <2> QED
    BY <2>1, <2>2 DEF Sound
<1>10. StoredOK'
  <2>1. \A x \in DOMAIN rows' : Sound(rows[x])'
    BY <1>2, <1>9 DEF RecordsInv, StoredOK
  <2> QED
    BY <1>2, <1>7, <2>1 DEF RecordsInv, StoredOK
<1>11. ASSUME NEW v, WorkOK(v)
       PROVE  /\ DOMAIN v.mine \subseteq 1..issued
              /\ \A x \in DOMAIN v.mine : Owned(v, v.mine[x]) /\ Sound(v.mine[x])'
              /\ \A x \in DOMAIN v.held : Owned(v, v.held[x]) /\ Sound(v.held[x])'
              /\ v.allowed => \E x \in DOMAIN v.held : CredentialVerified(v.held[x])
              /\ \A x \in DOMAIN v.mine \ raced' :
                   /\ v.mine[x].check >= latest[x]
                   /\ v.mine[x].check > latest[x] => v.credential = x
  <2>1. /\ DOMAIN v.mine \subseteq 1..issued
        /\ \A x \in DOMAIN v.mine : Owned(v, v.mine[x]) /\ Sound(v.mine[x])
        /\ \A x \in DOMAIN v.held : Owned(v, v.held[x]) /\ Sound(v.held[x])
        /\ v.allowed => \E x \in DOMAIN v.held : CredentialVerified(v.held[x])
        /\ \A x \in DOMAIN v.mine \ raced :
             /\ v.mine[x].check >= latest[x]
             /\ v.mine[x].check > latest[x] => v.credential = x
    BY <1>11 DEF WorkOK
  <2> QED
    BY <1>7, <1>9, <2>1
<1>12. ASSUME NEW r \in Callers \ {s}
       PROVE  WorkOK(work[r])'
  <2>1. WorkOK(work[r]) /\ work'[r] = work[r] /\ work[r].check \in Nat
    BY <1>1, <1>3, <1>6 DEF RecordsInv, Works
  <2>2. /\ work[r].check <= Len(findings')
        /\ work[r].check > 0 => work[r].credential \in Ids
        /\ work[r].check > 0 /\ work[r].credential \notin raced' =>
             work[r].check > latest[work[r].credential]
    BY <1>3, <1>4, <1>7, <2>1 DEF WorkOK
  <2> QED
    BY <1>2, <1>11, <2>1, <2>2 DEF WorkOK, Owned
<1>13. WorkOK(work[s])'
  <2>1. k > latest[id] /\ k <= Len(findings')
    BY <1>3, <1>4
  <2>2. \A x \in DOMAIN w.mine : Owned(h, w.mine[x])
    BY <1>1, <1>5 DEF WorkOK, Owned
  <2>3. \A x \in DOMAIN w.held : Owned(h, w.held[x])
    BY <1>1, <1>5 DEF WorkOK, Owned
  <2>4. \A x \in DOMAIN w.mine \ raced' : w.credential = x => h.credential = x
    <3>1. DOMAIN w.mine \subseteq 1..issued /\ 0 \notin 1..issued
      BY <1>1 DEF WorkOK
    <3> QED
      BY <1>2, <1>5, <3>1
  <2>5. \A x \in DOMAIN w.mine \ raced' :
          /\ w.mine[x].check >= latest[x]
          /\ w.mine[x].check > latest[x] => h.credential = x
    BY <1>1, <1>11, <2>4
  <2> QED
    BY <1>1, <1>2, <1>5, <1>6, <1>11, <2>1, <2>2, <2>3, <2>5 DEF WorkOK, Owned
<1>14. ASSUME NEW r \in Callers \ {s}
       PROVE  /\ \A x \in DOMAIN h.mine : x \notin DOMAIN work[r].mine
              /\ h.credential = work[r].credential => h.credential \in raced'
  <2>1. r \in OtherCallers(s)
    BY DEF OtherCallers
  <2> QED
    BY <1>1, <1>2, <1>5, <2>1 DEF Apart
<1>15. ASSUME NEW p \in Callers, NEW q \in Callers, p # q
       PROVE  Apart(work[p], work[q])'
  <2>1. CASE p = s
    BY <1>6, <1>14, <1>15, <2>1 DEF Apart
  <2>2. CASE q = s
    <3>1. p \in Callers \ {s} /\ work'[p] = work[p] /\ work'[q] = h
      BY <1>6, <1>15, <2>2
    <3> QED
      BY <1>14, <3>1 DEF Apart
  <2>3. CASE p # s /\ q # s
    <3>1. Apart(work[p], work[q]) /\ work'[p] = work[p] /\ work'[q] = work[q]
      BY <1>6, <1>15, <2>3 DEF RecordsInv
    <3> QED
      BY <1>7, <3>1 DEF Apart
  <2> QED
    BY <2>1, <2>2, <2>3
<1> QED
  BY <1>8, <1>10, <1>12, <1>13, <1>15 DEF RecordsInv

LEMMA CommitRecordsStep ==
  ASSUME RecordsInv, NEW s \in Callers, CommitRecords(s)
  PROVE  RecordsInv'
<1> DEFINE w == work[s]
<1>1. /\ w \in Works /\ WorkOK(w) /\ RecordTypes
      /\ \A r \in Callers \ {s} : Apart(w, work[r]) /\ work[r] \in Works
  BY WorkFacts
<1>2. /\ rows' = Visible(s) /\ UNCHANGED <<issued, findings, raced>>
      /\ latest' = [id \in Ids |-> IF id \in DOMAIN w.mine
                                   THEN Greater(latest[id], w.mine[id].check) ELSE latest[id]]
      /\ work' = [work EXCEPT ![s] = Closed]
  BY DEF CommitRecords
<1>3. Closed \in Works /\ WorkOK(Closed) /\ \A r \in Callers : Apart(Closed, work[r])
  BY <1>1, ClosedIsFine DEF RecordTypes
<1>4. work'[s] = Closed /\ \A r \in Callers \ {s} : work'[r] = work[r]
  BY <1>1, <1>2 DEF RecordTypes
<1>5. /\ Len(findings) \in Nat /\ latest \in [Ids -> 0..Len(findings)]
      /\ \A id \in DOMAIN w.mine : w.mine[id].check \in 0..Len(findings)
  BY <1>1, RecordBoundsAssumption DEF RecordTypes, WorkOK, Sound
<1>6. /\ Visible(s) \in Tables /\ DOMAIN Visible(s) = DOMAIN w.mine \cup DOMAIN rows
      /\ \A id \in DOMAIN w.mine : Visible(s)[id] = w.mine[id]
      /\ \A id \in DOMAIN rows \ DOMAIN w.mine : Visible(s)[id] = rows[id]
      /\ \A id \in DOMAIN Visible(s) : Sound(Visible(s)[id])
      /\ DOMAIN Visible(s) \subseteq 1..issued /\ 1..issued \subseteq Ids
  BY VisibleFacts
<1>7. latest' \in [Ids -> 0..Len(findings)]
  BY <1>2, <1>5 DEF Greater
<1>8. RecordTypes'
  <2>1. work' \in [Callers -> Works]
    BY <1>1, <1>2, <1>3 DEF RecordTypes
  <2> QED
    BY <1>1, <1>2, <1>6, <1>7, <2>1 DEF RecordTypes
<1>9. \A id \in Ids \ DOMAIN w.mine : latest'[id] = latest[id]
  BY <1>2
<1>10. \A id \in DOMAIN w.mine : id \in Ids /\ latest'[id] = Greater(latest[id], w.mine[id].check)
  BY <1>2, <1>6
<1>11. \A id \in DOMAIN w.mine \ raced : latest'[id] = w.mine[id].check
  <2>1. \A id \in DOMAIN w.mine \ raced : w.mine[id].check >= latest[id]
    BY <1>1 DEF WorkOK
  <2> QED
    BY <1>5, <1>10, <2>1 DEF Greater
<1>12. StoredOK'
  <2>1. \A id \in DOMAIN rows' : Sound(rows[id])'
    BY <1>2, <1>6 DEF Sound
  <2>2. \A id \in DOMAIN Visible(s) \ raced : Visible(s)[id].check = latest'[id]
    BY <1>6, <1>9, <1>11 DEF RecordsInv, StoredOK
  <2>3. \A id \in Ids \ DOMAIN Visible(s) : latest'[id] = 0
    BY <1>6, <1>9 DEF RecordsInv, StoredOK
  <2> QED
    BY <1>2, <1>6, <2>1, <2>2, <2>3 DEF StoredOK, Sound
\* What others wrote and checked is not outdated: the committed rows are none of theirs, and
\* a check committed belongs to a credential that none of them checks, if it is not raced.
<1>13. ASSUME NEW r \in Callers \ {s}
       PROVE  WorkOK(work[r])'
  <2> DEFINE v == work[r]
  <2>1. WorkOK(v) /\ Apart(w, v) /\ work'[r] = v /\ v \in Works
    BY <1>1, <1>4 DEF RecordsInv
  <2>2. \A id \in DOMAIN v.mine : id \in Ids \ DOMAIN w.mine
    BY <1>6, <2>1 DEF WorkOK, Apart
  <2>3. \A id \in DOMAIN v.mine \ raced :
          /\ v.mine[id].check >= latest'[id]
          /\ v.mine[id].check > latest'[id] => v.credential = id
    BY <1>9, <2>1, <2>2 DEF WorkOK
  <2>4. v.check > 0 /\ v.credential \notin raced => v.check > latest'[v.credential]
    <3> SUFFICES ASSUME v.check > 0, v.credential \notin raced
                 PROVE  v.check > latest'[v.credential]
      OBVIOUS
    <3>1. v.credential \in Ids /\ v.check > latest[v.credential]
      BY <2>1 DEF WorkOK
    <3>2. CASE v.credential \notin DOMAIN w.mine
      BY <1>9, <3>1, <3>2
    <3>3. CASE v.credential \in DOMAIN w.mine
      <4>1. w.credential # v.credential
        BY <2>1, <3>1 DEF Apart, Ids
      <4>2. ~ (w.mine[v.credential].check > latest[v.credential])
        BY <1>1, <3>3, <4>1 DEF WorkOK
      <4>3. latest'[v.credential] = latest[v.credential]
        BY <1>5, <1>10, <3>1, <3>3, <4>2 DEF Greater
      <4> QED
        BY <3>1, <4>3
    <3> QED
      BY <3>2, <3>3
  <2> HIDE DEF v
  <2>5. /\ DOMAIN v.mine \subseteq 1..issued
        /\ \A id \in DOMAIN v.mine : Owned(v, v.mine[id]) /\ Sound(v.mine[id])
        /\ \A id \in DOMAIN v.held : Owned(v, v.held[id]) /\ Sound(v.held[id])
        /\ v.allowed => \E id \in DOMAIN v.held : CredentialVerified(v.held[id])
        /\ v.check <= Len(findings)
        /\ v.check > 0 => v.credential \in Ids
    BY <2>1 DEF WorkOK
  <2> QED
    BY <1>2, <2>1, <2>3, <2>4, <2>5 DEF WorkOK, Sound
<1>14. WorkOK(work[s])'
  <2>1. /\ Closed.mine = <<>> /\ Closed.held = <<>> /\ Closed.check = 0
        /\ Closed.allowed = FALSE
    BY DEF Closed
  <2> HIDE DEF Closed
  <2> QED
    BY <1>2, <1>4, <1>5, <2>1, EmptyTable DEF WorkOK
<1>15. ASSUME NEW p \in Callers, NEW q \in Callers, p # q
       PROVE  Apart(work[p], work[q])'
  <2>1. Apart(work'[p], work'[q])
    <3>1. CASE p = s
      BY <1>3, <1>4, <1>15, <3>1
    <3>2. CASE q = s
      <4>1. /\ work'[p] = work[p] /\ work'[q].mine = <<>> /\ work'[q].credential = 0
        BY <1>4, <1>15, <3>2 DEF Closed
      <4> QED
        BY <4>1, EmptyTable DEF Apart
    <3>3. CASE p # s /\ q # s
      BY <1>4, <1>15, <3>3 DEF RecordsInv
    <3> QED
      BY <3>1, <3>2, <3>3
  <2> QED
    BY <1>2, <2>1 DEF Apart
<1> QED
  BY <1>8, <1>12, <1>13, <1>14, <1>15 DEF RecordsInv

LEMMA RecordsStep == RecordsInv /\ [RecordsNext]_recordVars => RecordsInv'
<1> SUFFICES ASSUME RecordsInv, [RecordsNext]_recordVars
             PROVE  RecordsInv'
  OBVIOUS
<1>1. CASE RecordsNext
  <2>1. PICK s \in Callers :
          \/ \E tenant \in Ids \cup {Operator} : BeginFor(s, tenant)
          \/ CommitRecords(s) \/ RollbackRecords(s) \/ ListBots(s) \/ MarkVerified(s)
          \/ \E name \in TenantNames : CreateTenant(s, name)
          \/ \E name \in Names : CreateBot(s, name) \/ SaveCredential(s, name)
          \/ Get(s, "tenants", work[s].tenant)
          \/ \E id \in Ids : \/ Get(s, "bot_instances", id) \/ Get(s, "exchange_credentials", id)
                             \/ \E status \in {"RUNNING", "STOPPED"} : SetStatus(s, id, status)
                             \/ \E finding \in {"yes", "no"} : CheckKey(s, id, finding)
          \/ \E permitted \in BOOLEAN : LiveStart(s, permitted)
    BY <1>1 DEF RecordsNext
  <2>2. ASSUME RollbackRecords(s)
        PROVE  RecordsInv'
    BY <2>2, UndoMove DEF RollbackRecords
  <2>3. ASSUME NEW table, NEW id, Get(s, table, id)
        PROVE  RecordsInv'
    BY <2>3, GetStep
  <2>4. ASSUME NEW id \in Ids, NEW status \in {"RUNNING", "STOPPED"}, SetStatus(s, id, status)
        PROVE  RecordsInv'
    BY <2>4, StatusStep
  <2>5. ASSUME NEW id \in Ids, NEW finding \in {"yes", "no"}, CheckKey(s, id, finding)
        PROVE  RecordsInv'
    BY <2>5, CheckStep DEF Findings
  <2> QED
    BY <2>1, <2>2, <2>3, <2>4, <2>5, BeginStep, CommitRecordsStep, ListStep, MarkStep,
       CreateStep, LiveStartStep
<1>2. CASE UNCHANGED recordVars
  BY <1>2 DEF recordVars, RecordsInv, RecordTypes, StoredOK, WorkOK, Apart, Sound
<1> QED
  BY <1>1, <1>2

\* TenantsApart holds for any number of sessions and rows: whatever identifiers a caller
\* passes, its transaction reads and writes its own tenant's rows only (the tenant_id in the
\* WHERE of every repository).
THEOREM TenantsStayApart == RecordsSpec => []TenantsApart
<1>1. RecordsInv => TenantsApart
  <2> SUFFICES ASSUME RecordsInv, NEW s \in Callers
               PROVE  \A table \in {work[s].mine, work[s].held} : \A id \in DOMAIN table :
                        table[id].table # "tenants" => table[id].owner = work[s].tenant
    BY DEF TenantsApart
  <2>1. WorkOK(work[s])
    BY DEF RecordsInv
  <2> QED
    BY <2>1 DEF WorkOK, Owned
<1> QED
  BY <1>1, RecordsStart, RecordsStep, PTL DEF RecordsSpec

\* LiveStartsAreChecked holds for any number of sessions, rows and checks: a live start rests
\* on a check that found no permission to withdraw, and the record of a check is replaced by
\* later ones only, unless checks of the credential overlapped (mark_verified,
\* live_start_allowed).
THEOREM LiveStartsRestOnChecks == RecordsSpec => []LiveStartsAreChecked
<1>1. RecordsInv => LiveStartsAreChecked
  <2> SUFFICES ASSUME RecordsInv
               PROVE  LiveStartsAreChecked
    OBVIOUS
  <2>1. ASSUME NEW s \in Callers, work[s].allowed
        PROVE  \E id \in DOMAIN work[s].held :
                 /\ work[s].held[id].owner = work[s].tenant
                 /\ work[s].held[id].check > 0
                 /\ findings[work[s].held[id].check] = "no"
    <3>1. WorkOK(work[s])
      BY DEF RecordsInv
    <3>2. PICK id \in DOMAIN work[s].held : CredentialVerified(work[s].held[id])
      BY <2>1, <3>1 DEF WorkOK
    <3>3. Owned(work[s], work[s].held[id]) /\ Sound(work[s].held[id])
      BY <3>1 DEF WorkOK
    <3> QED
      BY <3>2, <3>3 DEF CredentialVerified, Owned, Sound
  <2> QED
    BY <2>1 DEF LiveStartsAreChecked, RecordsInv, StoredOK
<1> QED
  BY <1>1, RecordsStart, RecordsStep, PTL DEF RecordsSpec

-----------------------------------------------------------------------------
(* The place of a table in the migrations.                                 *)

\* The place of a table in the order in which the revisions create it.
Rank(name) ==
  CASE name = "organizations" -> 1
    [] name = "roles" -> 2
    [] name = "users" -> 3
    [] name = "user_roles" -> 4
    [] name = "exchange_accounts" -> 5
    [] name = "encrypted_credentials" -> 6
    [] name = "orders" -> 7
    [] name = "audit_events" -> 8
    [] name = "tenants" -> 9
    [] name = "user_sessions" -> 10
    [] name = "refresh_tokens" -> 11
    [] name = "bot_instances" -> 12
    [] name = "bot_user_assignments" -> 13
    [] name = "system_settings" -> 14
    [] name = "risk_settings" -> 15
    [] name = "strategies" -> 16
    [] name = "ai_generated_strategies" -> 17
    [] name = "audit_log_chain" -> 18
    [] name = "notifications" -> 19
    [] name = "background_jobs" -> 20
    [] name = "exchange_credentials" -> 21
    [] name = "account_states" -> 22
    [] name = "market_snapshots" -> 23
    [] name = "trading_rule_snapshots" -> 24
    [] name = "source_trade_events" -> 25
    [] name = "copy_allocations" -> 26
    [] name = "order_intents" -> 27
    [] name = "exchange_orders" -> 28
    [] name = "order_fills" -> 29
    [] name = "position_snapshots" -> 30
    [] name = "volume_sessions" -> 31
    [] name = "reconciliation_runs" -> 32
    [] OTHER -> 0

\* The statement that creates the table with a place.
CreateAt(p) ==
  IF p <= 8 THEN Initial[p]
  ELSE IF p <= 20 THEN DurableControlPlane[p - 8]
  ELSE IF p = 21 THEN ExchangeCredentials[1]
  ELSE BingxExecutionRecords[p - 21]

NameAt(p) == CreateAt(p).name
TableAt(p) == CreateAt(p).table

\* The statement creates the table with place p, which refers to tables before it.
InPlace(c, p) ==
  /\ c.op = "create" /\ Rank(c.name) = p
  /\ \A n \in c.table.refs : Rank(n) \in 1..(p - 1) /\ NameAt(Rank(n)) = n

LEMMA Places ==
  /\ Rank("organizations") = 1
  /\ Rank("roles") = 2
  /\ Rank("users") = 3
  /\ Rank("user_roles") = 4
  /\ Rank("exchange_accounts") = 5
  /\ Rank("encrypted_credentials") = 6
  /\ Rank("orders") = 7
  /\ Rank("audit_events") = 8
  /\ Rank("tenants") = 9
  /\ Rank("user_sessions") = 10
  /\ Rank("refresh_tokens") = 11
  /\ Rank("bot_instances") = 12
  /\ Rank("bot_user_assignments") = 13
  /\ Rank("system_settings") = 14
  /\ Rank("risk_settings") = 15
  /\ Rank("strategies") = 16
  /\ Rank("ai_generated_strategies") = 17
  /\ Rank("audit_log_chain") = 18
  /\ Rank("notifications") = 19
  /\ Rank("background_jobs") = 20
  /\ Rank("exchange_credentials") = 21
  /\ Rank("account_states") = 22
  /\ Rank("market_snapshots") = 23
  /\ Rank("trading_rule_snapshots") = 24
  /\ Rank("source_trade_events") = 25
  /\ Rank("copy_allocations") = 26
  /\ Rank("order_intents") = 27
  /\ Rank("exchange_orders") = 28
  /\ Rank("order_fills") = 29
  /\ Rank("position_snapshots") = 30
  /\ Rank("volume_sessions") = 31
  /\ Rank("reconciliation_runs") = 32
BY DEF Rank

LEMMA InitialEntries ==
  /\ Len(Initial) = 8
  /\ Initial[1] = Create("organizations", {}, {})
  /\ Initial[2] = Create("roles", {}, {{"name"}})
  /\ Initial[3] = Create("users", {"organizations"}, {{"organization_id", "email"}})
  /\ Initial[4] = Create("user_roles", {"users", "roles"}, {{"user_id", "role_id"}})
  /\ Initial[5] = Create("exchange_accounts", {"organizations"}, {})
  /\ Initial[6] = Create("encrypted_credentials", {"organizations", "exchange_accounts"}, {})
  /\ Initial[7] = Create("orders", {"organizations", "exchange_accounts"},
                         {{"exchange_account_id", "client_order_id"}})
  /\ Initial[8] = Create("audit_events", {"organizations"}, {})
BY DEF Initial

LEMMA DurableControlPlaneEntries ==
  /\ Len(DurableControlPlane) = 12
  /\ DurableControlPlane[1] = Create("tenants", {}, {{"name"}})
  /\ DurableControlPlane[2] = Create("user_sessions", {"tenants", "users"}, {{"token_hash"}})
  /\ DurableControlPlane[3] = Create("refresh_tokens", {"user_sessions"}, {{"token_hash"}})
  /\ DurableControlPlane[4] = Create("bot_instances", {"tenants"}, {{"tenant_id", "name"}})
  /\ DurableControlPlane[5] = Create("bot_user_assignments", {"bot_instances", "users"},
                                     {{"bot_id", "user_id"}})
  /\ DurableControlPlane[6] = Create("system_settings", {"tenants"}, {{"tenant_id", "key"}})
  /\ DurableControlPlane[7] = Create("risk_settings", {"tenants", "bot_instances"}, {{"bot_id"}})
  /\ DurableControlPlane[8] = Create("strategies", {"tenants", "bot_instances"}, {})
  /\ DurableControlPlane[9] = Create("ai_generated_strategies", {"tenants", "users"}, {})
  /\ DurableControlPlane[10] = Create("audit_log_chain", {"tenants"},
                                      {{"tenant_id", "sequence"}})
  /\ DurableControlPlane[11] = Create("notifications", {"tenants"}, {})
  /\ DurableControlPlane[12] = Create("background_jobs", {"tenants"}, {})
BY DEF DurableControlPlane

LEMMA ExchangeCredentialsEntries ==
  /\ Len(ExchangeCredentials) = 1
  /\ ExchangeCredentials[1] = Create("exchange_credentials", {"tenants"},
                                     {{"tenant_id", "exchange", "api_key_masked"}})
BY DEF ExchangeCredentials

LEMMA BingxExecutionRecordsEntries ==
  /\ Len(BingxExecutionRecords) = 11
  /\ BingxExecutionRecords[1] = Create("account_states", {"tenants"},
                                       {{"tenant_id", "account_id", "environment", "product"}})
  /\ BingxExecutionRecords[2] = Create("market_snapshots", {"tenants"}, {})
  /\ BingxExecutionRecords[3] = Create("trading_rule_snapshots", {"tenants"}, {})
  /\ BingxExecutionRecords[4] = Create("source_trade_events", {"tenants"},
                                       {{"tenant_id", "leader_id", "source_event_id"}})
  /\ BingxExecutionRecords[5] = Create("copy_allocations", {"tenants"},
            {{"tenant_id", "source_event_id", "follower_account_id", "symbol"}})
  /\ BingxExecutionRecords[6] = Create("order_intents", {"tenants", "bot_instances"},
                                       {{"tenant_id", "account_id", "client_order_id"}})
  /\ BingxExecutionRecords[7] = Create("exchange_orders", {"tenants", "order_intents"},
                                       {{"tenant_id", "exchange_order_id"}})
  /\ BingxExecutionRecords[8] = Create("order_fills", {"tenants", "exchange_orders"},
                                       {{"tenant_id", "exchange_fill_id"}})
  /\ BingxExecutionRecords[9] = Create("position_snapshots", {"tenants"}, {})
  /\ BingxExecutionRecords[10] = Create("volume_sessions", {"tenants", "bot_instances"}, {})
  /\ BingxExecutionRecords[11] = Create("reconciliation_runs", {"tenants"}, {})
BY DEF BingxExecutionRecords

LEMMA CreateFields ==
  ASSUME NEW name, NEW refs, NEW keys
  PROVE  /\ Create(name, refs, keys).op = "create" /\ Create(name, refs, keys).name = name
         /\ Create(name, refs, keys).table.refs = refs
BY DEF Create, Table

LEMMA InPlaceIf ==
  ASSUME NEW name, NEW refs, NEW keys, NEW p, Rank(name) = p,
         \A n \in refs : Rank(n) \in 1..(p - 1) /\ NameAt(Rank(n)) = n
  PROVE  InPlace(Create(name, refs, keys), p)
BY CreateFields DEF InPlace

\* The tables that others refer to.
LEMMA ReferredTo ==
  /\ NameAt(1) = "organizations"
  /\ NameAt(2) = "roles"
  /\ NameAt(3) = "users"
  /\ NameAt(5) = "exchange_accounts"
  /\ NameAt(9) = "tenants"
  /\ NameAt(10) = "user_sessions"
  /\ NameAt(12) = "bot_instances"
  /\ NameAt(27) = "order_intents"
  /\ NameAt(28) = "exchange_orders"
BY InitialEntries, DurableControlPlaneEntries, BingxExecutionRecordsEntries, CreateFields
   DEF NameAt, CreateAt

LEMMA InitialInPlace == \A i \in 1..8 : InPlace(Initial[i], i)
<1>1. \A i \in 1..8 : i = 1 \/ i = 2 \/ i = 3 \/ i = 4 \/ i = 5 \/ i = 6 \/ i = 7 \/ i = 8
  OBVIOUS
<1> QED
  BY <1>1, InitialEntries, Places, ReferredTo, InPlaceIf

LEMMA DurableControlPlaneInPlace == \A i \in 1..12 : InPlace(DurableControlPlane[i], 8 + i)
<1>1. \A i \in 1..12 :
        \/ i = 1 \/ i = 2 \/ i = 3 \/ i = 4 \/ i = 5 \/ i = 6 \/ i = 7
        \/ i = 8 \/ i = 9 \/ i = 10 \/ i = 11 \/ i = 12
  OBVIOUS
<1> QED
  BY <1>1, DurableControlPlaneEntries, Places, ReferredTo, InPlaceIf

LEMMA ExchangeCredentialsInPlace == \A i \in 1..1 : InPlace(ExchangeCredentials[i], 20 + i)
<1>1. \A i \in 1..1 : i = 1
  OBVIOUS
<1> QED
  BY <1>1, ExchangeCredentialsEntries, Places, ReferredTo, InPlaceIf

LEMMA BingxExecutionRecordsInPlace == \A i \in 1..11 : InPlace(BingxExecutionRecords[i], 21 + i)
<1>1. \A i \in 1..11 :
        \/ i = 1 \/ i = 2 \/ i = 3 \/ i = 4 \/ i = 5 \/ i = 6
        \/ i = 7 \/ i = 8 \/ i = 9 \/ i = 10 \/ i = 11
  OBVIOUS
<1> QED
  BY <1>1, BingxExecutionRecordsEntries, Places, ReferredTo, InPlaceIf

-----------------------------------------------------------------------------
(* The lists of the revisions, by place.                                   *)

\* How many tables the revisions up to v create.
Size(v) == IF v = 0 THEN 0 ELSE IF v = 1 THEN 8 ELSE IF v = 2 THEN 20 ELSE IF v = 3 THEN 21 ELSE 32

LEMMA SizeFacts ==
  /\ Size(0) = 0 /\ Size(1) = 8 /\ Size(2) = 20 /\ Size(3) = 21 /\ Size(4) = 32
  /\ \A v \in 0..4 : v = 0 \/ v = 1 \/ v = 2 \/ v = 3 \/ v = 4
  /\ \A r \in 1..4 : r = 1 \/ r = 2 \/ r = 3 \/ r = 4
BY DEF Size

LEMMA SizeGrows ==
  \A v \in 0..4 : \A r \in 1..v :
    \A i \in 1..(Size(r) - Size(r - 1)) : Size(r - 1) + i \in 1..Size(v)
BY DEF Size

LEMMA CreatesInPlace == \A p \in 1..32 : InPlace(CreateAt(p), p)
<1> TAKE p \in 1..32
<1>1. CASE p \in 1..8
  BY <1>1, InitialInPlace DEF CreateAt
<1>2. CASE p \in 9..20
  <2>1. p - 8 \in 1..12 /\ 8 + (p - 8) = p /\ CreateAt(p) = DurableControlPlane[p - 8]
    BY <1>2 DEF CreateAt
  <2> QED
    BY <2>1, DurableControlPlaneInPlace
<1>3. CASE p = 21
  BY <1>3, ExchangeCredentialsInPlace DEF CreateAt
<1>4. CASE p \in 22..32
  <2>1. p - 21 \in 1..11 /\ 21 + (p - 21) = p /\ CreateAt(p) = BingxExecutionRecords[p - 21]
    BY <1>4 DEF CreateAt
  <2> QED
    BY <2>1, BingxExecutionRecordsInPlace
<1> QED
  BY <1>1, <1>2, <1>3, <1>4

\* NamesUpTo and places determine each other, and a table refers to tables before it.
LEMMA PlaceFacts ==
  /\ \A p \in 1..32 : Rank(NameAt(p)) = p /\ CreateAt(p).op = "create"
  /\ \A p \in 1..32 : \A n \in TableAt(p).refs : Rank(n) \in 1..(p - 1) /\ NameAt(Rank(n)) = n
BY CreatesInPlace DEF InPlace, NameAt, TableAt

\* An upgrade creates the tables of its revision in their order.
LEMMA UpgradesAre ==
  /\ Latest = 4
  /\ \A r \in 1..4 :
       /\ Len(Upgrades[r]) = Size(r) - Size(r - 1)
       /\ \A i \in 1..(Size(r) - Size(r - 1)) : Upgrades[r][i] = CreateAt(Size(r - 1) + i)
<1>1. /\ Len(Upgrades) = 4
      /\ Upgrades[1] = Initial /\ Upgrades[2] = DurableControlPlane
      /\ Upgrades[3] = ExchangeCredentials /\ Upgrades[4] = BingxExecutionRecords
  BY DEF Upgrades
<1>2. ASSUME NEW r \in 1..4
      PROVE  /\ Len(Upgrades[r]) = Size(r) - Size(r - 1)
             /\ \A i \in 1..(Size(r) - Size(r - 1)) : Upgrades[r][i] = CreateAt(Size(r - 1) + i)
  <2>1. CASE r = 1
    BY <1>1, <2>1, InitialEntries DEF CreateAt, Size
  <2>2. CASE r = 2
    <3>1. \A i \in 1..12 : CreateAt(8 + i) = DurableControlPlane[i]
      BY DEF CreateAt
    <3> QED
      BY <1>1, <2>2, <3>1, DurableControlPlaneEntries DEF Size
  <2>3. CASE r = 3
    BY <1>1, <2>3, ExchangeCredentialsEntries DEF CreateAt, Size
  <2>4. CASE r = 4
    <3>1. \A i \in 1..11 : CreateAt(21 + i) = BingxExecutionRecords[i]
      BY DEF CreateAt
    <3> QED
      BY <1>1, <2>4, <3>1, BingxExecutionRecordsEntries DEF Size
  <2> QED
    BY <2>1, <2>2, <2>3, <2>4, SizeFacts
<1> QED
  BY <1>1, <1>2 DEF Latest

LEMMA DropInitialIs ==
  Len(DropInitial) = 8 /\ \A i \in 1..8 : DropInitial[i] = NameAt(9 - i)
<1>1. \A i \in 1..8 : i = 1 \/ i = 2 \/ i = 3 \/ i = 4 \/ i = 5 \/ i = 6 \/ i = 7 \/ i = 8
  OBVIOUS
<1>2. /\ NameAt(8) = "audit_events" /\ NameAt(7) = "orders" /\ NameAt(6) = "encrypted_credentials"
      /\ NameAt(5) = "exchange_accounts" /\ NameAt(4) = "user_roles" /\ NameAt(3) = "users"
      /\ NameAt(2) = "roles" /\ NameAt(1) = "organizations"
  BY InitialEntries, CreateFields DEF NameAt, CreateAt
<1> QED
  BY <1>1, <1>2 DEF DropInitial

LEMMA DropDurableControlPlaneIs ==
  Len(DropDurableControlPlane) = 12 /\ \A i \in 1..12 : DropDurableControlPlane[i] = NameAt(21 - i)
<1>1. \A i \in 1..12 :
        \/ i = 1 \/ i = 2 \/ i = 3 \/ i = 4 \/ i = 5 \/ i = 6 \/ i = 7
        \/ i = 8 \/ i = 9 \/ i = 10 \/ i = 11 \/ i = 12
  OBVIOUS
<1>2. /\ NameAt(20) = "background_jobs" /\ NameAt(19) = "notifications"
      /\ NameAt(18) = "audit_log_chain" /\ NameAt(17) = "ai_generated_strategies"
      /\ NameAt(16) = "strategies" /\ NameAt(15) = "risk_settings"
      /\ NameAt(14) = "system_settings" /\ NameAt(13) = "bot_user_assignments"
      /\ NameAt(12) = "bot_instances" /\ NameAt(11) = "refresh_tokens"
      /\ NameAt(10) = "user_sessions" /\ NameAt(9) = "tenants"
  BY DurableControlPlaneEntries, CreateFields DEF NameAt, CreateAt
<1> QED
  BY <1>1, <1>2 DEF DropDurableControlPlane

\* A downgrade drops the tables of its revision in the opposite order.
LEMMA DowngradesAre ==
  \A r \in 1..4 :
    /\ Len(Downgrades[r]) = Size(r) - Size(r - 1)
    /\ \A i \in 1..(Size(r) - Size(r - 1)) : Downgrades[r][i] = NameAt(Size(r) + 1 - i)
<1>1. /\ Downgrades[1] = DropInitial /\ Downgrades[2] = DropDurableControlPlane
      /\ Downgrades[3] = DropExchangeCredentials /\ Downgrades[4] = DropBingxExecutionRecords
  BY DEF Downgrades
<1> TAKE r \in 1..4
<1>2. CASE r = 1
  BY <1>1, <1>2, DropInitialIs DEF Size
<1>3. CASE r = 2
  BY <1>1, <1>3, DropDurableControlPlaneIs DEF Size
<1>4. CASE r = 3
  <2>1. NameAt(21) = "exchange_credentials"
    BY ExchangeCredentialsEntries, CreateFields DEF NameAt, CreateAt
  <2>2. Len(DropExchangeCredentials) = 1 /\ DropExchangeCredentials[1] = NameAt(21)
    BY <2>1 DEF DropExchangeCredentials
  <2> QED
    BY <1>1, <1>4, <2>2 DEF Size
<1>5. CASE r = 4
  <2>1. Len(BingxExecutionRecords) = 11
    BY BingxExecutionRecordsEntries
  <2>2. DropBingxExecutionRecords = [i \in 1..11 |-> BingxExecutionRecords[12 - i].name]
    BY <2>1 DEF DropBingxExecutionRecords
  <2>3. \A i \in 1..11 : NameAt(33 - i) = BingxExecutionRecords[12 - i].name
    <3> TAKE i \in 1..11
    <3>1. 33 - i \in 22..32 /\ (33 - i) - 21 = 12 - i
      OBVIOUS
    <3> QED
      BY <3>1 DEF NameAt, CreateAt
  <2>4. Len(DropBingxExecutionRecords) = 11
    BY <2>2
  <2> QED
    BY <1>1, <1>5, <2>2, <2>3, <2>4 DEF Size
<1> QED
  BY <1>2, <1>3, <1>4, <1>5, SizeFacts

\* The models are tables of the first three revisions, column for column that is modelled.
LEMMA ModelsAre == \A m \in Models : \E p \in 1..21 : m = CreateAt(p)
<1>1. \A m \in OrganizationModels : \E i \in 1..8 : m = Initial[i]
  BY InitialEntries DEF OrganizationModels
<1>2. \A m \in TenantModels : \E i \in 1..7 : m = DurableControlPlane[i]
  BY DurableControlPlaneEntries DEF TenantModels
<1>3. \A m \in RecordModels :
        m = ExchangeCredentials[1] \/ \E i \in 8..12 : m = DurableControlPlane[i]
  BY DurableControlPlaneEntries, ExchangeCredentialsEntries DEF RecordModels
<1>4. /\ \A i \in 1..8 : Initial[i] = CreateAt(i) /\ i \in 1..21
      /\ ExchangeCredentials[1] = CreateAt(21)
  BY DEF CreateAt
<1>5. \A i \in 1..12 : DurableControlPlane[i] = CreateAt(8 + i) /\ 8 + i \in 1..21
  BY DEF CreateAt
<1>6. \A m \in Models : m \in OrganizationModels \/ m \in TenantModels \/ m \in RecordModels
  BY DEF Models
<1> QED
  BY <1>1, <1>2, <1>3, <1>4, <1>5, <1>6

-----------------------------------------------------------------------------
(* Schemas.                                                                *)

NamesUpTo(k) == {NameAt(p) : p \in 1..k}
First(k) == [n \in NamesUpTo(k) |-> TableAt(Rank(n))]

LEMMA InNames ==
  ASSUME NEW k \in 0..32, NEW n
  PROVE  n \in NamesUpTo(k) <=> Rank(n) \in 1..k /\ NameAt(Rank(n)) = n
<1>1. ASSUME NEW p \in 1..k, n = NameAt(p)
      PROVE  Rank(n) = p
  <2>1. p \in 1..32
    BY <1>1
  <2> QED
    BY <1>1, <2>1, PlaceFacts
<1> QED
  BY <1>1 DEF NamesUpTo

LEMMA SchemaIs == \A v \in 0..4 : SchemaOf[v] = First(Size(v))
<1> TAKE v \in 0..4
<1> DEFINE created == UNION {{Upgrades[r][i] : i \in 1..Len(Upgrades[r])} : r \in 1..v}
           k == Size(v)
<1>1. SchemaOf[v] = [n \in {c.name : c \in created} |-> (CHOOSE c \in created : c.name = n).table]
  BY UpgradesAre DEF SchemaOf
<1>2. k \in 0..32
  BY SizeFacts
<1>3. \A c \in created : \E p \in 1..k : c = CreateAt(p)
  <2> SUFFICES ASSUME NEW r \in 1..v, NEW i \in 1..Len(Upgrades[r])
               PROVE  \E p \in 1..k : Upgrades[r][i] = CreateAt(p)
    OBVIOUS
  <2>1. r \in 1..4
    OBVIOUS
  <2>2. Upgrades[r][i] = CreateAt(Size(r - 1) + i) /\ i \in 1..(Size(r) - Size(r - 1))
    BY <2>1, UpgradesAre
  <2>3. Size(r - 1) + i \in 1..k
    BY <2>2, SizeGrows
  <2> QED
    BY <2>2, <2>3
<1>4. \A p \in 1..k : CreateAt(p) \in created
  <2> TAKE p \in 1..k
  <2>1. PICK r \in 1..v : p \in (Size(r - 1) + 1)..Size(r)
    BY DEF k, Size
  <2>2. r \in 1..4 /\ Size(r - 1) \in Nat /\ Size(r) \in Nat
    BY <2>1 DEF Size
  <2>3. p - Size(r - 1) \in 1..(Size(r) - Size(r - 1)) /\ Size(r - 1) + (p - Size(r - 1)) = p
    BY <2>1, <2>2
  <2>4. Upgrades[r][p - Size(r - 1)] = CreateAt(p) /\ p - Size(r - 1) \in 1..Len(Upgrades[r])
    BY <2>2, <2>3, UpgradesAre
  <2> QED
    BY <2>4
<1> HIDE DEF created, k
<1>5. {c.name : c \in created} = NamesUpTo(k)
  BY <1>3, <1>4 DEF NamesUpTo, NameAt
<1>6. ASSUME NEW n \in NamesUpTo(k)
      PROVE  (CHOOSE c \in created : c.name = n).table = TableAt(Rank(n))
  <2>1. Rank(n) \in 1..k /\ NameAt(Rank(n)) = n
    BY <1>2, InNames
  <2>2. CreateAt(Rank(n)) \in created /\ CreateAt(Rank(n)).name = n
    BY <1>4, <2>1 DEF NameAt
  <2>3. ASSUME NEW c \in created, c.name = n
        PROVE  c = CreateAt(Rank(n))
    <3>1. PICK p \in 1..k : c = CreateAt(p)
      BY <1>3
    <3>2. p \in 1..32 /\ NameAt(p) = n
      BY <1>2, <2>3, <3>1 DEF NameAt
    <3> QED
      BY <3>1, <3>2, PlaceFacts
  <2> QED
    BY <2>2, <2>3 DEF TableAt
<1>7. SchemaOf[v] = [n \in NamesUpTo(k) |-> (CHOOSE c \in created : c.name = n).table]
  BY <1>1, <1>5
<1> QED
  <2>1. [n \in NamesUpTo(k) |-> (CHOOSE c \in created : c.name = n).table] =
          [n \in NamesUpTo(k) |-> TableAt(Rank(n))]
    BY <1>6, Zenon
  <2> QED
    BY <1>7, <2>1, Zenon DEF First, k


-----------------------------------------------------------------------------
(* The inductive invariant of the migrations.                              *)

CommandFields == {"mode", "target", "tables", "version", "done", "sound", "end"}

\* Some of the tables of the revisions, by place.
Partial(t) == DOMAIN t \subseteq NamesUpTo(32) /\ t = [n \in DOMAIN t |-> TableAt(Rank(n))]

\* The statements of the revision under way, before its stamp, and how many tables a sound
\* command sees.
Statements ==
  IF command.version = command.target THEN 0
  ELSE IF Upgrading THEN Size(command.version + 1) - Size(command.version)
  ELSE Size(command.version) - Size(command.version - 1)

Seen ==
  IF Upgrading THEN Size(command.version) + command.done ELSE Size(command.version) - command.done

\* A sound command sees the tables of its revision and those that the statements
\* executed since then have created, or have not dropped yet.
SeesProgress == command.sound => DOMAIN command.tables = NamesUpTo(Seen)

\* What an offline script has executed is committed: the tables it has created are there, and
\* since it dropped one the downgrade is unfinished.
ScriptIsCommitted ==
  command.mode = "offline" =>
    /\ command.tables = tables /\ command.version = version
    /\ Upgrading => \A i \in 1..command.done : NameAt(Size(version) + i) \in DOMAIN tables
    /\ ~Upgrading /\ command.done > 0 => unfinished

MigrationsInv ==
  /\ MigrationsTypeOK
  /\ DOMAIN command = CommandFields
  /\ command.end = "running" => command.done \in 0..Statements /\ SeesProgress /\ ScriptIsCommitted
  /\ command.end # "running" => SoundCommandsSucceed
  /\ ~unfinished => NamesUpTo(Size(version)) \subseteq DOMAIN tables

LEMMA NamesGrow ==
  ASSUME NEW k \in 1..32
  PROVE  /\ NamesUpTo(k) = NamesUpTo(k - 1) \cup {NameAt(k)} /\ NameAt(k) \notin NamesUpTo(k - 1)
         /\ TableAt(k).refs \subseteq NamesUpTo(k - 1)
         /\ Rank(NameAt(k)) = k
         /\ \A n \in NamesUpTo(k) : NameAt(k) \notin TableAt(Rank(n)).refs
<1>1. Rank(NameAt(k)) = k
  BY PlaceFacts
<1>2. NamesUpTo(k) = NamesUpTo(k - 1) \cup {NameAt(k)}
  BY DEF NamesUpTo
<1>3. k - 1 \in 0..32 /\ k \in 0..32
  OBVIOUS
<1>4. \A n : n \in NamesUpTo(k - 1) <=> Rank(n) \in 1..(k - 1) /\ NameAt(Rank(n)) = n
  BY <1>3, InNames
<1>5. NameAt(k) \notin NamesUpTo(k - 1)
  BY <1>1, <1>4
<1>6. TableAt(k).refs \subseteq NamesUpTo(k - 1)
  BY <1>4, PlaceFacts
<1>7. ASSUME NEW n \in NamesUpTo(k)
      PROVE  NameAt(k) \notin TableAt(Rank(n)).refs
  <2>1. Rank(n) \in 1..k /\ Rank(n) \in 1..32
    BY <1>3, InNames
  <2>2. \A m \in TableAt(Rank(n)).refs : Rank(m) \in 1..(Rank(n) - 1)
    BY <2>1, PlaceFacts
  <2> QED
    BY <1>1, <2>1, <2>2
<1> QED
  BY <1>1, <1>2, <1>5, <1>6, <1>7

LEMMA SchemaNames ==
  \A v \in 0..4 : /\ DOMAIN SchemaOf[v] = NamesUpTo(Size(v))
                  /\ \A n \in NamesUpTo(Size(v)) : SchemaOf[v][n] = TableAt(Rank(n))
BY SchemaIs DEF First

LEMMA TablesArePartial == \A t : TablesOfRevisions(t) <=> Partial(t)
<1>1. /\ DOMAIN SchemaOf[Latest] = NamesUpTo(32)
      /\ \A n \in NamesUpTo(32) : SchemaOf[Latest][n] = TableAt(Rank(n))
  BY SchemaNames, SizeFacts, UpgradesAre
<1> TAKE t
<1>2. ASSUME DOMAIN t \subseteq NamesUpTo(32)
      PROVE  [n \in DOMAIN t |-> SchemaOf[Latest][n]] = [n \in DOMAIN t |-> TableAt(Rank(n))]
  BY <1>1, <1>2
<1> QED
  BY <1>1, <1>2 DEF TablesOfRevisions, Partial

LEMMA WholeSchema ==
  ASSUME NEW t, Partial(t), NEW v \in 0..4, DOMAIN t = NamesUpTo(Size(v))
  PROVE  t = SchemaOf[v]
BY SchemaIs DEF Partial, First

\* What a running command executes next: of an upgrade the creation of the table with the
\* next place, of a downgrade the drop of the table with the last one; then the stamp.
LEMMA NextStatementIs ==
  ASSUME MigrationsTypeOK, command.version # command.target, command.done \in 0..Statements
  PROVE  \/ /\ Upgrading /\ command.done < Statements
            /\ Seen + 1 \in 1..32 /\ NextStatement = CreateAt(Seen + 1)
         \/ /\ ~Upgrading /\ command.done < Statements
            /\ Seen \in 1..32 /\ NextStatement = Drop(NameAt(Seen))
         \/ /\ Upgrading /\ command.done = Statements
            /\ NextStatement = Stamp(command.version + 1)
            /\ Seen = Size(command.version + 1)
         \/ /\ ~Upgrading /\ command.done = Statements
            /\ NextStatement = Stamp(command.version - 1)
            /\ Seen = Size(command.version - 1)
<1> DEFINE v == command.version
           i == command.done + 1
<1>1. v \in 0..4 /\ command.target \in 0..4 /\ command.done \in Nat
  BY UpgradesAre DEF MigrationsTypeOK
<1>2. CASE Upgrading
  <2>1. v + 1 \in 1..4 /\ (v + 1) - 1 = v
    BY <1>1, <1>2 DEF Upgrading
  <2>2. /\ Statements = Size(v + 1) - Size(v) /\ Seen = Size(v) + command.done
        /\ Len(Upgrades[v + 1]) = Statements
        /\ \A j \in 1..Statements : Upgrades[v + 1][j] = CreateAt(Size(v) + j)
    BY <1>2, <2>1, UpgradesAre DEF Statements, Seen
  <2>3. Size(v) \in Nat /\ Size(v + 1) \in Nat /\ Size(v + 1) <= 32 /\ Statements \in Nat
    BY <1>1, <2>1, <2>2 DEF Size
  <2>4. CASE command.done < Statements
    <3>1. command.done + 1 \in 1..Statements /\ command.done + 1 <= Statements
      BY <1>1, <2>3, <2>4
    <3>2. Statements = Size(v + 1) - Size(v)
      BY <2>2
    <3>3. Size(v) + (command.done + 1) = (Size(v) + command.done) + 1
      BY <1>1, <2>3
    <3>4. (Size(v) + command.done) + 1 \in 1..32
      BY <1>1, <2>3, <2>4, <3>2
    <3>5. Size(v) + i = Seen + 1 /\ Seen + 1 \in 1..32 /\ i <= Len(Upgrades[v + 1])
      BY <2>2, <3>1, <3>3, <3>4, Zenon
    <3>6. NextStatement = CreateAt(Seen + 1)
      BY <1>2, <2>2, <3>1, <3>5 DEF NextStatement
    <3> QED
      BY <1>2, <2>4, <3>5, <3>6
  <2>5. CASE command.done = Statements
    <3>1. ~(i <= Len(Upgrades[v + 1])) /\ Seen = Size(v + 1)
      BY <1>1, <2>2, <2>3, <2>5
    <3> QED
      BY <1>2, <2>5, <3>1 DEF NextStatement
  <2> QED
    BY <1>1, <2>2, <2>3, <2>4, <2>5
<1>3. CASE ~Upgrading
  <2>1. v \in 1..4 /\ v - 1 \in 0..4
    BY <1>1, <1>3 DEF Upgrading
  <2>2. /\ Statements = Size(v) - Size(v - 1) /\ Seen = Size(v) - command.done
        /\ Len(Downgrades[v]) = Statements
        /\ \A j \in 1..Statements : Downgrades[v][j] = NameAt(Size(v) + 1 - j)
    BY <1>3, <2>1, DowngradesAre DEF Statements, Seen
  <2>3. Size(v) \in Nat /\ Size(v) <= 32 /\ Size(v - 1) \in Nat /\ Statements \in Nat
    BY <2>1, <2>2 DEF Size
  <2>4. CASE command.done < Statements
    <3>1. command.done + 1 \in 1..Statements /\ command.done + 1 <= Statements
      BY <1>1, <2>3, <2>4
    <3>2. Statements = Size(v) - Size(v - 1)
      BY <2>2
    <3>3. Size(v) + 1 - (command.done + 1) = Size(v) - command.done
      BY <1>1, <2>3
    <3>4. Size(v) - command.done \in 1..32
      BY <1>1, <2>3, <2>4, <3>2
    <3>5. Size(v) + 1 - i = Seen /\ Seen \in 1..32 /\ i <= Len(Downgrades[v])
      BY <2>2, <3>1, <3>3, <3>4, Zenon
    <3>6. NextStatement = Drop(NameAt(Seen))
      BY <1>3, <2>2, <3>1, <3>5 DEF NextStatement
    <3> QED
      BY <1>3, <2>4, <3>5, <3>6
  <2>5. CASE command.done = Statements
    <3>1. ~(i <= Len(Downgrades[v])) /\ Seen = Size(v - 1)
      BY <1>1, <2>2, <2>3, <2>5
    <3> QED
      BY <1>3, <2>5, <3>1 DEF NextStatement
  <2> QED
    BY <1>1, <2>2, <2>3, <2>4, <2>5
<1> QED
  BY <1>2, <1>3

LEMMA MigrationsInitInv == MigrationsInit => MigrationsInv
<1> SUFFICES ASSUME MigrationsInit
             PROVE  MigrationsInv
  OBVIOUS
<1>1. NamesUpTo(0) = {}
  BY DEF NamesUpTo
<1>2. DOMAIN <<>> = {} /\ <<>> = [n \in {} |-> TableAt(Rank(n))]
  OBVIOUS
<1>3. Partial(<<>>)
  BY <1>2 DEF Partial
<1>4. SchemaOf[0] = <<>>
  <2>1. 0 \in 0..4 /\ DOMAIN <<>> = NamesUpTo(Size(0))
    BY <1>1, <1>2, SizeFacts
  <2> QED
    BY <1>3, <2>1, WholeSchema, Zenon
<1>5. /\ tables = <<>> /\ version = 0 /\ unfinished = FALSE
      /\ command.mode = "offline" /\ command.target = 0
      /\ command.tables = <<>> /\ command.version = 0
      /\ command.done = 0 /\ command.sound = TRUE /\ command.end = "ok"
      /\ DOMAIN command = CommandFields
  BY DEF MigrationsInit, NoCommand, CommandFields
<1>6. MigrationsTypeOK
  <2>1. TablesOfRevisions(tables) /\ TablesOfRevisions(command.tables)
    BY <1>3, <1>5, TablesArePartial, Zenon
  <2>2. /\ version \in 0..Latest /\ command.mode \in {"online", "offline"}
        /\ command.end \in {"ok", "failed", "killed", "running"}
        /\ command.version \in 0..Latest /\ command.target \in 0..Latest /\ command.done \in Nat
        /\ command.sound \in BOOLEAN /\ unfinished \in BOOLEAN
    <3>1. 0 \in 0..Latest /\ 0 \in Nat /\ TRUE \in BOOLEAN /\ FALSE \in BOOLEAN
      BY UpgradesAre
    <3> QED
      BY <1>5, <3>1
  <2> QED
    BY <2>1, <2>2 DEF MigrationsTypeOK
<1>7. SoundCommandsSucceed
  BY <1>4, <1>5 DEF SoundCommandsSucceed
<1> QED
  BY <1>1, <1>5, <1>6, <1>7, SizeFacts DEF MigrationsInv

LEMMA StartKeepsInv ==
  ASSUME MigrationsInv, NEW mode \in {"online", "offline"}, NEW target \in 0..Latest,
         Start(mode, target)
  PROVE  MigrationsInv'
<1>1. /\ UNCHANGED <<tables, version, unfinished>>
      /\ command'.mode = mode /\ command'.target = target /\ command'.tables = tables
      /\ command'.version = version /\ command'.done = 0
      /\ command'.sound = (tables = SchemaOf[version]) /\ command'.end = "running"
      /\ DOMAIN command' = CommandFields
  BY DEF Start, CommandFields
<1>2. MigrationsTypeOK'
  BY <1>1 DEF MigrationsInv, MigrationsTypeOK, TablesOfRevisions
<1>3. version \in 0..4 /\ target \in 0..4
  BY UpgradesAre DEF MigrationsInv, MigrationsTypeOK
<1>4. SeesProgress'
  <2>1. Seen' = Size(version)
    BY <1>1, <1>3 DEF Seen, Upgrading, Size
  <2>2. command'.sound => DOMAIN command'.tables = NamesUpTo(Size(version))
    BY <1>1, <1>3, SchemaNames
  <2> QED
    BY <2>1, <2>2 DEF SeesProgress
<1>5. command'.done \in 0..Statements'
  <2>1. Statements' \in Nat
    BY <1>1, <1>3 DEF Statements, Upgrading, Size
  <2> QED
    BY <1>1, <2>1
<1>6. ScriptIsCommitted'
  BY <1>1 DEF ScriptIsCommitted
<1> QED
  BY <1>1, <1>2, <1>4, <1>5, <1>6 DEF MigrationsInv

LEMMA EndKeepsInv ==
  ASSUME MigrationsInv, command.end = "running", NEW how \in {"ok", "failed", "killed"}, End(how),
         how = "ok" => command.version = command.target,
         how = "failed" => ~command.sound
  PROVE  MigrationsInv'
<1>1. /\ UNCHANGED <<tables, version, unfinished>>
      /\ command'.mode = command.mode /\ command'.target = command.target
      /\ command'.tables = command.tables /\ command'.version = command.version
      /\ command'.done = 0 /\ command'.sound = command.sound /\ command'.end = how
      /\ DOMAIN command' = CommandFields
  BY DEF End, MigrationsInv, CommandFields
<1>2. MigrationsTypeOK'
  BY <1>1 DEF MigrationsInv, MigrationsTypeOK, TablesOfRevisions
<1>3. SoundCommandsSucceed'
  <2> SUFFICES ASSUME command.sound, how = "ok"
               PROVE  command.tables = SchemaOf[command.target]
    BY <1>1 DEF SoundCommandsSucceed
  <2>1. command.version = command.target /\ command.target \in 0..4 /\ Partial(command.tables)
    BY UpgradesAre, TablesArePartial DEF MigrationsInv, MigrationsTypeOK
  <2>2. command.done = 0
    BY <2>1 DEF MigrationsInv, Statements
  <2>3. Seen = Size(command.target)
    BY <2>1, <2>2 DEF Seen, Size
  <2> QED
    BY <2>1, <2>3, WholeSchema DEF MigrationsInv, SeesProgress
<1> QED
  BY <1>1, <1>2, <1>3 DEF MigrationsInv

\* A sound command never meets a statement that fails.
LEMMA SoundIsPossible ==
  ASSUME MigrationsInv, command.end = "running", command.version # command.target, command.sound
  PROVE  Possible(NextStatement)
<1>1. DOMAIN command.tables = NamesUpTo(Seen) /\ Partial(command.tables)
  BY TablesArePartial DEF MigrationsInv, MigrationsTypeOK, SeesProgress
<1>2. CASE Upgrading /\ Seen + 1 \in 1..32 /\ NextStatement = CreateAt(Seen + 1)
  <2>1. (Seen + 1) - 1 = Seen
    BY <1>2 DEF Seen, MigrationsInv, MigrationsTypeOK, Size
  <2>2. NameAt(Seen + 1) \notin NamesUpTo(Seen) /\ TableAt(Seen + 1).refs \subseteq NamesUpTo(Seen)
    BY <1>2, <2>1, NamesGrow
  <2>3. NextStatement.op = "create"
    BY <1>2, PlaceFacts
  <2> QED
    BY <1>1, <1>2, <2>2, <2>3 DEF Possible, NameAt, TableAt
<1>3. CASE Seen \in 1..32 /\ NextStatement = Drop(NameAt(Seen))
  <2>1. /\ NameAt(Seen) \in NamesUpTo(Seen)
        /\ \A n \in NamesUpTo(Seen) : NameAt(Seen) \notin TableAt(Rank(n)).refs
    BY <1>3, NamesGrow
  <2>2. \A n \in NamesUpTo(Seen) : command.tables[n] = TableAt(Rank(n))
    BY <1>1 DEF Partial
  <2>3. NextStatement.op = "drop" /\ NextStatement.name = NameAt(Seen)
    BY <1>3 DEF Drop
  <2> QED
    BY <1>1, <2>1, <2>2, <2>3 DEF Possible
<1>4. ASSUME NEW w, NextStatement = Stamp(w)
      PROVE  Possible(NextStatement)
  <2>1. NextStatement.op = "stamp"
    BY <1>4 DEF Stamp
  <2> QED
    BY <2>1 DEF Possible
<1> QED
  BY <1>2, <1>3, <1>4, NextStatementIs DEF MigrationsInv

\* What a statement does to the command and to the database.
LEMMA ExecuteEffect ==
  ASSUME MigrationsInv, NEW s, Execute(s)
  PROVE  /\ command'.mode = command.mode /\ command'.target = command.target
         /\ command'.sound = command.sound /\ command'.end = command.end
         /\ command'.tables = TablesAfter(s) /\ command'.version = VersionAfter(s)
         /\ command'.done = (IF s.op = "stamp" THEN 0 ELSE command.done + 1)
         /\ DOMAIN command' = CommandFields
         /\ command.mode = "offline" =>
              /\ tables' = TablesAfter(s) /\ version' = VersionAfter(s)
              /\ unfinished' = (s.op = "drop" \/ (unfinished /\ ~(s.op = "stamp" /\ command.sound)))
         /\ command.mode # "offline" => UNCHANGED <<tables, version, unfinished>>
<1>1. DOMAIN command = CommandFields
  BY DEF MigrationsInv
<1> QED
  BY <1>1 DEF Execute, CommandFields

LEMMA CreateEffect ==
  ASSUME Partial(command.tables), NEW p \in 1..32, NEW s, s = CreateAt(p)
  PROVE  /\ s.op = "create" /\ VersionAfter(s) = command.version /\ Partial(TablesAfter(s))
         /\ DOMAIN TablesAfter(s) = DOMAIN command.tables \cup {NameAt(p)}
<1>1. s.op = "create" /\ s.name = NameAt(p) /\ s.table = TableAt(p) /\ Rank(NameAt(p)) = p
  BY PlaceFacts DEF NameAt, TableAt
<1>2. NameAt(p) \in NamesUpTo(32)
  BY DEF NamesUpTo
<1> DEFINE more == DOMAIN command.tables \cup {NameAt(p)}
<1>3. TablesAfter(s) = [t \in more |-> IF t = NameAt(p) THEN TableAt(p) ELSE command.tables[t]]
  BY <1>1 DEF TablesAfter
<1>4. \A t \in more : (IF t = NameAt(p) THEN TableAt(p) ELSE command.tables[t]) = TableAt(Rank(t))
  BY <1>1 DEF Partial
<1>5. TablesAfter(s) = [t \in more |-> TableAt(Rank(t))]
  BY <1>3, <1>4
<1>6. DOMAIN TablesAfter(s) = more /\ more \subseteq NamesUpTo(32)
  BY <1>2, <1>5 DEF Partial
<1>7. Partial(TablesAfter(s))
  BY <1>5, <1>6, Zenon DEF Partial
<1> QED
  BY <1>1, <1>6, <1>7 DEF VersionAfter

LEMMA DropEffect ==
  ASSUME Partial(command.tables), NEW p \in 1..32, NEW s, s = Drop(NameAt(p))
  PROVE  /\ s.op = "drop" /\ VersionAfter(s) = command.version /\ Partial(TablesAfter(s))
         /\ DOMAIN TablesAfter(s) = DOMAIN command.tables \ {NameAt(p)}
<1>1. s.op = "drop" /\ s.name = NameAt(p)
  BY DEF Drop
<1> DEFINE less == DOMAIN command.tables \ {NameAt(p)}
<1>2. TablesAfter(s) = [t \in less |-> command.tables[t]]
  BY <1>1 DEF TablesAfter
<1>3. \A t \in less : command.tables[t] = TableAt(Rank(t))
  BY DEF Partial
<1>4. TablesAfter(s) = [t \in less |-> TableAt(Rank(t))]
  BY <1>2, <1>3
<1>5. DOMAIN TablesAfter(s) = less /\ less \subseteq NamesUpTo(32)
  BY <1>4 DEF Partial
<1>6. Partial(TablesAfter(s))
  BY <1>4, <1>5, Zenon DEF Partial
<1> QED
  BY <1>1, <1>5, <1>6 DEF VersionAfter

LEMMA StampEffect ==
  ASSUME NEW v, NEW s, s = Stamp(v)
  PROVE  s.op = "stamp" /\ VersionAfter(s) = v /\ TablesAfter(s) = command.tables
BY DEF Stamp, VersionAfter, TablesAfter

\* The facts of the invariant about a running command that has not reached its target.
LEMMA RunningFacts ==
  ASSUME MigrationsInv, command.end = "running", command.version # command.target
  PROVE  /\ command.version \in 0..4 /\ command.target \in 0..4 /\ command.done \in Nat
         /\ command.done \in 0..Statements /\ Statements \in Nat
         /\ SeesProgress /\ ScriptIsCommitted
         /\ Partial(command.tables) /\ Partial(tables)
         /\ version \in 0..4
<1>1. command.version \in 0..4 /\ command.target \in 0..4 /\ version \in 0..4
  BY UpgradesAre DEF MigrationsInv, MigrationsTypeOK
<1>2. Statements \in Nat
  BY <1>1 DEF Statements, Upgrading, Size
<1> QED
  BY <1>1, <1>2, TablesArePartial DEF MigrationsInv, MigrationsTypeOK

LEMMA ExecuteKeepsType ==
  ASSUME MigrationsInv, command.end = "running", command.version # command.target,
         Execute(NextStatement)
  PROVE  MigrationsTypeOK'
<1> DEFINE s == NextStatement
<1>1. Partial(TablesAfter(s)) /\ VersionAfter(s) \in 0..4
  <2>1. CASE Seen + 1 \in 1..32 /\ s = CreateAt(Seen + 1)
    <3>1. Partial(TablesAfter(s)) /\ VersionAfter(s) = command.version
      BY <2>1, RunningFacts, CreateEffect
    <3> QED
      BY <3>1, RunningFacts
  <2>2. CASE Seen \in 1..32 /\ s = Drop(NameAt(Seen))
    <3>1. Partial(TablesAfter(s)) /\ VersionAfter(s) = command.version
      BY <2>2, RunningFacts, DropEffect
    <3> QED
      BY <3>1, RunningFacts
  <2>3. CASE Upgrading /\ s = Stamp(command.version + 1)
    <3>1. TablesAfter(s) = command.tables /\ VersionAfter(s) = command.version + 1
      BY <2>3, StampEffect
    <3> QED
      BY <2>3, <3>1, RunningFacts DEF Upgrading
  <2>4. CASE ~Upgrading /\ s = Stamp(command.version - 1)
    <3>1. TablesAfter(s) = command.tables /\ VersionAfter(s) = command.version - 1
      BY <2>4, StampEffect
    <3> QED
      BY <2>4, <3>1, RunningFacts DEF Upgrading
  <2> QED
    BY <2>1, <2>2, <2>3, <2>4, NextStatementIs, RunningFacts DEF MigrationsInv
<1> HIDE DEF s
<1>2. TablesOfRevisions(TablesAfter(s)) /\ VersionAfter(s) \in 0..Latest
  BY <1>1, TablesArePartial, UpgradesAre
<1>3. /\ command'.mode = command.mode /\ command'.target = command.target
      /\ command'.sound = command.sound /\ command'.end = command.end
      /\ command'.tables = TablesAfter(s) /\ command'.version = VersionAfter(s)
      /\ command'.done = (IF s.op = "stamp" THEN 0 ELSE command.done + 1)
      /\ command.mode = "offline" => tables' = TablesAfter(s) /\ version' = VersionAfter(s)
      /\ command.mode = "offline" => unfinished' \in BOOLEAN
      /\ command.mode # "offline" => UNCHANGED <<tables, version, unfinished>>
  BY ExecuteEffect DEF s
<1>4. MigrationsTypeOK
  BY DEF MigrationsInv
<1>5. TablesOfRevisions(tables)'
  <2>1. CASE command.mode = "offline"
    BY <1>2, <1>3, <2>1 DEF TablesOfRevisions
  <2>2. CASE command.mode # "offline"
    BY <1>3, <1>4, <2>2 DEF MigrationsTypeOK, TablesOfRevisions
  <2> QED
    BY <2>1, <2>2
<1>6. TablesOfRevisions(command.tables)'
  BY <1>2, <1>3 DEF TablesOfRevisions
<1>7. /\ version' \in 0..Latest /\ command'.mode \in {"online", "offline"}
      /\ command'.end \in {"ok", "failed", "killed", "running"}
      /\ command'.version \in 0..Latest /\ command'.target \in 0..Latest /\ command'.done \in Nat
      /\ command'.sound \in BOOLEAN /\ unfinished' \in BOOLEAN
  BY <1>2, <1>3, <1>4 DEF MigrationsTypeOK
<1> QED
  BY <1>5, <1>6, <1>7 DEF MigrationsTypeOK

\* What remains of the invariant once the type is kept, for a command that runs on.
RunsOn ==
  /\ command.done \in 0..Statements /\ SeesProgress /\ ScriptIsCommitted
  /\ ~unfinished => NamesUpTo(Size(version)) \subseteq DOMAIN tables

LEMMA CreateRunsOn ==
  ASSUME MigrationsInv, command.end = "running", command.version # command.target,
         Execute(NextStatement), Upgrading, command.done < Statements,
         Seen + 1 \in 1..32, NextStatement = CreateAt(Seen + 1)
  PROVE  RunsOn'
<1> DEFINE s == NextStatement
           v == command.version
<1>1. /\ s.op = "create" /\ VersionAfter(s) = v /\ Partial(TablesAfter(s))
      /\ DOMAIN TablesAfter(s) = DOMAIN command.tables \cup {NameAt(Seen + 1)}
  BY CreateEffect, RunningFacts
<1>2. /\ command'.mode = command.mode /\ command'.target = command.target
      /\ command'.sound = command.sound
      /\ command'.tables = TablesAfter(s) /\ command'.version = v
      /\ command'.done = command.done + 1
      /\ command.mode = "offline" =>
           tables' = TablesAfter(s) /\ version' = v /\ unfinished' = unfinished
      /\ command.mode # "offline" => UNCHANGED <<tables, version, unfinished>>
  <2>1. unfinished \in BOOLEAN
    BY DEF MigrationsInv, MigrationsTypeOK
  <2> QED
    BY <1>1, <2>1, ExecuteEffect
<1>3. v \in 0..4 /\ Size(v) \in Nat /\ command.done \in Nat /\ Statements \in Nat
  BY RunningFacts DEF Size
<1>4. Upgrading' /\ Statements' = Statements /\ Seen = Size(v) + command.done
      /\ Seen' = Size(v) + (command.done + 1)
  BY <1>2 DEF Upgrading, Statements, Seen
<1>5. Seen' = Seen + 1 /\ (Seen + 1) - 1 = Seen
  BY <1>3, <1>4
<1>6. command'.done \in 0..Statements'
  BY <1>2, <1>3, <1>4
<1>7. SeesProgress'
  <2>1. NamesUpTo(Seen + 1) = NamesUpTo(Seen) \cup {NameAt(Seen + 1)}
    BY <1>5, NamesGrow
  <2>2. SeesProgress
    BY RunningFacts
  <2> QED
    BY <1>1, <1>2, <1>5, <2>1, <2>2 DEF SeesProgress
<1>8. ScriptIsCommitted'
  <2> SUFFICES ASSUME command.mode = "offline"
               PROVE  /\ command'.tables = tables' /\ command'.version = version'
                      /\ Upgrading' => \A i \in 1..command'.done :
                           NameAt(Size(version') + i) \in DOMAIN tables'
                      /\ ~Upgrading' /\ command'.done > 0 => unfinished'
    BY <1>2 DEF ScriptIsCommitted
  <2>1. /\ command.tables = tables /\ v = version
        /\ \A i \in 1..command.done : NameAt(Size(v) + i) \in DOMAIN tables
    BY RunningFacts DEF ScriptIsCommitted
  <2>2. DOMAIN tables' = DOMAIN tables \cup {NameAt(Seen + 1)} /\ version' = v
    BY <1>1, <1>2, <2>1
  <2>3. ASSUME NEW i \in 1..(command.done + 1)
        PROVE  NameAt(Size(v) + i) \in DOMAIN tables'
    <3>1. CASE i \in 1..command.done
      BY <2>1, <2>2, <3>1
    <3>2. CASE i = command.done + 1
      <4>1. Size(v) + i = Seen + 1
        BY <1>4, <1>5, <3>2
      <4> QED
        BY <2>2, <4>1
    <3> QED
      BY <1>3, <3>1, <3>2
  <2> QED
    BY <1>2, <1>4, <2>2, <2>3
<1>9. ~unfinished' => NamesUpTo(Size(version')) \subseteq DOMAIN tables'
  <2>1. ~unfinished => NamesUpTo(Size(version)) \subseteq DOMAIN tables
    BY DEF MigrationsInv
  <2>2. CASE command.mode = "offline"
    <3>1. command.tables = tables /\ v = version
      BY <2>2, RunningFacts DEF ScriptIsCommitted
    <3> QED
      BY <1>1, <1>2, <2>1, <2>2, <3>1
  <2>3. CASE command.mode # "offline"
    BY <1>2, <2>1, <2>3
  <2> QED
    BY <2>2, <2>3
<1> QED
  BY <1>6, <1>7, <1>8, <1>9 DEF RunsOn

LEMMA DropRunsOn ==
  ASSUME MigrationsInv, command.end = "running", command.version # command.target,
         Execute(NextStatement), ~Upgrading, command.done < Statements,
         Seen \in 1..32, NextStatement = Drop(NameAt(Seen))
  PROVE  RunsOn'
<1> DEFINE s == NextStatement
           v == command.version
<1>1. /\ s.op = "drop" /\ VersionAfter(s) = v
      /\ DOMAIN TablesAfter(s) = DOMAIN command.tables \ {NameAt(Seen)}
  BY DropEffect, RunningFacts
<1>2. /\ command'.mode = command.mode /\ command'.target = command.target
      /\ command'.sound = command.sound
      /\ command'.tables = TablesAfter(s) /\ command'.version = v
      /\ command'.done = command.done + 1
      /\ command.mode = "offline" => tables' = TablesAfter(s) /\ version' = v /\ unfinished'
      /\ command.mode # "offline" => UNCHANGED <<tables, version, unfinished>>
  BY <1>1, ExecuteEffect
<1>3. v \in 0..4 /\ Size(v) \in Nat /\ command.done \in Nat /\ Statements \in Nat
  BY RunningFacts DEF Size
<1>4. ~Upgrading' /\ Statements' = Statements /\ Seen = Size(v) - command.done
      /\ Seen' = Size(v) - (command.done + 1)
  BY <1>2 DEF Upgrading, Statements, Seen
<1>5. Seen' = Seen - 1
  BY <1>3, <1>4
<1>6. command'.done \in 0..Statements'
  BY <1>2, <1>3, <1>4
<1>7. SeesProgress'
  <2>1. /\ NamesUpTo(Seen) = NamesUpTo(Seen - 1) \cup {NameAt(Seen)}
        /\ NameAt(Seen) \notin NamesUpTo(Seen - 1)
    BY NamesGrow
  <2>2. SeesProgress
    BY RunningFacts
  <2> QED
    BY <1>1, <1>2, <1>5, <2>1, <2>2 DEF SeesProgress
<1>8. ScriptIsCommitted'
  BY <1>2, <1>4 DEF ScriptIsCommitted
<1>9. ~unfinished' => NamesUpTo(Size(version')) \subseteq DOMAIN tables'
  BY <1>2 DEF MigrationsInv
<1> QED
  BY <1>6, <1>7, <1>8, <1>9 DEF RunsOn

LEMMA StampRunsOn ==
  ASSUME MigrationsInv, command.end = "running", command.version # command.target,
         Execute(NextStatement), command.done = Statements,
         NEW w \in {command.version + 1, command.version - 1},
         Upgrading => w = command.version + 1, ~Upgrading => w = command.version - 1,
         NextStatement = Stamp(w), Seen = Size(w)
  PROVE  RunsOn'
<1> DEFINE s == NextStatement
           v == command.version
<1>1. s.op = "stamp" /\ VersionAfter(s) = w /\ TablesAfter(s) = command.tables
  BY StampEffect
<1>2. /\ command'.mode = command.mode /\ command'.target = command.target
      /\ command'.sound = command.sound
      /\ command'.tables = command.tables /\ command'.version = w /\ command'.done = 0
      /\ command.mode = "offline" =>
           tables' = command.tables /\ version' = w /\ unfinished' = (unfinished /\ ~command.sound)
      /\ command.mode # "offline" => UNCHANGED <<tables, version, unfinished>>
  <2>1. unfinished \in BOOLEAN
    BY DEF MigrationsInv, MigrationsTypeOK
  <2> QED
    BY <1>1, <2>1, ExecuteEffect
<1>3. v \in 0..4 /\ command.target \in 0..4 /\ w \in 0..4 /\ v # command.target
  BY RunningFacts DEF Upgrading
<1>4. Seen' = Size(w) /\ Statements' \in Nat
  BY <1>2, <1>3 DEF Seen, Statements, Upgrading, Size
<1>5. command'.done \in 0..Statements'
  BY <1>2, <1>4
<1>6. SeesProgress /\ ScriptIsCommitted
  BY RunningFacts
<1>7. SeesProgress'
  BY <1>2, <1>4, <1>6 DEF SeesProgress
<1>8. ScriptIsCommitted'
  BY <1>2 DEF ScriptIsCommitted
<1>9. ~unfinished' => NamesUpTo(Size(version')) \subseteq DOMAIN tables'
  <2>1. ~unfinished => NamesUpTo(Size(version)) \subseteq DOMAIN tables
    BY DEF MigrationsInv
  <2>2. CASE command.mode # "offline"
    BY <1>2, <2>1, <2>2
  <2>3. CASE command.mode = "offline"
    <3>1. command.tables = tables /\ v = version
      BY <1>6, <2>3 DEF ScriptIsCommitted
    <3>2. ASSUME command.sound
          PROVE  DOMAIN tables = NamesUpTo(Size(w))
      BY <1>6, <3>1, <3>2 DEF SeesProgress
    <3>3. ASSUME ~unfinished
          PROVE  NamesUpTo(Size(w)) \subseteq DOMAIN tables
      <4>1. CASE Upgrading
        <5>1. w = v + 1 /\ w \in 1..4 /\ w - 1 = v /\ Statements = Size(w) - Size(v)
          BY <1>3, <4>1 DEF Statements
        <5>2. \A i \in 1..(Size(w) - Size(v)) : NameAt(Size(v) + i) \in DOMAIN tables
          BY <1>6, <2>3, <3>1, <4>1, <5>1 DEF ScriptIsCommitted
        <5>3. ASSUME NEW p \in 1..Size(w)
              PROVE  NameAt(p) \in DOMAIN tables
          <6>1. Size(v) \in Nat /\ Size(w) \in Nat
            BY <1>3 DEF Size
          <6>2. CASE p \in 1..Size(v)
            BY <2>1, <3>1, <3>3, <6>2 DEF NamesUpTo
          <6>3. CASE p \notin 1..Size(v)
            <7>1. p - Size(v) \in 1..(Size(w) - Size(v)) /\ Size(v) + (p - Size(v)) = p
              BY <6>1, <6>3
            <7> QED
              BY <5>2, <7>1
          <6> QED
            BY <6>2, <6>3
        <5> QED
          BY <5>3 DEF NamesUpTo
      <4>2. CASE ~Upgrading
        <5>1. Statements > 0
          BY <1>3, <4>2 DEF Statements, Upgrading, Size
        <5> QED
          BY <1>6, <2>3, <3>3, <4>2, <5>1 DEF ScriptIsCommitted
      <4> QED
        BY <4>1, <4>2
    <3> QED
      BY <1>2, <2>3, <3>1, <3>2, <3>3
  <2> QED
    BY <2>2, <2>3
<1> QED
  BY <1>5, <1>7, <1>8, <1>9 DEF RunsOn

LEMMA ExecuteKeepsInv ==
  ASSUME MigrationsInv, command.end = "running", command.version # command.target,
         Execute(NextStatement)
  PROVE  MigrationsInv'
<1>1. MigrationsTypeOK'
  BY ExecuteKeepsType
<1>2. command'.end = "running" /\ DOMAIN command' = CommandFields
  BY ExecuteEffect
<1>3. RunsOn'
  BY RunningFacts, NextStatementIs, CreateRunsOn, DropRunsOn, StampRunsOn DEF MigrationsInv
<1> QED
  BY <1>1, <1>2, <1>3 DEF MigrationsInv, RunsOn

LEMMA MigrationsStepInv == MigrationsInv /\ [MigrationsNext]_migrationVars => MigrationsInv'
<1> SUFFICES ASSUME MigrationsInv, [MigrationsNext]_migrationVars
             PROVE  MigrationsInv'
  OBVIOUS
<1>1. ASSUME NEW mode \in {"online", "offline"}, NEW target \in 0..Latest, Start(mode, target)
      PROVE  MigrationsInv'
  BY <1>1, StartKeepsInv
<1>2. ASSUME command.end = "running", command.version # command.target, Execute(NextStatement)
      PROVE  MigrationsInv'
  BY <1>2, ExecuteKeepsInv
<1>3. ASSUME command.end = "running", command.version # command.target,
             ~Possible(NextStatement), End("failed")
      PROVE  MigrationsInv'
  <2>1. ~command.sound
    BY <1>3, SoundIsPossible
  <2> QED
    BY <1>3, <2>1, EndKeepsInv
<1>4. ASSUME command.end = "running", command.version = command.target, End("ok")
      PROVE  MigrationsInv'
  BY <1>4, EndKeepsInv
<1>5. ASSUME command.end = "running", End("killed")
      PROVE  MigrationsInv'
  BY <1>5, EndKeepsInv
<1>6. CASE UNCHANGED migrationVars
  BY <1>6 DEF migrationVars, MigrationsInv, MigrationsTypeOK, TablesOfRevisions, Statements,
     Upgrading, Seen, SeesProgress, ScriptIsCommitted, SoundCommandsSucceed
<1> QED
  BY <1>1, <1>2, <1>3, <1>4, <1>5, <1>6 DEF MigrationsNext

LEMMA InvGivesProperties ==
  ASSUME MigrationsInv
  PROVE  MigrationsTypeOK /\ SoundCommandsSucceed /\ StampedTablesExist
<1>1. SoundCommandsSucceed
  BY DEF MigrationsInv, SoundCommandsSucceed
<1>2. StampedTablesExist
  <2> SUFFICES ASSUME ~unfinished
               PROVE  /\ \A t \in DOMAIN SchemaOf[version] :
                           t \in DOMAIN tables /\ tables[t] = SchemaOf[version][t]
                      /\ \A m \in Models :
                           version >= 3 \/ m.name \in DOMAIN SchemaOf[version] =>
                             m.name \in DOMAIN tables /\ tables[m.name] = m.table
    BY DEF StampedTablesExist
  <2>1. version \in 0..4 /\ Partial(tables)
    BY UpgradesAre, TablesArePartial DEF MigrationsInv, MigrationsTypeOK
  <2>2. \A n \in NamesUpTo(Size(version)) : n \in DOMAIN tables /\ tables[n] = TableAt(Rank(n))
    BY <2>1 DEF MigrationsInv, Partial
  <2>3. /\ DOMAIN SchemaOf[version] = NamesUpTo(Size(version))
        /\ \A n \in NamesUpTo(Size(version)) : SchemaOf[version][n] = TableAt(Rank(n))
    BY <2>1, SchemaNames
  <2>4. ASSUME NEW m \in Models, version >= 3 \/ m.name \in DOMAIN SchemaOf[version]
        PROVE  m.name \in DOMAIN tables /\ tables[m.name] = m.table
    <3>1. PICK p \in 1..21 : m = CreateAt(p)
      BY ModelsAre
    <3>2. m.name = NameAt(p) /\ m.table = TableAt(p) /\ Rank(m.name) = p
      BY <3>1, PlaceFacts DEF NameAt, TableAt
    <3>3. m.name \in NamesUpTo(Size(version))
      <4>1. CASE version >= 3
        <5>1. p \in 1..Size(version)
          BY <2>1, <4>1 DEF Size
        <5> QED
          BY <3>2, <5>1 DEF NamesUpTo
      <4>2. CASE m.name \in DOMAIN SchemaOf[version]
        BY <2>3, <4>2
      <4> QED
        BY <2>4, <4>1, <4>2
    <3> QED
      BY <2>2, <3>2, <3>3
  <2> QED
    BY <2>2, <2>3, <2>4
<1> QED
  BY <1>1, <1>2 DEF MigrationsInv

LEMMA MigrationsInvariant == MigrationsSpec => []MigrationsInv
BY MigrationsInitInv, MigrationsStepInv, PTL DEF MigrationsSpec

\* SoundCommandsSucceed holds from every state that earlier commands, failures and crashes
\* can leave: a command that found the tables of its revision executes every statement
\* and ends with the tables of its target (upgrade and downgrade of the four revisions).
THEOREM SoundCommandsAlwaysSucceed == MigrationsSpec => []SoundCommandsSucceed
BY MigrationsInvariant, InvGivesProperties, PTL

\* StampedTablesExist holds wherever scripts were interrupted or failed: unless a downgrade
\* was left unfinished, the tables of the stamped revision are there, as the models take them
\* for granted (the revisions, models.py).
THEOREM StampedTablesAreThere == MigrationsSpec => []StampedTablesExist
BY MigrationsInvariant, InvGivesProperties, PTL

-----------------------------------------------------------------------------
(* The database as a whole.                                                *)

LEMMA RecordsInvariant == RecordsSpec => []RecordsInv
BY RecordsStart, RecordsStep, PTL DEF RecordsSpec

LEMMA RepositoriesInvariant == RepositoriesSpec => []RepositoriesInv
BY RepositoriesStarts, RepositoriesStep, PTL DEF RepositoriesSpec

\* Whatever part of the database is used, each part behaves as its own specification says.
THEOREM PersistenceAsSpecified == Spec => RepositoriesSpec /\ RecordsSpec /\ MigrationsSpec
<1>1. Init => RepositoriesInit /\ RecordsInit /\ MigrationsInit
  BY DEF Init
<1>2. [Next]_<<repositoryVars, recordVars, migrationVars, focus>> =>
        /\ [RepositoriesNext]_repositoryVars
        /\ [RecordsNext]_recordVars
        /\ [MigrationsNext]_migrationVars
  BY DEF Next
<1> QED
  BY <1>1, <1>2, PTL DEF Spec, RepositoriesSpec, RecordsSpec, MigrationsSpec

LEMMA RecordsKeepTypes == RecordsInv => RecordsTypeOK
<1>1. \A t \in Tables : RecordTable(t)
  BY DEF Tables, RecordTable
<1>2. RecordTypes => RecordsTypeOK
  <2> SUFFICES ASSUME RecordTypes
               PROVE  RecordsTypeOK
    OBVIOUS
  <2>1. \A s \in Callers :
          /\ work[s].active \in BOOLEAN /\ work[s].allowed \in BOOLEAN
          /\ work[s].tenant \in Ids \cup {Operator} /\ work[s].credential \in Ids \cup {0}
          /\ work[s].check \in 0..MaxChecks
          /\ work[s].mine \in Tables /\ work[s].held \in Tables
    BY DEF RecordTypes, Works
  <2>2. latest \in [Ids -> 0..MaxChecks]
    <3>1. Len(findings) \in 0..MaxChecks /\ latest \in [Ids -> 0..Len(findings)]
      BY DEF RecordTypes
    <3>2. \A n \in 0..MaxChecks : 0..n \subseteq 0..MaxChecks
      BY RecordBoundsAssumption
    <3>3. 0..Len(findings) \subseteq 0..MaxChecks
      BY <3>1, <3>2
    <3> QED
      BY <3>1, <3>3
  <2> QED
    BY <1>1, <2>1, <2>2 DEF RecordTypes, RecordsTypeOK, Findings
<1> QED
  BY <1>2 DEF RecordsInv

\* The invariants hold of the database as a whole, whatever part of it is used and for every
\* value of the constants: audit chains verify, serial saves are counted, tenants stay apart,
\* live starts are checked, and the schema is what the models take for granted.
THEOREM PersistenceKeepsItsPromises ==
  Spec => [](/\ EveryReaderVerifies /\ SerialSavesCount
             /\ TenantsApart /\ LiveStartsAreChecked
             /\ SoundCommandsSucceed /\ StampedTablesExist)
BY PersistenceAsSpecified, StoredChainsVerify, SerialSavesAreCounted, TenantsStayApart,
   LiveStartsRestOnChecks, SoundCommandsAlwaysSucceed, StampedTablesAreThere, PTL

\* In every reachable state the variables of the three parts have their types.
THEOREM PersistenceTyped == Spec => []TypeOK
<1>1. RepositoriesInv /\ RecordsInv /\ MigrationsInv => TypeOK
  BY RecordsKeepTypes DEF RepositoriesInv, MigrationsInv, TypeOK
<1> QED
  BY <1>1, PersistenceAsSpecified, RepositoriesInvariant, RecordsInvariant, MigrationsInvariant, PTL

================================================================================
