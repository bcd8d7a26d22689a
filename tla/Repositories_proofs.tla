------------------------- MODULE Repositories_proofs -------------------------
(***************************************************************************)
(* Theorems about the repositories that compute what they write, for any   *)
(* number of sessions, tenants and events and any length of a chain: no    *)
(* interleaving of transactions, failures and crashes forks a stored audit *)
(* chain, and saves are counted unless two of them overlap.                *)
(***************************************************************************)
EXTENDS Repositories, FunctionTheorems, FiniteSetTheorems, TLAPS

-----------------------------------------------------------------------------
(* Chains.                                                                 *)

\* Entries numbered from one to n without a gap, each following the one before it.
Numbered(S, n) ==
  /\ S \subseteq Entries
  /\ \A r \in S : r.sequence \in 1..n
  /\ \A i \in 1..n : \E r \in S : r.sequence = i
  /\ \A r, q \in S : r.sequence = q.sequence => r = q
  /\ \A r \in S : r.sequence = 1 => r.previous_hash = <<>>
  /\ \A r, q \in S : r.sequence = q.sequence + 1 => r.previous_hash = EntryHash(q)

Chained(S) == Cardinality(S) \in Nat /\ IsFiniteSet(S) /\ Numbered(S, Cardinality(S))

LEMMA NumberedCount ==
  ASSUME NEW S, NEW n \in Nat, Numbered(S, n)
  PROVE  IsFiniteSet(S) /\ Cardinality(S) = n
<1> DEFINE f == [i \in 1..n |-> CHOOSE r \in S : r.sequence = i]
<1>1. \A i \in 1..n : f[i] \in S /\ f[i].sequence = i
  BY DEF Numbered
<1>2. f \in Bijection(1..n, S)
  <2>1. f \in [1..n -> S]
    BY <1>1
  <2>2. \A i, j \in 1..n : f[i] = f[j] => i = j
    BY <1>1
  <2>3. \A r \in S : \E i \in 1..n : f[i] = r
    BY <1>1 DEF Numbered
  <2> HIDE DEF f
  <2> QED
    BY <2>1, <2>2, <2>3, Fun_IsBij
<1>3. ExistsBijection(1..n, S)
  BY <1>2 DEF ExistsBijection
<1> QED
  BY <1>3, FS_CountingElements, FS_NatBijection

LEMMA NumberedIsChained ==
  ASSUME NEW S, NEW n \in Nat, Numbered(S, n)
  PROVE  Chained(S) /\ Cardinality(S) = n
BY NumberedCount DEF Chained

LEMMA EmptyChain == Chained({}) /\ Cardinality({}) = 0
<1>1. Numbered({}, 0)
  BY DEF Numbered
<1> QED
  BY <1>1, NumberedIsChained

\* Sorting puts each entry in the place of its number.
LEMMA SortedPlace ==
  ASSUME NEW S, Chained(S), NEW i \in 1..Cardinality(S)
  PROVE  Sorted(S)[i] \in S /\ Sorted(S)[i].sequence = i
<1> DEFINE Before(r) == {q \in S : q.sequence < r.sequence}
<1>1. ASSUME NEW r \in S
      PROVE  Cardinality(Before(r)) = r.sequence - 1
  <2>1. r.sequence \in 1..Cardinality(S) /\ Cardinality(S) \in Nat
    BY DEF Chained, Numbered
  <2>2. Numbered(Before(r), r.sequence - 1)
    <3>1. /\ S \subseteq Entries
          /\ \A q \in S : q.sequence \in 1..Cardinality(S)
          /\ \A k \in 1..Cardinality(S) : \E q \in S : q.sequence = k
          /\ \A p, q \in S : p.sequence = q.sequence => p = q
          /\ \A q \in S : q.sequence = 1 => q.previous_hash = <<>>
          /\ \A p, q \in S : p.sequence = q.sequence + 1 => p.previous_hash = EntryHash(q)
      BY DEF Chained, Numbered
    <3>2. \A q \in Before(r) : q.sequence \in 1..(r.sequence - 1)
      BY <2>1, <3>1
    <3>3. \A k \in 1..(r.sequence - 1) : \E q \in Before(r) : q.sequence = k
      BY <2>1, <3>1
    <3> QED
      BY <3>1, <3>2, <3>3 DEF Numbered
  <2>3. r.sequence - 1 \in Nat
    BY <2>1
  <2> QED
    BY <2>2, <2>3, NumberedCount
<1>2. \E r \in S : Cardinality(Before(r)) = i - 1
  BY <1>1 DEF Chained, Numbered
<1>3. Sorted(S)[i] = CHOOSE r \in S : Cardinality(Before(r)) = i - 1
  BY DEF Sorted
<1>4. Sorted(S)[i] \in S /\ Cardinality(Before(Sorted(S)[i])) = i - 1
  <2> HIDE DEF Before
  <2> QED
    BY <1>2, <1>3
<1>5. Sorted(S)[i].sequence - 1 = i - 1
  BY <1>1, <1>4
<1>6. Sorted(S)[i].sequence \in 1..Cardinality(S) /\ Cardinality(S) \in Nat
  BY <1>4 DEF Chained, Numbered
<1> QED
  BY <1>4, <1>5, <1>6

\* Whatever is chained verifies.
LEMMA ChainVerifies ==
  ASSUME NEW S, Chained(S)
  PROVE  Verify(S)
<1> DEFINE n == Cardinality(S)
<1>1. n \in Nat
  BY DEF Chained
<1>2. {r.sequence : r \in S} = 1..n
  BY DEF Chained, Numbered
<1>3. Cardinality(1..n) = n
  BY <1>1, FS_Interval
<1>4. ASSUME NEW i \in 1..n
      PROVE  /\ Sorted(S)[i].sequence = i
             /\ Sorted(S)[i].previous_hash = (IF i = 1 THEN <<>> ELSE EntryHash(Sorted(S)[i - 1]))
  <2>1. Sorted(S)[i] \in S /\ Sorted(S)[i].sequence = i
    BY SortedPlace
  <2>2. CASE i = 1
    BY <2>1, <2>2 DEF Chained, Numbered
  <2>3. CASE i # 1
    <3>1. i - 1 \in 1..n /\ i = (i - 1) + 1
      BY <1>1, <2>3
    <3>2. Sorted(S)[i - 1] \in S /\ Sorted(S)[i - 1].sequence = i - 1
      BY <3>1, SortedPlace
    <3> QED
      BY <2>1, <2>3, <3>1, <3>2 DEF Chained, Numbered
  <2> QED
    BY <2>1, <2>2, <2>3
<1> QED
  BY <1>2, <1>3, <1>4 DEF Verify

\* What append computes from a chain follows it.
LEMMA NewEntryFollows ==
  ASSUME NEW S, Chained(S), NEW e \in Events
  PROVE  /\ NewEntry(S, e) \in Entries
         /\ NewEntry(S, e).sequence = Cardinality(S) + 1
         /\ NewEntry(S, e).event = e
         /\ Chained(S \cup {NewEntry(S, e)})
         /\ Cardinality(S \cup {NewEntry(S, e)}) = Cardinality(S) + 1
<1> DEFINE n == Cardinality(S)
           x == NewEntry(S, e)
<1>1. n \in Nat /\ IsFiniteSet(S) /\ Numbered(S, n)
  BY DEF Chained
<1>2. S = {} <=> n = 0
  BY <1>1, FS_EmptySet
<1>3. x.sequence = n + 1 /\ x.event = e /\ x.previous_hash = LastHash(S)
  BY DEF NewEntry
<1>4. n = 0 => LastHash(S) = <<>>
  BY <1>2 DEF LastHash
<1>5. n > 0 => /\ Sorted(S)[n] \in S /\ Sorted(S)[n].sequence = n
               /\ LastHash(S) = EntryHash(Sorted(S)[n])
  BY <1>1, <1>2, SortedPlace DEF LastHash
<1>6. LastHash(S) \in Seq(Events)
  <2>1. \A r \in S : r \in Entries
    BY <1>1 DEF Numbered
  <2>2. \A r \in Entries : Append(r.previous_hash, r.event) \in Seq(Events)
    BY DEF Entries
  <2>3. CASE n = 0
    BY <1>4, <2>3
  <2>4. CASE n > 0
    BY <1>5, <2>1, <2>2, <2>4 DEF EntryHash
  <2> QED
    BY <1>1, <2>3, <2>4
<1>7. x \in Entries
  BY <1>1, <1>6 DEF NewEntry, Entries
<1>8. Numbered(S \cup {x}, n + 1)
  <2> HIDE DEF x
  <2>1. S \cup {x} \subseteq Entries
    BY <1>1, <1>7 DEF Numbered
  <2>2. \A r \in S : r.sequence \in 1..n
    BY <1>1 DEF Numbered
  <2>3. \A r \in S \cup {x} : r.sequence \in 1..(n + 1)
    BY <1>1, <1>3, <2>2
  <2>4. \A i \in 1..(n + 1) : \E r \in S \cup {x} : r.sequence = i
    <3> SUFFICES ASSUME NEW i \in 1..(n + 1)
                 PROVE  \E r \in S \cup {x} : r.sequence = i
      OBVIOUS
    <3>1. i = n + 1 \/ i \in 1..n
      BY <1>1
    <3> QED
      BY <1>1, <1>3, <3>1 DEF Numbered
  <2>5. \A r, q \in S \cup {x} : r.sequence = q.sequence => r = q
    BY <1>1, <1>3, <2>2 DEF Numbered
  <2>6. \A r \in S \cup {x} : r.sequence = 1 => r.previous_hash = <<>>
    BY <1>1, <1>3, <1>4 DEF Numbered
  <2>7. ASSUME NEW r \in S \cup {x}, NEW q \in S \cup {x}, r.sequence = q.sequence + 1
        PROVE  r.previous_hash = EntryHash(q)
    <3>1. q \in S
      BY <1>1, <1>3, <2>3, <2>7
    <3>2. CASE r \in S
      BY <1>1, <2>7, <3>1, <3>2 DEF Numbered
    <3>3. CASE r = x
      <4>1. q.sequence = n /\ n > 0
        BY <1>1, <1>3, <2>2, <2>7, <3>1, <3>3
      <4>2. q = Sorted(S)[n]
        BY <1>1, <1>5, <3>1, <4>1 DEF Numbered
      <4> QED
        BY <1>3, <1>5, <3>3, <4>1, <4>2
    <3> QED
      BY <2>7, <3>2, <3>3
  <2> QED
    BY <2>1, <2>3, <2>4, <2>5, <2>6, <2>7 DEF Numbered
<1> QED
  BY <1>1, <1>3, <1>7, <1>8, NumberedIsChained

-----------------------------------------------------------------------------
(* The chains stored and being written.                                    *)

\* A transaction sees a chain, its own entries last.  The entry it is about to insert is
\* none of its own, and it either repeats a number already in use or follows all that the
\* transaction sees.
SessionOK(s) ==
  /\ At(s, "outside") => tx[s].rows = {}
  /\ ~At(s, "outside") =>
       /\ Tenant(s) \in Tenants
       /\ Chained(Rows(s))
       /\ \A r \in tx[s].rows : r.sequence > Cardinality(chain[Tenant(s)])
  /\ At(s, "append") =>
       /\ tx[s].entry.event \in Events
       /\ tx[s].entry.sequence \in 1..(Cardinality(Rows(s)) + 1)
       /\ \A r \in tx[s].rows : r.sequence < tx[s].entry.sequence
       /\ tx[s].entry.sequence = Cardinality(Rows(s)) + 1 =>
            tx[s].entry = NewEntry(Rows(s), tx[s].entry.event)

\* At most one open transaction of a tenant has entries of its own.
SoleWriter ==
  \A s, r \in Sessions :
    s # r /\ Tenant(s) = Tenant(r) => tx[s].rows = {} \/ tx[r].rows = {}

ChainInv ==
  /\ \A t \in Tenants : Chained(chain[t])
  /\ \A s \in Sessions : SessionOK(s)
  /\ SoleWriter

LEMMA ChainedFacts ==
  ASSUME NEW S, Chained(S)
  PROVE  /\ Cardinality(S) \in Nat
         /\ \A r \in S : r.sequence \in 1..Cardinality(S)
         /\ \A i \in 1..Cardinality(S) : \E r \in S : r.sequence = i
BY DEF Chained, Numbered

LEMMA LocalMove ==
  ASSUME ChainInv, NEW s \in Sessions, chain' = chain,
         \A r \in Sessions \ {s} : tx'[r] = tx[r],
         \/ tx'[s] = Outside
         \/ /\ tx'[s].pc = "open" /\ tx'[s].rows = {} /\ tx'[s].tenant \in Tenants
         \/ /\ ~At(s, "outside") /\ tx'[s].pc \in {"open", "insert", "update"}
            /\ tx'[s].rows = tx[s].rows /\ tx'[s].tenant = tx[s].tenant
  PROVE  ChainInv'
<1>1. SessionOK(s)'
  <2>1. CASE tx'[s] = Outside
    BY <2>1 DEF SessionOK, At, Outside
  <2>2. CASE tx'[s].pc = "open" /\ tx'[s].rows = {} /\ tx'[s].tenant \in Tenants
    <3>1. Rows(s)' = chain[tx'[s].tenant]
      BY <2>2 DEF Rows, Tenant
    <3> QED
      BY <2>2, <3>1 DEF ChainInv, SessionOK, At, Tenant
  <2>3. CASE /\ ~At(s, "outside") /\ tx'[s].pc \in {"open", "insert", "update"}
             /\ tx'[s].rows = tx[s].rows /\ tx'[s].tenant = tx[s].tenant
    <3>1. Rows(s)' = Rows(s) /\ Tenant(s)' = Tenant(s)
      BY <2>3 DEF Rows, Tenant
    <3> QED
      BY <2>3, <3>1 DEF ChainInv, SessionOK, At
  <2> QED
    BY <2>1, <2>2, <2>3
<1>2. \A r \in Sessions \ {s} : SessionOK(r)'
  BY DEF ChainInv, SessionOK, At, Tenant, Rows
<1>3. SoleWriter'
  BY DEF ChainInv, SoleWriter, Tenant, Outside
<1> QED
  BY <1>1, <1>2, <1>3 DEF ChainInv

\* The transaction of one session takes a step.
LEMMA SessionMove ==
  ASSUME NEW s \in Sessions, tx \in [Sessions -> Transactions], NEW h,
         tx' = [tx EXCEPT ![s] = h]
  PROVE  tx'[s] = h /\ \A r \in Sessions \ {s} : tx'[r] = tx[r]
OBVIOUS

LEMMA LocalSteps ==
  ASSUME tx \in [Sessions -> Transactions], ChainInv, NEW s \in Sessions,
         \/ \E t \in Tenants : Begin(s, t)
         \/ \E v \in 0..MaxSaves : SaveRead(s, v)
         \/ SaveInsert(s) \/ SaveUpdate(s) \/ Rollback(s)
  PROVE  ChainInv'
<1>0. tx[s] \in Transactions
  OBVIOUS
<1>1. ASSUME NEW t \in Tenants, Begin(s, t)
      PROVE  ChainInv'
  BY <1>1, SessionMove, LocalMove DEF Begin, Outside, db
<1>2. ASSUME Abort(s), chain' = chain
      PROVE  ChainInv'
  BY <1>2, SessionMove, LocalMove DEF Abort
<1>3. ASSUME NEW h, tx' = [tx EXCEPT ![s] = h], chain' = chain, ~At(s, "outside"),
             h.pc \in {"open", "insert", "update"}, h.rows = tx[s].rows, h.tenant = tx[s].tenant
      PROVE  ChainInv'
  BY <1>3, SessionMove, LocalMove
<1>4. ASSUME NEW v \in 0..MaxSaves, SaveRead(s, v)
      PROVE  ChainInv'
  <2>1. CASE v = Version(s)
    <3> DEFINE h == [tx[s] EXCEPT !.pc = IF Version(s) = 0 THEN "insert" ELSE "update",
                                  !.read = Version(s)]
    <3>1. tx' = [tx EXCEPT ![s] = h] /\ chain' = chain /\ ~At(s, "outside")
      BY <1>4, <2>1 DEF SaveRead, At, db
    <3>2. h.pc \in {"insert", "update"} /\ h.rows = tx[s].rows /\ h.tenant = tx[s].tenant
      BY <1>0 DEF Transactions
    <3> HIDE DEF h
    <3> QED
      BY <1>3, <3>1, <3>2
  <2>2. CASE v # Version(s)
    BY <1>2, <1>4, <2>2 DEF SaveRead, db
  <2> QED
    BY <2>1, <2>2
<1>5. ASSUME SaveInsert(s)
      PROVE  ChainInv'
  <2>1. CASE settings[Tenant(s)] = 0
    <3> DEFINE h == [tx[s] EXCEPT !.pc = "open", !.version = 1, !.saved = @ + 1]
    <3>1. tx' = [tx EXCEPT ![s] = h] /\ chain' = chain /\ ~At(s, "outside")
      BY <1>5, <2>1 DEF SaveInsert, At, db
    <3>2. h.pc = "open" /\ h.rows = tx[s].rows /\ h.tenant = tx[s].tenant
      BY <1>0 DEF Transactions
    <3> HIDE DEF h
    <3> QED
      BY <1>3, <3>1, <3>2
  <2>2. CASE settings[Tenant(s)] # 0
    BY <1>2, <1>5, <2>2 DEF SaveInsert, db
  <2> QED
    BY <2>1, <2>2
<1>6. ASSUME SaveUpdate(s)
      PROVE  ChainInv'
  <2> DEFINE h == [tx[s] EXCEPT !.pc = "open", !.version = tx[s].read + 1, !.saved = @ + 1]
  <2>1. tx' = [tx EXCEPT ![s] = h] /\ chain' = chain /\ ~At(s, "outside")
    BY <1>6 DEF SaveUpdate, At, db
  <2>2. h.pc = "open" /\ h.rows = tx[s].rows /\ h.tenant = tx[s].tenant
    BY <1>0 DEF Transactions
  <2> HIDE DEF h
  <2> QED
    BY <1>3, <2>1, <2>2
<1>7. ASSUME Rollback(s)
      PROVE  ChainInv'
  BY <1>2, <1>7 DEF Rollback, Abort, db
<1> QED
  BY <1>1, <1>4, <1>5, <1>6, <1>7

LEMMA AppendReadStep ==
  ASSUME tx \in [Sessions -> Transactions], ChainInv, NEW s \in Sessions,
         NEW e \in Events, AppendRead(s, e)
  PROVE  ChainInv'
<1> DEFINE x == NewEntry(Rows(s), e)
           h == [tx[s] EXCEPT !.pc = "append", !.entry = x]
<1>1. tx[s] \in Transactions /\ tx' = [tx EXCEPT ![s] = h] /\ chain' = chain /\ At(s, "open")
  BY DEF AppendRead, db
<1>2. h.pc = "append" /\ h.entry = x /\ h.rows = tx[s].rows /\ h.tenant = tx[s].tenant
  BY <1>1 DEF Transactions
<1>3. tx'[s] = h /\ \A r \in Sessions \ {s} : tx'[r] = tx[r]
  BY <1>1, SessionMove
<1>4. Rows(s)' = Rows(s) /\ Tenant(s)' = Tenant(s)
  BY <1>1, <1>2, <1>3 DEF Rows, Tenant
<1>5. Tenant(s) \in Tenants /\ Chained(Rows(s))
  BY <1>1 DEF ChainInv, SessionOK, At
<1>6. x.sequence = Cardinality(Rows(s)) + 1 /\ x.event = e
  BY <1>5, NewEntryFollows
<1>7. SessionOK(s)'
  <2>1. \A r \in tx[s].rows : r.sequence < x.sequence
    BY <1>5, <1>6, ChainedFacts DEF Rows
  <2>2. x.sequence \in 1..(Cardinality(Rows(s)) + 1)
    BY <1>5, <1>6, ChainedFacts
  <2>3. x = NewEntry(Rows(s), x.event)
    BY <1>6
  <2>4. \A r \in tx[s].rows : r.sequence > Cardinality(chain[Tenant(s)])
    BY <1>1 DEF ChainInv, SessionOK, At
  <2> HIDE DEF x, h
  <2> QED
    BY <1>1, <1>2, <1>3, <1>4, <1>5, <1>6, <2>1, <2>2, <2>3, <2>4 DEF SessionOK, At
<1> HIDE DEF h, x
<1>8. \A r \in Sessions \ {s} : SessionOK(r)'
  BY <1>1, <1>3 DEF ChainInv, SessionOK, At, Tenant, Rows
<1>9. SoleWriter'
  BY <1>2, <1>3 DEF ChainInv, SoleWriter, Tenant
<1> QED
  BY <1>1, <1>7, <1>8, <1>9 DEF ChainInv

\* What a transaction sees is the stored chain if none of the entries is its own.
LEMMA NothingOwn ==
  ASSUME NEW s \in Sessions, tx[s].rows = {}
  PROVE  Rows(s) = chain[Tenant(s)]
BY DEF Rows

\* If a transaction has entries, one of them follows the stored chain.
LEMMA OwnFollows ==
  ASSUME ChainInv, NEW s \in Sessions, Tenant(s) \in Tenants, tx[s].rows # {}
  PROVE  \E r \in tx[s].rows : r.sequence = Cardinality(chain[Tenant(s)]) + 1
<1> DEFINE n == Cardinality(chain[Tenant(s)])
<1>1. Chained(chain[Tenant(s)]) /\ n \in Nat
  BY ChainedFacts DEF ChainInv
<1>2. Chained(Rows(s)) /\ \A r \in tx[s].rows : r.sequence > n
  BY DEF ChainInv, SessionOK
<1>3. \A r \in Rows(s) : r.sequence \in 1..Cardinality(Rows(s))
  BY <1>2, ChainedFacts
<1>4. PICK q \in tx[s].rows : q.sequence > n /\ q.sequence \in 1..Cardinality(Rows(s))
  BY <1>2, <1>3 DEF Rows
<1>5. Cardinality(Rows(s)) \in Nat
  BY <1>2, ChainedFacts
<1>6. n + 1 \in 1..Cardinality(Rows(s))
  BY <1>1, <1>4, <1>5
<1>7. PICK r \in Rows(s) : r.sequence = n + 1
  BY <1>2, <1>6, ChainedFacts
<1>8. \A p \in chain[Tenant(s)] : p.sequence \in 1..n
  BY <1>1, ChainedFacts
<1>9. r \notin chain[Tenant(s)]
  BY <1>1, <1>7, <1>8
<1> QED
  BY <1>7, <1>9 DEF Rows

LEMMA AppendInsertStep ==
  ASSUME tx \in [Sessions -> Transactions], ChainInv, NEW s \in Sessions, AppendInsert(s)
  PROVE  ChainInv'
<1> DEFINE x == tx[s].entry
           n == Cardinality(chain[Tenant(s)])
           m == Cardinality(Rows(s))
           h == [tx[s] EXCEPT !.pc = "open", !.rows = @ \cup {x}]
<1>1. tx[s] \in Transactions /\ chain' = chain /\ At(s, "append")
  BY DEF AppendInsert, db
<1>2. CASE SequenceIn(s, chain[Tenant(s)])
  BY <1>1, <1>2, SessionMove, LocalMove DEF AppendInsert, Abort
<1>3. CASE ~SequenceIn(s, chain[Tenant(s)])
  <2>1. tx' = [tx EXCEPT ![s] = h]
    BY <1>3 DEF AppendInsert
  <2>2. h.pc = "open" /\ h.rows = tx[s].rows \cup {x} /\ h.tenant = tx[s].tenant
    BY <1>1 DEF Transactions
  <2>3. tx'[s] = h /\ \A r \in Sessions \ {s} : tx'[r] = tx[r]
    BY <1>1, <2>1, SessionMove
  <2>4. /\ Tenant(s) \in Tenants /\ Chained(Rows(s))
        /\ x.event \in Events /\ x.sequence \in 1..(m + 1)
        /\ \A r \in tx[s].rows : r.sequence < x.sequence /\ r.sequence > n
        /\ x.sequence = m + 1 => x = NewEntry(Rows(s), x.event)
    BY <1>1 DEF ChainInv, SessionOK, At
  <2>5. m \in Nat /\ \A i \in 1..m : \E r \in Rows(s) : r.sequence = i
    BY <2>4, ChainedFacts
  <2>6. \A r \in Rows(s) : r.sequence # x.sequence
    <3>1. \A r \in tx[s].rows : r.sequence \in 1..m
      BY <2>4, ChainedFacts DEF Rows
    <3> QED
      BY <1>3, <2>4, <2>5, <3>1 DEF SequenceIn, Rows
  <2>7. x.sequence = m + 1
    BY <2>4, <2>5, <2>6
  <2>8. /\ Chained(Rows(s) \cup {x}) /\ Cardinality(Rows(s) \cup {x}) = m + 1
    BY <2>4, <2>7, NewEntryFollows
  <2>9. Rows(s)' = Rows(s) \cup {x} /\ Tenant(s)' = Tenant(s)
    BY <1>1, <2>2, <2>3 DEF Rows, Tenant
  <2>10. n \in Nat /\ n <= m
    <3>1. chain[Tenant(s)] \in SUBSET Rows(s) /\ IsFiniteSet(Rows(s))
      BY <2>4 DEF Rows, Chained
    <3>2. n <= m
      BY <3>1, FS_Subset
    <3> QED
      BY <2>4, <3>2, ChainedFacts DEF ChainInv
  <2> HIDE DEF x, h
  <2>11. SessionOK(s)'
    <3>1. \A r \in tx[s].rows \cup {x} : r.sequence > n
      BY <2>4, <2>5, <2>7, <2>10
    <3> QED
      BY <1>1, <2>2, <2>3, <2>4, <2>8, <2>9, <3>1 DEF SessionOK, At
  <2>12. \A r \in Sessions \ {s} : SessionOK(r)'
    BY <1>1, <2>3 DEF ChainInv, SessionOK, At, Tenant, Rows
  <2>13. ASSUME NEW r \in Sessions \ {s}, Tenant(r) = Tenant(s)
         PROVE  tx[r].rows = {}
    <3> SUFFICES ASSUME tx[r].rows # {}
                 PROVE  FALSE
      OBVIOUS
    <3>1. tx[s].rows = {}
      BY <2>13 DEF ChainInv, SoleWriter
    <3>2. m = n
      BY <3>1, NothingOwn
    <3>3. PICK q \in tx[r].rows : q.sequence = n + 1
      BY <2>4, <2>13, OwnFollows
    <3>4. ~SequenceIn(s, tx[r].rows)
      BY <2>13 DEF AppendInsert, Others
    <3> QED
      BY <2>7, <3>2, <3>3, <3>4 DEF SequenceIn, x
  <2>14. SoleWriter'
    <3>1. ASSUME NEW p \in Sessions, NEW q \in Sessions, p # q, Tenant(p)' = Tenant(q)'
          PROVE  tx'[p].rows = {} \/ tx'[q].rows = {}
      <4>1. CASE p = s
        BY <2>3, <2>9, <2>13, <3>1, <4>1 DEF Tenant
      <4>2. CASE q = s
        BY <2>3, <2>9, <2>13, <3>1, <4>2 DEF Tenant
      <4>3. CASE p # s /\ q # s
        BY <2>3, <3>1, <4>3 DEF ChainInv, SoleWriter, Tenant
      <4> QED
        BY <4>1, <4>2, <4>3
    <3> QED
      BY <3>1 DEF SoleWriter
  <2> QED
    BY <1>1, <2>11, <2>12, <2>14 DEF ChainInv
<1> QED
  BY <1>2, <1>3

LEMMA CommitStep ==
  ASSUME tx \in [Sessions -> Transactions], chain \in [Tenants -> SUBSET Entries], ChainInv,
         NEW s \in Sessions, Commit(s)
  PROVE  ChainInv'
<1> DEFINE t == Tenant(s)
<1>1. At(s, "open") /\ t \in Tenants /\ Chained(Rows(s))
  BY DEF Commit, ChainInv, SessionOK, At
<1>2. chain' = [chain EXCEPT ![t] = Rows(s)] /\ tx' = [tx EXCEPT ![s] = Outside]
  BY DEF Commit
<1>3. tx'[s] = Outside /\ \A r \in Sessions \ {s} : tx'[r] = tx[r]
  BY <1>2, SessionMove
<1>4. chain'[t] = Rows(s) /\ \A u \in Tenants \ {t} : chain'[u] = chain[u]
  BY <1>1, <1>2
<1>5. CASE tx[s].rows = {}
  <2>1. chain' = chain
    BY <1>2, <1>5, NothingOwn
  <2> QED
    BY <1>3, <2>1, LocalMove
<1>6. CASE tx[s].rows # {}
  <2>1. \A u \in Tenants : Chained(chain'[u])
    BY <1>1, <1>4 DEF ChainInv
  <2>2. SessionOK(s)'
    BY <1>3 DEF SessionOK, At, Outside
  <2>3. ASSUME NEW r \in Sessions \ {s}, Tenant(r) = t
        PROVE  SessionOK(r)'
    <3>1. tx[r].rows = {} /\ Rows(r) = chain[t] /\ Rows(r)' = Rows(s) /\ tx'[r] = tx[r]
      BY <1>3, <1>4, <1>6, <2>3 DEF ChainInv, SoleWriter, Rows, Tenant
    <3>2. Cardinality(chain[t]) < Cardinality(Rows(s))
      <4>1. PICK q \in tx[s].rows : q.sequence = Cardinality(chain[t]) + 1
        BY <1>1, <1>6, OwnFollows
      <4>2. q.sequence \in 1..Cardinality(Rows(s))
        BY <1>1, ChainedFacts DEF Rows
      <4>3. Cardinality(Rows(s)) \in Nat /\ Cardinality(chain[t]) \in Nat
        BY <1>1, ChainedFacts DEF ChainInv
      <4> QED
        BY <4>1, <4>2, <4>3
    <3>3. Cardinality(Rows(s)) \in Nat /\ Cardinality(chain[t]) \in Nat
      BY <1>1, ChainedFacts DEF ChainInv
    <3>4. At(r, "append") => /\ tx[r].entry.event \in Events
                             /\ tx[r].entry.sequence \in 1..(Cardinality(chain[t]) + 1)
      BY <3>1 DEF ChainInv, SessionOK, At
    <3>5. At(r, "append") => /\ tx[r].entry.sequence \in 1..(Cardinality(Rows(s)) + 1)
                             /\ tx[r].entry.sequence # Cardinality(Rows(s)) + 1
      BY <3>2, <3>3, <3>4
    <3> QED
      BY <1>1, <2>3, <3>1, <3>4, <3>5 DEF SessionOK, At, Tenant
  <2>4. ASSUME NEW r \in Sessions \ {s}, Tenant(r) # t
        PROVE  SessionOK(r)'
    <3>1. tx'[r] = tx[r] /\ (Tenant(r) \in Tenants => Rows(r)' = Rows(r) /\ chain'[Tenant(r)] = chain[Tenant(r)])
      BY <1>3, <1>4, <2>4 DEF Rows, Tenant
    <3>2. SessionOK(r)
      BY DEF ChainInv
    <3>3. At(r, "append") => ~At(r, "outside")
      BY DEF At
    <3>4. At(r, "outside")' = At(r, "outside") /\ At(r, "append")' = At(r, "append") /\ Tenant(r)' = Tenant(r)
      BY <3>1 DEF At, Tenant
    <3> QED
      BY <3>1, <3>2, <3>3, <3>4 DEF SessionOK
  <2>5. SoleWriter'
    BY <1>3 DEF ChainInv, SoleWriter, Tenant, Outside
  <2> QED
    BY <2>1, <2>2, <2>3, <2>4, <2>5 DEF ChainInv
<1> QED
  BY <1>5, <1>6

-----------------------------------------------------------------------------
(* The whole step.                                                         *)

RepositoriesInv == RepositoriesTypeOK /\ ChainInv

LEMMA RepositoriesStarts == RepositoriesInit => RepositoriesInv
<1> SUFFICES ASSUME RepositoriesInit
             PROVE  RepositoriesInv
  OBVIOUS
<1>1. Outside \in Transactions
  BY DEF Outside, Transactions
<1>2. RepositoriesTypeOK
  BY <1>1 DEF RepositoriesInit, RepositoriesTypeOK
<1>3. ChainInv
  BY EmptyChain DEF RepositoriesInit, ChainInv, SessionOK, SoleWriter, At, Outside
<1> QED
  BY <1>2, <1>3 DEF RepositoriesInv

LEMMA RepositoriesTypes ==
  ASSUME RepositoriesInv, NEW s \in Sessions,
         \/ \E t \in Tenants : Begin(s, t)
         \/ \E v \in 0..MaxSaves : SaveRead(s, v)
         \/ \E e \in Events : AppendRead(s, e)
         \/ SaveInsert(s) \/ SaveUpdate(s) \/ AppendInsert(s) \/ Commit(s) \/ Rollback(s)
  PROVE  RepositoriesTypeOK'
<1>1. /\ settings \in [Tenants -> Nat] /\ chain \in [Tenants -> SUBSET Entries]
      /\ tx \in [Sessions -> Transactions] /\ saves \in [Tenants -> Nat]
      /\ overlapped \in [Tenants -> BOOLEAN] /\ tx[s] \in Transactions
  BY DEF RepositoriesInv, RepositoriesTypeOK
<1>2. ~At(s, "outside") => Tenant(s) \in Tenants /\ Chained(Rows(s))
  BY DEF RepositoriesInv, ChainInv, SessionOK
<1>3. Outside \in Transactions
  BY DEF Outside, Transactions
<1>4. ~At(s, "outside") => Version(s) \in Nat
  BY <1>1, <1>2 DEF Version, Transactions
<1>5. \A v \in Nat : [tx[s] EXCEPT !.pc = "open", !.version = v, !.saved = @ + 1] \in Transactions
  <2> SUFFICES ASSUME NEW v \in Nat
               PROVE  [tx[s] EXCEPT !.pc = "open", !.version = v, !.saved = @ + 1] \in Transactions
    OBVIOUS
  <2>1. tx[s].saved + 1 \in Nat
    BY <1>1 DEF Transactions
  <2> DEFINE n == tx[s].saved + 1
  <2>2. [tx[s] EXCEPT !.pc = "open", !.version = v, !.saved = n] \in Transactions
    <3> HIDE DEF n
    <3> QED
      BY <1>1, <2>1 DEF Transactions, n
  <2> QED
    BY <2>2
<1>6. ASSUME NEW h \in Transactions, tx' = [tx EXCEPT ![s] = h], UNCHANGED <<db, ghosts>>
      PROVE  RepositoriesTypeOK'
  BY <1>1, <1>6 DEF RepositoriesTypeOK, db, ghosts
<1>7. ASSUME NEW t \in Tenants, Begin(s, t)
      PROVE  RepositoriesTypeOK'
  <2> DEFINE h == [Outside EXCEPT !.pc = "open", !.tenant = t]
  <2>1. h \in Transactions
    BY DEF Outside, Transactions
  <2>2. tx' = [tx EXCEPT ![s] = h] /\ UNCHANGED <<db, ghosts>>
    BY <1>7 DEF Begin
  <2> HIDE DEF h
  <2> QED
    BY <1>6, <2>1, <2>2
<1>8. ASSUME NEW v \in 0..MaxSaves, SaveRead(s, v)
      PROVE  RepositoriesTypeOK'
  <2> DEFINE h == IF v = Version(s)
                  THEN [tx[s] EXCEPT !.pc = IF Version(s) = 0 THEN "insert" ELSE "update",
                                     !.read = Version(s)]
                  ELSE Outside
  <2>1. ~At(s, "outside") /\ UNCHANGED <<db, saves>>
    BY <1>8 DEF SaveRead, At
  <2>2. h \in Transactions
    BY <1>1, <1>3, <1>4, <2>1 DEF Transactions
  <2>3. tx' = [tx EXCEPT ![s] = h]
    <3>1. CASE v = Version(s)
      BY <1>8, <3>1 DEF SaveRead
    <3>2. CASE v # Version(s)
      BY <1>8, <3>2 DEF SaveRead, Abort
    <3> QED
      BY <3>1, <3>2
  <2>4. overlapped' \in [Tenants -> BOOLEAN]
    <3>1. overlapped' = [overlapped EXCEPT ![Tenant(s)] =
                            overlapped[Tenant(s)] \/ \E r \in Others(s) : Saving(r)]
      BY <1>8 DEF SaveRead
    <3>2. overlapped[Tenant(s)] \in BOOLEAN
      BY <1>1, <1>2, <2>1
    <3>3. (overlapped[Tenant(s)] \/ \E r \in Others(s) : Saving(r)) \in BOOLEAN
      OBVIOUS
    <3> QED
      BY <1>1, <3>1, <3>3, Zenon
  <2>5. tx' \in [Sessions -> Transactions]
    <3> HIDE DEF h
    <3> QED
      BY <1>1, <2>2, <2>3
  <2> QED
    BY <1>1, <2>1, <2>4, <2>5 DEF RepositoriesTypeOK, db
<1>9. ASSUME NEW e \in Events, AppendRead(s, e)
      PROVE  RepositoriesTypeOK'
  <2> DEFINE x == NewEntry(Rows(s), e)
             h == [tx[s] EXCEPT !.pc = "append", !.entry = x]
  <2>1. x \in Entries
    BY <1>2, <1>9, NewEntryFollows DEF AppendRead, At
  <2>2. h \in Transactions
    <3> HIDE DEF x
    <3> QED
      BY <1>1, <2>1 DEF Transactions
  <2>3. tx' = [tx EXCEPT ![s] = h] /\ UNCHANGED <<db, ghosts>>
    BY <1>9 DEF AppendRead
  <2> HIDE DEF h
  <2> QED
    BY <1>6, <2>2, <2>3
<1>10. ASSUME SaveInsert(s)
      PROVE  RepositoriesTypeOK'
  <2> DEFINE h == IF settings[Tenant(s)] = 0
                  THEN [tx[s] EXCEPT !.pc = "open", !.version = 1, !.saved = @ + 1]
                  ELSE Outside
  <2>1. h \in Transactions
    BY <1>3, <1>5
  <2>2. tx' = [tx EXCEPT ![s] = h] /\ UNCHANGED <<db, ghosts>>
    BY <1>10 DEF SaveInsert, Abort
  <2> HIDE DEF h
  <2> QED
    BY <1>6, <2>1, <2>2
<1>11. ASSUME SaveUpdate(s)
       PROVE  RepositoriesTypeOK'
  <2> DEFINE h == [tx[s] EXCEPT !.pc = "open", !.version = tx[s].read + 1, !.saved = @ + 1]
  <2>1. h \in Transactions
    <3>1. tx[s].read + 1 \in Nat
      BY <1>1 DEF Transactions
    <3> QED
      BY <1>5, <3>1
  <2>2. tx' = [tx EXCEPT ![s] = h] /\ UNCHANGED <<db, ghosts>>
    BY <1>11 DEF SaveUpdate
  <2> HIDE DEF h
  <2> QED
    BY <1>6, <2>1, <2>2
<1>12. ASSUME AppendInsert(s)
       PROVE  RepositoriesTypeOK'
  <2> DEFINE h == IF SequenceIn(s, chain[Tenant(s)]) THEN Outside
                  ELSE [tx[s] EXCEPT !.pc = "open", !.rows = @ \cup {tx[s].entry}]
  <2>1. tx[s].entry \in Entries
    <3>1. tx[s].entry.sequence \in 1..(Cardinality(Rows(s)) + 1)
      BY <1>12 DEF AppendInsert, RepositoriesInv, ChainInv, SessionOK
    <3>2. tx[s].entry # NoEntry
      BY <3>1 DEF NoEntry
    <3> QED
      BY <1>1, <3>2 DEF Transactions
  <2>2. h \in Transactions
    BY <1>1, <1>3, <2>1 DEF Transactions
  <2>3. tx' = [tx EXCEPT ![s] = h] /\ UNCHANGED <<db, ghosts>>
    BY <1>12 DEF AppendInsert, Abort
  <2> HIDE DEF h
  <2> QED
    BY <1>6, <2>2, <2>3
<1>13. ASSUME Commit(s)
       PROVE  RepositoriesTypeOK'
  <2>1. Tenant(s) \in Tenants /\ Version(s) \in Nat
    BY <1>2, <1>4, <1>13 DEF Commit, At
  <2>2. Rows(s) \subseteq Entries
    BY <1>1, <2>1 DEF Rows, Transactions
  <2>3. saves[Tenant(s)] + tx[s].saved \in Nat
    BY <1>1, <2>1 DEF Transactions
  <2> QED
    BY <1>1, <1>3, <1>13, <2>1, <2>2, <2>3 DEF Commit, RepositoriesTypeOK
<1>14. ASSUME Rollback(s)
       PROVE  RepositoriesTypeOK'
  BY <1>3, <1>6, <1>14 DEF Rollback
<1> QED
  BY <1>7, <1>8, <1>9, <1>10, <1>11, <1>12, <1>13, <1>14

LEMMA RepositoriesStep ==
  RepositoriesInv /\ [RepositoriesNext]_repositoryVars => RepositoriesInv'
<1> SUFFICES ASSUME RepositoriesInv, [RepositoriesNext]_repositoryVars
             PROVE  RepositoriesInv'
  OBVIOUS
<1>1. tx \in [Sessions -> Transactions] /\ chain \in [Tenants -> SUBSET Entries] /\ ChainInv
  BY DEF RepositoriesInv, RepositoriesTypeOK
<1>2. CASE RepositoriesNext
  <2>1. PICK s \in Sessions :
          \/ \E t \in Tenants : Begin(s, t)
          \/ \E v \in 0..MaxSaves : SaveRead(s, v)
          \/ \E e \in Events : AppendRead(s, e)
          \/ SaveInsert(s) \/ SaveUpdate(s) \/ AppendInsert(s) \/ Commit(s) \/ Rollback(s)
    BY <1>2 DEF RepositoriesNext
  <2>2. RepositoriesTypeOK'
    BY <2>1, RepositoriesTypes
  <2>3. ChainInv'
    BY <1>1, <2>1, LocalSteps, AppendReadStep, AppendInsertStep, CommitStep
  <2> QED
    BY <2>2, <2>3 DEF RepositoriesInv
<1>3. CASE UNCHANGED repositoryVars
  BY <1>3 DEF repositoryVars, db, ghosts, RepositoriesInv, RepositoriesTypeOK, ChainInv,
              SessionOK, SoleWriter, At, Tenant, Rows
<1> QED
  BY <1>2, <1>3

\* EveryReaderVerifies holds for any number of sessions, tenants and events: no interleaving
\* of transactions, failures and crashes forks the stored chain of a tenant or leaves a gap
\* in it (AuditChainRepository.append, verify).
THEOREM StoredChainsVerify == RepositoriesSpec => []EveryReaderVerifies
<1>1. RepositoriesInv => EveryReaderVerifies
  BY ChainVerifies DEF RepositoriesInv, ChainInv, SessionOK, EveryReaderVerifies
<1> QED
  BY <1>1, RepositoriesStarts, RepositoriesStep, PTL DEF RepositoriesSpec

-----------------------------------------------------------------------------
(* Saves that do not overlap.                                              *)

\* The version that a transaction sees counts the committed saves and its own; and what a
\* save has read is still so when it writes.
CountsSaves(s) ==
  /\ tx[s].saved = 0 => tx[s].version = 0
  /\ tx[s].saved > 0 => tx[s].version = settings[Tenant(s)] + tx[s].saved
  /\ At(s, "update") => tx[s].read = Version(s)
  /\ At(s, "insert") => Version(s) = 0

SavesApart(t) ==
  /\ settings[t] = saves[t]
  /\ \A s \in Sessions : Tenant(s) = t => CountsSaves(s)
  /\ \A s, r \in Sessions : s # r /\ Tenant(s) = t /\ Tenant(r) = t => ~Saving(s) \/ ~Saving(r)

SavesInv == \A t \in Tenants : ~overlapped[t] => SavesApart(t)

\* A transaction takes a step that no other can tell: afterwards it counts its saves, and it
\* is saving only if no other one is.
LEMMA QuietMove ==
  ASSUME RepositoriesInv, SavesInv, NEW s \in Sessions, NEW h,
         tx' = [tx EXCEPT ![s] = h], UNCHANGED <<db, saves>>,
         \A t \in Tenants : ~overlapped'[t] => ~overlapped[t],
         h.tenant \in Tenants /\ ~overlapped'[h.tenant] =>
           /\ CountsSaves(s)'
           /\ Saving(s)' => \A r \in Sessions \ {s} : Tenant(r) = h.tenant => ~Saving(r)
  PROVE  SavesInv'
<1> SUFFICES ASSUME NEW t \in Tenants, ~overlapped'[t]
             PROVE  SavesApart(t)'
  BY DEF SavesInv
<1>1. tx \in [Sessions -> Transactions]
  BY DEF RepositoriesInv, RepositoriesTypeOK
<1>2. tx'[s] = h /\ \A r \in Sessions \ {s} : tx'[r] = tx[r]
  BY <1>1, SessionMove
<1>3. SavesApart(t) /\ settings' = settings /\ saves' = saves
  BY DEF SavesInv, db
<1>4. \A r \in Sessions \ {s} : Tenant(r)' = Tenant(r) /\ Saving(r)' = Saving(r) /\ CountsSaves(r)' = CountsSaves(r)
  BY <1>2, <1>3 DEF Tenant, Saving, CountsSaves, At, Version
<1>5. Tenant(s)' = h.tenant
  BY <1>2 DEF Tenant
<1>6. ASSUME NEW r \in Sessions, Tenant(r)' = t
      PROVE  CountsSaves(r)'
  <2>1. CASE r = s
    BY <1>5, <1>6, <2>1
  <2>2. CASE r # s
    BY <1>3, <1>4, <1>6, <2>2 DEF SavesApart
  <2> QED
    BY <2>1, <2>2
<1>7. ASSUME NEW p \in Sessions, NEW q \in Sessions, p # q, Tenant(p)' = t, Tenant(q)' = t
      PROVE  ~Saving(p)' \/ ~Saving(q)'
  <2>1. CASE p = s
    BY <1>4, <1>5, <1>7, <2>1
  <2>2. CASE q = s
    BY <1>4, <1>5, <1>7, <2>2
  <2>3. CASE p # s /\ q # s
    BY <1>3, <1>4, <1>7, <2>3 DEF SavesApart
  <2> QED
    BY <2>1, <2>2, <2>3
<1> QED
  BY <1>3, <1>6, <1>7 DEF SavesApart

LEMMA SavesSteps ==
  ASSUME RepositoriesInv, SavesInv, NEW s \in Sessions,
         \/ \E t \in Tenants : Begin(s, t)
         \/ \E v \in 0..MaxSaves : SaveRead(s, v)
         \/ \E e \in Events : AppendRead(s, e)
         \/ SaveInsert(s) \/ SaveUpdate(s) \/ AppendInsert(s) \/ Rollback(s)
  PROVE  SavesInv'
<1>1. /\ settings \in [Tenants -> Nat] /\ tx \in [Sessions -> Transactions]
      /\ tx[s] \in Transactions /\ overlapped \in [Tenants -> BOOLEAN]
  BY DEF RepositoriesInv, RepositoriesTypeOK
<1>2. ~At(s, "outside") => Tenant(s) \in Tenants
  BY DEF RepositoriesInv, ChainInv, SessionOK
<1>3. ASSUME tx' = [tx EXCEPT ![s] = Outside], UNCHANGED <<db, saves>>,
             \A t \in Tenants : ~overlapped'[t] => ~overlapped[t]
      PROVE  SavesInv'
  <2>1. Outside.tenant \notin Tenants
    BY NoTenantAssumption DEF Outside
  <2> QED
    BY <1>3, <2>1, QuietMove
\* A step that leaves alone what the transaction has saved.
<1>4. ASSUME NEW h, tx' = [tx EXCEPT ![s] = h], UNCHANGED <<db, ghosts>>,
             h.saved = tx[s].saved, h.version = tx[s].version, h.tenant = tx[s].tenant,
             h.pc \in {"open", "append"}, ~At(s, "outside")
      PROVE  SavesInv'
  <2>1. tx'[s] = h
    BY <1>1, <1>4, SessionMove
  <2>2. ASSUME ~overlapped[h.tenant], h.tenant \in Tenants
        PROVE  /\ CountsSaves(s)'
               /\ Saving(s)' => \A r \in Sessions \ {s} : Tenant(r) = h.tenant => ~Saving(r)
    <3>1. SavesApart(Tenant(s)) /\ Tenant(s)' = Tenant(s)
      BY <1>4, <2>1, <2>2 DEF SavesInv, Tenant
    <3>2. CountsSaves(s)'
      BY <1>4, <2>1, <3>1 DEF SavesApart, CountsSaves, At, db, Tenant
    <3>3. Saving(s)' => Saving(s)
      BY <1>4, <2>1 DEF Saving, At
    <3> QED
      BY <1>4, <3>1, <3>2, <3>3 DEF SavesApart, Tenant
  <2> QED
    BY <1>4, <2>2, QuietMove DEF ghosts
<1>5. ASSUME NEW t \in Tenants, Begin(s, t)
      PROVE  SavesInv'
  <2> DEFINE h == [Outside EXCEPT !.pc = "open", !.tenant = t]
  <2>1. tx' = [tx EXCEPT ![s] = h] /\ UNCHANGED <<db, ghosts>>
    BY <1>5 DEF Begin
  <2>2. h.pc = "open" /\ h.saved = 0 /\ h.version = 0 /\ h.tenant = t
    BY DEF Outside
  <2> HIDE DEF h
  <2>3. tx'[s] = h
    BY <1>1, <2>1, SessionMove
  <2>4. CountsSaves(s)' /\ ~Saving(s)'
    BY <2>2, <2>3 DEF CountsSaves, Saving, At
  <2> QED
    BY <2>1, <2>4, QuietMove DEF ghosts
<1>6. ASSUME NEW v \in 0..MaxSaves, SaveRead(s, v)
      PROVE  SavesInv'
  <2>1. /\ At(s, "open") /\ Tenant(s) \in Tenants /\ UNCHANGED <<db, saves>>
        /\ overlapped' = [overlapped EXCEPT ![Tenant(s)] =
                            overlapped[Tenant(s)] \/ \E r \in Others(s) : Saving(r)]
    BY <1>2, <1>6 DEF SaveRead, At
  <2>2. /\ \A t \in Tenants : ~overlapped'[t] => ~overlapped[t]
        /\ ~overlapped'[Tenant(s)] => \A r \in Others(s) : ~Saving(r)
    BY <1>1, <2>1, Zenon
  <2>3. CASE v = Version(s)
    <3> DEFINE h == [tx[s] EXCEPT !.pc = IF Version(s) = 0 THEN "insert" ELSE "update",
                                  !.read = Version(s)]
    <3>1. tx' = [tx EXCEPT ![s] = h]
      BY <1>6, <2>3 DEF SaveRead
    <3>2. /\ h.saved = tx[s].saved /\ h.version = tx[s].version /\ h.tenant = Tenant(s)
          /\ h.read = Version(s) /\ h.pc = IF Version(s) = 0 THEN "insert" ELSE "update"
      BY <1>1 DEF Transactions, Tenant
    <3> HIDE DEF h
    <3>3. tx'[s] = h
      BY <1>1, <3>1, SessionMove
    <3>4. Tenant(s)' = Tenant(s) /\ Version(s)' = Version(s) /\ settings' = settings
      BY <2>1, <3>2, <3>3 DEF Tenant, Version, db
    <3>5. ASSUME ~overlapped'[h.tenant]
          PROVE  /\ CountsSaves(s)'
                 /\ \A r \in Sessions \ {s} : Tenant(r) = h.tenant => ~Saving(r)
      <4>1. CountsSaves(s)
        BY <2>1, <2>2, <3>2, <3>5 DEF SavesInv, SavesApart
      <4>2. CountsSaves(s)'
        BY <3>2, <3>3, <3>4, <4>1 DEF CountsSaves, At
      <4> QED
        BY <2>2, <3>2, <3>5, <4>2 DEF Others
    <3> QED
      BY <2>1, <2>2, <3>1, <3>5, QuietMove
  <2>4. CASE v # Version(s)
    BY <1>3, <1>6, <2>1, <2>2, <2>4 DEF SaveRead, Abort
  <2> QED
    BY <2>3, <2>4
\* A write that succeeds adds one save to what the transaction sees.
<1>7. ASSUME NEW n \in Nat, tx' = [tx EXCEPT ![s].pc = "open", ![s].version = n, ![s].saved = @ + 1],
             UNCHANGED <<db, ghosts>>, At(s, "insert") \/ At(s, "update"),
             SavesApart(Tenant(s)) => n = settings[Tenant(s)] + tx[s].saved + 1
      PROVE  SavesInv'
  <2> DEFINE h == [tx[s] EXCEPT !.pc = "open", !.version = n, !.saved = @ + 1]
  <2>1. tx' = [tx EXCEPT ![s] = h]
    BY <1>7
  <2>2. h.pc = "open" /\ h.version = n /\ h.saved = tx[s].saved + 1 /\ h.tenant = Tenant(s)
    BY <1>1 DEF Transactions, Tenant
  <2>3. tx[s].saved \in Nat
    BY <1>1 DEF Transactions
  <2> HIDE DEF h
  <2>4. tx'[s] = h
    BY <1>1, <2>1, SessionMove
  <2>5. ASSUME h.tenant \in Tenants, ~overlapped[h.tenant]
        PROVE  /\ CountsSaves(s)'
               /\ \A r \in Sessions \ {s} : Tenant(r) = h.tenant => ~Saving(r)
    <3>1. SavesApart(Tenant(s))
      BY <2>2, <2>5 DEF SavesInv
    <3>2. settings' = settings /\ Tenant(s)' = Tenant(s) /\ settings[Tenant(s)] \in Nat
      BY <1>1, <1>7, <2>2, <2>4, <2>5 DEF db, Tenant
    <3>3. h.version = settings[Tenant(s)] + h.saved /\ h.saved > 0
      BY <1>7, <2>2, <2>3, <3>1, <3>2
    <3>4. CountsSaves(s)'
      BY <2>2, <2>3, <2>4, <3>2, <3>3 DEF CountsSaves, At
    <3>5. Saving(s)
      BY <1>7 DEF Saving
    <3> QED
      BY <2>2, <3>1, <3>4, <3>5 DEF SavesApart
  <2> QED
    BY <1>7, <2>1, <2>5, QuietMove DEF ghosts
<1>8. ASSUME SaveInsert(s)
      PROVE  SavesInv'
  <2>1. CASE settings[Tenant(s)] = 0
    <3>1. At(s, "insert") /\ Tenant(s) \in Tenants
      BY <1>2, <1>8 DEF SaveInsert, At
    <3>2. SavesApart(Tenant(s)) => tx[s].saved = 0
      <4>1. tx[s].saved \in Nat /\ tx[s].version \in Nat
        BY <1>1 DEF Transactions
      <4> QED
        BY <2>1, <3>1, <4>1 DEF SavesApart, CountsSaves, Version
    <3>3. SavesApart(Tenant(s)) => 1 = settings[Tenant(s)] + tx[s].saved + 1
      BY <2>1, <3>2
    <3>4. /\ tx' = [tx EXCEPT ![s].pc = "open", ![s].version = 1, ![s].saved = @ + 1]
          /\ UNCHANGED <<db, ghosts>>
      BY <1>8, <2>1 DEF SaveInsert
    <3> DEFINE n == 1
    <3>5. n \in Nat /\ (SavesApart(Tenant(s)) => n = settings[Tenant(s)] + tx[s].saved + 1)
      BY <3>3
    <3>6. tx' = [tx EXCEPT ![s].pc = "open", ![s].version = n, ![s].saved = @ + 1]
      BY <3>4
    <3> HIDE DEF n
    <3> QED
      BY <1>7, <3>1, <3>4, <3>5, <3>6
  <2>2. CASE settings[Tenant(s)] # 0
    BY <1>3, <1>8, <2>2 DEF SaveInsert, Abort, ghosts
  <2> QED
    BY <2>1, <2>2
<1>9. ASSUME SaveUpdate(s)
      PROVE  SavesInv'
  <2>1. At(s, "update") /\ Tenant(s) \in Tenants
    BY <1>2, <1>9 DEF SaveUpdate, At
  <2>2. /\ tx[s].saved \in Nat /\ tx[s].version \in Nat /\ tx[s].read \in Nat
        /\ settings[Tenant(s)] \in Nat
    BY <1>1, <2>1 DEF Transactions
  <2>3. SavesApart(Tenant(s)) => tx[s].read = settings[Tenant(s)] + tx[s].saved
    BY <2>1, <2>2 DEF SavesApart, CountsSaves, Version
  <2> DEFINE n == tx[s].read + 1
  <2>4. n \in Nat /\ (SavesApart(Tenant(s)) => n = settings[Tenant(s)] + tx[s].saved + 1)
    BY <2>2, <2>3
  <2>5. /\ tx' = [tx EXCEPT ![s].pc = "open", ![s].version = n, ![s].saved = @ + 1]
        /\ UNCHANGED <<db, ghosts>>
    BY <1>9 DEF SaveUpdate
  <2> HIDE DEF n
  <2> QED
    BY <1>7, <2>1, <2>4, <2>5
<1>10. ASSUME NEW e \in Events, AppendRead(s, e)
       PROVE  SavesInv'
  <2> DEFINE x == NewEntry(Rows(s), e)
             h == [tx[s] EXCEPT !.pc = "append", !.entry = x]
  <2>1. tx' = [tx EXCEPT ![s] = h] /\ UNCHANGED <<db, ghosts>> /\ ~At(s, "outside")
    BY <1>10 DEF AppendRead, At
  <2> HIDE DEF x
  <2>2. /\ h.saved = tx[s].saved /\ h.version = tx[s].version /\ h.tenant = tx[s].tenant
        /\ h.pc = "append"
    BY <1>1 DEF Transactions
  <2> HIDE DEF h
  <2> QED
    BY <1>4, <2>1, <2>2
<1>11. ASSUME AppendInsert(s)
       PROVE  SavesInv'
  <2>1. CASE SequenceIn(s, chain[Tenant(s)])
    BY <1>3, <1>11, <2>1 DEF AppendInsert, Abort, ghosts
  <2>2. CASE ~SequenceIn(s, chain[Tenant(s)])
    <3> DEFINE h == [tx[s] EXCEPT !.pc = "open", !.rows = @ \cup {tx[s].entry}]
    <3>1. tx' = [tx EXCEPT ![s] = h] /\ UNCHANGED <<db, ghosts>> /\ ~At(s, "outside")
      BY <1>11, <2>2 DEF AppendInsert, At
    <3>2. /\ h.saved = tx[s].saved /\ h.version = tx[s].version /\ h.tenant = tx[s].tenant
          /\ h.pc = "open"
      BY <1>1 DEF Transactions
    <3> HIDE DEF h
    <3> QED
      BY <1>4, <3>1, <3>2
  <2> QED
    BY <2>1, <2>2
<1>12. ASSUME Rollback(s)
       PROVE  SavesInv'
  BY <1>3, <1>12 DEF Rollback, ghosts
<1> QED
  BY <1>5, <1>6, <1>8, <1>9, <1>10, <1>11, <1>12

\* A commit adds the saves of the transaction to both counts; if there are any, no other
\* transaction of the tenant is saving.
LEMMA SavesCommit ==
  ASSUME RepositoriesInv, SavesInv, NEW s \in Sessions, Commit(s)
  PROVE  SavesInv'
<1>1. /\ settings \in [Tenants -> Nat] /\ saves \in [Tenants -> Nat]
      /\ tx \in [Sessions -> Transactions]
      /\ tx[s].saved \in Nat /\ tx[s].version \in Nat /\ Tenant(s) \in Tenants
  BY DEF RepositoriesInv, RepositoriesTypeOK, ChainInv, SessionOK, Commit, At, Transactions
<1>2. /\ tx'[s] = Outside /\ \A r \in Sessions \ {s} : tx'[r] = tx[r]
      /\ settings' = [settings EXCEPT ![Tenant(s)] = Version(s)]
      /\ saves' = [saves EXCEPT ![Tenant(s)] = @ + tx[s].saved]
      /\ overlapped' = overlapped
  BY <1>1, SessionMove DEF Commit
<1>3. Tenant(s)' \notin Tenants /\ \A r \in Sessions \ {s} : Tenant(r)' = Tenant(r) /\ Saving(r)' = Saving(r)
  BY <1>2, NoTenantAssumption DEF Tenant, Outside, Saving, At
<1> SUFFICES ASSUME NEW t \in Tenants, ~overlapped[t]
             PROVE  SavesApart(t)'
  BY <1>2 DEF SavesInv
<1>4. SavesApart(t)
  BY DEF SavesInv
<1>5. \A p, q \in Sessions : p # q /\ Tenant(p)' = t /\ Tenant(q)' = t => ~Saving(p)' \/ ~Saving(q)'
  BY <1>3, <1>4 DEF SavesApart
<1>6. CASE t # Tenant(s)
  <2>1. settings'[t] = settings[t] /\ saves'[t] = saves[t]
    BY <1>1, <1>2, <1>6
  <2>2. ASSUME NEW r \in Sessions, Tenant(r)' = t
        PROVE  CountsSaves(r)'
    <3>1. r # s /\ tx'[r] = tx[r] /\ Tenant(r) = t /\ CountsSaves(r)
      BY <1>2, <1>3, <1>4, <2>2 DEF SavesApart
    <3> QED
      BY <2>1, <2>2, <3>1 DEF CountsSaves, At, Version, Tenant
  <2> QED
    BY <1>4, <1>5, <2>1, <2>2 DEF SavesApart
<1>7. CASE t = Tenant(s)
  <2>1. CountsSaves(s)
    BY <1>4, <1>7 DEF SavesApart
  <2>2. settings'[t] = settings[t] + tx[s].saved /\ saves'[t] = saves[t] + tx[s].saved
    BY <1>1, <1>2, <1>7, <2>1 DEF CountsSaves, Version
  <2>3. settings'[t] = saves'[t]
    BY <1>4, <2>2 DEF SavesApart
  <2>4. ASSUME NEW r \in Sessions, Tenant(r)' = t
        PROVE  CountsSaves(r)'
    <3>1. r # s /\ tx'[r] = tx[r] /\ Tenant(r) = t /\ CountsSaves(r)
      BY <1>2, <1>3, <1>4, <2>4 DEF SavesApart
    <3>2. CASE tx[s].saved = 0
      <4>1. settings'[t] = settings[t]
        BY <1>1, <2>2, <3>2
      <4> QED
        BY <2>4, <3>1, <4>1 DEF CountsSaves, At, Version, Tenant
    <3>3. CASE tx[s].saved > 0
      <4>1. Saving(s) /\ ~Saving(r)
        BY <1>4, <1>7, <3>1, <3>3 DEF SavesApart, Saving
      <4>2. tx[r].saved = 0 /\ tx[r].version = 0 /\ ~At(r, "insert") /\ ~At(r, "update")
        <5>1. tx[r].saved \in Nat
          BY <1>1 DEF Transactions
        <5> QED
          BY <3>1, <4>1, <5>1 DEF Saving, CountsSaves
      <4> QED
        BY <3>1, <4>2 DEF CountsSaves, At
    <3> QED
      BY <1>1, <3>2, <3>3
  <2> QED
    BY <1>5, <2>3, <2>4 DEF SavesApart
<1> QED
  BY <1>6, <1>7

LEMMA SavesStep ==
  RepositoriesInv /\ SavesInv /\ [RepositoriesNext]_repositoryVars => SavesInv'
<1> SUFFICES ASSUME RepositoriesInv, SavesInv, [RepositoriesNext]_repositoryVars
             PROVE  SavesInv'
  OBVIOUS
<1>1. CASE RepositoriesNext
  BY <1>1, SavesSteps, SavesCommit DEF RepositoriesNext
<1>2. CASE UNCHANGED repositoryVars
  BY <1>2 DEF repositoryVars, db, ghosts, SavesInv, SavesApart, CountsSaves, Saving, At,
              Tenant, Version
<1> QED
  BY <1>1, <1>2

\* SerialSavesCount holds for any number of sessions and tenants: unless two saves of a tenant
\* overlap, its version counts the committed ones, whatever fails in between
\* (VersionedSettingsRepository.save).
THEOREM SerialSavesAreCounted == RepositoriesSpec => []SerialSavesCount
<1>1. RepositoriesInit => SavesInv
  BY DEF RepositoriesInit, SavesInv, SavesApart, CountsSaves, Saving, At, Tenant, Outside
<1>2. SavesInv => SerialSavesCount
  BY DEF SavesInv, SavesApart, SerialSavesCount
<1> QED
  BY <1>1, <1>2, RepositoriesStarts, RepositoriesStep, SavesStep, PTL DEF RepositoriesSpec

=============================================================================
