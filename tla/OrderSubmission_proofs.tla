------------------------ MODULE OrderSubmission_proofs ------------------------
(***************************************************************************)
(* Theorems about order submission, for any number of callers, intents,    *)
(* retries and calls.                                                      *)
(*                                                                         *)
(* The argument counts, for each intent, the orders placed, the POSTs on   *)
(* their way and the callers that may still send one.  A caller joins the  *)
(* last only while nothing is placed; after that the sum grows no more,    *)
(* except by a POST that outlives its caller's timeout.                    *)
(***************************************************************************)
EXTENDS OrderSubmission, FiniteSetTheorems, TLAPS

-----------------------------------------------------------------------------
(* The inductive invariant.                                                *)

Counts == [Intents -> Nat]

CountsOK ==
  /\ placed \in Counts /\ cancelled \in Counts /\ late \in Counts
  /\ orphaned \in Counts /\ exposed \in Counts

SharedOK ==
  /\ client \in {"FAKE", "BINGX"}
  /\ gates \subseteq Gates /\ validator \in {"default", "supplied"}
  /\ unknown \in BOOLEAN
  /\ lateDeletes \subseteq Intents
  /\ CountsOK

Unsent == {"lookup", "gates", "rules", "price", "validate", "post"}
PastGates == {"rules", "price", "validate", "post", "await", "reply"}
Sending == {"gates", "rules", "price", "validate", "post", "await"}

\* What a caller's record l says of the way it came.
CallOK(l) ==
  /\ l \in Submission
  /\ l.pc \in Unsent => l.posts = 0
  /\ l.pc # "idle" => client = "BINGX"
  /\ l.pc \in PastGates => gates = Gates

Coming(i) == late[i] + Cardinality(Unplaced(i))

IntentInv(i) ==
  /\ late[i] <= orphaned[i]
  /\ placed[i] + Coming(i) <= Cardinality(Callers) + orphaned[i]
  /\ cancelled[i] <= placed[i]
  /\ cancelled[i] > 0 => placed[i] + Coming(i) <= cancelled[i] + exposed[i]
  /\ client = "FAKE" => placed[i] <= 1 /\ late[i] = 0
  /\ client = "BINGX" /\ (placed[i] > 0 \/ late[i] > 0) => gates = Gates

OrderInv ==
  /\ SharedOK
  /\ DOMAIN call = Callers /\ call \in [Callers -> Submission]
  /\ \A c \in Callers : CallOK(call[c])
  /\ \A i \in Intents : IntentInv(i)

-----------------------------------------------------------------------------
(* Counting callers.                                                       *)

LEMMA CallerCount ==
  ASSUME NEW S \in SUBSET Callers
  PROVE  /\ IsFiniteSet(S) /\ Cardinality(S) \in Nat /\ Cardinality(Callers) \in Nat \ {0}
         /\ Cardinality(S) <= Cardinality(Callers)
         /\ \A c \in Callers \ S : Cardinality(S \cup {c}) = Cardinality(S) + 1
         /\ \A c \in S : Cardinality(S \ {c}) = Cardinality(S) - 1
         /\ \A T \in SUBSET S : Cardinality(T) \in Nat /\ Cardinality(T) <= Cardinality(S)
<1>1. IsFiniteSet(S) /\ Cardinality(S) <= Cardinality(Callers)
  BY CallersAssumption, FS_Subset
<1>2. Cardinality(S) \in Nat /\ Cardinality(Callers) \in Nat
  BY <1>1, CallersAssumption, FS_CardinalityType
<1>3. Cardinality(Callers) # 0
  BY CallersAssumption, FS_EmptySet
<1>4. \A T \in SUBSET S : IsFiniteSet(T) /\ Cardinality(T) <= Cardinality(S)
  BY <1>1, FS_Subset
<1>5. \A T \in SUBSET S : Cardinality(T) \in Nat
  BY <1>4, FS_CardinalityType
<1>6. \A c \in Callers \ S : Cardinality(S \cup {c}) = Cardinality(S) + 1
  BY <1>1, FS_AddElement
<1>7. \A c \in S : Cardinality(S \ {c}) = Cardinality(S) - 1
  BY <1>1, FS_RemoveElement
<1> QED
  BY <1>1, <1>2, <1>3, <1>4, <1>5, <1>6, <1>7

LEMMA UnplacedType == \A i : Unplaced(i) \in SUBSET Callers
BY DEF Unplaced

LEMMA UnplacedTypeNext == \A i : Unplaced(i)' \in SUBSET Callers
BY DEF Unplaced

\* A step of one caller moves nobody else.
LEMMA UnplacedMove ==
  ASSUME call \in [Callers -> Submission], NEW c \in Callers, NEW l, Become(c, l), NEW i
  PROVE  Unplaced(i)' = IF l.intent = i /\ l.pc \in Sending THEN Unplaced(i) \cup {c}
                                                          ELSE Unplaced(i) \ {c}
<1>1. \A d \in Callers : call'[d] = IF d = c THEN l ELSE call[d]
  BY DEF Become
<1> QED
  BY <1>1 DEF Unplaced, Intent, Sending

-----------------------------------------------------------------------------
(* What a step of a caller leaves in its record.                           *)

LEMMA FreshTypes ==
  ASSUME NEW i \in Intents, NEW n \in Nat
  PROVE  /\ Fresh(i, n) \in Submission
         /\ \A label \in Labels, result \in Results :
              [Fresh(i, n) EXCEPT !.pc = label, !.result = result] \in Submission
         /\ \A result \in Results, posts \in 0..1 :
              [Fresh(i, n) EXCEPT !.pc = "idle", !.result = result, !.posts = posts] \in Submission
         /\ [Fresh(i, n) EXCEPT !.pc = "idle"] \in Submission
<1>1. 0 \in 0..MaxRetries /\ 0 \in 0..1
  BY BoundsAssumption
<1>2. Fresh(i, n) \in Submission
  BY <1>1 DEF Fresh, Submission, Labels, Results
<1>3. /\ \A label \in Labels, result \in Results :
           [Fresh(i, n) EXCEPT !.pc = label, !.result = result] \in Submission
      /\ [Fresh(i, n) EXCEPT !.pc = "idle"] \in Submission
  BY <1>2 DEF Submission, Labels
<1>4. \A result \in Results, posts \in 0..1 :
        [Fresh(i, n) EXCEPT !.pc = "idle", !.result = result, !.posts = posts] \in Submission
  BY <1>2 DEF Submission, Labels
<1> QED
  BY <1>2, <1>3, <1>4

LEMMA MoveTypes ==
  ASSUME NEW l \in Submission
  PROVE  /\ \A label \in Labels :
              LET m == [l EXCEPT !.pc = label, !.attempt = 0]
              IN  m \in Submission /\ m.pc = label /\ m.intent = l.intent /\ m.posts = l.posts
         /\ l.attempt < MaxRetries =>
              LET m == [l EXCEPT !.attempt = @ + 1]
              IN  m \in Submission /\ m.pc = l.pc /\ m.intent = l.intent /\ m.posts = l.posts
         /\ l.posts = 0 =>
              LET m == [l EXCEPT !.pc = "await", !.posts = @ + 1]
              IN  m \in Submission /\ m.pc = "await" /\ m.intent = l.intent
<1>1. 0 \in 0..MaxRetries
  BY BoundsAssumption
<1>2. ASSUME NEW label \in Labels
      PROVE  LET m == [l EXCEPT !.pc = label, !.attempt = 0]
             IN  m \in Submission /\ m.pc = label /\ m.intent = l.intent /\ m.posts = l.posts
  BY <1>1 DEF Submission
<1>4. ASSUME l.attempt < MaxRetries
      PROVE  LET m == [l EXCEPT !.attempt = @ + 1]
             IN  m \in Submission /\ m.pc = l.pc /\ m.intent = l.intent /\ m.posts = l.posts
  <2>1. l.attempt + 1 \in 0..MaxRetries
    BY <1>4, BoundsAssumption DEF Submission
  <2> QED
    BY <2>1 DEF Submission
<1>5. ASSUME l.posts = 0
      PROVE  LET m == [l EXCEPT !.pc = "await", !.posts = @ + 1]
             IN  m \in Submission /\ m.pc = "await" /\ m.intent = l.intent
  <2>1. l.posts + 1 = 1 /\ 1 \in 0..1
    BY <1>5
  <2> QED
    BY <2>1 DEF Submission, Labels
<1> QED
  BY <1>2, <1>4, <1>5

LEMMA ReturnTypes ==
  ASSUME NEW l \in Submission, NEW result \in Results, NEW settled \in BOOLEAN
  PROVE  LET m == [l EXCEPT !.pc = "idle", !.attempt = 0, !.result = result, !.settled = settled]
         IN  m \in Submission /\ m.pc = "idle"
<1>1. 0 \in 0..MaxRetries
  BY BoundsAssumption
<1> QED
  BY <1>1 DEF Submission, Labels

-----------------------------------------------------------------------------
(* Steps that leave the shared state alone.                                *)

LEMMA IntentKept ==
  ASSUME CountsOK, NEW i \in Intents, IntentInv(i),
         UNCHANGED <<config, placed, cancelled, late, ghosts>>,
         Unplaced(i)' \subseteq Unplaced(i) \/ placed[i] = 0
  PROVE  IntentInv(i)'
<1>1. /\ placed' = placed /\ cancelled' = cancelled /\ late' = late
      /\ orphaned' = orphaned /\ exposed' = exposed /\ UNCHANGED config
  BY DEF ghosts
<1>2. /\ placed[i] \in Nat /\ cancelled[i] \in Nat /\ late[i] \in Nat
      /\ orphaned[i] \in Nat /\ exposed[i] \in Nat
  BY DEF CountsOK, Counts
<1>3. /\ Cardinality(Unplaced(i)) \in Nat /\ Cardinality(Unplaced(i)') \in Nat
      /\ Cardinality(Unplaced(i)') <= Cardinality(Callers) /\ Cardinality(Callers) \in Nat
      /\ Unplaced(i)' \subseteq Unplaced(i) => Cardinality(Unplaced(i)') <= Cardinality(Unplaced(i))
  <2>1. Unplaced(i) \in SUBSET Callers /\ Unplaced(i)' \in SUBSET Callers
    BY UnplacedType, UnplacedTypeNext
  <2> QED
    BY <2>1, CallerCount
<1>4. Coming(i)' = late[i] + Cardinality(Unplaced(i)')
  BY <1>1 DEF Coming
<1> QED
  BY <1>1, <1>2, <1>3, <1>4 DEF IntentInv, Coming, config

LEMMA SharedKept ==
  SharedOK /\ UNCHANGED <<config, unknown, exchange, ghosts>> => SharedOK'
BY DEF SharedOK, CountsOK, config, exchange, ghosts

\* The records of the callers after a step of c.
LEMMA CallsMove ==
  ASSUME OrderInv, NEW c \in Callers, NEW l, CallOK(l), Become(c, l), UNCHANGED config
  PROVE  /\ DOMAIN call' = Callers /\ call' \in [Callers -> Submission]
         /\ \A d \in Callers : CallOK(call[d])'
<1>1. call' \in [Callers -> Submission] /\ \A d \in Callers : call'[d] = IF d = c THEN l ELSE call[d]
  BY DEF OrderInv, CallOK, Become
<1> QED
  BY <1>1 DEF OrderInv, CallOK, config

\* A caller that joins those who may still send a POST does so while nothing is placed.
LEMMA CallerMove ==
  ASSUME OrderInv, NEW c \in Callers, NEW l, CallOK(l), Become(c, l),
         UNCHANGED <<config, unknown, exchange, ghosts>>,
         l.pc \in Sending =>
           placed[l.intent] = 0 \/ (call[c].pc \in Sending /\ l.intent = Intent(c))
  PROVE  OrderInv'
<1>1. \A d \in Callers : CallOK(call[d])' /\ DOMAIN call' = Callers /\ call' \in [Callers -> Submission]
  BY CallsMove
<1>2. ASSUME NEW i \in Intents
      PROVE  IntentInv(i)'
  <2>1. Unplaced(i)' = IF l.intent = i /\ l.pc \in Sending THEN Unplaced(i) \cup {c}
                                                           ELSE Unplaced(i) \ {c}
    BY UnplacedMove DEF OrderInv
  <2>2. call[c].pc \in Sending /\ Intent(c) = i => c \in Unplaced(i)
    BY DEF Unplaced, Sending
  <2>3. Unplaced(i)' \subseteq Unplaced(i) \/ placed[i] = 0
    BY <2>1, <2>2
  <2> QED
    BY <2>3, IntentKept DEF OrderInv, SharedOK, exchange
<1>3. SharedOK'
  BY SharedKept DEF OrderInv
<1> QED
  BY <1>1, <1>2, <1>3, CallersAssumption DEF OrderInv

LEMMA GotoMove ==
  ASSUME OrderInv, NEW c \in Callers, NEW label \in Labels, Goto(c, label),
         UNCHANGED <<config, unknown, exchange, ghosts>>,
         label \in Unsent => call[c].posts = 0,
         label # "idle" => client = "BINGX",
         label \in PastGates => gates = Gates,
         label \in Sending => placed[Intent(c)] = 0 \/ call[c].pc \in Sending
  PROVE  OrderInv'
<1> DEFINE l == [call[c] EXCEPT !.pc = label, !.attempt = 0]
<1>1. call[c] \in Submission
  BY DEF OrderInv
<1>2. l \in Submission /\ l.pc = label /\ l.intent = call[c].intent /\ l.posts = call[c].posts
  BY <1>1, MoveTypes
<1>3. Become(c, l)
  BY DEF Goto
<1> HIDE DEF l
<1>4. CallOK(l)
  BY <1>2 DEF CallOK
<1> QED
  BY <1>2, <1>3, <1>4, CallerMove DEF Intent

LEMMA ReturnMove ==
  ASSUME OrderInv, NEW c \in Callers, NEW result \in Results, NEW settled \in BOOLEAN,
         Return(c, result, settled), UNCHANGED <<config, unknown, exchange, ghosts>>
  PROVE  OrderInv'
<1> DEFINE l == [call[c] EXCEPT !.pc = "idle", !.attempt = 0, !.result = result, !.settled = settled]
<1>1. call[c] \in Submission
  BY DEF OrderInv
<1>2. l \in Submission /\ l.pc = "idle"
  BY <1>1, ReturnTypes
<1>3. Become(c, l)
  BY DEF Return
<1> HIDE DEF l
<1>4. CallOK(l) /\ l.pc \notin Sending
  BY <1>2 DEF CallOK, Unsent, PastGates, Sending
<1> QED
  BY <1>3, <1>4, CallerMove

LEMMA GetFailsMove ==
  ASSUME OrderInv, NEW c \in Callers, GetFails(c), ~At(c, "idle")
  PROVE  OrderInv'
<1>1. UNCHANGED <<config, unknown, exchange, ghosts>>
  BY DEF GetFails
<1>2. CASE Return(c, "error", TRUE)
  BY <1>1, <1>2, ReturnMove DEF Results
<1>3. CASE call[c].attempt < MaxRetries /\ Become(c, [call[c] EXCEPT !.attempt = @ + 1])
  <2> DEFINE l == [call[c] EXCEPT !.attempt = @ + 1]
  <2>1. call[c] \in Submission /\ CallOK(call[c])
    BY DEF OrderInv
  <2>2. /\ l \in Submission /\ l.pc = call[c].pc /\ l.intent = call[c].intent
        /\ l.posts = call[c].posts
    BY <1>3, <2>1, MoveTypes
  <2>3. Become(c, l)
    BY <1>3
  <2> HIDE DEF l
  <2>4. CallOK(l)
    BY <2>1, <2>2 DEF CallOK
  <2> QED
    BY <1>1, <2>2, <2>3, <2>4, CallerMove DEF Intent
<1> QED
  BY <1>2, <1>3 DEF GetFails, RetryGet

-----------------------------------------------------------------------------
(* The steps of a caller.                                                  *)

LEMMA LocalSteps ==
  ASSUME OrderInv, NEW c \in Callers,
         \/ Lookup(c) \/ RequireGates(c) \/ LoadRules(c) \/ ReadPrice(c) \/ Validate(c)
         \/ SendPost(c) \/ Refuse(c) \/ ReadReply(c) \/ ReadConfirmation(c)
  PROVE  OrderInv'
<1> USE DEF Unsent, PastGates, Sending, At, Labels, Results
<1>0. CallOK(call[c])
  BY DEF OrderInv
<1>1. CASE Lookup(c)
  <2>1. placed[Intent(c)] \in Nat
    BY <1>0 DEF OrderInv, SharedOK, CountsOK, Counts, CallOK, Submission, Intent
  <2>2. CASE GetFails(c)
    BY <1>1, <2>2, GetFailsMove DEF Lookup
  <2>3. CASE placed[Intent(c)] > 0 /\ Return(c, "order", TRUE) /\ UNCHANGED <<config, unknown, exchange, ghosts>>
    BY <2>3, ReturnMove
  <2>4. CASE placed[Intent(c)] = 0 /\ Goto(c, "gates") /\ UNCHANGED <<config, unknown, exchange, ghosts>>
    BY <1>0, <1>1, <2>4, GotoMove DEF Lookup, CallOK
  <2>5. placed[Intent(c)] > 0 \/ placed[Intent(c)] = 0
    BY <2>1
  <2>6. CASE placed[Intent(c)] > 0
    BY <1>1, <2>2, <2>3, <2>6 DEF Lookup
  <2>7. CASE placed[Intent(c)] = 0
    BY <1>1, <2>2, <2>4, <2>7 DEF Lookup
  <2> QED
    BY <2>5, <2>6, <2>7
<1>2. CASE RequireGates(c)
  <2>1. CASE gates = Gates /\ Goto(c, "rules")
    BY <1>0, <1>2, <2>1, GotoMove DEF RequireGates, CallOK
  <2>2. CASE Return(c, "error", TRUE)
    BY <1>2, <2>2, ReturnMove DEF RequireGates
  <2> QED
    BY <1>2, <2>1, <2>2 DEF RequireGates
<1>3. CASE LoadRules(c)
  <2>1. CASE GetFails(c)
    BY <1>3, <2>1, GetFailsMove DEF LoadRules
  <2>2. CASE Goto(c, "price") /\ UNCHANGED <<config, unknown, exchange, ghosts>>
    <3>1. call[c].pc = "rules" /\ client = "BINGX" /\ gates = Gates /\ call[c].posts = 0
      BY <1>0, <1>3 DEF LoadRules, CallOK
    <3> QED
      BY <2>2, <3>1, GotoMove
  <2>3. CASE Goto(c, "validate") /\ UNCHANGED <<config, unknown, exchange, ghosts>>
    <3>1. call[c].pc = "rules" /\ client = "BINGX" /\ gates = Gates /\ call[c].posts = 0
      BY <1>0, <1>3 DEF LoadRules, CallOK
    <3> QED
      BY <2>3, <3>1, GotoMove
  <2> QED
    BY <1>3, <2>1, <2>2, <2>3 DEF LoadRules
<1>4. CASE ReadPrice(c)
  <2>1. CASE GetFails(c)
    BY <1>4, <2>1, GetFailsMove DEF ReadPrice
  <2>2. CASE Goto(c, "validate") /\ UNCHANGED <<config, unknown, exchange, ghosts>>
    BY <1>0, <1>4, <2>2, GotoMove DEF ReadPrice, CallOK
  <2> QED
    BY <1>4, <2>1, <2>2 DEF ReadPrice
<1>5. CASE Validate(c)
  <2>1. CASE Goto(c, "post")
    BY <1>0, <1>5, <2>1, GotoMove DEF Validate, CallOK
  <2>2. ASSUME NEW result \in {"error", "AttributeError"}, Return(c, result, TRUE)
        PROVE  OrderInv'
    BY <1>5, <2>2, ReturnMove DEF Validate
  <2> QED
    BY <1>5, <2>1, <2>2 DEF Validate
<1>6. CASE SendPost(c)
  <2> DEFINE l == [call[c] EXCEPT !.pc = "await", !.posts = @ + 1]
  <2>1. call[c].pc = "post" /\ Become(c, l) /\ UNCHANGED <<config, unknown, exchange, ghosts>>
    BY <1>6 DEF SendPost
  <2>2. call[c] \in Submission /\ call[c].posts = 0
    BY <1>0, <2>1 DEF CallOK
  <2>3. l \in Submission /\ l.pc = "await" /\ l.intent = call[c].intent
    BY <2>2, MoveTypes
  <2> HIDE DEF l
  <2>4. CallOK(l)
    BY <1>0, <2>1, <2>3 DEF CallOK
  <2> QED
    BY <2>1, <2>3, <2>4, CallerMove DEF Intent
<1>7. CASE Refuse(c)
  BY <1>7, ReturnMove DEF Refuse
<1>8. CASE ReadReply(c)
  BY <1>8, ReturnMove DEF ReadReply
<1>9. CASE ReadConfirmation(c)
  BY <1>9, ReturnMove DEF ReadConfirmation
<1> QED
  BY <1>1, <1>2, <1>3, <1>4, <1>5, <1>6, <1>7, <1>8, <1>9

\* A caller that waits for its POST is one of those that may send one, and stops being one.
LEMMA SenderLeaves ==
  ASSUME OrderInv, NEW c \in Callers, At(c, "await"), NEW l, Become(c, l), l.pc \notin Sending,
         NEW i, i = Intent(c)
  PROVE  /\ i \in Intents /\ client = "BINGX" /\ gates = Gates
         /\ Cardinality(Unplaced(i)) \in Nat \ {0}
         /\ Cardinality(Unplaced(i)') = Cardinality(Unplaced(i)) - 1
         /\ \A j \in Intents \ {i} : Unplaced(j)' = Unplaced(j)
<1>1. \A j : Unplaced(j)' = Unplaced(j) \ {c}
  BY UnplacedMove DEF OrderInv
<1>2. c \in Unplaced(i) /\ \A j \in Intents \ {i} : c \notin Unplaced(j)
  BY DEF Unplaced, At
<1>3. CallOK(call[c])
  BY DEF OrderInv
<1>4. i \in Intents /\ client = "BINGX" /\ gates = Gates
  BY <1>3 DEF CallOK, Submission, Intent, At, PastGates
<1>5. Unplaced(i) \in SUBSET Callers
  BY UnplacedType
<1>6. Unplaced(i) \ {c} \in SUBSET Callers /\ Unplaced(i)' = Unplaced(i) \ {c}
  BY <1>1, <1>5
<1>7. /\ Cardinality(Unplaced(i)) \in Nat /\ Cardinality(Unplaced(i) \ {c}) \in Nat
      /\ Cardinality(Unplaced(i) \ {c}) = Cardinality(Unplaced(i)) - 1
  BY <1>2, <1>5, <1>6, CallerCount
<1>8. \A j \in Intents \ {i} : Unplaced(j) \ {c} = Unplaced(j)
  BY <1>2
<1>9. \A j \in Intents \ {i} : Unplaced(j)' = Unplaced(j)
  BY <1>1, <1>8
<1>10. Cardinality(Unplaced(i)') = Cardinality(Unplaced(i)) - 1
  BY <1>6, <1>7
<1>11. Cardinality(Unplaced(i)) # 0
  BY <1>7
<1> QED
  BY <1>4, <1>7, <1>9, <1>10, <1>11

-----------------------------------------------------------------------------
(* The steps that change what the exchange holds.                          *)

\* The facts about the counts of one intent that the steps below start from.
LEMMA IntentFacts ==
  ASSUME OrderInv, NEW i \in Intents
  PROVE  /\ placed[i] \in Nat /\ cancelled[i] \in Nat /\ late[i] \in Nat
         /\ orphaned[i] \in Nat /\ exposed[i] \in Nat
         /\ Cardinality(Unplaced(i)) \in Nat /\ Cardinality(Callers) \in Nat \ {0}
         /\ Cardinality(Unplaced(i)) <= Cardinality(Callers)
         /\ IntentInv(i)
<1>1. Unplaced(i) \in SUBSET Callers
  BY UnplacedType
<1> QED
  BY <1>1, CallerCount DEF OrderInv, SharedOK, CountsOK, Counts

LEMMA AcceptKeeps ==
  ASSUME OrderInv, NEW c \in Callers, Accept(c)
  PROVE  OrderInv'
<1> DEFINE l == [call[c] EXCEPT !.pc = "reply", !.attempt = 0]
<1>1. /\ At(c, "await") /\ Become(c, l) /\ placed' = [placed EXCEPT ![Intent(c)] = @ + 1]
      /\ UNCHANGED <<config, unknown, cancelled, late, lateDeletes, ghosts>>
  BY DEF Accept, Goto
<1>2. call[c] \in Submission /\ CallOK(call[c])
  BY DEF OrderInv
<1>3. l \in Submission /\ l.pc = "reply"
  BY <1>2, MoveTypes DEF Labels
<1> HIDE DEF l
<1>4. CallOK(l) /\ l.pc \notin Sending
  BY <1>1, <1>2, <1>3 DEF CallOK, At, Unsent, PastGates, Sending
<1>5. /\ DOMAIN call' = Callers /\ call' \in [Callers -> Submission]
      /\ \A d \in Callers : CallOK(call[d])'
  BY <1>1, <1>4, CallsMove
<1>6. Intent(c) \in Intents
  BY <1>2 DEF Intent, Submission
<1>7. SharedOK'
  BY <1>1, <1>6 DEF OrderInv, SharedOK, CountsOK, Counts, config, ghosts
<1>8. ASSUME NEW i \in Intents
      PROVE  IntentInv(i)'
  <2>1. CASE i = Intent(c)
    <3>1. /\ client = "BINGX" /\ gates = Gates
          /\ Cardinality(Unplaced(i)) \in Nat \ {0}
          /\ Cardinality(Unplaced(i)') = Cardinality(Unplaced(i)) - 1
      BY <1>1, <1>4, <2>1, SenderLeaves
    <3>2. /\ placed'[i] = placed[i] + 1 /\ cancelled' = cancelled /\ late' = late
          /\ orphaned' = orphaned /\ exposed' = exposed /\ UNCHANGED config
      BY <1>1, <2>1 DEF OrderInv, SharedOK, CountsOK, Counts, ghosts
    <3>3. Coming(i)' = Coming(i) - 1 /\ Coming(i) \in Nat
      BY <3>1, <3>2, IntentFacts DEF Coming
    <3> QED
      BY <3>1, <3>2, <3>3, IntentFacts DEF IntentInv, config
  <2>2. CASE i # Intent(c)
    <3>1. \A j \in Intents \ {Intent(c)} : Unplaced(j)' = Unplaced(j)
      BY <1>1, <1>4, SenderLeaves
    <3>2. /\ placed'[i] = placed[i] /\ cancelled' = cancelled /\ late' = late
          /\ orphaned' = orphaned /\ exposed' = exposed /\ UNCHANGED config
      BY <1>1, <2>2 DEF OrderInv, SharedOK, CountsOK, Counts, ghosts
    <3> QED
      BY <2>2, <3>1, <3>2, IntentFacts DEF IntentInv, Coming, config
  <2> QED
    BY <2>1, <2>2
<1> QED
  BY <1>5, <1>7, <1>8 DEF OrderInv

LEMMA GiveUpKeeps ==
  ASSUME OrderInv, NEW c \in Callers, GiveUp(c)
  PROVE  OrderInv'
<1> DEFINE l == [call[c] EXCEPT !.pc = "idle", !.attempt = 0, !.result = "error", !.settled = FALSE]
<1>1. /\ At(c, "await") /\ Become(c, l) /\ LostOrLate(Intent(c))
      /\ UNCHANGED <<config, unknown, placed, cancelled, lateDeletes, exposed>>
  BY DEF GiveUp, Return
<1>2. call[c] \in Submission /\ CallOK(call[c])
  BY DEF OrderInv
<1>3. l \in Submission /\ l.pc = "idle"
  BY <1>2, ReturnTypes DEF Results
<1> HIDE DEF l
<1>4. CallOK(l) /\ l.pc \notin Sending
  BY <1>3 DEF CallOK, Unsent, PastGates, Sending
<1>5. /\ DOMAIN call' = Callers /\ call' \in [Callers -> Submission]
      /\ \A d \in Callers : CallOK(call[d])'
  BY <1>1, <1>4, CallsMove
<1>6. Intent(c) \in Intents
  BY <1>2 DEF Intent, Submission
<1>7. SharedOK'
  BY <1>1, <1>6 DEF OrderInv, SharedOK, CountsOK, Counts, config, LostOrLate
<1>8. ASSUME NEW i \in Intents
      PROVE  IntentInv(i)'
  <2>1. CASE i = Intent(c)
    <3>1. /\ client = "BINGX" /\ gates = Gates
          /\ Cardinality(Unplaced(i)) \in Nat \ {0}
          /\ Cardinality(Unplaced(i)') = Cardinality(Unplaced(i)) - 1
      BY <1>1, <1>4, <2>1, SenderLeaves
    <3>2. /\ placed' = placed /\ cancelled' = cancelled /\ exposed' = exposed /\ UNCHANGED config
          /\ \/ late'[i] = late[i] /\ orphaned'[i] = orphaned[i]
             \/ late'[i] = late[i] + 1 /\ orphaned'[i] = orphaned[i] + 1
      BY <1>1, <2>1 DEF OrderInv, SharedOK, CountsOK, Counts, LostOrLate
    <3>3. Coming(i)' = late'[i] + Cardinality(Unplaced(i)) - 1
      BY <3>1, <3>2, IntentFacts DEF Coming
    <3> QED
      BY <3>1, <3>2, <3>3, IntentFacts DEF IntentInv, Coming, config
  <2>2. CASE i # Intent(c)
    <3>1. \A j \in Intents \ {Intent(c)} : Unplaced(j)' = Unplaced(j)
      BY <1>1, <1>4, SenderLeaves
    <3>2. /\ placed' = placed /\ cancelled' = cancelled /\ late'[i] = late[i]
          /\ orphaned'[i] = orphaned[i] /\ exposed' = exposed /\ UNCHANGED config
      BY <1>1, <2>2 DEF OrderInv, SharedOK, CountsOK, Counts, LostOrLate
    <3> QED
      BY <2>2, <3>1, <3>2, IntentFacts DEF IntentInv, Coming, config
  <2> QED
    BY <2>1, <2>2
<1> QED
  BY <1>5, <1>7, <1>8 DEF OrderInv

LEMMA ArriveLateKeeps ==
  ASSUME OrderInv, NEW i \in Intents, ArriveLate(i)
  PROVE  OrderInv'
<1>1. /\ late[i] > 0 /\ late' = [late EXCEPT ![i] = @ - 1] /\ placed' = [placed EXCEPT ![i] = @ + 1]
      /\ UNCHANGED <<config, unknown, cancelled, lateDeletes, ghosts, call>>
  BY DEF ArriveLate
<1>2. \A j : Unplaced(j)' = Unplaced(j)
  BY <1>1 DEF Unplaced, Intent
<1>3. SharedOK'
  BY <1>1 DEF OrderInv, SharedOK, CountsOK, Counts, config, ghosts
<1>4. ASSUME NEW j \in Intents
      PROVE  IntentInv(j)'
  <2>1. /\ cancelled' = cancelled /\ orphaned' = orphaned /\ exposed' = exposed /\ UNCHANGED config
        /\ j = i => late'[j] = late[j] - 1 /\ placed'[j] = placed[j] + 1
        /\ j # i => late'[j] = late[j] /\ placed'[j] = placed[j]
    BY <1>1 DEF OrderInv, SharedOK, CountsOK, Counts, ghosts
  <2>2. Coming(j)' = late'[j] + Cardinality(Unplaced(j))
    BY <1>2 DEF Coming
  <2>3. client \in {"FAKE", "BINGX"}
    BY DEF OrderInv, SharedOK
  <2> QED
    BY <1>1, <2>1, <2>2, <2>3, IntentFacts DEF IntentInv, Coming, config
<1>5. /\ DOMAIN call' = Callers /\ call' \in [Callers -> Submission]
      /\ \A d \in Callers : CallOK(call[d])'
  BY <1>1 DEF OrderInv, CallOK, config
<1> QED
  BY <1>3, <1>4, <1>5 DEF OrderInv

LEMMA CancelEffect ==
  ASSUME OrderInv, NEW i \in Intents, CancelOpenOrders(i), lateDeletes' \subseteq Intents,
         UNCHANGED <<config, unknown, placed, late, orphaned>>,
         \A j \in Intents : Unplaced(j)' = Unplaced(j)
  PROVE  SharedOK' /\ \A j \in Intents : IntentInv(j)'
<1>1. /\ cancelled' = [cancelled EXCEPT ![i] = placed[i]]
      /\ exposed' = [exposed EXCEPT ![i] = Cardinality(Unplaced(i)) + late[i]]
  BY DEF CancelOpenOrders
<1>2. Cardinality(Unplaced(i)) + late[i] \in Nat
  BY IntentFacts
<1>3. SharedOK'
  BY <1>1, <1>2 DEF OrderInv, SharedOK, CountsOK, Counts, config
<1>4. ASSUME NEW j \in Intents
      PROVE  IntentInv(j)'
  <2>1. /\ placed' = placed /\ late' = late /\ orphaned' = orphaned /\ UNCHANGED config
        /\ j = i => cancelled'[j] = placed[j] /\ exposed'[j] = Coming(j)
        /\ j # i => cancelled'[j] = cancelled[j] /\ exposed'[j] = exposed[j]
    BY <1>1, IntentFacts DEF OrderInv, SharedOK, CountsOK, Counts, Coming
  <2>2. Coming(j)' = Coming(j) /\ Coming(j) \in Nat
    BY <2>1, IntentFacts DEF Coming
  <2> QED
    BY <2>1, <2>2, IntentFacts DEF IntentInv, config
<1> QED
  BY <1>3, <1>4

LEMMA CancelKeeps ==
  ASSUME OrderInv, NEW c \in Callers, Cancel(c)
  PROVE  OrderInv'
<1> DEFINE l == [call[c] EXCEPT !.pc = "confirm", !.attempt = 0]
<1>1. /\ At(c, "delete") /\ CancelOpenOrders(Intent(c)) /\ Become(c, l)
      /\ UNCHANGED <<config, unknown, placed, late, lateDeletes, orphaned>>
  BY DEF Cancel, Goto
<1>2. call[c] \in Submission /\ CallOK(call[c])
  BY DEF OrderInv
<1>3. l \in Submission /\ l.pc = "confirm"
  BY <1>2, MoveTypes DEF Labels
<1> HIDE DEF l
<1>4. CallOK(l) /\ l.pc \notin Sending
  BY <1>1, <1>2, <1>3 DEF CallOK, At, Unsent, PastGates, Sending
<1>5. /\ DOMAIN call' = Callers /\ call' \in [Callers -> Submission]
      /\ \A d \in Callers : CallOK(call[d])'
  BY <1>1, <1>4, CallsMove
<1>6. Intent(c) \in Intents
  BY <1>2 DEF Intent, Submission
<1>7. ASSUME NEW j \in Intents
      PROVE  Unplaced(j)' = Unplaced(j)
  <2>1. Unplaced(j)' = Unplaced(j) \ {c}
    BY <1>1, <1>4, UnplacedMove DEF OrderInv
  <2>2. c \notin Unplaced(j)
    BY <1>1 DEF Unplaced, At
  <2> QED
    BY <2>1, <2>2
<1>8. lateDeletes' \subseteq Intents
  BY <1>1 DEF OrderInv, SharedOK
<1>9. SharedOK' /\ \A j \in Intents : IntentInv(j)'
  BY <1>1, <1>6, <1>7, <1>8, CancelEffect
<1> QED
  BY <1>5, <1>9 DEF OrderInv

LEMMA CancelFailsKeeps ==
  ASSUME OrderInv, NEW c \in Callers, CancelFails(c)
  PROVE  OrderInv'
<1> DEFINE l == [call[c] EXCEPT !.pc = "idle", !.attempt = 0, !.result = "error", !.settled = TRUE]
<1>1. /\ Become(c, l) /\ lateDeletes' \in {lateDeletes, lateDeletes \cup {Intent(c)}}
      /\ UNCHANGED <<config, unknown, placed, cancelled, late, ghosts>>
  BY DEF CancelFails, Return
<1>2. call[c] \in Submission
  BY DEF OrderInv
<1>3. l \in Submission /\ l.pc = "idle"
  BY <1>2, ReturnTypes DEF Results
<1> HIDE DEF l
<1>4. CallOK(l) /\ l.pc \notin Sending
  BY <1>3 DEF CallOK, Unsent, PastGates, Sending
<1>5. /\ DOMAIN call' = Callers /\ call' \in [Callers -> Submission]
      /\ \A d \in Callers : CallOK(call[d])'
  BY <1>1, <1>4, CallsMove
<1>6. Intent(c) \in Intents
  BY <1>2 DEF Intent, Submission
<1>7. SharedOK'
  BY <1>1, <1>6 DEF OrderInv, SharedOK, CountsOK, config, ghosts
<1>8. ASSUME NEW i \in Intents
      PROVE  IntentInv(i)'
  <2>1. Unplaced(i)' = Unplaced(i) \ {c}
    BY <1>1, <1>4, UnplacedMove DEF OrderInv
  <2>2. Unplaced(i)' \subseteq Unplaced(i)
    BY <2>1
  <2> QED
    BY <1>1, <2>2, IntentKept DEF OrderInv, SharedOK
<1> QED
  BY <1>5, <1>7, <1>8 DEF OrderInv

LEMMA CancelLateKeeps ==
  ASSUME OrderInv, NEW i \in Intents, CancelLate(i)
  PROVE  OrderInv'
<1>1. /\ lateDeletes' = lateDeletes \ {i} /\ UNCHANGED <<config, unknown, placed, late, orphaned, call>>
      /\ CancelOpenOrders(i) \/ UNCHANGED <<cancelled, exposed>>
  BY DEF CancelLate
<1>2. \A j : Unplaced(j)' = Unplaced(j)
  BY <1>1 DEF Unplaced, Intent
<1>3. lateDeletes' \subseteq Intents
  BY <1>1 DEF OrderInv, SharedOK
<1>4. /\ DOMAIN call' = Callers /\ call' \in [Callers -> Submission]
      /\ \A d \in Callers : CallOK(call[d])'
  BY <1>1 DEF OrderInv, CallOK, config
<1>5. SharedOK' /\ \A j \in Intents : IntentInv(j)'
  <2>1. CASE CancelOpenOrders(i)
    BY <1>1, <1>2, <1>3, <2>1, CancelEffect
  <2>2. CASE UNCHANGED <<cancelled, exposed>>
    <3>1. UNCHANGED <<config, placed, cancelled, late, ghosts>>
      BY <1>1, <2>2 DEF ghosts
    <3>2. SharedOK'
      BY <1>1, <1>3, <3>1 DEF OrderInv, SharedOK, CountsOK, config, ghosts
    <3> QED
      BY <1>2, <3>1, <3>2, IntentKept DEF OrderInv, SharedOK
  <2> QED
    BY <1>1, <2>1, <2>2
<1> QED
  BY <1>4, <1>5 DEF OrderInv

-----------------------------------------------------------------------------
(* Requests, and the fake client.                                          *)

LEMMA RequestKeeps ==
  ASSUME OrderInv, NEW c \in Callers, NEW i \in Intents, Submit(c, i) \/ CancelOrder(c, i)
  PROVE  OrderInv'
<1> DEFINE n == call[c].calls + 1
<1>1. n \in Nat
  BY DEF OrderInv, Submission
<1>2. CASE Submit(c, i)
  <2> DEFINE l == Fresh(i, n)
  <2>1. l \in Submission /\ l.pc = "lookup" /\ l.posts = 0
    BY <1>1, FreshTypes DEF Fresh
  <2>2. Become(c, l) /\ client = "BINGX" /\ UNCHANGED <<config, unknown, exchange, ghosts>>
    BY <1>2 DEF Submit
  <2> HIDE DEF l, n
  <2>3. CallOK(l) /\ l.pc \notin Sending
    BY <2>1, <2>2 DEF CallOK, Unsent, PastGates, Sending
  <2> QED
    BY <2>2, <2>3, CallerMove
<1>3. CASE CancelOrder(c, i)
  <2> DEFINE label == IF gates = Gates THEN "delete" ELSE "idle"
             result == IF gates = Gates THEN "none" ELSE "error"
             l == [Fresh(i, n) EXCEPT !.pc = label, !.result = result]
  <2>1. label \in {"delete", "idle"} /\ label \in Labels /\ result \in Results
    BY DEF Labels, Results
  <2>2. Become(c, l) /\ client = "BINGX" /\ UNCHANGED <<config, unknown, exchange, ghosts>>
    BY <1>3 DEF CancelOrder
  <2> HIDE DEF label, result, n
  <2>3. l \in Submission /\ l.pc = label
    BY <1>1, <2>1, FreshTypes DEF Fresh
  <2> HIDE DEF l
  <2>4. CallOK(l) /\ l.pc \notin Sending
    BY <2>1, <2>2, <2>3 DEF CallOK, Unsent, PastGates, Sending
  <2> QED
    BY <2>2, <2>4, CallerMove
<1> QED
  BY <1>2, <1>3

\* Over the fake client nobody is ever between two steps.
LEMMA FakeMove ==
  ASSUME OrderInv, NEW c \in Callers, NEW i \in Intents, client = "FAKE",
         NEW result \in Results, NEW posts \in 0..1, FakeAnswer(c, i, result, posts),
         placed' \in Counts, \A j \in Intents : placed'[j] \in {placed[j], 1}, unknown' \in BOOLEAN,
         UNCHANGED <<config, cancelled, late, lateDeletes, ghosts>>
  PROVE  OrderInv'
<1> DEFINE n == call[c].calls + 1
           l == [Fresh(i, n) EXCEPT !.pc = "idle", !.result = result, !.posts = posts]
<1>1. n \in Nat
  BY DEF OrderInv, Submission
<1>2. Become(c, l)
  BY DEF FakeAnswer
<1> HIDE DEF n
<1>3. l \in Submission /\ l.pc = "idle"
  BY <1>1, FreshTypes DEF Fresh
<1> HIDE DEF l
<1>4. CallOK(l) /\ l.pc \notin Sending
  BY <1>3 DEF CallOK, Unsent, PastGates, Sending
<1>5. /\ DOMAIN call' = Callers /\ call' \in [Callers -> Submission]
      /\ \A d \in Callers : CallOK(call[d])'
  BY <1>2, <1>4, CallsMove
<1>6. SharedOK'
  BY DEF OrderInv, SharedOK, CountsOK, Counts, config, ghosts
<1>7. ASSUME NEW j \in Intents
      PROVE  IntentInv(j)'
  <2>1. Unplaced(j)' = Unplaced(j) \ {c}
    BY <1>2, <1>4, UnplacedMove DEF OrderInv
  <2>2. Unplaced(j) = {}
    BY DEF OrderInv, CallOK, Unplaced
  <2>3. Cardinality(Unplaced(j)') = 0
    BY <2>1, <2>2, FS_EmptySet
  <2>4. /\ cancelled' = cancelled /\ late' = late /\ orphaned' = orphaned /\ exposed' = exposed
        /\ UNCHANGED config /\ (placed'[j] = placed[j] \/ placed'[j] = 1)
    BY DEF OrderInv, SharedOK, CountsOK, Counts, ghosts
  <2>5. Coming(j)' = late[j] /\ Coming(j) = late[j]
    BY <2>2, <2>3, <2>4, FS_EmptySet, IntentFacts DEF Coming
  <2>6. /\ late[j] = 0 /\ placed[j] <= 1 /\ cancelled[j] <= placed[j] /\ placed'[j] <= 1
        /\ placed[j] <= placed'[j]
        /\ placed[j] \in Nat /\ cancelled[j] \in Nat /\ orphaned[j] \in Nat /\ exposed[j] \in Nat
        /\ placed'[j] \in Nat
    <3>1. IntentInv(j) /\ placed[j] \in Nat /\ cancelled[j] \in Nat /\ late[j] \in Nat
          /\ orphaned[j] \in Nat /\ exposed[j] \in Nat /\ placed'[j] \in Nat
      BY DEF OrderInv, SharedOK, CountsOK, Counts
    <3>2. late[j] = 0 /\ placed[j] <= 1 /\ cancelled[j] <= placed[j]
      BY <3>1 DEF IntentInv
    <3> QED
      BY <2>4, <3>1, <3>2
  <2>7. Cardinality(Callers) \in Nat \ {0}
    BY CallerCount
  <2>8. client' = "FAKE"
    BY DEF config
  <2> QED
    BY <2>4, <2>5, <2>6, <2>7, <2>8 DEF IntentInv
<1> QED
  BY <1>5, <1>6, <1>7 DEF OrderInv

LEMMA FakeKeeps ==
  ASSUME OrderInv, NEW c \in Callers, NEW i \in Intents,
         FakeSubmit(c, i) \/ FakeSubmitUnknown(c, i) \/ FakeCancel(c, i)
  PROVE  OrderInv'
<1> USE DEF Results
<1>0. unknown \in BOOLEAN /\ placed \in Counts
  BY DEF OrderInv, SharedOK, CountsOK
<1>1. CASE FakeSubmit(c, i)
  <2>1. CASE FakeAnswer(c, i, "order", 0) /\ UNCHANGED <<unknown, placed>>
    BY <1>0, <1>1, <2>1, FakeMove DEF FakeSubmit
  <2>2. CASE FakeAnswer(c, i, "rejected", 1) /\ UNCHANGED <<unknown, placed>>
    BY <1>0, <1>1, <2>2, FakeMove DEF FakeSubmit
  <2>3. CASE FakeAnswer(c, i, "order", 1) /\ placed' = [placed EXCEPT ![i] = 1] /\ unknown' = FALSE
    <3>1. unknown' \in BOOLEAN
      BY <2>3
    <3>2. client = "FAKE" /\ UNCHANGED <<config, cancelled, late, lateDeletes, ghosts>>
      BY <1>1 DEF FakeSubmit
    <3>3. placed' \in Counts /\ \A j \in Intents : placed'[j] \in {placed[j], 1}
      BY <1>0, <2>3 DEF Counts
    <3>4. FakeAnswer(c, i, "order", 1)
      BY <2>3
    <3> QED
      BY <3>1, <3>2, <3>3, <3>4, FakeMove
  <2>4. \/ FakeAnswer(c, i, "order", 0) /\ UNCHANGED <<unknown, placed>>
        \/ FakeSubmitOrder(c, i)
    BY <1>1, Zenon DEF FakeSubmit
  <2> QED
    BY <2>1, <2>2, <2>3, <2>4, Zenon DEF FakeSubmitOrder
<1>2. CASE FakeSubmitUnknown(c, i)
  <2>1. CASE FakeAnswer(c, i, "order", 0) /\ unknown' = TRUE /\ UNCHANGED placed
    <3>1. unknown' \in BOOLEAN /\ placed' = placed
      BY <2>1
    <3>2. client = "FAKE" /\ UNCHANGED <<config, cancelled, late, lateDeletes, ghosts>>
      BY <1>2 DEF FakeSubmitUnknown
    <3>3. placed' \in Counts /\ \A j \in Intents : placed'[j] \in {placed[j], 1}
      BY <1>0, <3>1
    <3>4. FakeAnswer(c, i, "order", 0)
      BY <2>1
    <3> QED
      BY <3>1, <3>2, <3>3, <3>4, FakeMove
  <2>2. CASE FakeAnswer(c, i, "order", 1) /\ placed' = [placed EXCEPT ![i] = 1] /\ unknown' = FALSE
    <3>1. unknown' \in BOOLEAN
      BY <2>2
    <3>2. client = "FAKE" /\ UNCHANGED <<config, cancelled, late, lateDeletes, ghosts>>
      BY <1>2 DEF FakeSubmitUnknown
    <3>3. placed' \in Counts /\ \A j \in Intents : placed'[j] \in {placed[j], 1}
      BY <1>0, <2>2 DEF Counts
    <3>4. FakeAnswer(c, i, "order", 1)
      BY <2>2
    <3> QED
      BY <3>1, <3>2, <3>3, <3>4, FakeMove
  <2>3. \/ FakeAnswer(c, i, "order", 0) /\ unknown' = TRUE /\ UNCHANGED placed
        \/ FakeAnswer(c, i, "order", 1) /\ placed' = [placed EXCEPT ![i] = 1] /\ unknown' = FALSE
    BY <1>2, Zenon DEF FakeSubmitUnknown
  <2> QED
    BY <2>1, <2>2, <2>3, Zenon
<1>3. CASE FakeCancel(c, i)
  <2>1. UNCHANGED <<config, cancelled, late, lateDeletes, ghosts>> /\ UNCHANGED <<unknown, placed>>
    BY <1>3 DEF FakeCancel, exchange
  <2>2. CASE FakeAnswer(c, i, "cancelled", 0)
    BY <1>0, <1>3, <2>1, <2>2, FakeMove DEF FakeCancel
  <2>3. CASE FakeAnswer(c, i, "error", 0)
    BY <1>0, <1>3, <2>1, <2>3, FakeMove DEF FakeCancel
  <2> QED
    BY <1>3, <2>2, <2>3 DEF FakeCancel
<1> QED
  BY <1>1, <1>2, <1>3

-----------------------------------------------------------------------------
(* The theorems.                                                           *)

LEMMA OrderInit == SubmissionInit => OrderInv
<1> SUFFICES ASSUME SubmissionInit
             PROVE  OrderInv
  OBVIOUS
<1>1. SharedOK
  BY DEF SubmissionInit, SharedOK, CountsOK, Counts, NoOrders
<1>2. ASSUME NEW c \in Callers
      PROVE  \E i \in Intents : call[c] = [Fresh(i, 0) EXCEPT !.pc = "idle"]
  BY DEF SubmissionInit
<1>3. ASSUME NEW c \in Callers
      PROVE  call[c] \in Submission /\ call[c].pc = "idle"
  <2>1. PICK i \in Intents : call[c] = [Fresh(i, 0) EXCEPT !.pc = "idle"]
    BY <1>2
  <2>2. [Fresh(i, 0) EXCEPT !.pc = "idle"] \in Submission
    BY FreshTypes
  <2>3. [Fresh(i, 0) EXCEPT !.pc = "idle"].pc = "idle"
    BY DEF Fresh
  <2> QED
    BY <2>1, <2>2, <2>3
<1>4. DOMAIN call = Callers /\ call \in [Callers -> Submission]
  BY <1>3 DEF SubmissionInit
<1>5. \A c \in Callers : CallOK(call[c])
  BY <1>3 DEF CallOK, Unsent, PastGates
<1>6. ASSUME NEW i \in Intents
      PROVE  IntentInv(i)
  <2>1. Unplaced(i) = {}
    BY <1>3 DEF Unplaced
  <2>2. Cardinality(Unplaced(i)) = 0 /\ Cardinality(Callers) \in Nat
    BY <2>1, FS_EmptySet, CallersAssumption, FS_CardinalityType
  <2> QED
    BY <2>2 DEF SubmissionInit, NoOrders, IntentInv, Coming
<1> QED
  BY <1>1, <1>4, <1>5, <1>6 DEF OrderInv

LEMMA OrderStep == OrderInv /\ [SubmissionNext]_submissionVars => OrderInv'
<1> SUFFICES ASSUME OrderInv, [SubmissionNext]_submissionVars
             PROVE  OrderInv'
  OBVIOUS
<1>1. CASE \E c \in Callers, i \in Intents :
             \/ Submit(c, i) \/ CancelOrder(c, i)
             \/ FakeSubmit(c, i) \/ FakeSubmitUnknown(c, i) \/ FakeCancel(c, i)
  BY <1>1, RequestKeeps, FakeKeeps
<1>2. CASE \E c \in Callers : Step(c)
  BY <1>2, LocalSteps, AcceptKeeps, GiveUpKeeps, CancelKeeps, CancelFailsKeeps DEF Step
<1>3. CASE \E i \in Intents : ArriveLate(i) \/ CancelLate(i)
  BY <1>3, ArriveLateKeeps, CancelLateKeeps
<1>4. CASE UNCHANGED submissionVars
  <2>1. UNCHANGED <<config, unknown, exchange, ghosts, call>>
    BY <1>4 DEF submissionVars
  <2>2. \A i : Unplaced(i)' = Unplaced(i)
    BY <2>1 DEF Unplaced, Intent
  <2>3. SharedOK'
    BY <2>1, SharedKept DEF OrderInv
  <2>4. \A i \in Intents : IntentInv(i)'
    BY <2>1, <2>2, IntentKept DEF OrderInv, SharedOK, exchange
  <2> QED
    BY <2>1, <2>3, <2>4 DEF OrderInv, CallOK, config
<1> QED
  BY <1>1, <1>2, <1>3, <1>4 DEF SubmissionNext

\* SubmissionTypeOK is an invariant: whatever the network does, a submission sends at most one POST
\* and retries a GET at most MaxRetries times (_request).
THEOREM SubmissionTypes == SubmissionSpec => []SubmissionTypeOK
<1>1. OrderInv => SubmissionTypeOK
  BY DEF OrderInv, SharedOK, CountsOK, Counts, SubmissionTypeOK
<1> QED
  BY <1>1, OrderInit, OrderStep, PTL DEF SubmissionSpec

\* DuplicatesAccountedFor holds for any number of callers, intents and calls: lookup before
\* a POST bounds the duplicates by the callers and the POSTs that outlived them
\* (submit_idempotent).
THEOREM DuplicatesAreAccountedFor == SubmissionSpec => []DuplicatesAccountedFor
<1>1. OrderInv => DuplicatesAccountedFor
  <2> SUFFICES ASSUME OrderInv, NEW i \in Intents
               PROVE  placed[i] <= IF client = "FAKE" THEN 1 ELSE Cardinality(Callers) + orphaned[i]
    BY DEF DuplicatesAccountedFor
  <2> QED
    BY IntentFacts DEF IntentInv, Coming
<1> QED
  BY <1>1, OrderInit, OrderStep, PTL DEF SubmissionSpec

\* CancelHolds holds for any number of callers, intents and calls: once the exchange has
\* cancelled an intent, only what was under way at the time can trade for it
\* (cancel_order, get_order_by_client_id).
THEOREM CancelIsFinal == SubmissionSpec => []CancelHolds
<1>1. OrderInv => CancelHolds
  <2> SUFFICES ASSUME OrderInv, NEW i \in Intents, cancelled[i] > 0
               PROVE  placed[i] - cancelled[i] <= exposed[i]
    BY DEF CancelHolds
  <2> QED
    BY IntentFacts DEF IntentInv, Coming
<1> QED
  BY <1>1, OrderInit, OrderStep, PTL DEF SubmissionSpec

\* ClosedGatesPlaceNothing holds for any number of callers, intents and calls: no order
\* reaches BingX past a closed gate (require_all).
THEOREM ClosedGatesHold == SubmissionSpec => []ClosedGatesPlaceNothing
<1>1. OrderInv => ClosedGatesPlaceNothing
  <2> SUFFICES ASSUME OrderInv, client = "BINGX", gates # Gates, NEW i \in Intents
               PROVE  placed[i] = 0 /\ late[i] = 0
    BY DEF ClosedGatesPlaceNothing
  <2> QED
    BY IntentFacts DEF IntentInv
<1> QED
  BY <1>1, OrderInit, OrderStep, PTL DEF SubmissionSpec

-----------------------------------------------------------------------------
(* How long a request can take.                                            *)

\* The network calls and checks that a request has still to make, this one included.
Stages ==
  [pc \in Labels |->
     CASE pc = "lookup" -> 9 [] pc = "gates" -> 8 [] pc = "rules" -> 7 [] pc = "price" -> 6
       [] pc = "validate" -> 5 [] pc = "post" -> 4 [] pc = "await" -> 3 [] pc = "reply" -> 2
       [] pc = "delete" -> 2 [] pc = "confirm" -> 1 [] OTHER -> 0]

\* Each of them is tried at most MaxRetries times again.
Longest(stages) == stages * (MaxRetries + 1)
StepsLeft(c) == IF At(c, "idle") THEN 0 ELSE Longest(Stages[call[c].pc]) - call[c].attempt

LEMMA StagesAre ==
  /\ Stages["lookup"] = 9 /\ Stages["gates"] = 8 /\ Stages["rules"] = 7 /\ Stages["price"] = 6
  /\ Stages["validate"] = 5 /\ Stages["post"] = 4 /\ Stages["await"] = 3 /\ Stages["reply"] = 2
  /\ Stages["delete"] = 2 /\ Stages["confirm"] = 1
  /\ \A pc \in Labels \ {"idle"} : Stages[pc] \in 1..9
BY DEF Stages, Labels

LEMMA LongestGrows ==
  \A m, n \in 0..9 : /\ Longest(m) \in 0..Longest(9)
                     /\ m > 0 => Longest(m) - MaxRetries > 0
                     /\ m < n => Longest(m) < Longest(n) - MaxRetries
<1>1. MaxRetries \in Nat
  BY BoundsAssumption
<1>2. ASSUME NEW m \in 0..9, NEW n \in 0..9
      PROVE  /\ m * (MaxRetries + 1) \in 0..(9 * (MaxRetries + 1))
             /\ m > 0 => m * (MaxRetries + 1) - MaxRetries > 0
             /\ m < n => m * (MaxRetries + 1) < n * (MaxRetries + 1) - MaxRetries
  BY <1>1
<1> QED
  BY <1>2 DEF Longest

LEMMA StepsLeftIs ==
  ASSUME OrderInv, NEW c \in Callers
  PROVE  /\ StepsLeft(c) \in 0..Longest(9)
         /\ ~At(c, "idle") => StepsLeft(c) > 0
         /\ call[c].attempt \in 0..MaxRetries
<1>1. call[c].pc \in Labels /\ call[c].attempt \in 0..MaxRetries
  BY DEF OrderInv, Submission
<1>2. CASE At(c, "idle")
  BY <1>1, <1>2, LongestGrows DEF StepsLeft
<1>3. CASE ~At(c, "idle")
  <2> DEFINE stages == Stages[call[c].pc]
             all == Longest(stages)
             most == Longest(9)
             attempt == call[c].attempt
  <2>1. stages \in 0..9 /\ stages > 0
    BY <1>1, <1>3, StagesAre DEF At
  <2>2. all \in 0..most /\ all - MaxRetries > 0 /\ most \in 0..most
    BY <2>1, LongestGrows
  <2>3. StepsLeft(c) = all - attempt
    BY <1>3 DEF StepsLeft
  <2>4. attempt \in 0..MaxRetries /\ MaxRetries \in Nat
    BY <1>1, BoundsAssumption
  <2> HIDE DEF all, most, attempt, stages
  <2>5. all - attempt \in 0..most /\ all - attempt > 0
    BY <2>2, <2>4
  <2> QED
    BY <1>1, <2>3, <2>5 DEF most
<1> QED
  BY <1>2, <1>3

\* A request that goes on to a later stage, that ends, or that tries again, has less left.
LEMMA Later ==
  ASSUME OrderInv, NEW c \in Callers, ~At(c, "idle"), NEW label \in Labels, NEW l,
         Become(c, l), l.pc = label, l.attempt = 0,
         label = "idle" \/ Stages[label] < Stages[call[c].pc]
  PROVE  StepsLeft(c)' < StepsLeft(c)
<1>1. call'[c] = l
  BY DEF OrderInv, Become
<1>2. CASE label = "idle"
  <2>1. StepsLeft(c)' = 0
    BY <1>1, <1>2 DEF StepsLeft, At
  <2>2. StepsLeft(c) \in Nat /\ StepsLeft(c) > 0
    BY StepsLeftIs, LongestGrows
  <2> QED
    BY <2>1, <2>2
<1>3. CASE label # "idle"
  <2> DEFINE m == Stages[label]
             n == Stages[call[c].pc]
             next == Longest(m)
             all == Longest(n)
             attempt == call[c].attempt
  <2>1. call[c].pc \in Labels
    BY DEF OrderInv, Submission
  <2>2. m \in 0..9 /\ n \in 0..9 /\ m < n
    BY <1>3, <2>1, StagesAre DEF At
  <2>3. next < all - MaxRetries /\ next \in Int /\ all \in Int
    BY <2>2, LongestGrows
  <2>4. StepsLeft(c)' = next - 0 /\ StepsLeft(c) = all - attempt
    BY <1>1, <1>3 DEF StepsLeft, At
  <2>5. attempt \in 0..MaxRetries /\ MaxRetries \in Nat
    BY StepsLeftIs, BoundsAssumption
  <2> HIDE DEF m, n, next, all, attempt
  <2>6. next - 0 < all - attempt
    BY <2>3, <2>5
  <2> QED
    BY <2>4, <2>6
<1> QED
  BY <1>2, <1>3

LEMMA LaterGoto ==
  ASSUME OrderInv, NEW c \in Callers, ~At(c, "idle"), NEW label \in Labels, Goto(c, label),
         Stages[label] < Stages[call[c].pc]
  PROVE  StepsLeft(c)' < StepsLeft(c)
<1> DEFINE l == [call[c] EXCEPT !.pc = label, !.attempt = 0]
<1>1. l.pc = label /\ l.attempt = 0 /\ Become(c, l)
  BY DEF OrderInv, Submission, Goto
<1> HIDE DEF l
<1> QED
  BY <1>1, Later

LEMMA LaterReturn ==
  ASSUME OrderInv, NEW c \in Callers, ~At(c, "idle"), NEW result, NEW settled,
         Return(c, result, settled)
  PROVE  StepsLeft(c)' < StepsLeft(c)
<1> DEFINE l == [call[c] EXCEPT !.pc = "idle", !.attempt = 0, !.result = result,
                                !.settled = settled]
<1>1. l.pc = "idle" /\ l.attempt = 0 /\ Become(c, l) /\ "idle" \in Labels
  BY DEF OrderInv, Submission, Return, Labels
<1> HIDE DEF l
<1> QED
  BY <1>1, Later

LEMMA LaterGet ==
  ASSUME OrderInv, NEW c \in Callers, ~At(c, "idle"), GetFails(c)
  PROVE  StepsLeft(c)' < StepsLeft(c)
<1>1. CASE Return(c, "error", TRUE)
  BY <1>1, LaterReturn
<1>2. CASE Become(c, [call[c] EXCEPT !.attempt = @ + 1])
  <2>1. call'[c].pc = call[c].pc /\ call'[c].attempt = call[c].attempt + 1
    BY <1>2 DEF OrderInv, Submission, Become
  <2>2. StepsLeft(c)' = Longest(Stages[call[c].pc]) - (call[c].attempt + 1)
    BY <2>1 DEF StepsLeft, At
  <2>3. StepsLeft(c) = Longest(Stages[call[c].pc]) - call[c].attempt
    BY DEF StepsLeft
  <2>4. Longest(Stages[call[c].pc]) \in Int /\ call[c].attempt \in Int
    <3>1. Stages[call[c].pc] \in 0..9
      BY StagesAre DEF OrderInv, Submission, At
    <3>2. Longest(Stages[call[c].pc]) \in 0..Longest(9)
      BY <3>1, LongestGrows
    <3> QED
      BY <3>2, StepsLeftIs
  <2> QED
    BY <2>2, <2>3, <2>4
<1> QED
  BY <1>1, <1>2 DEF GetFails, RetryGet

LEMMA StepShortens ==
  ASSUME OrderInv, NEW c \in Callers, Step(c)
  PROVE  StepsLeft(c)' < StepsLeft(c) /\ \A d \in Callers \ {c} : call'[d] = call[d]
<1>1. ~At(c, "idle")
  BY DEF Step, Lookup, RequireGates, LoadRules, ReadPrice, Validate, SendPost, Accept, Refuse,
         GiveUp, ReadReply, Cancel, CancelFails, ReadConfirmation, At
<1>2. GetFails(c) => StepsLeft(c)' < StepsLeft(c)
  BY <1>1, LaterGet
<1>3. ASSUME NEW result, NEW settled, Return(c, result, settled)
      PROVE  StepsLeft(c)' < StepsLeft(c)
  BY <1>1, <1>3, LaterReturn
<1>4. ASSUME NEW label \in Labels, Goto(c, label), Stages[label] < Stages[call[c].pc]
      PROVE  StepsLeft(c)' < StepsLeft(c)
  BY <1>1, <1>4, LaterGoto
<1>5. ASSUME SendPost(c)
      PROVE  StepsLeft(c)' < StepsLeft(c)
  <2> DEFINE l == [call[c] EXCEPT !.pc = "await", !.posts = @ + 1]
  <2>1. call[c].pc = "post" /\ Become(c, l)
    BY <1>5 DEF SendPost, At
  <2>2. call'[c].pc = "await" /\ call'[c].attempt = call[c].attempt
    BY <2>1 DEF OrderInv, Submission, Become
  <2>3. StepsLeft(c)' = Longest(3) - call[c].attempt /\ StepsLeft(c) = Longest(4) - call[c].attempt
    BY <2>1, <2>2, StagesAre DEF StepsLeft, At
  <2>4. Longest(3) < Longest(4) - MaxRetries /\ Longest(3) \in Int /\ Longest(4) \in Int
    BY LongestGrows
  <2>5. MaxRetries \in Nat /\ call[c].attempt \in Int
    BY StepsLeftIs, BoundsAssumption
  <2> QED
    BY <2>3, <2>4, <2>5
<1>6. StepsLeft(c)' < StepsLeft(c)
  <2> USE DEF At
  <2>0. /\ {"gates", "rules", "price", "validate", "post", "reply", "confirm"} \subseteq Labels
        /\ Stages["gates"] < Stages["lookup"] /\ Stages["rules"] < Stages["gates"]
        /\ Stages["price"] < Stages["rules"] /\ Stages["validate"] < Stages["rules"]
        /\ Stages["validate"] < Stages["price"] /\ Stages["post"] < Stages["validate"]
        /\ Stages["reply"] < Stages["await"] /\ Stages["confirm"] < Stages["delete"]
    BY StagesAre DEF Labels
  <2>1. CASE Lookup(c)
    <3>1. CASE Return(c, "order", TRUE)
      BY <1>3, <3>1
    <3>2. CASE Goto(c, "gates")
      BY <1>4, <2>0, <2>1, <3>2 DEF Lookup
    <3> QED
      BY <1>2, <2>1, <3>1, <3>2 DEF Lookup
  <2>2. CASE RequireGates(c)
    <3>1. CASE Return(c, "error", TRUE)
      BY <1>3, <3>1
    <3>2. CASE Goto(c, "rules")
      BY <1>4, <2>0, <2>2, <3>2 DEF RequireGates
    <3> QED
      BY <2>2, <3>1, <3>2 DEF RequireGates
  <2>3. CASE LoadRules(c)
    <3>1. ASSUME NEW next \in {"price", "validate"}, Goto(c, next)
          PROVE  StepsLeft(c)' < StepsLeft(c)
      BY <1>4, <2>0, <2>3, <3>1 DEF LoadRules
    <3> QED
      BY <1>2, <2>3, <3>1 DEF LoadRules
  <2>4. CASE ReadPrice(c)
    <3>1. CASE Goto(c, "validate")
      BY <1>4, <2>0, <2>4, <3>1 DEF ReadPrice
    <3> QED
      BY <1>2, <2>4, <3>1 DEF ReadPrice
  <2>5. CASE Validate(c)
    <3>1. ASSUME NEW result, Return(c, result, TRUE)
          PROVE  StepsLeft(c)' < StepsLeft(c)
      BY <1>3, <3>1
    <3>2. CASE Goto(c, "post")
      BY <1>4, <2>0, <2>5, <3>2 DEF Validate
    <3> QED
      BY <2>5, <3>1, <3>2 DEF Validate
  <2>6. CASE Accept(c)
    BY <1>4, <2>0, <2>6 DEF Accept
  <2>7. CASE Cancel(c)
    BY <1>4, <2>0, <2>7 DEF Cancel
  <2>8. CASE Refuse(c) \/ GiveUp(c) \/ ReadReply(c) \/ CancelFails(c) \/ ReadConfirmation(c)
    BY <1>3, <2>8 DEF Refuse, GiveUp, ReadReply, CancelFails, ReadConfirmation
  <2> QED
    BY <1>5, <2>1, <2>2, <2>3, <2>4, <2>5, <2>6, <2>7, <2>8 DEF Step
<1>7. \E l : Become(c, l)
  BY DEF Step, Lookup, RequireGates, LoadRules, ReadPrice, Validate, SendPost, Accept, Refuse,
         GiveUp, ReadReply, Cancel, CancelFails, ReadConfirmation, GetFails, RetryGet, Goto, Return
<1> QED
  BY <1>6, <1>7 DEF Become

\* What is left of each request is bounded by a number that depends on the retries only, every
\* step of its caller lowers it, and nothing that anyone else does changes it: a request takes
\* at most Longest(9) steps, whatever the network does (submit_idempotent, cancel_order,
\* _request).
THEOREM SubmissionsAreShort ==
  SubmissionSpec =>
    /\ [](\A c \in Callers : StepsLeft(c) \in 0..Longest(9))
    /\ [][\A c \in Callers :
            ~At(c, "idle") => IF Step(c) THEN StepsLeft(c)' < StepsLeft(c)
                                         ELSE StepsLeft(c)' = StepsLeft(c)]_submissionVars
<1>1. OrderInv => \A c \in Callers : StepsLeft(c) \in 0..Longest(9)
  BY StepsLeftIs
<1>2. OrderInv /\ [SubmissionNext]_submissionVars =>
        [\A c \in Callers :
           ~At(c, "idle") => IF Step(c) THEN StepsLeft(c)' < StepsLeft(c)
                                        ELSE StepsLeft(c)' = StepsLeft(c)]_submissionVars
  <2> SUFFICES ASSUME OrderInv, SubmissionNext, NEW c \in Callers, ~At(c, "idle")
               PROVE  IF Step(c) THEN StepsLeft(c)' < StepsLeft(c)
                                 ELSE StepsLeft(c)' = StepsLeft(c)
    OBVIOUS
  <2>1. CASE Step(c)
    BY <2>1, StepShortens
  <2>2. CASE ~Step(c)
    <3>1. call'[c] = call[c]
      <4>1. ASSUME NEW d \in Callers, Step(d)
            PROVE  call'[c] = call[c]
        BY <2>2, <4>1, StepShortens
      <4>2. ASSUME NEW d \in Callers, NEW i \in Intents,
                   \/ Submit(d, i) \/ CancelOrder(d, i)
                   \/ FakeSubmit(d, i) \/ FakeSubmitUnknown(d, i) \/ FakeCancel(d, i)
            PROVE  call'[c] = call[c]
        <5>1. At(d, "idle") /\ \E l : Become(d, l)
          BY <4>2 DEF Submit, CancelOrder, FakeSubmit, FakeSubmitOrder, FakeSubmitUnknown,
                      FakeCancel, FakeAnswer
        <5> QED
          BY <5>1 DEF Become, OrderInv
      <4>3. ASSUME NEW i \in Intents, ArriveLate(i) \/ CancelLate(i)
            PROVE  call'[c] = call[c]
        BY <4>3 DEF ArriveLate, CancelLate
      <4> QED
        BY <4>1, <4>2, <4>3 DEF SubmissionNext
    <3> QED
      BY <2>2, <3>1 DEF StepsLeft, At
  <2> QED
    BY <2>1, <2>2
<1> QED
  BY <1>1, <1>2, OrderInit, OrderStep, PTL DEF SubmissionSpec

=============================================================================
