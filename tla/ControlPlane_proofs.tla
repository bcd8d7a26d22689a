-------------------------- MODULE ControlPlane_proofs --------------------------
(***************************************************************************)
(* Theorems about the control plane, for any number of threads, users,     *)
(* requests and audit records: the types, the audit log and its chain, the *)
(* requests handled one at a time, and the lockout.                        *)
(*                                                                         *)
(* Every step of a thread is one of five kinds for the log (Took): the     *)
(* request has nothing to record yet, it comes to have, it writes the      *)
(* record, it reads the chain, it appends to the chain.  What is proved    *)
(* about the log rests on that and on no other detail of the handlers.     *)
(***************************************************************************)
EXTENDS ControlPlane, FunctionTheorems, FiniteSetTheorems, WellFoundedInduction, TLAPS

-----------------------------------------------------------------------------
(* Types.                                                                  *)

Appending == {"tail", "length", "append"}
Logging == Appending \cup {"record"}

\* What a request holds at the steps that need it.
CallOK(r) ==
  /\ r \in Requests
  /\ r.pc = "verify" => r.user > 0
  /\ r.pc = "record" => r.action # "none"
  /\ r.pc \in Appending => r.record > 0
  /\ r.pc = "append" => r.sequence > 0

TypesInv == ControlTypeOK /\ \A t \in Threads : CallOK(req[t])

StoreOK ==
  /\ users \in Seq(Users) /\ Len(users) \in 4..MaxUsers
  /\ sessions \in Seq(IssuedSessions)
  /\ drafts \in Seq(Drafts)
  /\ guesses \in [1..MaxUsers -> Nat]

SameLengths ==
  Len(users') = Len(users) /\ Len(sessions') = Len(sessions) /\ Len(drafts') = Len(drafts)

\* What a request that is about to record an action has changed.
Recorded(action) ==
  /\ Len(users') = IF action = "USER_CREATED" THEN Len(users) + 1 ELSE Len(users)
  /\ Len(sessions') = IF action = "LOGIN_SUCCEEDED" THEN Len(sessions) + 1 ELSE Len(sessions)
  /\ Len(drafts') = IF action = "AI_STRATEGY_GENERATED" THEN Len(drafts) + 1 ELSE Len(drafts)

\* What the next entry has to commit to.
Tip == IF auditChain = <<>> THEN <<>> ELSE Hash(auditChain[Len(auditChain)])

\* The kinds of steps of t, whose request becomes h.
Works(t, h) ==
  /\ req[t].pc \notin Logging /\ h.pc \notin Logging
  /\ UNCHANGED log /\ SameLengths
Decides(t, h) ==
  /\ req[t].pc \notin Logging /\ h.pc = "record"
  /\ UNCHANGED log /\ Recorded(h.action)
Records(t, h) ==
  /\ req[t].pc = "record" /\ h.pc = "tail"
  /\ h.record = Len(records) + 1 /\ records' = Append(records, req[t].action)
  /\ UNCHANGED auditChain /\ SameLengths
ReadsChain(t, h) ==
  /\ h.record = req[t].record
  /\ \/ req[t].pc = "tail" /\ h.pc = "length" /\ h.previous = Tip
     \/ /\ req[t].pc = "length" /\ h.pc = "append"
        /\ h.previous = req[t].previous /\ h.sequence = Len(auditChain) + 1
  /\ UNCHANGED log /\ SameLengths
Appends(t, h) ==
  /\ req[t].pc = "append" /\ h.pc = "idle"
  /\ auditChain' = Append(auditChain, Entry(t))
  /\ UNCHANGED records /\ SameLengths

\* Requests begin while a worker is free, and know when they last read the clock.
Paced(t, h) ==
  /\ req[t].pc = "idle" => Cardinality(Busy) < workers
  /\ h.pc # "idle" => h.since = now \/ (req[t].pc # "idle" /\ h.since = req[t].since)

\* What a request relies on when it compares a password or inserts a user.
Checked(h) ==
  /\ h.pc = "verify" => h.user \in DOMAIN users /\ ~Locked(h.user)
  /\ h.pc = "insert" => WithEmail(h.email) = {}

Changes(t, h) ==
  \/ UNCHANGED <<users, guesses>> /\ Checked(h)
  \/ h.pc = "record" /\ (WrongPassword(t) \/ RightPassword(t) \/ InsertUser(t))

Took(t, h) ==
  /\ req' = [req EXCEPT ![t] = h] /\ CallOK(h) /\ Paced(t, h) /\ Changes(t, h)
  /\ StoreOK' /\ UNCHANGED <<workers, now>>
  /\ \/ Works(t, h) \/ Decides(t, h) \/ Records(t, h) \/ ReadsChain(t, h) \/ Appends(t, h)

LEMMA Bounds ==
  MaxUsers \in Nat /\ MaxUsers >= 4 /\ MaxFailures \in Nat \ {0} /\ LockTime \in Nat \ {0}
BY ControlBoundsAssumption, TimesAssumption

LEMMA Item ==
  ASSUME NEW S, NEW q \in Seq(S), NEW i \in DOMAIN q
  PROVE  i \in 1..Len(q) /\ q[i] \in S
OBVIOUS

LEMMA Replaced ==
  ASSUME NEW S, NEW q \in Seq(S), NEW i, NEW x, i \in DOMAIN q => x \in S
  PROVE  [q EXCEPT ![i] = x] \in Seq(S) /\ Len([q EXCEPT ![i] = x]) = Len(q)
<1> DEFINE r == [q EXCEPT ![i] = x]
<1>1. q \in [1..Len(q) -> S] /\ Len(q) \in Nat
  OBVIOUS
<1>2. r \in [1..Len(q) -> S]
  BY <1>1
<1> HIDE DEF r
<1>3. r \in Seq(S) /\ Len(r) = Len(q)
  BY <1>1, <1>2
<1> QED
  BY <1>3 DEF r

LEMMA IdleOK ==
  /\ Idle \in Requests /\ CallOK(Idle)
  /\ Idle.pc = "idle" /\ Idle.user = 0 /\ Idle.action = "none" /\ Idle.record = 0
<1>1. Idle \in Requests
  BY ControlBoundsAssumption DEF Idle, Requests, Labels, Emails, Roles
<1> QED
  BY <1>1 DEF Idle, CallOK, Appending

LEMMA Least ==
  ASSUME NEW U, U \subseteq Nat, U # {}
  PROVE  \E u \in U : \A v \in U : u <= v
<1> DEFINE R == OpToRel(<, Nat)
<1>1. IsWellFoundedOn(R, Nat)
  BY NatLessThanWellFounded
<1>2. \A x, y \in Nat : x < y => <<x, y>> \in R
  BY DEF OpToRel
<1> HIDE DEF R
<1>3. PICK x \in U : \A y \in U : ~ (<<y, x>> \in R)
  BY <1>1, WFMin
<1>4. \A y \in U : ~ (y < x)
  BY <1>2, <1>3
<1>5. \A y \in U : x <= y
  BY <1>4
<1> QED
  BY <1>5

LEMMA FirstMatch ==
  ASSUME ControlTypeOK, NEW email, WithEmail(email) # {}
  PROVE  First(WithEmail(email)) \in DOMAIN users
<1>1. WithEmail(email) \subseteq DOMAIN users /\ DOMAIN users \subseteq Nat
  BY DEF WithEmail, ControlTypeOK
<1>2. \E u \in WithEmail(email) : \A v \in WithEmail(email) : u <= v
  BY <1>1, Least
<1> QED
  BY <1>1, <1>2 DEF First

LEMMA CallFacts ==
  ASSUME TypesInv, NEW t \in Threads
  PROVE  /\ req[t] \in Requests /\ CallOK(req[t])
         /\ now \in Nat /\ StoreOK /\ DOMAIN users = 1..Len(users) /\ Len(users) \in Nat
         /\ req \in [Threads -> Requests]
BY DEF TypesInv, ControlTypeOK, StoreOK

\* A request comes to have an action to record.
LEMMA AuditCall ==
  ASSUME TypesInv, NEW t \in Threads, NEW action \in Actions, Audit(t, action), req[t].pc # "idle"
  PROVE  \E h : /\ req' = [req EXCEPT ![t] = h] /\ CallOK(h) /\ Paced(t, h)
                /\ h.pc = "record" /\ h.action = action
<1> DEFINE h == [Idle EXCEPT !.pc = "record", !.action = action, !.since = req[t].since]
<1>1. req' = [req EXCEPT ![t] = h]
  BY DEF Audit, Continue
<1>2. req[t].since \in Nat
  BY CallFacts DEF Requests
<1>3. h \in Requests /\ h.pc = "record" /\ h.action = action /\ h.since = req[t].since
  BY <1>2, IdleOK DEF Requests, Labels
<1> HIDE DEF h
<1>4. CallOK(h) /\ Paced(t, h)
  BY <1>3 DEF CallOK, Appending, Actions, Paced
<1> QED
  BY <1>1, <1>3, <1>4

\* A request that changes nothing but itself, and has recorded nothing.
LEMMA WorkCall ==
  ASSUME TypesInv, NEW t \in Threads, NEW h, Continue(t, h), CallOK(h), Paced(t, h),
         Checked(h), req[t].pc \notin Logging, h.pc \notin Logging,
         UNCHANGED <<workers, now, store, log, guesses>>
  PROVE  Took(t, h)
BY CallFacts DEF Took, Works, SameLengths, Continue, StoreOK, store, log, Changes

LEMMA EndCall ==
  ASSUME TypesInv, NEW t \in Threads, Finish(t), req[t].pc \notin Logging, req[t].pc # "idle",
         UNCHANGED <<workers, now, store, log, guesses>>
  PROVE  \E h : Took(t, h)
<1>1. /\ Continue(t, Idle) /\ Idle.pc \notin Logging
      /\ CallOK(Idle) /\ Paced(t, Idle) /\ Checked(Idle)
  BY IdleOK DEF Finish, Logging, Appending, Paced, Checked
<1> QED
  BY <1>1, WorkCall

LEMMA DeniedCall ==
  ASSUME TypesInv, NEW t \in Threads, NEW action \in Actions, Audit(t, action),
         action \notin {"USER_CREATED", "LOGIN_SUCCEEDED", "AI_STRATEGY_GENERATED"},
         req[t].pc \notin Logging, req[t].pc # "idle",
         UNCHANGED <<workers, now, store, log, guesses>>
  PROVE  \E h : Took(t, h)
<1>1. PICK h : /\ req' = [req EXCEPT ![t] = h] /\ CallOK(h) /\ Paced(t, h)
               /\ h.pc = "record" /\ h.action = action
  BY AuditCall
<1>2. Decides(t, h)
  BY <1>1 DEF Decides, Recorded, store
<1>3. StoreOK' /\ Changes(t, h)
  BY <1>1, CallFacts DEF StoreOK, store, Changes, Checked
<1> QED
  BY <1>1, <1>2, <1>3 DEF Took

\* A request arrives.
LEMMA ArriveCall ==
  ASSUME TypesInv, NEW t \in Threads, Arrive(t)
  PROVE  \E h : Took(t, h)
<1>1. now \in Nat /\ Len(users) \in Nat /\ StoreOK
  BY CallFacts
<1>2. ASSUME NEW h \in Requests, Accept(t, h), h.since = now,
             h.pc \in {"find", "create", "draft", "approve", "read"}
      PROVE  Took(t, h)
  <2>1. CallOK(h) /\ h.pc \notin Logging /\ Paced(t, h) /\ Checked(h)
    BY <1>2 DEF CallOK, Logging, Appending, Paced, Accept, Checked
  <2>2. /\ Continue(t, h) /\ req[t].pc \notin Logging
        /\ UNCHANGED <<workers, now, store, log, guesses>>
    BY <1>2 DEF Accept, Doing, Logging, Appending
  <2> QED
    BY <2>1, <2>2, WorkCall
<1>3. ASSUME NEW h \in Requests, Accept(t, h), h.since = now, h.pc = "record",
             h.action \in {"LOGOUT", "TRADING_CONTROL"}
      PROVE  Took(t, h)
  <2>1. CallOK(h) /\ Paced(t, h)
    BY <1>3 DEF CallOK, Appending, Paced, Accept
  <2>2. /\ req' = [req EXCEPT ![t] = h] /\ req[t].pc \notin Logging
        /\ UNCHANGED <<workers, now, store, log, guesses>>
    BY <1>3 DEF Accept, Doing, Logging, Appending, Continue
  <2>3. Decides(t, h) /\ StoreOK' /\ Changes(t, h)
    BY <1>1, <1>3, <2>2 DEF Decides, Recorded, StoreOK, store, Changes, Checked
  <2> QED
    BY <2>1, <2>2, <2>3 DEF Took
<1>4. ASSUME NEW email \in Logins, NEW right \in BOOLEAN, Login(t, email, right)
      PROVE  \E h : Took(t, h)
  <2> DEFINE h == [Idle EXCEPT !.pc = "find", !.email = email, !.right = right,
                               !.since = now, !.size = Len(users)]
  <2>1. h \in Requests /\ h.pc = "find" /\ h.since = now
    BY <1>1, IdleOK, LoginsAssumption DEF Requests, Labels
  <2>2. Accept(t, h)
    BY <1>4 DEF Login
  <2> HIDE DEF h
  <2> QED
    BY <1>2, <2>1, <2>2
<1>5. ASSUME TradingControl(t)
      PROVE  \E h : Took(t, h)
  <2> DEFINE h == [Idle EXCEPT !.pc = "record", !.action = "TRADING_CONTROL", !.since = now]
  <2>1. h \in Requests /\ h.pc = "record" /\ h.action = "TRADING_CONTROL" /\ h.since = now
    BY <1>1, IdleOK DEF Requests, Labels, Actions
  <2>2. Accept(t, h)
    BY <1>5 DEF TradingControl
  <2> HIDE DEF h
  <2> QED
    BY <1>3, <2>1, <2>2
<1>6. ASSUME NEW s, NEW r \in Requests, Authorized(t, s, r),
             \/ r.pc \in {"create", "draft", "approve", "read"}
             \/ r.pc = "record" /\ r.action = "LOGOUT"
      PROVE  \E h : Took(t, h)
  <2> DEFINE h == [r EXCEPT !.user = sessions[s].user, !.since = now]
  <2>1. sessions[s].user \in 0..MaxUsers
    <3>1. s \in DOMAIN sessions /\ sessions \in Seq(IssuedSessions)
      BY <1>1, <1>6 DEF Authorized, StoreOK
    <3>2. sessions[s] \in IssuedSessions
      BY <3>1, Item
    <3> QED
      BY <3>2, Bounds DEF IssuedSessions
  <2>2. h \in Requests /\ h.pc = r.pc /\ h.action = r.action /\ h.since = now
    BY <1>1, <1>6, <2>1 DEF Requests
  <2>3. Accept(t, h)
    BY <1>6 DEF Authorized
  <2> HIDE DEF h
  <2> QED
    BY <1>2, <1>3, <1>6, <2>2, <2>3
<1>7. ASSUME NEW s, NEW email \in NewEmails, NEW role \in Roles, CreateUser(t, s, email, role)
      PROVE  \E h : Took(t, h)
  <2> DEFINE r == [Idle EXCEPT !.pc = "create", !.email = email, !.role = role]
  <2>1. r \in Requests /\ r.pc = "create"
    BY IdleOK DEF Requests, Labels, Emails
  <2>2. Authorized(t, s, r)
    BY <1>7 DEF CreateUser
  <2> HIDE DEF r
  <2> QED
    BY <1>6, <2>1, <2>2
<1>8. ASSUME NEW s, NEW risky \in BOOLEAN, RequestDraft(t, s, risky)
      PROVE  \E h : Took(t, h)
  <2> DEFINE r == [Idle EXCEPT !.pc = "draft", !.risky = risky]
  <2>1. r \in Requests /\ r.pc = "draft"
    BY IdleOK DEF Requests, Labels
  <2>2. Authorized(t, s, r)
    BY <1>8 DEF RequestDraft
  <2> HIDE DEF r
  <2> QED
    BY <1>6, <2>1, <2>2
<1>9. ASSUME NEW s, ApproveDraft(t, s) \/ Inspect(t, s)
      PROVE  \E h : Took(t, h)
  <2>1. ASSUME NEW label \in {"approve", "read"}, Authorized(t, s, [Idle EXCEPT !.pc = label])
        PROVE  \E h : Took(t, h)
    <3> DEFINE r == [Idle EXCEPT !.pc = label]
    <3>1. r \in Requests /\ r.pc = label
      BY IdleOK DEF Requests, Labels
    <3>2. Authorized(t, s, r)
      BY <2>1
    <3> HIDE DEF r
    <3> QED
      BY <1>6, <3>1, <3>2
  <2> QED
    BY <1>9, <2>1 DEF ApproveDraft, Inspect
<1>10. ASSUME NEW s, Logout(t, s)
       PROVE  \E h : Took(t, h)
  <2> DEFINE r == [Idle EXCEPT !.pc = "record", !.action = "LOGOUT"]
  <2>1. r \in Requests /\ r.pc = "record" /\ r.action = "LOGOUT"
    BY IdleOK DEF Requests, Labels, Actions
  <2>2. Authorized(t, s, r)
    BY <1>10 DEF Logout
  <2> HIDE DEF r
  <2> QED
    BY <1>6, <2>1, <2>2
<1> QED
  BY <1>4, <1>5, <1>7, <1>8, <1>9, <1>10 DEF Arrive

LEMMA FindCall ==
  ASSUME TypesInv, NEW t \in Threads, FindUser(t)
  PROVE  \E h : Took(t, h)
<1>1. /\ req[t].pc \notin Logging /\ req[t].pc # "idle"
      /\ UNCHANGED <<workers, now, store, log, guesses>>
      /\ now \in Nat /\ req[t] \in Requests
  BY CallFacts DEF FindUser, Doing, Logging, Appending
<1>2. CASE Finish(t)
  BY <1>1, <1>2, EndCall
<1>3. CASE Audit(t, "LOGIN_FAILED")
  BY <1>1, <1>3, DeniedCall DEF Actions
<1>4. CASE /\ Found(t) /\ ~Locked(First(WithEmail(req[t].email)))
           /\ Continue(t, [Idle EXCEPT !.pc = "verify", !.user = First(WithEmail(req[t].email)),
                                       !.since = now, !.right = req[t].right])
  <2> DEFINE u == First(WithEmail(req[t].email))
             h == [Idle EXCEPT !.pc = "verify", !.user = u, !.since = now, !.right = req[t].right]
  <2>1. u \in 1..MaxUsers /\ u > 0 /\ u \in DOMAIN users /\ ~Locked(u)
    <3>1. u \in DOMAIN users /\ users \in Seq(Users) /\ Len(users) \in 4..MaxUsers
      BY <1>4, FirstMatch DEF Found, TypesInv, ControlTypeOK
    <3>2. u \in 1..Len(users)
      BY <3>1, Item
    <3> QED
      BY <1>4, <3>1, <3>2, Bounds
  <2> HIDE DEF u
  <2>2. h \in Requests /\ h.pc = "verify" /\ h.user = u /\ h.since = now
    <3>1. u \in 0..MaxUsers /\ now \in Nat /\ req[t].right \in BOOLEAN
      BY <1>1, <2>1, Bounds DEF Requests
    <3> QED
      BY <3>1, IdleOK DEF Requests, Labels
  <2>3. Continue(t, h)
    BY <1>4 DEF u
  <2> HIDE DEF h
  <2>4. CallOK(h) /\ h.pc \notin Logging /\ Paced(t, h) /\ Checked(h)
    BY <1>1, <2>1, <2>2 DEF CallOK, Appending, Logging, Paced, Checked
  <2> QED
    BY <1>1, <2>3, <2>4, WorkCall
<1> QED
  BY <1>2, <1>3, <1>4 DEF FindUser

LEMMA PasswordCall ==
  ASSUME TypesInv, NEW t \in Threads, WrongPassword(t) \/ RightPassword(t)
  PROVE  \E h : Took(t, h)
<1> DEFINE u == req[t].user
<1>1. req[t].pc = "verify" /\ req[t].pc \notin Logging /\ u \in 1..MaxUsers /\ req[t].since \in Nat
  BY CallFacts, ControlBoundsAssumption
  DEF WrongPassword, RightPassword, Doing, CallOK, Requests, Logging, Appending
<1>2. StoreOK /\ SessionTime \in Nat /\ LockTime \in Nat
  BY CallFacts, TimesAssumption
<1>3. CASE WrongPassword(t)
  <2>1. PICK h : /\ req' = [req EXCEPT ![t] = h] /\ CallOK(h) /\ Paced(t, h)
                 /\ h.pc = "record" /\ h.action = "LOGIN_FAILED"
    BY <1>1, <1>3, AuditCall DEF WrongPassword, Actions
  <2>2. \A x \in Users : Failed(x, req[t].since) \in Users
    <3> SUFFICES ASSUME NEW x \in Users
                 PROVE  Failed(x, req[t].since) \in Users
      OBVIOUS
    <3> DEFINE y == [x EXCEPT !.failed_logins = @ + 1]
               n == IF x.failed_logins + 1 >= MaxFailures
                    THEN req[t].since + LockTime ELSE y.locked_until
    <3>1. y \in Users
      BY DEF Users
    <3>2. n \in Nat
      BY <1>1, <1>2, <3>1 DEF Users
    <3>3. Failed(x, req[t].since) = [y EXCEPT !.locked_until = n]
      BY DEF Failed
    <3> HIDE DEF y, n
    <3> QED
      BY <3>1, <3>2, <3>3 DEF Users
  <2>3. users' \in Seq(Users) /\ Len(users') = Len(users)
    <3> DEFINE x == Failed(users[u], req[t].since)
    <3>1. users' = [users EXCEPT ![u] = x] /\ users \in Seq(Users)
      BY <1>2, <1>3 DEF WrongPassword, StoreOK
    <3>2. u \in DOMAIN users => x \in Users
      BY <2>2, <3>1, Item
    <3> HIDE DEF x, u
    <3> QED
      BY <3>1, <3>2, Replaced
  <2>4. guesses' \in [1..MaxUsers -> Nat]
    BY <1>1, <1>2, <1>3 DEF WrongPassword, StoreOK
  <2>5. StoreOK'
    BY <1>2, <1>3, <2>3, <2>4 DEF WrongPassword, StoreOK
  <2>6. Decides(t, h)
    BY <1>1, <1>3, <2>1, <2>3 DEF WrongPassword, Decides, Recorded
  <2> QED
    BY <1>3, <2>1, <2>5, <2>6 DEF WrongPassword, Took, Changes
<1>4. CASE RightPassword(t)
  <2>1. PICK h : /\ req' = [req EXCEPT ![t] = h] /\ CallOK(h) /\ Paced(t, h) /\ h.pc = "record"
                 /\ h.action = "LOGIN_SUCCEEDED"
    BY <1>1, <1>4, AuditCall DEF RightPassword, Actions
  <2>2. users' \in Seq(Users) /\ Len(users') = Len(users)
    <3> DEFINE once == [users EXCEPT ![u].failed_logins = 0]
    <3>1. users' = [once EXCEPT ![u].locked_until = 0] /\ users \in Seq(Users)
      BY <1>2, <1>4 DEF RightPassword, StoreOK
    <3>2. u \in DOMAIN users => [users[u] EXCEPT !.failed_logins = 0] \in Users
      <4>1. \A x \in Users : [x EXCEPT !.failed_logins = 0] \in Users
        BY DEF Users
      <4> HIDE DEF u
      <4> QED
        BY <3>1, <4>1, Item
    <3>3. once \in Seq(Users) /\ Len(once) = Len(users)
      <4> HIDE DEF u
      <4> QED
        BY <3>1, <3>2, Replaced
    <3> HIDE DEF once
    <3>4. u \in DOMAIN once => [once[u] EXCEPT !.locked_until = 0] \in Users
      <4>1. \A x \in Users : [x EXCEPT !.locked_until = 0] \in Users
        BY DEF Users
      <4> HIDE DEF u
      <4> QED
        BY <3>3, <4>1, Item
    <3> HIDE DEF u
    <3> QED
      BY <3>1, <3>3, <3>4, Replaced
  <2>3. /\ sessions' \in Seq(IssuedSessions) /\ Len(sessions') = Len(sessions) + 1
    <3>1. [user |-> u, expires |-> req[t].since + SessionTime] \in IssuedSessions
      BY <1>1, <1>2 DEF IssuedSessions
    <3> QED
      BY <1>2, <1>4, <3>1 DEF RightPassword, StoreOK
  <2>4. guesses' \in [1..MaxUsers -> Nat]
    BY <1>2, <1>4 DEF RightPassword, StoreOK
  <2>5. StoreOK'
    BY <1>2, <1>4, <2>2, <2>3, <2>4 DEF RightPassword, StoreOK
  <2>6. Decides(t, h)
    BY <1>1, <1>4, <2>1, <2>2, <2>3 DEF RightPassword, Decides, Recorded
  <2> QED
    BY <1>4, <2>1, <2>5, <2>6 DEF RightPassword, Took, Changes
<1> QED
  BY <1>3, <1>4

LEMMA CreateCall ==
  ASSUME TypesInv, NEW t \in Threads, CheckCreate(t) \/ ScanEmails(t)
  PROVE  \E h : Took(t, h)
<1>1. /\ req[t].pc \notin Logging /\ req[t].pc # "idle"
      /\ UNCHANGED <<workers, now, store, log, guesses>>
      /\ req[t] \in Requests /\ Len(users) \in Nat
  BY CallFacts DEF CheckCreate, ScanEmails, Doing, Logging, Appending
<1>2. CASE Finish(t)
  BY <1>1, <1>2, EndCall
<1>3. CASE Audit(t, "AUTHORIZATION_DENIED")
  BY <1>1, <1>3, DeniedCall DEF Actions
<1>4. ASSUME NEW label \in {"scan", "insert"}, NEW size \in Nat, label = "insert" => ~Found(t),
             Continue(t, [req[t] EXCEPT !.pc = label, !.size = size])
      PROVE  \E h : Took(t, h)
  <2> DEFINE h == [req[t] EXCEPT !.pc = label, !.size = size]
  <2>1. h \in Requests /\ h.pc = label /\ h.since = req[t].since /\ h.email = req[t].email
    BY <1>1 DEF Requests, Labels
  <2>2. Continue(t, h)
    BY <1>4
  <2> HIDE DEF h
  <2>3. CallOK(h) /\ h.pc \notin Logging /\ Paced(t, h) /\ Checked(h)
    BY <1>1, <1>4, <2>1 DEF CallOK, Appending, Logging, Paced, Checked, Found
  <2> QED
    BY <1>1, <2>2, <2>3, WorkCall
<1>5. CASE CheckCreate(t)
  BY <1>1, <1>2, <1>3, <1>4, <1>5 DEF CheckCreate, Require
<1>6. CASE ScanEmails(t)
  BY <1>2, <1>4, <1>6 DEF ScanEmails
<1> QED
  BY <1>5, <1>6

LEMMA InsertCall ==
  ASSUME TypesInv, NEW t \in Threads, InsertUser(t)
  PROVE  \E h : Took(t, h)
<1>1. /\ req[t].pc \notin Logging /\ req[t].pc # "idle" /\ req[t] \in Requests /\ StoreOK
      /\ UNCHANGED <<workers, now, sessions, drafts, log, guesses>> /\ Len(users) < MaxUsers
  BY CallFacts DEF InsertUser, Doing, Logging, Appending
<1>2. PICK h : /\ req' = [req EXCEPT ![t] = h] /\ CallOK(h) /\ Paced(t, h)
               /\ h.pc = "record" /\ h.action = "USER_CREATED"
  BY <1>1, AuditCall DEF InsertUser, Actions
<1>3. NewUser(req[t].email, req[t].role) \in Users
  BY <1>1 DEF NewUser, Users, Requests
<1>4. users' \in Seq(Users) /\ Len(users') = Len(users) + 1
  BY <1>1, <1>3 DEF InsertUser, StoreOK
<1>5. StoreOK'
  BY <1>1, <1>4, Bounds DEF StoreOK
<1>6. Decides(t, h)
  BY <1>1, <1>2, <1>4 DEF Decides, Recorded
<1> QED
  BY <1>1, <1>2, <1>5, <1>6 DEF Took, Changes

LEMMA DraftCall ==
  ASSUME TypesInv, NEW t \in Threads, InsertDraft(t)
  PROVE  \E h : Took(t, h)
<1>1. /\ req[t].pc \notin Logging /\ req[t].pc # "idle" /\ req[t] \in Requests /\ StoreOK
      /\ UNCHANGED <<workers, now, users, sessions, log, guesses>>
  BY CallFacts DEF InsertDraft, Doing, Logging, Appending
<1>2. CASE May(t, "ai:request")
  <2>1. PICK h : /\ req' = [req EXCEPT ![t] = h] /\ CallOK(h) /\ Paced(t, h) /\ h.pc = "record"
                 /\ h.action = "AI_STRATEGY_GENERATED"
    BY <1>1, <1>2, AuditCall DEF InsertDraft, Require, Actions
  <2>2. NewDraft(req[t].risky) \in Drafts
    BY <1>1 DEF NewDraft, Drafts, Requests
  <2>3. drafts' \in Seq(Drafts) /\ Len(drafts') = Len(drafts) + 1
    BY <1>1, <1>2, <2>2 DEF InsertDraft, StoreOK
  <2>4. StoreOK'
    BY <1>1, <2>3 DEF StoreOK
  <2>5. Decides(t, h)
    BY <1>1, <2>1, <2>3 DEF Decides, Recorded
  <2> QED
    BY <1>1, <2>1, <2>4, <2>5 DEF Took, Changes, Checked
<1>3. CASE ~May(t, "ai:request")
  <2>1. Audit(t, "AUTHORIZATION_DENIED") /\ drafts' = drafts
    BY <1>3 DEF InsertDraft, Require
  <2> QED
    BY <1>1, <2>1, DeniedCall DEF Actions, store
<1> QED
  BY <1>2, <1>3

LEMMA DecideCall ==
  ASSUME TypesInv, NEW t \in Threads, DecideDraft(t)
  PROVE  \E h : Took(t, h)
<1>1. /\ req[t].pc \notin Logging /\ req[t].pc # "idle" /\ StoreOK
      /\ UNCHANGED <<workers, now, users, sessions, log, guesses>>
  BY CallFacts DEF DecideDraft, Doing, Logging, Appending
<1>2. CASE Require(t, "ai:approve", Finish(t)) /\ UNCHANGED drafts
  <2>1. UNCHANGED <<workers, now, store, log, guesses>>
    BY <1>1, <1>2 DEF store
  <2> QED
    BY <1>1, <1>2, <2>1, EndCall, DeniedCall DEF Require, Actions
<1>3. ASSUME NEW d \in DOMAIN drafts,
             drafts' = [drafts EXCEPT ![d].status = Verdict(d)],
             Audit(t, IF Verdict(d) = "REJECTED"
                      THEN "AI_STRATEGY_REJECTED" ELSE "AI_STRATEGY_APPROVED")
      PROVE  \E h : Took(t, h)
  <2>1. PICK action \in {"AI_STRATEGY_REJECTED", "AI_STRATEGY_APPROVED"} : Audit(t, action)
    BY <1>3
  <2>2. PICK h : /\ req' = [req EXCEPT ![t] = h] /\ CallOK(h) /\ Paced(t, h)
                 /\ h.pc = "record" /\ h.action = action
    BY <1>1, <2>1, AuditCall DEF Actions
  <2>3. drafts' \in Seq(Drafts) /\ Len(drafts') = Len(drafts)
    <3> DEFINE x == [drafts[d] EXCEPT !.status = Verdict(d)]
    <3>1. drafts \in Seq(Drafts) /\ drafts[d] \in Drafts
      BY <1>1, <1>3, Item DEF StoreOK
    <3>2. x \in Drafts
      BY <3>1 DEF Verdict, Drafts
    <3>3. drafts' = [drafts EXCEPT ![d] = x]
      BY <1>3
    <3> HIDE DEF x
    <3> QED
      BY <3>1, <3>2, <3>3, Replaced
  <2>4. StoreOK'
    BY <1>1, <2>3 DEF StoreOK
  <2>5. Decides(t, h)
    BY <1>1, <2>1, <2>2, <2>3 DEF Decides, Recorded
  <2> QED
    BY <1>1, <2>2, <2>4, <2>5 DEF Took, Changes, Checked
<1> QED
  BY <1>2, <1>3 DEF DecideDraft

LEMMA ReadCall ==
  ASSUME TypesInv, NEW t \in Threads, Read(t)
  PROVE  \E h : Took(t, h)
<1>1. /\ req[t].pc \notin Logging /\ req[t].pc # "idle"
      /\ UNCHANGED <<workers, now, store, log, guesses>>
  BY DEF Read, Doing, Logging, Appending
<1> QED
  BY <1>1, EndCall, DeniedCall DEF Read, Require, Actions

LEMMA AppendCall ==
  ASSUME TypesInv, NEW t \in Threads,
         AppendRecord(t) \/ ReadTail(t) \/ ReadLength(t) \/ AppendEntry(t)
  PROVE  \E h : Took(t, h)
<1>1. /\ req[t] \in Requests /\ CallOK(req[t]) /\ StoreOK
      /\ Len(records) \in Nat /\ Len(auditChain) \in Nat
      /\ auditChain \in Seq([sequence : Nat \ {0}, previous_hash : Seq(Nat \ {0}), event : Nat \ {0}])
  BY CallFacts DEF TypesInv, ControlTypeOK
<1>2. /\ UNCHANGED <<workers, now, store, guesses>> /\ StoreOK' /\ SameLengths
      /\ UNCHANGED <<users, guesses>>
  BY <1>1 DEF AppendRecord, ReadTail, ReadLength, AppendEntry, store, log, StoreOK, SameLengths
<1>3. CASE AppendRecord(t)
  <2> DEFINE n == Len(records) + 1
             h == [req[t] EXCEPT !.pc = "tail", !.action = "none", !.record = n]
  <2>1. h \in Requests /\ h.pc = "tail" /\ h.record = n /\ h.since = req[t].since
    <3>1. n \in Nat
      BY <1>1
    <3> HIDE DEF n
    <3> QED
      BY <1>1, <3>1 DEF Requests, Labels
  <2>2. req' = [req EXCEPT ![t] = h]
    BY <1>3 DEF AppendRecord, Continue
  <2> HIDE DEF h
  <2>3. CallOK(h)
    BY <1>1, <2>1 DEF CallOK
  <2>4. Records(t, h) /\ Paced(t, h)
    BY <1>2, <1>3, <2>1 DEF AppendRecord, Doing, Records, Paced
  <2> QED
    BY <1>2, <2>1, <2>2, <2>3, <2>4 DEF Took, Changes, Checked
<1>4. ASSUME NEW h \in Requests, Continue(t, h), UNCHANGED log,
             h.record = req[t].record, h.since = req[t].since,
             \/ req[t].pc = "tail" /\ h.pc = "length" /\ h.previous = Tip
             \/ /\ req[t].pc = "length" /\ h.pc = "append"
                /\ h.previous = req[t].previous /\ h.sequence = Len(auditChain) + 1
      PROVE  Took(t, h)
  <2>1. CallOK(h)
    BY <1>1, <1>4 DEF CallOK, Appending
  <2>2. ReadsChain(t, h) /\ Paced(t, h) /\ Changes(t, h)
    BY <1>2, <1>4 DEF ReadsChain, Paced, Changes, Checked
  <2> QED
    BY <1>2, <1>4, <2>1, <2>2 DEF Took, Continue
<1>5. CASE ReadTail(t)
  <2> DEFINE previous == IF auditChain = <<>> THEN <<>> ELSE Hash(auditChain[Len(auditChain)])
             h == [req[t] EXCEPT !.pc = "length", !.previous = previous]
  <2>1. previous \in Seq(Nat \ {0})
    <3>1. CASE auditChain = <<>>
      BY <3>1
    <3>2. CASE auditChain # <<>>
      <4>1. Len(auditChain) \in DOMAIN auditChain
        BY <1>1, <3>2
      <4>2. auditChain[Len(auditChain)] \in [sequence : Nat \ {0}, previous_hash : Seq(Nat \ {0}), event : Nat \ {0}]
        BY <1>1, <4>1, Item
      <4> QED
        BY <3>2, <4>2 DEF Hash
    <3> QED
      BY <3>1, <3>2
  <2>2. Continue(t, h) /\ req[t].pc = "tail" /\ UNCHANGED log
    BY <1>5 DEF ReadTail, Doing
  <2>3. previous = Tip
    BY DEF Tip
  <2> HIDE DEF previous
  <2>4. /\ h \in Requests /\ h.pc = "length" /\ h.previous = previous
        /\ h.record = req[t].record /\ h.since = req[t].since
    BY <1>1, <2>1 DEF Requests, Labels
  <2> HIDE DEF h
  <2> QED
    BY <1>4, <2>2, <2>3, <2>4
<1>6. CASE ReadLength(t)
  <2> DEFINE n == Len(auditChain) + 1
             h == [req[t] EXCEPT !.pc = "append", !.sequence = n]
  <2>1. Continue(t, h) /\ req[t].pc = "length" /\ UNCHANGED log
    BY <1>6 DEF ReadLength, Doing
  <2>2. /\ h \in Requests /\ h.pc = "append" /\ h.sequence = n
        /\ h.record = req[t].record /\ h.since = req[t].since /\ h.previous = req[t].previous
    <3>1. n \in Nat /\ n > 0
      BY <1>1
    <3> HIDE DEF n
    <3> QED
      BY <1>1, <3>1 DEF Requests, Labels
  <2> HIDE DEF h
  <2> QED
    BY <1>4, <2>1, <2>2
<1>7. CASE AppendEntry(t)
  <2>1. /\ req' = [req EXCEPT ![t] = Idle] /\ CallOK(Idle) /\ Idle.pc = "idle"
        /\ req[t].pc = "append" /\ auditChain' = Append(auditChain, Entry(t)) /\ UNCHANGED records
    BY <1>7, IdleOK DEF AppendEntry, Doing, Finish, Continue
  <2>2. Appends(t, Idle) /\ Paced(t, Idle) /\ Changes(t, Idle)
    BY <1>2, <2>1 DEF Appends, Paced, Changes, Checked
  <2> QED
    BY <1>2, <2>1, <2>2 DEF Took
<1> QED
  BY <1>3, <1>5, <1>6, <1>7

LEMMA EveryCall ==
  ASSUME TypesInv, NEW t \in Threads, Arrive(t) \/ Handle(t)
  PROVE  \E h : Took(t, h)
BY ArriveCall, FindCall, PasswordCall, CreateCall, InsertCall, DraftCall, DecideCall, ReadCall,
   AppendCall
DEF Handle

LEMMA TypesInit == ControlInit => TypesInv
<1> SUFFICES ASSUME ControlInit
             PROVE  TypesInv
  OBVIOUS
<1>1. users \in Seq(Users) /\ Len(users) = 4
  BY DEF ControlInit, Seeds, NewUser, Users, Emails, Roles
<1>2. Cardinality(Threads) \in Nat
  BY ThreadsAssumption, FS_CardinalityType
<1>3. ControlTypeOK
  BY <1>1, <1>2, IdleOK, Bounds DEF ControlInit, ControlTypeOK
<1>4. \A t \in Threads : CallOK(req[t])
  BY IdleOK DEF ControlInit
<1> QED
  BY <1>3, <1>4 DEF TypesInv

LEMMA TookTypes ==
  ASSUME TypesInv, NEW t \in Threads, NEW h, Took(t, h)
  PROVE  TypesInv'
<1>1. req' = [req EXCEPT ![t] = h] /\ CallOK(h) /\ h \in Requests /\ UNCHANGED <<workers, now>>
  BY DEF Took, CallOK
<1>2. req' \in [Threads -> Requests] /\ \A u \in Threads : CallOK(req'[u])
  BY <1>1, CallFacts DEF TypesInv
<1>3. records' \in Seq(Actions)
  <2>1. records \in Seq(Actions)
    BY DEF TypesInv, ControlTypeOK
  <2>2. CASE Records(t, h)
    <3>1. req[t].action \in Actions
      BY <2>2, CallFacts DEF Records, CallOK, Requests
    <3> QED
      BY <2>1, <2>2, <3>1 DEF Records
  <2> QED
    BY <2>1, <2>2 DEF Took, Works, Decides, ReadsChain, Appends, log
<1>4. auditChain' \in Seq([sequence : Nat \ {0}, previous_hash : Seq(Nat \ {0}), event : Nat \ {0}])
  <2>1. auditChain \in Seq([sequence : Nat \ {0}, previous_hash : Seq(Nat \ {0}), event : Nat \ {0}])
    BY DEF TypesInv, ControlTypeOK
  <2>2. CASE Appends(t, h)
    <3>1. Entry(t) \in [sequence : Nat \ {0}, previous_hash : Seq(Nat \ {0}), event : Nat \ {0}]
      BY <2>2, CallFacts DEF Appends, Appending, CallOK, Requests, Entry
    <3> QED
      BY <2>1, <2>2, <3>1 DEF Appends
  <2> QED
    BY <2>1, <2>2 DEF Took, Works, Decides, ReadsChain, Records, log
<1>5. StoreOK'
  BY DEF Took
<1> QED
  BY <1>1, <1>2, <1>3, <1>4, <1>5 DEF TypesInv, ControlTypeOK, StoreOK, CallOK, Requests

LEMMA TypesStep == TypesInv /\ [ControlNext]_controlVars => TypesInv'
<1> SUFFICES ASSUME TypesInv, [ControlNext]_controlVars
             PROVE  TypesInv'
  OBVIOUS
<1>1. CASE UNCHANGED controlVars
  BY <1>1 DEF controlVars, store, log, TypesInv, ControlTypeOK
<1>2. CASE Tick
  <2>1. now' \in Nat /\ guesses' \in [1..MaxUsers -> Nat]
    BY <1>2 DEF Tick, TypesInv, ControlTypeOK
  <2> QED
    BY <1>2, <2>1 DEF Tick, TypesInv, ControlTypeOK, store, log
<1>3. ASSUME NEW t \in Threads, Arrive(t) \/ Handle(t)
      PROVE  TypesInv'
  BY <1>3, EveryCall, TookTypes
<1> QED
  BY <1>1, <1>2, <1>3 DEF ControlNext

\* ControlTypeOK holds for any number of threads, users and requests (control_plane.py,
\* AuditHashChain).
THEOREM ControlTypes == ControlSpec => []ControlTypeOK
<1>1. TypesInv => ControlTypeOK
  BY DEF TypesInv
<1> QED
  BY <1>1, TypesInit, TypesStep, PTL DEF ControlSpec

-----------------------------------------------------------------------------
(* The audit log and its chain.                                            *)

Carries(t) == req[t].pc \in Appending

\* Every record is in the chain or carried by a request, and is there once.
LogInv ==
  /\ \A i \in DOMAIN auditChain : auditChain[i].event \in DOMAIN records
  /\ \A t \in Threads : Carries(t) => req[t].record \in DOMAIN records
  /\ \A n \in DOMAIN records :
       \/ \E i \in DOMAIN auditChain : auditChain[i].event = n
       \/ \E t \in Threads : Carries(t) /\ req[t].record = n
  /\ \A i, j \in DOMAIN auditChain : auditChain[i].event = auditChain[j].event => i = j
  /\ \A i \in DOMAIN auditChain, t \in Threads : Carries(t) => auditChain[i].event # req[t].record
  /\ \A t, u \in Threads : Carries(t) /\ Carries(u) /\ req[t].record = req[u].record => t = u

LogTypes ==
  /\ DOMAIN records = 1..Len(records) /\ Len(records) \in Nat
  /\ DOMAIN auditChain = 1..Len(auditChain) /\ Len(auditChain) \in Nat

LEMMA LogFacts == TypesInv => LogTypes
BY DEF TypesInv, ControlTypeOK, LogTypes

\* What a step of t does to the requests.
LEMMA TookRequests ==
  ASSUME TypesInv, NEW t \in Threads, NEW h, Took(t, h)
  PROVE  req'[t] = h /\ \A u \in Threads \ {t} : req'[u] = req[u]
BY CallFacts DEF Took

\* The requests carry the same records after a step.
CarriesOn ==
  \A t \in Threads :
    /\ Carries(t)' = Carries(t)
    /\ Carries(t) => req'[t].record = req[t].record

LEMMA LogKept ==
  ASSUME LogInv, UNCHANGED log, CarriesOn
  PROVE  LogInv'
<1>1. records' = records /\ auditChain' = auditChain
  BY DEF log
<1> QED
  BY <1>1 DEF LogInv, CarriesOn

LEMMA LogRecords ==
  ASSUME TypesInv, LogInv, NEW t \in Threads, NEW h, Took(t, h), Records(t, h)
  PROVE  LogInv'
<1> DEFINE n == Len(records) + 1
<1>1. LogTypes
  BY LogFacts
<1>2. /\ n \notin DOMAIN records /\ DOMAIN records' = DOMAIN records \cup {n}
      /\ auditChain' = auditChain
  BY <1>1 DEF Records, LogTypes, TypesInv, ControlTypeOK
<1>3. /\ Carries(t)' /\ ~Carries(t) /\ req'[t].record = n
      /\ \A u \in Threads \ {t} : Carries(u)' = Carries(u) /\ req'[u] = req[u]
  BY TookRequests DEF Records, Carries, Appending
<1> HIDE DEF n
<1>4. \A i \in DOMAIN auditChain' : auditChain'[i].event \in DOMAIN records'
  BY <1>2 DEF LogInv
<1>5. \A u \in Threads : Carries(u)' => req'[u].record \in DOMAIN records'
  BY <1>2, <1>3 DEF LogInv
<1>6. ASSUME NEW m \in DOMAIN records'
      PROVE  \/ \E i \in DOMAIN auditChain' : auditChain'[i].event = m
             \/ \E u \in Threads : Carries(u)' /\ req'[u].record = m
  <2>1. CASE m = n
    BY <1>3, <2>1
  <2>2. CASE m \in DOMAIN records
    BY <1>2, <1>3, <2>2 DEF LogInv
  <2> QED
    BY <1>2, <2>1, <2>2
<1>7. \A i, j \in DOMAIN auditChain' : auditChain'[i].event = auditChain'[j].event => i = j
  BY <1>2 DEF LogInv
<1>8. \A i \in DOMAIN auditChain', u \in Threads : Carries(u)' => auditChain'[i].event # req'[u].record
  BY <1>2, <1>3 DEF LogInv
<1>9. \A u, v \in Threads : Carries(u)' /\ Carries(v)' /\ req'[u].record = req'[v].record => u = v
  BY <1>2, <1>3 DEF LogInv
<1> QED
  BY <1>4, <1>5, <1>6, <1>7, <1>8, <1>9 DEF LogInv

LEMMA LogAppends ==
  ASSUME TypesInv, LogInv, NEW t \in Threads, NEW h, Took(t, h), Appends(t, h)
  PROVE  LogInv'
<1> DEFINE n == Len(auditChain) + 1
<1>1. LogTypes
  BY LogFacts
<1>2. /\ n \notin DOMAIN auditChain /\ DOMAIN auditChain' = DOMAIN auditChain \cup {n}
      /\ auditChain'[n].event = req[t].record /\ \A i \in DOMAIN auditChain : auditChain'[i] = auditChain[i]
      /\ records' = records
  <2>1. auditChain' = Append(auditChain, Entry(t)) /\ Entry(t).event = req[t].record
    BY DEF Appends, Entry
  <2>2. auditChain \in Seq([sequence : Nat \ {0}, previous_hash : Seq(Nat \ {0}), event : Nat \ {0}])
    BY DEF TypesInv, ControlTypeOK
  <2> HIDE DEF n
  <2>3. n = Len(auditChain) + 1
    BY DEF n
  <2> QED
    BY <1>1, <2>1, <2>2, <2>3 DEF LogTypes, Appends
<1>3. /\ Carries(t) /\ ~Carries(t)'
      /\ \A u \in Threads \ {t} : Carries(u)' = Carries(u) /\ req'[u] = req[u]
  BY TookRequests DEF Appends, Carries, Appending
<1> HIDE DEF n
<1>4. \A i \in DOMAIN auditChain' : auditChain'[i].event \in DOMAIN records'
  BY <1>2, <1>3 DEF LogInv
<1>5. \A u \in Threads : Carries(u)' => req'[u].record \in DOMAIN records'
  BY <1>2, <1>3 DEF LogInv
<1>6. ASSUME NEW m \in DOMAIN records'
      PROVE  \/ \E i \in DOMAIN auditChain' : auditChain'[i].event = m
             \/ \E u \in Threads : Carries(u)' /\ req'[u].record = m
  <2>1. CASE m = req[t].record
    BY <1>2, <2>1
  <2>2. CASE m # req[t].record
    BY <1>2, <1>3, <2>2 DEF LogInv
  <2> QED
    BY <2>1, <2>2
<1>7. ASSUME NEW i \in DOMAIN auditChain', NEW j \in DOMAIN auditChain', auditChain'[i].event = auditChain'[j].event
      PROVE  i = j
  BY <1>2, <1>3, <1>7 DEF LogInv
<1>8. ASSUME NEW i \in DOMAIN auditChain', NEW u \in Threads, Carries(u)'
      PROVE  auditChain'[i].event # req'[u].record
  BY <1>2, <1>3, <1>8 DEF LogInv
<1>9. \A u, v \in Threads : Carries(u)' /\ Carries(v)' /\ req'[u].record = req'[v].record => u = v
  BY <1>3 DEF LogInv
<1> QED
  BY <1>4, <1>5, <1>6, <1>7, <1>8, <1>9 DEF LogInv

LEMMA LogTook ==
  ASSUME TypesInv, LogInv, NEW t \in Threads, NEW h, Took(t, h)
  PROVE  LogInv'
<1>1. CASE Works(t, h) \/ Decides(t, h) \/ ReadsChain(t, h)
  <2>1. UNCHANGED log
    BY <1>1 DEF Works, Decides, ReadsChain
  <2>2. CarriesOn
    BY <1>1, TookRequests
    DEF Works, Decides, ReadsChain, Carries, Logging, Appending, CarriesOn
  <2> QED
    BY <2>1, <2>2, LogKept
<1> QED
  BY <1>1, LogRecords, LogAppends DEF Took

LEMMA LogStep == TypesInv /\ LogInv /\ [ControlNext]_controlVars => LogInv'
<1> SUFFICES ASSUME TypesInv, LogInv, [ControlNext]_controlVars
             PROVE  LogInv'
  OBVIOUS
<1>1. CASE Tick \/ UNCHANGED controlVars
  <2>1. UNCHANGED log /\ req' = req
    BY <1>1 DEF Tick, controlVars
  <2> QED
    BY <2>1, LogKept DEF Carries, CarriesOn
<1>2. ASSUME NEW t \in Threads, Arrive(t) \/ Handle(t)
      PROVE  LogInv'
  BY <1>2, EveryCall, LogTook
<1> QED
  BY <1>1, <1>2 DEF ControlNext

LEMMA LogInit == ControlInit => LogInv
BY DEF ControlInit, LogInv, Carries, Appending, Idle

LEMMA ChainedOnce ==
  ASSUME TypesInv, LogInv
  PROVE  NoRecordIsLost
<1>1. LogTypes
  BY LogFacts
<1>2. Chained \cup Chaining = DOMAIN records /\ Chained \cap Chaining = {}
  BY DEF LogInv, Chained, Chaining, Carries, Appending
<1>3. Len(auditChain) = Cardinality(Chained)
  <2> DEFINE f == [i \in 1..Len(auditChain) |-> auditChain[i].event]
  <2>1. f \in Bijection(1..Len(auditChain), Chained)
    <3>1. f \in [1..Len(auditChain) -> Chained]
      BY <1>1 DEF LogTypes, Chained
    <3>2. \A i, j \in 1..Len(auditChain) : f[i] = f[j] => i = j
      BY <1>1 DEF LogTypes, LogInv
    <3>3. \A n \in Chained : \E i \in 1..Len(auditChain) : f[i] = n
      BY <1>1 DEF LogTypes, Chained
    <3> HIDE DEF f
    <3> QED
      BY <3>1, <3>2, <3>3, Fun_IsBij
  <2>2. ExistsBijection(1..Len(auditChain), Chained)
    BY <2>1 DEF ExistsBijection
  <2> QED
    BY <1>1, <2>2, FS_CountingElements, FS_NatBijection DEF LogTypes
<1> QED
  BY <1>2, <1>3 DEF NoRecordIsLost

\* No audit record is lost to a race of two appends, for any number of threads
\* (ControlPlane.audit, AuditHashChain.append).
THEOREM RecordsKept == ControlSpec => []NoRecordIsLost
<1>1. ControlInit => TypesInv /\ LogInv
  BY TypesInit, LogInit
<1>2. TypesInv /\ LogInv /\ [ControlNext]_controlVars => TypesInv' /\ LogInv'
  BY TypesStep, LogStep
<1>3. TypesInv /\ LogInv => NoRecordIsLost
  BY ChainedOnce
<1> QED
  BY <1>1, <1>2, <1>3, PTL DEF ControlSpec

-----------------------------------------------------------------------------
(* What the audit log counts.                                              *)

\* The records of an action, and the requests that are about to write one.
Done(action) == {i \in DOMAIN records : records[i] = action}
Due(action) == {t \in Threads : Doing(t, "record") /\ req[t].action = action}
Told(action) == Cardinality(Done(action)) + Cardinality(Due(action))

LEMMA Finite ==
  ASSUME TypesInv, NEW action
  PROVE  /\ IsFiniteSet(Done(action)) /\ Cardinality(Done(action)) \in Nat
         /\ IsFiniteSet(Due(action)) /\ Cardinality(Due(action)) \in Nat
<1>1. DOMAIN records = 1..Len(records) /\ Len(records) \in Nat
  BY LogFacts DEF LogTypes
<1>2. IsFiniteSet(DOMAIN records)
  BY <1>1, FS_Interval
<1>3. Done(action) \subseteq DOMAIN records /\ Due(action) \subseteq Threads
  BY DEF Done, Due
<1>4. IsFiniteSet(Done(action)) /\ IsFiniteSet(Due(action))
  BY <1>2, <1>3, ThreadsAssumption, FS_Subset
<1> QED
  BY <1>4, FS_CardinalityType

\* One more of an action is told of when a request comes to have it to record, and then only.
LEMMA ToldStep ==
  ASSUME TypesInv, NEW t \in Threads, NEW h, Took(t, h), NEW action \in Actions
  PROVE  Told(action)' =
           IF Decides(t, h) /\ h.action = action THEN Told(action) + 1 ELSE Told(action)
<1>1. req'[t] = h /\ \A u \in Threads \ {t} : req'[u] = req[u]
  BY TookRequests
<1>2. /\ IsFiniteSet(Done(action)) /\ Cardinality(Done(action)) \in Nat
      /\ IsFiniteSet(Due(action)) /\ Cardinality(Due(action)) \in Nat
  BY Finite
<1>3. CASE Works(t, h) \/ ReadsChain(t, h) \/ Appends(t, h)
  <2>1. /\ t \notin Due(action) /\ h.pc # "record" /\ records' = records
    BY <1>3 DEF Works, ReadsChain, Appends, Due, Doing, Logging, Appending, log
  <2>2. Done(action)' = Done(action) /\ Due(action)' = Due(action)
    BY <1>1, <2>1 DEF Done, Due, Doing
  <2>3. ~Decides(t, h)
    BY <2>1 DEF Decides
  <2> QED
    BY <2>2, <2>3 DEF Told
<1>4. CASE Decides(t, h)
  <2>1. t \notin Due(action) /\ Done(action)' = Done(action) /\ h.pc = "record"
    BY <1>4 DEF Decides, Due, Doing, Logging, Done, log
  <2>2. CASE h.action = action
    <3>1. Due(action)' = Due(action) \cup {t}
      BY <1>1, <2>1, <2>2 DEF Due, Doing
    <3>2. Cardinality(Due(action)') = Cardinality(Due(action)) + 1
      BY <1>2, <2>1, <3>1, FS_AddElement
    <3> QED
      BY <1>2, <1>4, <2>1, <2>2, <3>2 DEF Told
  <2>3. CASE h.action # action
    <3>1. Due(action)' = Due(action)
      BY <1>1, <2>1, <2>3 DEF Due, Doing
    <3> QED
      BY <2>1, <2>3, <3>1 DEF Told
  <2> QED
    BY <2>2, <2>3
<1>5. CASE Records(t, h)
  <2> DEFINE n == Len(records) + 1
  <2>1. /\ n \notin DOMAIN records /\ DOMAIN records' = DOMAIN records \cup {n}
        /\ records'[n] = req[t].action /\ \A i \in DOMAIN records : records'[i] = records[i]
    BY <1>5 DEF Records, TypesInv, ControlTypeOK
  <2>2. req[t].pc = "record" /\ h.pc = "tail" /\ ~Decides(t, h)
    BY <1>5 DEF Records, Decides
  <2> HIDE DEF n
  <2>3. CASE req[t].action = action
    <3>1. Done(action)' = Done(action) \cup {n} /\ n \notin Done(action)
      BY <2>1, <2>3 DEF Done
    <3>2. Due(action)' = Due(action) \ {t} /\ t \in Due(action)
      BY <1>1, <2>2, <2>3 DEF Due, Doing
    <3>3. Cardinality(Done(action)') = Cardinality(Done(action)) + 1
      BY <1>2, <3>1, FS_AddElement
    <3>4. Cardinality(Due(action)') = Cardinality(Due(action)) - 1
      BY <1>2, <3>2, FS_RemoveElement
    <3> QED
      BY <1>2, <2>2, <3>3, <3>4 DEF Told
  <2>4. CASE req[t].action # action
    <3>1. Done(action)' = Done(action)
      BY <2>1, <2>4 DEF Done
    <3>2. Due(action)' = Due(action)
      BY <1>1, <2>2, <2>4 DEF Due, Doing
    <3> QED
      BY <2>2, <3>1, <3>2 DEF Told
  <2> QED
    BY <2>3, <2>4
<1> QED
  BY <1>3, <1>4, <1>5 DEF Took

AuditInv ==
  /\ Len(users) = 4 + Told("USER_CREATED")
  /\ Len(sessions) = Told("LOGIN_SUCCEEDED")
  /\ Len(drafts) = Told("AI_STRATEGY_GENERATED")

LEMMA AuditTook ==
  ASSUME TypesInv, AuditInv, NEW t \in Threads, NEW h, Took(t, h)
  PROVE  AuditInv'
<1>1. /\ \A action \in Actions : Told(action)' =
           IF Decides(t, h) /\ h.action = action THEN Told(action) + 1 ELSE Told(action)
      /\ \A action \in Actions : Told(action) \in Nat
  <2>1. \A action : Told(action) \in Nat
    BY Finite DEF Told
  <2> QED
    BY <2>1, ToldStep
<1>2. {"USER_CREATED", "LOGIN_SUCCEEDED", "AI_STRATEGY_GENERATED"} \subseteq Actions
  BY DEF Actions
<1>3. CASE Decides(t, h)
  <2>1. Recorded(h.action)
    BY <1>3 DEF Decides
  <2> QED
    BY <1>1, <1>2, <1>3, <2>1 DEF Recorded, AuditInv
<1>4. CASE ~Decides(t, h)
  <2>1. SameLengths
    BY <1>4 DEF Took, Works, Records, ReadsChain, Appends
  <2> QED
    BY <1>1, <1>2, <1>4, <2>1 DEF SameLengths, AuditInv
<1> QED
  BY <1>3, <1>4

LEMMA AuditStep == TypesInv /\ AuditInv /\ [ControlNext]_controlVars => AuditInv'
<1> SUFFICES ASSUME TypesInv, AuditInv, [ControlNext]_controlVars
             PROVE  AuditInv'
  OBVIOUS
<1>1. CASE Tick \/ UNCHANGED controlVars
  BY <1>1 DEF Tick, controlVars, store, log, AuditInv, Told, Done, Due, Doing
<1>2. ASSUME NEW t \in Threads, Arrive(t) \/ Handle(t)
      PROVE  AuditInv'
  BY <1>2, EveryCall, AuditTook
<1> QED
  BY <1>1, <1>2 DEF ControlNext

LEMMA AuditInit == ControlInit => AuditInv
<1> SUFFICES ASSUME ControlInit
             PROVE  AuditInv
  OBVIOUS
<1>1. \A action \in Actions : Done(action) = {} /\ Due(action) = {}
  BY DEF ControlInit, Done, Due, Doing, Idle, Actions
<1>2. \A action \in Actions : Told(action) = 0
  BY <1>1, FS_EmptySet DEF Told
<1> QED
  BY <1>2 DEF ControlInit, Seeds, AuditInv, Actions

\* Nothing happens unrecorded, for any number of threads and requests (create_user,
\* authenticate, request_ai_draft).
THEOREM ChangesAudited == ControlSpec => []EverythingIsAudited
<1>1. ControlInit => TypesInv /\ AuditInv
  BY TypesInit, AuditInit
<1>2. TypesInv /\ AuditInv /\ [ControlNext]_controlVars => TypesInv' /\ AuditInv'
  BY TypesStep, AuditStep
<1>3. TypesInv /\ AuditInv => EverythingIsAudited
  <2> SUFFICES ASSUME TypesInv, AuditInv
               PROVE  EverythingIsAudited
    OBVIOUS
  <2>1. ASSUME NEW action
        PROVE  Told(action) = Count(action) + Auditing(action)
    <3>1. Count(action) = Cardinality(Done(action)) /\ Auditing(action) = Cardinality(Due(action))
      BY DEF Count, Auditing, Done, Due
    <3> QED
      BY <3>1 DEF Told
  <2>2. \A action : Told(action) \in Nat
    BY Finite DEF Told
  <2>3. Len(Seeds) = 4
    BY DEF Seeds
  <2> QED
    BY <2>1, <2>2, <2>3 DEF AuditInv, EverythingIsAudited
<1> QED
  BY <1>1, <1>2, <1>3, PTL DEF ControlSpec

-----------------------------------------------------------------------------
(* Requests one at a time.                                                 *)

\* With one worker nothing that a request has read changes before it is used.
SoleInv ==
  /\ \A t, u \in Busy : t = u
  /\ VerifyAudit
  /\ \A t \in Threads :
       /\ req[t].pc \in {"length", "append"} => req[t].previous = Tip
       /\ req[t].pc = "append" => req[t].sequence = Len(auditChain) + 1
  /\ EmailsUnique
  /\ \A t \in Threads : req[t].pc = "insert" => WithEmail(req[t].email) = {}

LEMMA BusyFinite == IsFiniteSet(Busy) /\ Cardinality(Busy) \in Nat
<1>1. Busy \subseteq Threads
  BY DEF Busy
<1> QED
  BY <1>1, ThreadsAssumption, FS_Subset, FS_CardinalityType

LEMMA OthersIdle ==
  ASSUME TypesInv, SoleInv, workers = 1, NEW t \in Threads, NEW h, Took(t, h)
  PROVE  \A u \in Threads \ {t} : req[u].pc = "idle"
<1>1. CASE req[t].pc # "idle"
  BY <1>1 DEF SoleInv, Busy, Doing
<1>2. CASE req[t].pc = "idle"
  <2>1. Cardinality(Busy) < 1
    BY <1>2 DEF Took, Paced
  <2>2. Busy = {}
    BY <2>1, BusyFinite, FS_EmptySet
  <2> QED
    BY <2>2 DEF Busy, Doing
<1> QED
  BY <1>1, <1>2

LEMMA SoleChain ==
  ASSUME TypesInv, SoleInv, workers = 1, NEW t \in Threads, NEW h, Took(t, h)
  PROVE  /\ VerifyAudit'
         /\ h.pc \in {"length", "append"} => h.previous = Tip'
         /\ h.pc = "append" => h.sequence = Len(auditChain') + 1
<1>1. CASE Works(t, h) \/ Decides(t, h) \/ Records(t, h)
  BY <1>1 DEF Works, Decides, Records, Logging, Appending, log, SoleInv, VerifyAudit, Tip
<1>2. CASE ReadsChain(t, h)
  BY <1>2 DEF ReadsChain, log, SoleInv, VerifyAudit, Tip
<1>3. CASE Appends(t, h)
  <2> DEFINE n == Len(auditChain)
             e == Entry(t)
  <2>1. /\ auditChain' = Append(auditChain, e) /\ h.pc = "idle"
        /\ e.sequence = n + 1 /\ e.previous_hash = Tip
    BY <1>3 DEF Appends, SoleInv, Entry
  <2>2. n \in Nat /\ DOMAIN auditChain = 1..n /\ (auditChain = <<>> <=> n = 0)
    BY DEF TypesInv, ControlTypeOK
  <2>3. /\ DOMAIN auditChain' = 1..(n + 1) /\ auditChain'[n + 1] = e
        /\ \A i \in 1..n : auditChain'[i] = auditChain[i]
    <3>1. auditChain \in Seq([sequence : Nat \ {0}, previous_hash : Seq(Nat \ {0}), event : Nat \ {0}])
      BY DEF TypesInv, ControlTypeOK
    <3> HIDE DEF e
    <3> QED
      BY <2>1, <3>1
  <2>4. Tip = IF n = 0 THEN <<>> ELSE Hash(auditChain[n])
    BY <2>2 DEF Tip
  <2> HIDE DEF e, n
  <2>5. ASSUME NEW i \in 1..(n + 1)
        PROVE  /\ auditChain'[i].sequence = i
               /\ auditChain'[i].previous_hash = (IF i = 1 THEN <<>> ELSE Hash(auditChain'[i - 1]))
    <3>1. CASE i = n + 1
      <4>1. CASE n = 0
        BY <2>1, <2>3, <2>4, <3>1, <4>1
      <4>2. CASE n # 0
        <5>1. i - 1 = n /\ n \in 1..n
          BY <2>2, <3>1, <4>2
        <5> QED
          BY <2>1, <2>2, <2>3, <2>4, <3>1, <4>2, <5>1
      <4> QED
        BY <4>1, <4>2
    <3>2. CASE i # n + 1
      <4>1. i \in 1..n /\ (i # 1 => i - 1 \in 1..n)
        BY <2>2, <3>2
      <4>2. /\ auditChain[i].sequence = i
            /\ auditChain[i].previous_hash = (IF i = 1 THEN <<>> ELSE Hash(auditChain[i - 1]))
        BY <2>2, <4>1 DEF SoleInv, VerifyAudit
      <4> QED
        BY <2>3, <4>1, <4>2
    <3> QED
      BY <3>1, <3>2
  <2> QED
    BY <2>1, <2>3, <2>5 DEF VerifyAudit
<1> QED
  BY <1>1, <1>2, <1>3 DEF Took

\* The users after a step, as far as emails go.
LEMMA SoleEmails ==
  ASSUME TypesInv, SoleInv, NEW t \in Threads, NEW h, Took(t, h)
  PROVE  /\ EmailsUnique'
         /\ h.pc = "insert" => {u \in DOMAIN users' : users'[u].email = h.email} = {}
<1>1. users \in Seq(Users)
  BY DEF TypesInv, ControlTypeOK
<1>2. CASE UNCHANGED <<users, guesses>> /\ Checked(h)
  BY <1>2 DEF Checked, WithEmail, SoleInv, EmailsUnique
<1>3. CASE h.pc = "record" /\ (WrongPassword(t) \/ RightPassword(t))
  <2>1. DOMAIN users' = DOMAIN users /\ \A u \in DOMAIN users : users'[u].email = users[u].email
    <3>1. \A u \in DOMAIN users : users[u] \in Users
      BY <1>1, Item
    <3>2. \A x \in Users : /\ Failed(x, req[t].since).email = x.email
                           /\ [x EXCEPT !.failed_logins = 0].email = x.email
                           /\ [x EXCEPT !.locked_until = 0].email = x.email
                           /\ [x EXCEPT !.failed_logins = 0] \in Users
      BY DEF Failed, Users
    <3>3. CASE WrongPassword(t)
      BY <3>1, <3>2, <3>3 DEF WrongPassword
    <3>4. CASE RightPassword(t)
      BY <3>1, <3>2, <3>4 DEF RightPassword
    <3> QED
      BY <1>3, <3>3, <3>4
  <2> QED
    BY <1>3, <2>1 DEF SoleInv, EmailsUnique
<1>4. CASE h.pc = "record" /\ InsertUser(t)
  <2> DEFINE n == Len(users) + 1
             x == NewUser(req[t].email, req[t].role)
  <2>1. users' = Append(users, x) /\ x.email = req[t].email /\ WithEmail(req[t].email) = {}
    BY <1>4 DEF InsertUser, Doing, NewUser, SoleInv
  <2>2. /\ DOMAIN users' = DOMAIN users \cup {n} /\ users'[n] = x
        /\ \A u \in DOMAIN users : users'[u] = users[u]
    <3> HIDE DEF x
    <3> QED
      BY <1>1, <2>1
  <2> HIDE DEF x, n
  <2>3. \A u \in DOMAIN users : users[u].email # x.email
    BY <2>1 DEF WithEmail
  <2>4. ASSUME NEW u \in DOMAIN users', NEW v \in DOMAIN users', users'[u].email = users'[v].email
        PROVE  u = v
    BY <2>2, <2>3, <2>4 DEF SoleInv, EmailsUnique
  <2> QED
    BY <1>4, <2>4 DEF EmailsUnique
<1> QED
  BY <1>2, <1>3, <1>4 DEF Took, Changes

LEMMA SoleTook ==
  ASSUME TypesInv, SoleInv, workers = 1, NEW t \in Threads, NEW h, Took(t, h)
  PROVE  SoleInv'
<1>1. /\ \A u \in Threads \ {t} : req'[u].pc = "idle"
      /\ req'[t] = h
  BY OthersIdle, TookRequests
<1>2. \A u, v \in Busy' : u = v
  BY <1>1 DEF Busy, Doing
<1>3. /\ VerifyAudit'
      /\ \A u \in Threads :
           /\ req'[u].pc \in {"length", "append"} => req'[u].previous = Tip'
           /\ req'[u].pc = "append" => req'[u].sequence = Len(auditChain') + 1
  BY <1>1, SoleChain
<1>4. /\ EmailsUnique'
      /\ \A u \in Threads : req'[u].pc = "insert" =>
           {v \in DOMAIN users' : users'[v].email = req'[u].email} = {}
  BY <1>1, SoleEmails
<1> QED
  BY <1>2, <1>3, <1>4 DEF SoleInv, WithEmail

LEMMA SoleStep == TypesInv /\ (workers = 1 => SoleInv) /\ [ControlNext]_controlVars => (workers = 1 => SoleInv)'
<1> SUFFICES ASSUME TypesInv, workers = 1 => SoleInv, [ControlNext]_controlVars
             PROVE  (workers = 1 => SoleInv)'
  OBVIOUS
<1>1. CASE Tick \/ UNCHANGED controlVars
  BY <1>1 DEF Tick, controlVars, store, log, SoleInv, Busy, Doing, VerifyAudit, Tip, EmailsUnique, WithEmail
<1>2. ASSUME NEW t \in Threads, Arrive(t) \/ Handle(t)
      PROVE  (workers = 1 => SoleInv)'
  <2>1. PICK h : Took(t, h)
    BY <1>2, EveryCall
  <2>2. workers' = workers
    BY <2>1 DEF Took
  <2> QED
    BY <2>1, <2>2, SoleTook
<1> QED
  BY <1>1, <1>2 DEF ControlNext

LEMMA SoleInit == ControlInit => SoleInv
<1> SUFFICES ASSUME ControlInit
             PROVE  SoleInv
  OBVIOUS
<1>1. /\ auditChain = <<>> /\ \A t \in Threads : req[t].pc = "idle"
      /\ users = Seeds
  BY IdleOK DEF ControlInit
<1>2. EmailsUnique
  BY <1>1 DEF EmailsUnique, Seeds, NewUser
<1>3. VerifyAudit
  BY <1>1 DEF VerifyAudit
<1> QED
  BY <1>1, <1>2, <1>3 DEF SoleInv, Busy, Doing

\* Requests handled one at a time keep the audit chain without a fork and the emails unique,
\* however many they are (audit, create_user).
THEOREM SerialRequests == ControlSpec => []SerialRequestsAreSound
<1>1. ControlInit => TypesInv /\ (workers = 1 => SoleInv)
  BY TypesInit, SoleInit
<1>2. TypesInv /\ (workers = 1 => SoleInv) /\ [ControlNext]_controlVars
        => TypesInv' /\ (workers = 1 => SoleInv)'
  BY TypesStep, SoleStep
<1>3. (workers = 1 => SoleInv) => SerialRequestsAreSound
  BY DEF SoleInv, SerialRequestsAreSound
<1> QED
  BY <1>1, <1>2, <1>3, PTL DEF ControlSpec

-----------------------------------------------------------------------------
(* The lockout.                                                            *)

\* The requests that are comparing a password for a user.
Verifying(u) == {t \in Threads : req[t].pc = "verify" /\ req[t].user = u}

PaceInv ==
  /\ Cardinality(Busy) <= workers
  /\ \A t \in Threads : req[t].pc # "idle" => now < req[t].since + LockTime
  /\ \A t \in Threads : req[t].pc = "verify" => req[t].user \in DOMAIN users

\* The failures that the code counts are at least those since the account was last free,
\* and while it is locked only the requests that were past the check add to them.
GuessInv ==
  /\ \A u \in 1..MaxUsers : u \notin DOMAIN users => guesses[u] = 0
  /\ \A u \in DOMAIN users :
       /\ ~Locked(u) => guesses[u] <= users[u].failed_logins /\ guesses[u] < MaxFailures
       /\ Locked(u) => guesses[u] + Cardinality(Verifying(u)) <= MaxFailures + workers - 1

LockInv == PaceInv /\ GuessInv

LEMMA VerifyingFinite ==
  ASSUME NEW u
  PROVE  IsFiniteSet(Verifying(u)) /\ Cardinality(Verifying(u)) \in Nat
<1>1. Verifying(u) \subseteq Threads
  BY DEF Verifying
<1> QED
  BY <1>1, ThreadsAssumption, FS_Subset, FS_CardinalityType

LEMMA WorkersType == TypesInv => workers \in Nat /\ workers >= 1
<1>1. Cardinality(Threads) \in Nat
  BY ThreadsAssumption, FS_CardinalityType
<1> QED
  BY <1>1 DEF TypesInv, ControlTypeOK

LEMMA UserFacts ==
  ASSUME TypesInv
  PROVE  /\ users \in Seq(Users) /\ DOMAIN users \subseteq 1..MaxUsers
         /\ guesses \in [1..MaxUsers -> Nat] /\ now \in Nat
         /\ \A u \in DOMAIN users :
              users[u] \in Users /\ users[u].failed_logins \in Nat /\ users[u].locked_until \in Nat
<1>1. /\ users \in Seq(Users) /\ Len(users) \in 4..MaxUsers
      /\ guesses \in [1..MaxUsers -> Nat] /\ now \in Nat
  BY DEF TypesInv, ControlTypeOK
<1>2. \A u \in DOMAIN users : users[u] \in Users
  BY <1>1, Item
<1>3. DOMAIN users \subseteq 1..MaxUsers
  BY <1>1, Bounds
<1> QED
  BY <1>1, <1>2, <1>3 DEF Users

LEMMA PaceTook ==
  ASSUME TypesInv, PaceInv, NEW t \in Threads, NEW h, Took(t, h)
  PROVE  PaceInv'
<1>1. /\ req'[t] = h /\ \A u \in Threads \ {t} : req'[u] = req[u]
      /\ workers' = workers /\ now' = now /\ workers \in Nat /\ now \in Nat
      /\ LockTime \in Nat \ {0}
  BY TookRequests, WorkersType, UserFacts, Bounds DEF Took
<1>2. IsFiniteSet(Busy) /\ Cardinality(Busy) \in Nat
  BY BusyFinite
<1>3. Cardinality(Busy') <= workers
  <2>1. CASE h.pc = "idle"
    <3>1. Busy' = Busy \ {t}
      BY <1>1, <2>1 DEF Busy, Doing
    <3>2. Cardinality(Busy') \in Nat /\ Cardinality(Busy') <= Cardinality(Busy)
      BY <1>2, <3>1, FS_Subset, FS_CardinalityType
    <3> QED
      BY <1>1, <1>2, <3>2 DEF PaceInv
  <2>2. CASE h.pc # "idle" /\ req[t].pc # "idle"
    <3>1. Busy' = Busy
      BY <1>1, <2>2 DEF Busy, Doing
    <3> QED
      BY <3>1 DEF PaceInv
  <2>3. CASE h.pc # "idle" /\ req[t].pc = "idle"
    <3>1. Busy' = Busy \cup {t} /\ t \notin Busy
      BY <1>1, <2>3 DEF Busy, Doing
    <3>2. Cardinality(Busy') = Cardinality(Busy) + 1
      BY <1>2, <3>1, FS_AddElement
    <3> QED
      BY <1>1, <1>2, <2>3, <3>2 DEF Took, Paced
  <2> QED
    BY <2>1, <2>2, <2>3
<1>4. \A u \in Threads : req'[u].pc # "idle" => now < req'[u].since + LockTime
  BY <1>1 DEF Took, Paced, PaceInv
<1>5. DOMAIN users \subseteq DOMAIN users' /\ (h.pc = "verify" => h.user \in DOMAIN users')
  <2>1. users \in Seq(Users)
    BY UserFacts
  <2>2. CASE UNCHANGED <<users, guesses>> /\ Checked(h)
    BY <2>2 DEF Checked
  <2>3. CASE h.pc = "record" /\ (WrongPassword(t) \/ RightPassword(t))
    BY <2>3 DEF WrongPassword, RightPassword
  <2>4. CASE h.pc = "record" /\ InsertUser(t)
    <3> DEFINE x == NewUser(req[t].email, req[t].role)
    <3>1. users' = Append(users, x)
      BY <2>4 DEF InsertUser
    <3> HIDE DEF x
    <3> QED
      BY <2>1, <2>4, <3>1
  <2> QED
    BY <2>2, <2>3, <2>4 DEF Took, Changes
<1>6. \A u \in Threads : req'[u].pc = "verify" => req'[u].user \in DOMAIN users'
  BY <1>1, <1>5 DEF PaceInv
<1> QED
  BY <1>1, <1>3, <1>4, <1>6 DEF PaceInv

\* A password has been compared: for the account t was at, for the others nothing changes.
LEMMA OtherAccounts ==
  ASSUME TypesInv, GuessInv, NEW t \in Threads, NEW h, Took(t, h), h.pc = "record",
         req[t].pc = "verify", NEW x, users' = [users EXCEPT ![req[t].user] = x],
         NEW g, guesses' = [guesses EXCEPT ![req[t].user] = g]
  PROVE  /\ \A u \in 1..MaxUsers : u \notin DOMAIN users' => guesses'[u] = 0 \/ u = req[t].user
         /\ \A u \in DOMAIN users' \ {req[t].user} :
              /\ ~Locked(u)' => guesses'[u] <= users'[u].failed_logins /\ guesses'[u] < MaxFailures
              /\ Locked(u)' => guesses'[u] + Cardinality(Verifying(u)') <= MaxFailures + workers' - 1
<1>1. /\ req'[t] = h /\ \A u \in Threads \ {t} : req'[u] = req[u]
      /\ workers' = workers /\ now' = now
      /\ DOMAIN users' = DOMAIN users /\ guesses \in [1..MaxUsers -> Nat]
      /\ DOMAIN users \subseteq 1..MaxUsers
  BY TookRequests, UserFacts DEF Took
<1>2. ASSUME NEW u \in DOMAIN users, u # req[t].user
      PROVE  /\ Verifying(u)' = Verifying(u) /\ users'[u] = users[u] /\ guesses'[u] = guesses[u]
             /\ Locked(u)' = Locked(u)
  <2>1. users'[u] = users[u] /\ guesses'[u] = guesses[u]
    BY <1>1, <1>2
  <2> QED
    BY <1>1, <1>2, <2>1 DEF Verifying, Locked
<1>3. \A u \in 1..MaxUsers : u \notin DOMAIN users' => guesses'[u] = 0 \/ u = req[t].user
  BY <1>1 DEF GuessInv
<1> QED
  BY <1>1, <1>2, <1>3 DEF GuessInv

LEMMA GuessWrong ==
  ASSUME TypesInv, LockInv, NEW t \in Threads, NEW h, Took(t, h), h.pc = "record",
         WrongPassword(t)
  PROVE  GuessInv'
<1>0. PICK a : a = req[t].user
  OBVIOUS
<1> DEFINE w == users[a]
           n == w.failed_logins + 1
           g == guesses[a] + 1
<1>1. /\ req[t].pc = "verify" /\ a \in DOMAIN users
      /\ users' = [users EXCEPT ![a] = Failed(w, req[t].since)]
      /\ guesses' = [guesses EXCEPT ![a] = g]
      /\ workers' = workers /\ now' = now
  BY <1>0 DEF WrongPassword, Doing, LockInv, PaceInv, Took
<1>2. /\ w \in Users /\ w.failed_logins \in Nat /\ w.locked_until \in Nat /\ now \in Nat
      /\ guesses[a] \in Nat /\ a \in 1..MaxUsers /\ workers \in Nat /\ workers >= 1
      /\ MaxFailures \in Nat \ {0} /\ LockTime \in Nat \ {0} /\ n \in Nat
  BY <1>1, UserFacts, WorkersType, Bounds
<1>3. /\ users'[a] = Failed(w, req[t].since) /\ guesses'[a] = g
      /\ DOMAIN users' = DOMAIN users
  BY <1>1, UserFacts
<1>4. /\ users'[a].failed_logins = n
      /\ users'[a].locked_until =
           IF n >= MaxFailures THEN req[t].since + LockTime ELSE w.locked_until
  BY <1>2, <1>3 DEF Failed, Users
<1>5. now < req[t].since + LockTime /\ req[t].since \in Nat
  BY <1>0, <1>1, CallFacts DEF LockInv, PaceInv, Requests
<1>6. /\ t \in Verifying(a) /\ Verifying(a)' = Verifying(a) \ {t}
      /\ Verifying(a) \subseteq Busy /\ t \in Busy
  BY <1>0, <1>1, TookRequests DEF Verifying, Busy, Doing
<1>7. /\ Cardinality(Verifying(a)) \in Nat /\ Cardinality(Verifying(a)) <= workers
      /\ Cardinality(Verifying(a)') = Cardinality(Verifying(a)) - 1
  <2>1. Cardinality(Verifying(a)) <= Cardinality(Busy) /\ Cardinality(Busy) \in Nat
    BY <1>6, BusyFinite, FS_Subset
  <2>2. IsFiniteSet(Verifying(a)) /\ Cardinality(Verifying(a)) \in Nat
    BY VerifyingFinite
  <2>3. Cardinality(Verifying(a)') = Cardinality(Verifying(a)) - 1
    BY <1>6, <2>2, FS_RemoveElement
  <2>4. Cardinality(Busy) <= workers
    BY DEF LockInv, PaceInv
  <2> QED
    BY <1>2, <2>1, <2>2, <2>3, <2>4
<1>8. /\ Locked(a) <=> w.locked_until > now
      /\ Locked(a)' <=> users'[a].locked_until > now
  BY <1>1 DEF Locked
<1>9. /\ ~Locked(a) => guesses[a] <= w.failed_logins /\ guesses[a] < MaxFailures
      /\ Locked(a) => guesses[a] + Cardinality(Verifying(a)) <= MaxFailures + workers - 1
  BY <1>1 DEF LockInv, GuessInv
<1>10. /\ ~Locked(a)' => guesses'[a] <= users'[a].failed_logins /\ guesses'[a] < MaxFailures
       /\ Locked(a)' => guesses'[a] + Cardinality(Verifying(a)') <= MaxFailures + workers' - 1
  <2> DEFINE v == Cardinality(Verifying(a))
             k == guesses[a]
             until == w.locked_until
  <2>1. /\ guesses'[a] = k + 1 /\ users'[a].failed_logins = n /\ k \in Nat /\ v \in Nat
        /\ n = w.failed_logins + 1 /\ w.failed_logins \in Nat /\ until \in Nat
        /\ Cardinality(Verifying(a)') = v - 1 /\ v <= workers /\ workers' = workers
    BY <1>1, <1>2, <1>3, <1>4, <1>7
  <2>2. CASE n >= MaxFailures
    <3>1. Locked(a)'
      BY <1>4, <1>5, <1>8, <2>2
    <3>2. CASE Locked(a)
      <4>1. k + v <= MaxFailures + workers - 1
        BY <1>9, <3>2
      <4> HIDE DEF k, v, n, w
      <4> QED
        BY <1>2, <2>1, <3>1, <4>1
    <3>3. CASE ~Locked(a)
      <4>1. k < MaxFailures
        BY <1>9, <3>3
      <4> HIDE DEF k, v, n, w
      <4> QED
        BY <1>2, <2>1, <3>1, <4>1
    <3> QED
      BY <3>2, <3>3
  <2>3. CASE n < MaxFailures
    <3>1. Locked(a)' <=> Locked(a)
      BY <1>2, <1>4, <1>8, <2>3
    <3>2. CASE Locked(a)
      <4>1. k + v <= MaxFailures + workers - 1
        BY <1>9, <3>2
      <4> HIDE DEF k, v, n, w
      <4> QED
        BY <1>2, <2>1, <3>1, <3>2, <4>1
    <3>3. CASE ~Locked(a)
      <4>1. k <= w.failed_logins
        BY <1>9, <3>3
      <4> HIDE DEF k, v, n, w
      <4> QED
        BY <1>2, <2>1, <2>3, <3>1, <3>3, <4>1
    <3> QED
      BY <3>2, <3>3
  <2> QED
    BY <1>2, <2>2, <2>3
<1>11. /\ \A u \in 1..MaxUsers : u \notin DOMAIN users' => guesses'[u] = 0 \/ u = a
       /\ \A u \in DOMAIN users' \ {a} :
            /\ ~Locked(u)' => guesses'[u] <= users'[u].failed_logins /\ guesses'[u] < MaxFailures
            /\ Locked(u)' => guesses'[u] + Cardinality(Verifying(u)') <= MaxFailures + workers' - 1
  <2> HIDE DEF g, w
  <2> QED
    BY <1>0, <1>1, OtherAccounts DEF LockInv
<1> QED
  BY <1>1, <1>3, <1>10, <1>11 DEF GuessInv

LEMMA GuessRight ==
  ASSUME TypesInv, LockInv, NEW t \in Threads, NEW h, Took(t, h), h.pc = "record",
         RightPassword(t)
  PROVE  GuessInv'
<1>0. PICK a : a = req[t].user
  OBVIOUS
<1> DEFINE x == [[users[a] EXCEPT !.failed_logins = 0] EXCEPT !.locked_until = 0]
<1>1. /\ req[t].pc = "verify" /\ a \in DOMAIN users
      /\ guesses' = [guesses EXCEPT ![a] = 0]
      /\ workers' = workers /\ now' = now
  BY <1>0 DEF RightPassword, Doing, LockInv, PaceInv, Took
<1>2. users' = [users EXCEPT ![a] = x]
  <2> DEFINE once == [users EXCEPT ![a].failed_logins = 0]
  <2>1. users' = [once EXCEPT ![a].locked_until = 0]
    BY <1>0 DEF RightPassword
  <2>2. once[a] = [users[a] EXCEPT !.failed_logins = 0]
    BY <1>1
  <2>3. users' = [once EXCEPT ![a] = x]
    BY <2>1, <2>2
  <2> HIDE DEF x
  <2> QED
    BY <2>3
<1>3. /\ users[a] \in Users /\ a \in 1..MaxUsers /\ now \in Nat /\ MaxFailures \in Nat \ {0}
  BY <1>1, UserFacts, Bounds
<1>4. x.failed_logins = 0 /\ x.locked_until = 0
  BY <1>3 DEF Users
<1> HIDE DEF x
<1>5. users'[a] = x /\ guesses'[a] = 0 /\ DOMAIN users' = DOMAIN users
  BY <1>1, <1>2, <1>3, UserFacts
<1>6. ~Locked(a)' /\ guesses'[a] <= users'[a].failed_logins /\ guesses'[a] < MaxFailures
  BY <1>1, <1>3, <1>4, <1>5 DEF Locked
<1>7. /\ \A u \in 1..MaxUsers : u \notin DOMAIN users' => guesses'[u] = 0 \/ u = a
      /\ \A u \in DOMAIN users' \ {a} :
           /\ ~Locked(u)' => guesses'[u] <= users'[u].failed_logins /\ guesses'[u] < MaxFailures
           /\ Locked(u)' => guesses'[u] + Cardinality(Verifying(u)') <= MaxFailures + workers' - 1
  BY <1>0, <1>1, <1>2, OtherAccounts DEF LockInv
<1> QED
  BY <1>5, <1>6, <1>7 DEF GuessInv

LEMMA GuessInsert ==
  ASSUME TypesInv, LockInv, NEW t \in Threads, NEW h, Took(t, h), h.pc = "record", InsertUser(t)
  PROVE  GuessInv'
<1>0. PICK n : n = Len(users) + 1
  OBVIOUS
<1> DEFINE x == NewUser(req[t].email, req[t].role)
<1>1. /\ users' = Append(users, x) /\ x.failed_logins = 0 /\ x.locked_until = 0
      /\ guesses' = guesses /\ workers' = workers /\ now' = now /\ req[t].pc = "insert"
  BY DEF InsertUser, NewUser, Doing
<1>2. /\ users \in Seq(Users) /\ DOMAIN users \subseteq 1..MaxUsers
      /\ now \in Nat /\ MaxFailures \in Nat \ {0}
  BY UserFacts, Bounds
<1>3. /\ DOMAIN users' = DOMAIN users \cup {n} /\ n \notin DOMAIN users /\ users'[n] = x
      /\ \A u \in DOMAIN users : users'[u] = users[u]
      /\ n \in 1..MaxUsers
  <2>1. Len(users) < MaxUsers
    BY DEF InsertUser
  <2> HIDE DEF x
  <2> QED
    BY <1>0, <1>1, <1>2, <2>1, Bounds
<1> HIDE DEF x
<1>4. ASSUME NEW u
      PROVE  Verifying(u)' = Verifying(u)
  BY <1>1, TookRequests DEF Verifying
<1>5. ~Locked(n)' /\ guesses'[n] <= users'[n].failed_logins /\ guesses'[n] < MaxFailures
  BY <1>1, <1>2, <1>3 DEF Locked, LockInv, GuessInv
<1>6. \A u \in DOMAIN users : Locked(u)' <=> Locked(u)
  BY <1>1, <1>3 DEF Locked
<1> QED
  BY <1>1, <1>3, <1>4, <1>5, <1>6 DEF LockInv, GuessInv

LEMMA GuessKept ==
  ASSUME TypesInv, LockInv, NEW t \in Threads, NEW h, Took(t, h), UNCHANGED <<users, guesses>>,
         Checked(h)
  PROVE  GuessInv'
<1>1. /\ req'[t] = h /\ \A u \in Threads \ {t} : req'[u] = req[u]
      /\ workers' = workers /\ now' = now /\ users' = users /\ guesses' = guesses
  BY TookRequests DEF Took
<1>2. DOMAIN users \subseteq 1..MaxUsers /\ guesses \in [1..MaxUsers -> Nat]
  BY UserFacts
<1>3. ASSUME NEW u \in DOMAIN users, Locked(u)
      PROVE  guesses[u] + Cardinality(Verifying(u)') <= MaxFailures + workers - 1
  <2>1. Verifying(u)' \subseteq Verifying(u)
    BY <1>1, <1>3 DEF Verifying, Checked
  <2>2. /\ Cardinality(Verifying(u)) \in Nat /\ Cardinality(Verifying(u)') \in Nat
        /\ Cardinality(Verifying(u)') <= Cardinality(Verifying(u))
    BY <2>1, VerifyingFinite, FS_Subset, FS_CardinalityType
  <2>3. guesses[u] + Cardinality(Verifying(u)) <= MaxFailures + workers - 1
    BY <1>3 DEF LockInv, GuessInv
  <2> QED
    BY <1>2, <2>2, <2>3, WorkersType, Bounds
<1>4. \A u \in DOMAIN users : Locked(u)' <=> Locked(u)
  BY <1>1 DEF Locked
<1> QED
  BY <1>1, <1>3, <1>4 DEF LockInv, GuessInv

LEMMA LockTick ==
  ASSUME TypesInv, LockInv, Tick
  PROVE  LockInv'
<1>1. /\ now' = now + 1 /\ UNCHANGED <<workers, users, req>>
      /\ now \in Nat /\ MaxFailures \in Nat \ {0}
  BY UserFacts, Bounds DEF Tick, store
<1>2. \A t \in Threads : req[t].pc # "idle" => now + 1 < req[t].since + LockTime
  BY DEF Tick, Busy, Doing
<1>3. PaceInv'
  BY <1>1, <1>2 DEF LockInv, PaceInv, Busy, Doing
<1>4. \A u \in 1..MaxUsers : guesses'[u] =
        IF u \in DOMAIN users /\ Locked(u) /\ users[u].locked_until = now + 1 THEN 0 ELSE guesses[u]
  BY DEF Tick
<1>5. \A u \in 1..MaxUsers : u \notin DOMAIN users' => guesses'[u] = 0
  BY <1>1, <1>4 DEF LockInv, GuessInv
<1>6. ASSUME NEW u \in DOMAIN users
      PROVE  /\ ~Locked(u)' => guesses'[u] <= users[u].failed_logins /\ guesses'[u] < MaxFailures
             /\ Locked(u)' => guesses'[u] + Cardinality(Verifying(u)') <= MaxFailures + workers - 1
  <2>1. /\ users[u].failed_logins \in Nat /\ users[u].locked_until \in Nat /\ u \in 1..MaxUsers
        /\ Verifying(u)' = Verifying(u)
    BY <1>1, UserFacts DEF Verifying
  <2>2. /\ Locked(u) <=> users[u].locked_until > now
        /\ Locked(u)' <=> users[u].locked_until > now + 1
    BY <1>1 DEF Locked
  <2>3. CASE Locked(u) /\ users[u].locked_until = now + 1
    BY <1>1, <1>4, <2>1, <2>2, <2>3
  <2>4. CASE ~(Locked(u) /\ users[u].locked_until = now + 1)
    <3>1. guesses'[u] = guesses[u] /\ (Locked(u)' <=> Locked(u))
      BY <1>1, <1>4, <2>1, <2>2, <2>4
    <3> QED
      BY <2>1, <3>1 DEF LockInv, GuessInv
  <2> QED
    BY <2>3, <2>4
<1>7. GuessInv'
  BY <1>1, <1>5, <1>6 DEF GuessInv
<1> QED
  BY <1>3, <1>7 DEF LockInv

LEMMA LockStep == TypesInv /\ LockInv /\ [ControlNext]_controlVars => LockInv'
<1> SUFFICES ASSUME TypesInv, LockInv, [ControlNext]_controlVars
             PROVE  LockInv'
  OBVIOUS
<1>1. CASE UNCHANGED controlVars
  BY <1>1 DEF controlVars, store, LockInv, PaceInv, GuessInv, Busy, Doing, Locked, Verifying
<1>2. CASE Tick
  BY <1>2, LockTick
<1>3. ASSUME NEW t \in Threads, Arrive(t) \/ Handle(t)
      PROVE  LockInv'
  <2>1. PICK h : Took(t, h)
    BY <1>3, EveryCall
  <2>2. PaceInv'
    BY <2>1, PaceTook DEF LockInv
  <2>3. GuessInv'
    BY <2>1, GuessKept, GuessWrong, GuessRight, GuessInsert DEF Took, Changes
  <2> QED
    BY <2>2, <2>3 DEF LockInv
<1> QED
  BY <1>1, <1>2, <1>3 DEF ControlNext

LEMMA LockInit == ControlInit => LockInv
<1> SUFFICES ASSUME ControlInit
             PROVE  LockInv
  OBVIOUS
<1>1. /\ \A t \in Threads : req[t].pc = "idle"
      /\ now = 1 /\ users = Seeds /\ guesses = [u \in 1..MaxUsers |-> 0]
      /\ TypesInv
  BY IdleOK, TypesInit DEF ControlInit
<1>2. Cardinality(Busy) = 0
  <2>1. Busy = {}
    BY <1>1 DEF Busy, Doing
  <2> QED
    BY <2>1, FS_EmptySet
<1>3. PaceInv
  BY <1>1, <1>2, WorkersType DEF PaceInv
<1>4. \A u \in DOMAIN users : users[u].failed_logins = 0 /\ users[u].locked_until = 0 /\ u \in 1..MaxUsers
  <2>1. \A u \in DOMAIN users : users[u].failed_logins = 0 /\ users[u].locked_until = 0
    BY <1>1 DEF Seeds, NewUser
  <2> QED
    BY <1>1, <2>1, UserFacts
<1>5. GuessInv
  BY <1>1, <1>4, Bounds DEF GuessInv, Locked
<1> QED
  BY <1>3, <1>5 DEF LockInv

\* The lockout bounds the guesses for any number of threads and any limits: MaxFailures wrong
\* passwords, and one for each other request that is handled at the time (authenticate).
THEOREM GuessingBounded == ControlSpec => []GuessesBounded
<1>1. ControlInit => TypesInv /\ LockInv
  BY TypesInit, LockInit
<1>2. TypesInv /\ LockInv /\ [ControlNext]_controlVars => TypesInv' /\ LockInv'
  BY TypesStep, LockStep
<1>3. TypesInv /\ LockInv => GuessesBounded
  <2> SUFFICES ASSUME TypesInv, LockInv, NEW u \in 1..MaxUsers
               PROVE  guesses[u] <= MaxFailures + workers - 1
    BY DEF GuessesBounded
  <2>1. /\ workers \in Nat /\ workers >= 1 /\ MaxFailures \in Nat \ {0}
        /\ guesses[u] \in Nat /\ Cardinality(Verifying(u)) \in Nat
    BY WorkersType, Bounds, UserFacts, VerifyingFinite
  <2> QED
    BY <2>1 DEF LockInv, GuessInv
<1> QED
  BY <1>1, <1>2, <1>3, PTL DEF ControlSpec

=============================================================================
