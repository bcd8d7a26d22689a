---------------------------- MODULE ControlPlane ----------------------------
(***************************************************************************)
(* The authenticated control plane (services/control_plane.py) with the    *)
(* in-memory AuditHashChain of services/durable_security.py, as the        *)
(* handlers of main.py call them: login, user creation, AI drafts, reads,  *)
(* logout, and the audit that trading handlers write.                      *)
(*                                                                         *)
(* The endpoints are plain functions which the server runs in a thread     *)
(* pool.  A thread is switched out at a call or at a turn of a loop, so a  *)
(* step here ends before a call that another thread's work can overtake:   *)
(* a scan of the users, the hashing of a password, each part of an audit   *)
(* append.                                                                 *)
(*                                                                         *)
(* A user is its place in `users', a session token its place in            *)
(* `sessions', a draft its place in `drafts', an audit record its place in *)
(* `records'.  A hash is the history it commits to.  Passwords are right   *)
(* or wrong, prompts risky or not.  Users are never deactivated and        *)
(* nothing is removed, as in the code.                                     *)
(***************************************************************************)
EXTENDS Naturals, Sequences, FiniteSets

CONSTANTS
  Threads,         \* the threads of the pool
  NewEmails,       \* emails of users that may be created
  MaxFailures,     \* failed logins that lock an account: 5
  LockTime,        \* how long it is locked: 15 minutes
  SessionTime,     \* how long a session lasts: 8 hours
  Logins,          \* bound of the model: the emails that requests log in with
  MaxTime,         \* bound of the model: clock ticks
  MaxRecords,      \* bound of the model: audit records
  MaxUsers         \* bound of the model: users, the seeds included

ASSUME ThreadsAssumption == IsFiniteSet(Threads) /\ Threads # {}
ASSUME TimesAssumption == MaxFailures \in Nat \ {0} /\ LockTime \in Nat \ {0} /\ SessionTime \in Nat
ASSUME ControlBoundsAssumption == {MaxTime, MaxRecords, MaxUsers} \subseteq Nat /\ MaxUsers >= 4

Roles == {"SUPER_ADMIN", "ADMIN", "TRADER", "VIEWER"}

\* ROLE_PERMISSIONS
Permissions == [
  SUPER_ADMIN |-> {"users:manage", "bots:control", "ai:request", "ai:approve", "audit:read"},
  ADMIN |-> {"users:create", "bots:control", "ai:request", "ai:approve", "audit:read"},
  TRADER |-> {"bots:view", "bots:control", "ai:request"},
  VIEWER |-> {"bots:view"}]

Emails == Roles \cup NewEmails     \* the email of a seeded user names its role

ASSUME LoginsAssumption == Logins \subseteq Emails

NewUser(email, role) == [email |-> email, role |-> role, failed_logins |-> 0, locked_until |-> 0]

\* _seed_users
Seeds == <<NewUser("SUPER_ADMIN", "SUPER_ADMIN"), NewUser("ADMIN", "ADMIN"),
           NewUser("TRADER", "TRADER"), NewUser("VIEWER", "VIEWER")>>

VARIABLES
  workers,    \* how many requests the deployment handles at a time
  now,        \* the clock
  users,      \* self.users
  sessions,   \* self.sessions
  drafts,     \* self.drafts
  records,    \* self.audit_records: the action of each
  auditChain, \* self.audit_chain._entries
  req,        \* the request of each thread
  guesses     \* wrong passwords compared for each user since the account was last free:
              \* since its creation, the last login, or the end of the last lock

store == <<users, sessions, drafts>>
log == <<records, auditChain>>
controlVars == <<workers, now, store, log, req, guesses>>

-----------------------------------------------------------------------------
(* pc        the next step                                                 *)
(* user      the account of a login, or the actor                          *)
(* right     whether the password given is the right one                   *)
(* since     when the request captured the clock                           *)
(* email, role, risky, draft  what is asked for                            *)
(* size      the number of users when a scan began                         *)
(* action    what is about to be audited, then the number of its record    *)
(* previous, sequence  what append read of the chain                       *)

Idle == [pc |-> "idle", user |-> 0, right |-> FALSE, since |-> 0, email |-> "VIEWER",
         role |-> "VIEWER", risky |-> FALSE, size |-> 0, action |-> "none",
         record |-> 0, previous |-> <<>>, sequence |-> 0]

Doing(t, label) == req[t].pc = label
Busy == {t \in Threads : ~Doing(t, "idle")}
Actor(t) == users[req[t].user]
Continue(t, r) == req' = [req EXCEPT ![t] = r]
Goto(t, label) == Continue(t, [req[t] EXCEPT !.pc = label])
Finish(t) == Continue(t, Idle)
Audit(t, action) ==
  Continue(t, [Idle EXCEPT !.pc = "record", !.action = action, !.since = req[t].since])

ControlInit ==
  /\ workers \in 1..Cardinality(Threads)
  /\ now = 1
  /\ users = Seeds
  /\ sessions = <<>> /\ drafts = <<>>
  /\ records = <<>> /\ auditChain = <<>>
  /\ req = [t \in Threads |-> Idle]
  /\ guesses = [u \in 1..MaxUsers |-> 0]

\* A thread takes up a request.
Accept(t, r) ==
  /\ Doing(t, "idle")
  /\ Cardinality(Busy) < workers
  /\ Len(records) + Cardinality(Busy) < MaxRecords
  /\ Continue(t, r)
  /\ UNCHANGED <<workers, now, store, log, guesses>>

Locked(u) == users[u].locked_until > now

\* Time passes, but no request takes as long as a lock.
Tick ==
  /\ now < MaxTime
  /\ \A t \in Busy : now + 1 < req[t].since + LockTime
  /\ now' = now + 1
  /\ guesses' = [u \in 1..MaxUsers |->
       IF u \in DOMAIN users /\ Locked(u) /\ users[u].locked_until = now + 1
       THEN 0 ELSE guesses[u]]
  /\ UNCHANGED <<workers, store, log, req>>

-----------------------------------------------------------------------------
(* Scans of the users by email.  A scan raises RuntimeError when a user    *)
(* was inserted before it reached its end, or the user it looks for.       *)

WithEmail(email) == {u \in DOMAIN users : users[u].email = email}
First(U) == CHOOSE u \in U : \A v \in U : u <= v

Grew(t) == Len(users) # req[t].size
Found(t) == WithEmail(req[t].email) # {}

-----------------------------------------------------------------------------
(* authenticate                                                            *)

Login(t, email, right) ==
  Accept(t, [Idle EXCEPT !.pc = "find", !.email = email, !.right = right,
                         !.since = now, !.size = Len(users)])

\* A locked account is not refused.
FaultyFindUser(t) ==
  /\ Doing(t, "find")
  /\ IF ~Found(t)
     THEN Audit(t, "LOGIN_FAILED")
     ELSE Continue(t, [Idle EXCEPT !.pc = "verify", !.user = First(WithEmail(req[t].email)),
                                   !.since = now, !.right = req[t].right])
  /\ UNCHANGED <<workers, now, store, log, guesses>>

\* The user is looked up and the clock read; an unknown user and a locked account are refused.
FindUser(t) ==
  /\ Doing(t, "find")
  /\ \/ Grew(t) /\ Finish(t)
     \/ ~Grew(t) /\ ~Found(t) /\ Audit(t, "LOGIN_FAILED")
     \/ /\ Found(t)
        /\ LET u == First(WithEmail(req[t].email)) IN
           IF Locked(u)
           THEN Audit(t, "LOGIN_FAILED")
           ELSE Continue(t, [Idle EXCEPT !.pc = "verify", !.user = u, !.since = now,
                                         !.right = req[t].right])
  /\ UNCHANGED <<workers, now, store, log, guesses>>

\* A wrong password for a user, in a request that read the clock before.
Failed(u, since) ==
  [u EXCEPT !.failed_logins = @ + 1,
            !.locked_until = IF u.failed_logins + 1 >= MaxFailures
                             THEN since + LockTime ELSE @]

WrongPassword(t) ==
  /\ Doing(t, "verify") /\ ~req[t].right
  /\ users' = [users EXCEPT ![req[t].user] = Failed(@, req[t].since)]
  /\ guesses' = [guesses EXCEPT ![req[t].user] = @ + 1]
  /\ Audit(t, "LOGIN_FAILED")
  /\ UNCHANGED <<workers, now, sessions, drafts, log>>

RightPassword(t) ==
  /\ Doing(t, "verify") /\ req[t].right
  /\ users' = [users EXCEPT ![req[t].user].failed_logins = 0, ![req[t].user].locked_until = 0]
  /\ sessions' = Append(sessions, [user |-> req[t].user, expires |-> req[t].since + SessionTime])
  /\ guesses' = [guesses EXCEPT ![req[t].user] = 0]
  /\ Audit(t, "LOGIN_SUCCEEDED")
  /\ UNCHANGED <<workers, now, drafts, log>>

-----------------------------------------------------------------------------
(* Requests with a session: session_user, then the handler.                *)

\* A request whose token is valid; others end with 401 and change nothing.
Authorized(t, s, r) ==
  /\ s \in DOMAIN sessions
  /\ sessions[s].expires > now
  /\ Accept(t, [r EXCEPT !.user = sessions[s].user, !.since = now])

May(t, permission) == permission \in Permissions[Actor(t).role]

\* require: without the permission the denial is audited, and the request ends.
Require(t, permission, granted) ==
  IF May(t, permission) THEN granted ELSE Audit(t, "AUTHORIZATION_DENIED")

CreateUser(t, s, email, role) ==
  Authorized(t, s, [Idle EXCEPT !.pc = "create", !.email = email, !.role = role])

RequestDraft(t, s, risky) == Authorized(t, s, [Idle EXCEPT !.pc = "draft", !.risky = risky])
ApproveDraft(t, s) == Authorized(t, s, [Idle EXCEPT !.pc = "approve"])
Inspect(t, s) == Authorized(t, s, [Idle EXCEPT !.pc = "read"])
Logout(t, s) == Authorized(t, s, [Idle EXCEPT !.pc = "record", !.action = "LOGOUT"])

\* The trading handlers need no session.  When the engine has answered (TradingPlatform)
\* they audit the start, the stop, the emergency stop or the scenario.
TradingControl(t) ==
  Accept(t, [Idle EXCEPT !.pc = "record", !.action = "TRADING_CONTROL", !.since = now])

\* create_user: the permission, then the scan for the email begins.  Admins may create
\* traders and viewers only.
CheckCreate(t) ==
  /\ Doing(t, "create")
  /\ LET scan == Continue(t, [req[t] EXCEPT !.pc = "scan", !.size = Len(users)]) IN
     IF Actor(t).role = "SUPER_ADMIN"
     THEN Require(t, "users:manage", scan)
     ELSE Require(t, "users:create",
                  IF req[t].role \in {"SUPER_ADMIN", "ADMIN"} THEN Finish(t) ELSE scan)
  /\ UNCHANGED <<workers, now, store, log, guesses>>

\* The scan ends; the password is hashed next.
ScanEmails(t) ==
  /\ Doing(t, "scan")
  /\ \/ (Grew(t) \/ Found(t)) /\ Finish(t)
     \/ ~Grew(t) /\ ~Found(t) /\ Continue(t, [req[t] EXCEPT !.pc = "insert", !.size = 0])
  /\ UNCHANGED <<workers, now, store, log, guesses>>

InsertUser(t) ==
  /\ Doing(t, "insert")
  /\ Len(users) < MaxUsers
  /\ users' = Append(users, NewUser(req[t].email, req[t].role))
  /\ Audit(t, "USER_CREATED")
  /\ UNCHANGED <<workers, now, sessions, drafts, log, guesses>>

\* create_draft: of the proposed values only those matter that approve_draft refuses.
NewDraft(risky) == [risky |-> risky, status |-> "DRAFT"]

\* The draft is stored before the permission is checked.
FaultyInsertDraft(t) ==
  /\ Doing(t, "draft")
  /\ Require(t, "ai:request", Audit(t, "AI_STRATEGY_GENERATED"))
  /\ drafts' = Append(drafts, NewDraft(req[t].risky))
  /\ UNCHANGED <<workers, now, users, sessions, log, guesses>>

\* request_ai_draft
InsertDraft(t) ==
  /\ Doing(t, "draft")
  /\ Require(t, "ai:request", Audit(t, "AI_STRATEGY_GENERATED"))
  /\ drafts' = IF May(t, "ai:request")
               THEN Append(drafts, NewDraft(req[t].risky)) ELSE drafts
  /\ UNCHANGED <<workers, now, users, sessions, log, guesses>>

\* approve_draft: leverage 50 or a stop loss of 0% breaks the hard limits.
Verdict(d) == IF drafts[d].risky THEN "REJECTED" ELSE "APPROVED"

\* approve_draft: the permission, an unknown draft (KeyError), the verdict.
DecideDraft(t) ==
  /\ Doing(t, "approve")
  /\ \/ /\ Require(t, "ai:approve", Finish(t))
        /\ UNCHANGED drafts
     \/ \E d \in DOMAIN drafts :
          /\ May(t, "ai:approve")
          /\ drafts' = [drafts EXCEPT ![d].status = Verdict(d)]
          /\ Audit(t, IF Verdict(d) = "REJECTED" THEN "AI_STRATEGY_REJECTED" ELSE "AI_STRATEGY_APPROVED")
  /\ UNCHANGED <<workers, now, users, sessions, log, guesses>>

\* audit_log, verify_audit_log, list_users and list_drafts: nothing changes but for the
\* audit of a denial.
Read(t) ==
  /\ Doing(t, "read")
  /\ \E permission \in {"audit:read", "users:manage", "ai:request"} :
       Require(t, permission, Finish(t))
  /\ UNCHANGED <<workers, now, store, log, guesses>>

-----------------------------------------------------------------------------
(* audit, then AuditHashChain.append.                                      *)

Hash(e) == Append(e.previous_hash, e.event)

AppendRecord(t) ==
  /\ Doing(t, "record")
  /\ records' = Append(records, req[t].action)
  /\ Continue(t, [req[t] EXCEPT !.pc = "tail", !.action = "none", !.record = Len(records) + 1])
  /\ UNCHANGED <<workers, now, store, auditChain, guesses>>

\* The hash of the first entry is taken.
FaultyReadTail(t) ==
  /\ Doing(t, "tail")
  /\ Continue(t, [req[t] EXCEPT !.pc = "length",
                    !.previous = IF auditChain = <<>> THEN <<>> ELSE Hash(auditChain[1])])
  /\ UNCHANGED <<workers, now, store, log, guesses>>

ReadTail(t) ==
  /\ Doing(t, "tail")
  /\ Continue(t, [req[t] EXCEPT !.pc = "length",
                    !.previous = IF auditChain = <<>> THEN <<>> ELSE Hash(auditChain[Len(auditChain)])])
  /\ UNCHANGED <<workers, now, store, log, guesses>>

\* The sequence counts from zero.
FaultyReadLength(t) ==
  /\ Doing(t, "length")
  /\ Continue(t, [req[t] EXCEPT !.pc = "append", !.sequence = Len(auditChain)])
  /\ UNCHANGED <<workers, now, store, log, guesses>>

ReadLength(t) ==
  /\ Doing(t, "length")
  /\ Continue(t, [req[t] EXCEPT !.pc = "append", !.sequence = Len(auditChain) + 1])
  /\ UNCHANGED <<workers, now, store, log, guesses>>

Entry(t) == [sequence |-> req[t].sequence, previous_hash |-> req[t].previous,
             event |-> req[t].record]

\* The entry is put at the place its sequence names.
FaultyAppendEntry(t) ==
  /\ Doing(t, "append")
  /\ auditChain' = Append(SubSeq(auditChain, 1, req[t].sequence - 1), Entry(t))
  /\ Finish(t)
  /\ UNCHANGED <<workers, now, store, records, guesses>>

AppendEntry(t) ==
  /\ Doing(t, "append")
  /\ auditChain' = Append(auditChain, Entry(t))
  /\ Finish(t)
  /\ UNCHANGED <<workers, now, store, records, guesses>>

-----------------------------------------------------------------------------

Arrive(t) ==
  \/ \E email \in Logins, right \in BOOLEAN : Login(t, email, right)
  \/ TradingControl(t)
  \/ \E s \in DOMAIN sessions :
       \/ \E email \in NewEmails, role \in Roles : CreateUser(t, s, email, role)
       \/ \E risky \in BOOLEAN : RequestDraft(t, s, risky)
       \/ ApproveDraft(t, s) \/ Inspect(t, s) \/ Logout(t, s)

Handle(t) ==
  \/ FindUser(t) \/ WrongPassword(t) \/ RightPassword(t)
  \/ CheckCreate(t) \/ ScanEmails(t) \/ InsertUser(t)
  \/ InsertDraft(t) \/ DecideDraft(t) \/ Read(t)
  \/ AppendRecord(t) \/ ReadTail(t) \/ ReadLength(t) \/ AppendEntry(t)

ControlNext == Tick \/ \E t \in Threads : Arrive(t) \/ Handle(t)

ControlSpec == ControlInit /\ [][ControlNext]_controlVars

-----------------------------------------------------------------------------
(* Properties.                                                             *)

Labels == {"idle", "find", "verify", "create", "scan", "insert", "draft", "approve", "read",
           "record", "tail", "length", "append"}
Actions == {"LOGIN_FAILED", "LOGIN_SUCCEEDED", "LOGOUT", "AUTHORIZATION_DENIED", "USER_CREATED",
            "AI_STRATEGY_GENERATED", "AI_STRATEGY_APPROVED", "AI_STRATEGY_REJECTED",
            "TRADING_CONTROL"}

Users == [email : Emails, role : Roles, failed_logins : Nat, locked_until : Nat]
IssuedSessions == [user : 1..MaxUsers, expires : Nat]
Drafts == [risky : BOOLEAN, status : {"DRAFT", "APPROVED", "REJECTED", "ACTIVE"}]
Requests ==
  [pc : Labels, user : 0..MaxUsers, right : BOOLEAN, since : Nat, email : Emails, role : Roles,
   risky : BOOLEAN, size : Nat, action : Actions \cup {"none"}, record : Nat,
   previous : Seq(Nat \ {0}), sequence : Nat]

ControlTypeOK ==
  /\ workers \in 1..Cardinality(Threads) /\ now \in Nat
  /\ users \in Seq(Users) /\ Len(users) \in 4..MaxUsers
  /\ sessions \in Seq(IssuedSessions)
  /\ drafts \in Seq(Drafts)
  /\ records \in Seq(Actions)
  /\ auditChain \in Seq([sequence : Nat \ {0}, previous_hash : Seq(Nat \ {0}), event : Nat \ {0}])
  /\ req \in [Threads -> Requests]
  /\ guesses \in [1..MaxUsers -> Nat]

Count(action) == Cardinality({i \in DOMAIN records : records[i] = action})
Auditing(action) == Cardinality({t \in Threads : Doing(t, "record") /\ req[t].action = action})

\* Nothing happens unrecorded: users, sessions and drafts are as many as the audit records
\* that tell of them and the requests about to write one (create_user, authenticate,
\* request_ai_draft).
EverythingIsAudited ==
  /\ Len(users) - Len(Seeds) = Count("USER_CREATED") + Auditing("USER_CREATED")
  /\ Len(sessions) = Count("LOGIN_SUCCEEDED") + Auditing("LOGIN_SUCCEEDED")
  /\ Len(drafts) = Count("AI_STRATEGY_GENERATED") + Auditing("AI_STRATEGY_GENERATED")

Chained == {auditChain[i].event : i \in DOMAIN auditChain}
Chaining == {req[t].record : t \in {r \in Threads : req[r].pc \in {"tail", "length", "append"}}}

\* No record is lost to a race of two appends: every audit record has one entry in the
\* chain, or a request that is about to write it (ControlPlane.audit).
NoRecordIsLost ==
  /\ Chained \cup Chaining = DOMAIN records
  /\ Chained \cap Chaining = {}
  /\ Len(auditChain) = Cardinality(Chained)

\* AuditHashChain.verify
VerifyAudit ==
  \A i \in DOMAIN auditChain :
    /\ auditChain[i].sequence = i
    /\ auditChain[i].previous_hash = (IF i = 1 THEN <<>> ELSE Hash(auditChain[i - 1]))

EmailsUnique == \A u, v \in DOMAIN users : users[u].email = users[v].email => u = v

\* Handled one at a time, requests keep the audit chain without a fork, which verify would
\* find, and create no second user with an email, whom authenticate would never find (audit,
\* create_user).
SerialRequestsAreSound == workers = 1 => VerifyAudit /\ EmailsUnique

\* Between a login or the end of a lock and the next lock, no more than MaxFailures wrong
\* passwords are compared for an account, and one more for each request that was past the
\* check of the lock when the lock came (authenticate).
GuessesBounded == \A u \in 1..MaxUsers : guesses[u] <= MaxFailures + workers - 1

=============================================================================
