------------------------------ MODULE Accounts ------------------------------
(***************************************************************************)
(* User accounts: services/auth_service.py behind the routes of            *)
(* api/v1/routes/auth.py.  A request loads a row into its session, changes *)
(* the object and commits; the ORM writes the columns whose value differs  *)
(* from the one it loaded.  Requests interleave between load and commit.   *)
(* Passwords, addresses and tokens are values; a new password is always a  *)
(* fresh one.  Refresh tokens are in RefreshSessions.                      *)
(***************************************************************************)
EXTENDS Naturals, FiniteSets

CONSTANTS
    Accounts,      \* ids of rows
    Addresses,     \* e-mail addresses, which serve as user names too
    Calls,         \* requests that may be in progress at the same time
    MaxPasswords,  \* bound: passwords ever chosen
    MaxMails,      \* bound: mails ever sent
    Deployments,   \* settings of a deployment, see Deployment
    Nobody         \* no row, no value

VARIABLES
    deployment,    \* the settings in force
    account,       \* rows of users, or Nobody
    inbox,         \* tokens mailed and not expired
    access,        \* accounts with a live access token
    call,          \* what each request is doing
    passwords,     \* how many passwords have been chosen
    mails,         \* how many mails have been sent
    replaced       \* history: for each account, the passwords it no longer has

accountVars == <<deployment, account, inbox, access, call, passwords, mails,
                 replaced>>

Deployment == [defaultActive : BOOLEAN, mailOnRegister : BOOLEAN, requireActive : BOOLEAN,
               requireVerified : BOOLEAN, verifyActivates : BOOLEAN]

Password == 0..MaxPasswords
Row == [name : Addresses, address : Addresses, password : Password, active : BOOLEAN,
        verified : BOOLEAN]
Token == [kind : {"reset", "verify"}, sub : Addresses \union Accounts]

ASSUME AccountsAssumption ==
    /\ MaxPasswords \in Nat
    /\ MaxMails \in Nat
    /\ Deployments \subseteq Deployment
    /\ Nobody \notin Accounts
    /\ Nobody \notin Row

\* A request: its place, the account, the row it loaded and what it wants the row
\* to be.
Call == [pc : {"idle", "insert", "mail", "save"}, who : Accounts \union {Nobody},
         loaded : Row \union {Nobody}, wanted : Row \union {Nobody}]
NoCall == [pc |-> "idle", who |-> Nobody, loaded |-> Nobody, wanted |-> Nobody]

AccountsTypeOK ==
    /\ deployment \in Deployment
    /\ account \in [Accounts -> Row \union {Nobody}]
    /\ inbox \subseteq Token
    /\ access \subseteq Accounts
    /\ call \in [Calls -> Call]
    /\ passwords \in Password
    /\ mails \in 0..MaxMails
    /\ replaced \in [Accounts -> SUBSET Password]

AccountsInit ==
    /\ deployment \in Deployments
    /\ account = [u \in Accounts |-> Nobody]
    /\ inbox = {}
    /\ access = {}
    /\ call = [c \in Calls |-> NoCall]
    /\ passwords = 0
    /\ mails = 0
    /\ replaced = [u \in Accounts |-> {}]

Registered == {u \in Accounts : account[u] # Nobody}
Idle(c) == call[c] = NoCall
Answer(c) == call' = [call EXCEPT ![c] = NoCall]

\* get_user_by_email and get_user_by_username: at most one row, by the constraints.
WithAddress(a) == {u \in Registered : account[u].address = a}
WithName(a) == {u \in Registered : account[u].name = a}

\* The unique constraints of the table, for a row of u.
Unique(u, row) ==
    \A v \in Registered \ {u} : account[v].address # row.address /\ account[v].name # row.name

-----------------------------------------------------------------------------
(* Registration: two lookups, an insert that the constraints may refuse,   *)
(* and the verification mail.                                              *)

Register(c) ==
    /\ Idle(c)
    /\ passwords < MaxPasswords
    /\ \E name, address \in Addresses :
          /\ WithAddress(address) = {}
          /\ WithName(name) = {}
          /\ call' = [call EXCEPT ![c].pc = "insert",
                        ![c].wanted = [name |-> name, address |-> address,
                                       password |-> passwords + 1,
                                       active |-> deployment.defaultActive,
                                       verified |-> FALSE]]
    /\ passwords' = passwords + 1
    /\ UNCHANGED <<deployment, account, inbox, access, mails, replaced>>

CreateUser(c) ==
    /\ call[c].pc = "insert"
    /\ \/ /\ Unique(Nobody, call[c].wanted)
          /\ \E u \in Accounts \ Registered :
                /\ account' = [account EXCEPT ![u] = call[c].wanted]
                /\ IF deployment.mailOnRegister
                   THEN call' = [call EXCEPT ![c] = [NoCall EXCEPT !.pc = "mail", !.who = u,
                                                       !.loaded = call[c].wanted]]
                   ELSE Answer(c)
       \/ ~Unique(Nobody, call[c].wanted) /\ Answer(c) /\ UNCHANGED account
    /\ UNCHANGED <<deployment, inbox, access, passwords, mails, replaced>>

\* A mail is queued, or the queue cannot be reached and the error is swallowed.
Mail(token) ==
    \/ mails < MaxMails /\ mails' = mails + 1 /\ inbox' = inbox \union {token}
    \/ UNCHANGED <<mails, inbox>>

SendVerificationEmail(c) ==
    /\ call[c].pc = "mail"
    /\ Mail([kind |-> "verify", sub |-> call[c].who])
    /\ Answer(c)
    /\ UNCHANGED <<deployment, account, access, passwords, replaced>>

-----------------------------------------------------------------------------
(* Requests of somebody without an access token.                           *)

\* Somebody who knows the password gets a token.
SignIn(u) ==
    /\ u \in Registered \ access
    /\ deployment.requireActive => account[u].active
    /\ deployment.requireVerified => account[u].verified
    /\ access' = access \union {u}
    /\ UNCHANGED <<deployment, account, inbox, call, passwords, mails, replaced>>

ForgotPassword(a) ==
    /\ WithAddress(a) # {}
    /\ Mail([kind |-> "reset", sub |-> a])
    /\ UNCHANGED <<deployment, account, access, call, passwords, replaced>>

RequestVerificationEmail(a) ==
    /\ \E u \in WithAddress(a) : Mail([kind |-> "verify", sub |-> u])
    /\ UNCHANGED <<deployment, account, access, call, passwords, replaced>>

\* The request c has u's row in its session and wants it changed.
Load(c, u, wanted) ==
    call' = [call EXCEPT ![c] = [pc |-> "save", who |-> u, loaded |-> account[u],
                                 wanted |-> wanted]]

ResetPassword(c) ==
    /\ Idle(c)
    /\ passwords < MaxPasswords
    /\ \E t \in inbox : /\ t.kind = "reset"
                        /\ \E u \in WithAddress(t.sub) :
                              Load(c, u, [account[u] EXCEPT !.password = passwords + 1])
    /\ passwords' = passwords + 1
    /\ UNCHANGED <<deployment, account, inbox, access, mails, replaced>>

VerifyEmail(c) ==
    /\ Idle(c)
    /\ \E t \in inbox : /\ t.kind = "verify"
                        /\ Load(c, t.sub, [account[t.sub] EXCEPT !.verified = TRUE,
                                              !.active = @ \/ deployment.verifyActivates])
    /\ UNCHANGED <<deployment, account, inbox, access, passwords, mails, replaced>>

-----------------------------------------------------------------------------
(* Requests with an access token.                                          *)

\* get_current_active_user; the session is the handler's own.
ActiveUser(u) == u \in access /\ account[u].active

\* The current password has been given.
ChangePassword(c, u) ==
    /\ Idle(c)
    /\ ActiveUser(u)
    /\ passwords < MaxPasswords
    /\ Load(c, u, [account[u] EXCEPT !.password = passwords + 1])
    /\ passwords' = passwords + 1
    /\ UNCHANGED <<deployment, account, inbox, access, mails, replaced>>

UpdateProfile(c, u) ==
    /\ Idle(c)
    /\ ActiveUser(u)
    /\ \E a \in Addresses : Load(c, u, [account[u] EXCEPT !.address = a])
    /\ UNCHANGED <<deployment, account, inbox, access, passwords, mails, replaced>>

\* activate_user and deactivate_user, which the application that uses the service calls.
SetActive(c, u) ==
    /\ Idle(c)
    /\ u \in Registered
    /\ \E active \in BOOLEAN : Load(c, u, [account[u] EXCEPT !.active = active])
    /\ UNCHANGED <<deployment, account, inbox, access, passwords, mails, replaced>>

-----------------------------------------------------------------------------
(* The commit.                                                             *)

\* Mutant of Merged: the whole object is written.
MergedWhole(c) == call[c].wanted

\* The row after the columns that differ from the loaded ones have been written.
Merged(c) ==
    LET old == account[call[c].who]
    IN [f \in DOMAIN old |->
          IF call[c].wanted[f] # call[c].loaded[f] THEN call[c].wanted[f] ELSE old[f]]

\* An address that another row has is refused by the constraint.
CommitCall(c) ==
    /\ call[c].pc = "save"
    /\ LET u == call[c].who
           old == account[u]
           new == Merged(c)
       IN \/ /\ Unique(u, new)
             /\ account' = [account EXCEPT ![u] = new]
             /\ replaced' = [replaced EXCEPT
                               ![u] = IF new.password # old.password THEN @ \union {old.password}
                                      ELSE @]
          \/ ~Unique(u, new) /\ UNCHANGED <<account, replaced>>
    /\ Answer(c)
    /\ UNCHANGED <<deployment, inbox, access, passwords, mails>>

\* Tokens expire.
ExpireMailed == /\ \E t \in inbox : inbox' = inbox \ {t}
                /\ UNCHANGED <<deployment, account, access, call, passwords, mails, replaced>>
ExpireAccess(u) == /\ u \in access
                   /\ access' = access \ {u}
                   /\ UNCHANGED <<deployment, account, inbox, call, passwords, mails, replaced>>

AccountsNext ==
    \/ \E c \in Calls : \/ Register(c) \/ CreateUser(c) \/ SendVerificationEmail(c)
                        \/ ResetPassword(c) \/ VerifyEmail(c) \/ CommitCall(c)
    \/ \E c \in Calls, u \in Accounts : ChangePassword(c, u) \/ UpdateProfile(c, u) \/ SetActive(c, u)
    \/ \E u \in Accounts : SignIn(u) \/ ExpireAccess(u)
    \/ \E a \in Addresses : ForgotPassword(a) \/ RequestVerificationEmail(a)
    \/ ExpireMailed

AccountsSpec == AccountsInit /\ [][AccountsNext]_accountVars

-----------------------------------------------------------------------------
(* Properties.                                                             *)

\* A password that was changed or reset never opens the account again: no profile update,
\* verification, (de)activation or second change that loaded the row before puts it back
\* (AuthService commits what it changed, not the object it loaded).
PasswordsStayReplaced == \A u \in Registered : account[u].password \notin replaced[u]
=============================================================================
