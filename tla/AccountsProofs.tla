--------------------------- MODULE AccountsProofs ---------------------------
(***************************************************************************)
(* Proofs about Accounts, for any number of accounts, addresses and        *)
(* requests in progress.                                                   *)
(***************************************************************************)
EXTENDS Accounts, TLAPS

\* The request c is about to store a password that is not the one it loaded.
Replacing(c) == call[c].pc = "save" /\ call[c].wanted.password # call[c].loaded.password

\* Requests have loaded rows of accounts that are there, and passwords are numbered as they
\* are chosen.
CallsOK ==
    \A c \in Calls :
        /\ call[c].pc = "insert" => /\ call[c].wanted \in Row
                                    /\ call[c].wanted.password <= passwords
        /\ call[c].pc = "mail" => call[c].who \in Registered
        /\ call[c].pc = "save" => /\ call[c].who \in Registered
                                  /\ call[c].loaded \in Row
                                  /\ call[c].wanted \in Row
                                  /\ call[c].wanted.password <= passwords

RowsOK ==
    /\ \A u \in Registered : account[u].password <= passwords
    /\ \A u \in Accounts : \A p \in replaced[u] : p <= passwords
    /\ \A u \in Accounts \ Registered : replaced[u] = {}

TokensOK ==
    /\ access \subseteq Registered
    /\ \A t \in inbox : t.kind = "verify" => t.sub \in Registered

\* A password about to be stored is neither in force nor replaced, and no other request is
\* about to store it.
FreshOK ==
    \A c \in Calls : Replacing(c) =>
        /\ call[c].wanted.password # account[call[c].who].password
        /\ call[c].wanted.password \notin replaced[call[c].who]
        /\ \A d \in Calls \ {c} : Replacing(d) =>
              call[c].wanted.password # call[d].wanted.password

IInv == AccountsTypeOK /\ CallsOK /\ RowsOK /\ TokensOK /\ FreshOK /\ PasswordsStayReplaced

-----------------------------------------------------------------------------
(* What the commit writes.                                                 *)

\* The row that a commit leaves is a row, with the password that the request chose or else
\* the one in force (the ORM writes the columns that differ from the loaded ones).
LEMMA MergedRow ==
    ASSUME NEW c \in Calls, call[c].who \in Registered, account \in [Accounts -> Row \union {Nobody}],
           call[c].loaded \in Row, call[c].wanted \in Row
    PROVE  /\ Merged(c) \in Row
           /\ Merged(c).password = IF call[c].wanted.password # call[c].loaded.password
                                   THEN call[c].wanted.password
                                   ELSE account[call[c].who].password
  <1> DEFINE old == account[call[c].who]
             want == call[c].wanted
             had == call[c].loaded
             Given(f) == IF want[f] # had[f] THEN want[f] ELSE old[f]
  <1>1. old \in Row
    BY DEF Registered
  <1>2. DOMAIN old = {"name", "address", "password", "active", "verified"}
    BY <1>1 DEF Row
  <1>3. Merged(c) = [f \in {"name", "address", "password", "active", "verified"} |-> Given(f)]
    BY <1>2 DEF Merged
  <1>4. Merged(c) = [name |-> Given("name"), address |-> Given("address"), password |-> Given("password"),
                     active |-> Given("active"), verified |-> Given("verified")]
    BY <1>3
  <1>5. /\ Given("name") \in Addresses /\ Given("address") \in Addresses
        /\ Given("password") \in Password
        /\ Given("active") \in BOOLEAN /\ Given("verified") \in BOOLEAN
    BY <1>1 DEF Row
  <1> QED
    BY <1>4, <1>5 DEF Row

-----------------------------------------------------------------------------
(* The invariant.                                                          *)

\* It holds at the start.
LEMMA InitInv == AccountsInit => IInv
  BY AccountsAssumption
  DEF AccountsInit, IInv, AccountsTypeOK, CallsOK, RowsOK, TokensOK, FreshOK,
      PasswordsStayReplaced, Replacing, Registered, NoCall, Call, Password

\* A request that loads a row of u and wants another, with its own or a new password.
LEMMA LoadInv ==
    ASSUME IInv, NEW c \in Calls, Idle(c), NEW u \in Registered, NEW wanted \in Row,
           Load(c, u, wanted),
           \/ wanted.password = account[u].password /\ passwords' = passwords
           \/ wanted.password = passwords + 1 /\ passwords' = passwords + 1 /\ passwords < MaxPasswords,
           UNCHANGED <<deployment, account, inbox, access, mails, replaced>>
    PROVE  IInv'
  <1>0. account[u] \in Row /\ account[u].password \in Password
    BY DEF IInv, AccountsTypeOK, Registered, Row
  <1>1. Registered' = Registered
    BY DEF Registered
  <1>2. call' = [call EXCEPT ![c] = [pc |-> "save", who |-> u, loaded |-> account[u], wanted |-> wanted]]
    BY DEF Load
  <1>3. passwords \in Nat /\ passwords' \in Nat /\ passwords <= passwords' /\ passwords' <= MaxPasswords
    BY AccountsAssumption DEF IInv, AccountsTypeOK, Password
  <1>4. AccountsTypeOK'
    BY <1>0, <1>1, <1>2, <1>3 DEF IInv, AccountsTypeOK, Call, Password, Registered
  <1>5. CallsOK'
    BY <1>0, <1>1, <1>2, <1>3 DEF IInv, CallsOK, RowsOK, Row, Password
  <1>6. RowsOK' /\ TokensOK' /\ PasswordsStayReplaced'
    BY <1>1, <1>3 DEF IInv, AccountsTypeOK, RowsOK, TokensOK, PasswordsStayReplaced, Password,
                       Registered, Row
  <1>7. FreshOK'
    <2> SUFFICES ASSUME NEW d \in Calls, Replacing(d)'
                 PROVE  FreshOK!(d)!2'
      BY DEF FreshOK
    <2>1. \A e \in Calls \ {c} : call'[e] = call[e] /\ Replacing(e)' = Replacing(e)
      BY <1>2 DEF Replacing, IInv, AccountsTypeOK
    <2>2. call'[c].wanted = wanted /\ call'[c].loaded = account[u] /\ call'[c].who = u
      BY <1>2 DEF IInv, AccountsTypeOK
    <2>3. Replacing(c)' => wanted.password = passwords + 1
      BY <2>2 DEF Replacing
    <2>4. \A e \in Calls \ {c} : Replacing(e) =>
             call[e].wanted.password \in Nat /\ call[e].wanted.password <= passwords
      BY DEF IInv, CallsOK, Replacing, Row, Password
    <2>5. /\ account[u].password \in Nat /\ account[u].password <= passwords
          /\ passwords + 1 \notin replaced[u]
      BY <1>0, <1>3 DEF IInv, AccountsTypeOK, RowsOK, Password, Registered
    <2>6. CASE d = c
      BY <2>1, <2>2, <2>3, <2>4, <2>5, <2>6, <1>3
    <2>7. CASE d # c
      BY <2>1, <2>2, <2>3, <2>4, <2>7, <1>3 DEF IInv, FreshOK
    <2> QED
      BY <2>6, <2>7
  <1> QED
    BY <1>4, <1>5, <1>6, <1>7 DEF IInv

\* A step that leaves rows and passwords alone, and requests too but for those that end.
LEMMA QuietInv ==
    ASSUME IInv, UNCHANGED <<deployment, account, passwords, replaced>>,
           \/ UNCHANGED call \/ \E c \in Calls : Answer(c),
           inbox' \subseteq Token, access' \subseteq Registered, mails' \in 0..MaxMails,
           \A t \in inbox' : t.kind = "verify" => t.sub \in Registered
    PROVE  IInv'
  <1>1. Registered' = Registered /\ Registered \subseteq Accounts
    BY DEF Registered
  <1>2. \A c \in Calls : call'[c] = call[c] \/ call'[c] = NoCall
    BY DEF Answer, IInv, AccountsTypeOK
  <1>3. call' \in [Calls -> Call]
    BY DEF Answer, IInv, AccountsTypeOK, Call, NoCall
  <1>4. AccountsTypeOK'
    BY <1>1, <1>3 DEF IInv, AccountsTypeOK
  <1>5. CallsOK'
    BY <1>1, <1>2 DEF IInv, CallsOK, NoCall
  <1>6. RowsOK' /\ TokensOK' /\ PasswordsStayReplaced'
    BY <1>1 DEF IInv, RowsOK, TokensOK, PasswordsStayReplaced
  <1>7. FreshOK'
    BY <1>1, <1>2 DEF IInv, FreshOK, Replacing, NoCall
  <1> QED
    BY <1>4, <1>5, <1>6, <1>7 DEF IInv

\* register_user chooses a password that nobody has had.
LEMMA RegisterInv == ASSUME IInv, NEW c \in Calls, Register(c) PROVE IInv'
  <1>1. PICK name, address \in Addresses :
          call' = [call EXCEPT ![c].pc = "insert",
                     ![c].wanted = [name |-> name, address |-> address, password |-> passwords + 1,
                                    active |-> deployment.defaultActive, verified |-> FALSE]]
    BY DEF Register
  <1> DEFINE row == [name |-> name, address |-> address, password |-> passwords + 1,
                     active |-> deployment.defaultActive, verified |-> FALSE]
  <1>2. passwords \in Nat /\ passwords' = passwords + 1 /\ passwords' \in Password
        /\ UNCHANGED <<deployment, account, inbox, access, mails, replaced>>
    BY AccountsAssumption DEF IInv, AccountsTypeOK, Password, Register
  <1>3. row \in Row /\ row.password = passwords'
    BY <1>2 DEF Row, IInv, AccountsTypeOK, Deployment
  <1>4. /\ call'[c].pc = "insert" /\ call'[c].wanted = row
        /\ \A d \in Calls \ {c} : call'[d] = call[d]
        /\ call' \in [Calls -> Call]
    <2>1. call[c] = NoCall /\ call \in [Calls -> Call]
      BY DEF IInv, AccountsTypeOK, Register, Idle
    <2>2. call' = [call EXCEPT ![c] = [NoCall EXCEPT !.pc = "insert", !.wanted = row]]
      BY <1>1, <2>1
    <2>3. [NoCall EXCEPT !.pc = "insert", !.wanted = row] \in Call
      BY <1>3 DEF NoCall, Call
    <2> QED
      BY <2>1, <2>2, <2>3 DEF NoCall
  <1>5. Registered' = Registered
    BY <1>2 DEF Registered
  <1>6. AccountsTypeOK'
    BY <1>2, <1>4 DEF IInv, AccountsTypeOK
  <1>7. CallsOK'
    <2> SUFFICES ASSUME NEW d \in Calls
                 PROVE  CallsOK!(d)'
      BY DEF CallsOK
    <2>1. CASE d = c
      BY <2>1, <1>2, <1>3, <1>4
    <2>2. CASE d # c
      BY <2>2, <1>2, <1>4, <1>5 DEF IInv, CallsOK, Row, Password
    <2> QED
      BY <2>1, <2>2
  <1>8. RowsOK' /\ TokensOK' /\ PasswordsStayReplaced'
    BY <1>2, <1>5, AccountsAssumption
    DEF IInv, AccountsTypeOK, RowsOK, TokensOK, PasswordsStayReplaced, Password, Row, Registered
  <1>9. FreshOK'
    BY <1>2, <1>4, <1>5 DEF IInv, FreshOK, Replacing
  <1> QED
    BY <1>6, <1>7, <1>8, <1>9 DEF IInv

\* create_user: a new row with no replaced passwords, or none.
LEMMA CreateUserInv == ASSUME IInv, NEW c \in Calls, CreateUser(c) PROVE IInv'
  <1> DEFINE row == call[c].wanted
  <1>0. call[c].pc = "insert" /\ UNCHANGED <<deployment, inbox, access, passwords, mails, replaced>>
    BY DEF CreateUser
  <1>1. row \in Row /\ row.password <= passwords
    BY <1>0 DEF IInv, CallsOK
  <1>2. CASE UNCHANGED account /\ Answer(c)
    BY <1>0, <1>2, QuietInv DEF IInv, AccountsTypeOK, TokensOK
  <1>3. CASE \E u \in Accounts \ Registered :
                 /\ account' = [account EXCEPT ![u] = row]
                 /\ \/ Answer(c)
                    \/ call' = [call EXCEPT ![c] = [NoCall EXCEPT !.pc = "mail", !.who = u,
                                                      !.loaded = row]]
    <2>1. PICK u \in Accounts \ Registered :
             /\ account' = [account EXCEPT ![u] = row]
             /\ \/ Answer(c)
                \/ call' = [call EXCEPT ![c] = [NoCall EXCEPT !.pc = "mail", !.who = u,
                                                  !.loaded = row]]
      BY <1>3
    <2>2. /\ account'[u] = row
          /\ \A v \in Accounts \ {u} : account'[v] = account[v]
          /\ account' \in [Accounts -> Row \union {Nobody}]
      BY <2>1, <1>1 DEF IInv, AccountsTypeOK
    <2>3. Registered' = Registered \union {u} /\ Registered \subseteq Accounts /\ u \notin Registered
      BY <2>2, <1>1, AccountsAssumption DEF Registered
    <2>4. [NoCall EXCEPT !.pc = "mail", !.who = u, !.loaded = row] \in Call /\ NoCall \in Call
      BY <1>1 DEF NoCall, Call
    <2>5. /\ call' \in [Calls -> Call]
          /\ \A d \in Calls : \/ call'[d] = call[d]
                              \/ call'[d] = NoCall
                              \/ call'[d].pc = "mail" /\ call'[d].who = u
      BY <2>1, <2>4 DEF IInv, AccountsTypeOK, Answer, NoCall
    <2>6. AccountsTypeOK'
      BY <1>0, <2>2, <2>5 DEF IInv, AccountsTypeOK
    <2>7. CallsOK'
      BY <1>0, <2>3, <2>5 DEF IInv, CallsOK, NoCall
    <2>8. RowsOK'
      BY <1>0, <1>1, <2>2, <2>3 DEF IInv, RowsOK
    <2>9. TokensOK'
      BY <1>0, <2>3 DEF IInv, TokensOK
    <2>10. FreshOK'
      <3>1. \A d \in Calls : Replacing(d)' => /\ Replacing(d) /\ call'[d] = call[d]
                                             /\ call[d].who \in Registered
        BY <2>5 DEF IInv, CallsOK, Replacing, NoCall
      <3> QED
        BY <3>1, <1>0, <2>2, <2>3 DEF IInv, FreshOK
    <2>11. PasswordsStayReplaced'
      BY <1>0, <2>2, <2>3 DEF IInv, RowsOK, PasswordsStayReplaced
    <2> QED
      BY <2>6, <2>7, <2>8, <2>9, <2>10, <2>11 DEF IInv
  <1> QED
    BY <1>2, <1>3 DEF CreateUser

\* The commit of a change: the password it stores is fresh, and stays so for the others.
LEMMA CommitCallInv == ASSUME IInv, NEW c \in Calls, CommitCall(c) PROVE IInv'
  <1> DEFINE u == call[c].who
             old == account[u]
             new == Merged(c)
  <1>1. call[c].pc = "save" /\ Answer(c) /\ UNCHANGED <<deployment, inbox, access, passwords, mails>>
    BY DEF CommitCall
  <1>2. /\ u \in Registered /\ u \in Accounts /\ call[c].loaded \in Row /\ call[c].wanted \in Row
        /\ call[c].wanted.password <= passwords
    BY <1>1 DEF IInv, CallsOK, Registered
  <1>3. /\ new \in Row
        /\ new.password = IF Replacing(c) THEN call[c].wanted.password ELSE old.password
    BY <1>1, <1>2, MergedRow DEF IInv, AccountsTypeOK, Replacing
  <1>4. CASE UNCHANGED <<account, replaced>>
    BY <1>1, <1>4, QuietInv DEF IInv, AccountsTypeOK, TokensOK
  <1>5. CASE /\ account' = [account EXCEPT ![u] = new]
             /\ replaced' = [replaced EXCEPT
                               ![u] = IF new.password # old.password THEN @ \union {old.password}
                                      ELSE @]
    <2>1. /\ account'[u] = new
          /\ \A v \in Accounts \ {u} : account'[v] = account[v] /\ replaced'[v] = replaced[v]
          /\ account' \in [Accounts -> Row \union {Nobody}]
          /\ replaced'[u] = IF new.password # old.password THEN replaced[u] \union {old.password}
                            ELSE replaced[u]
      BY <1>2, <1>3, <1>5 DEF IInv, AccountsTypeOK
    <2>2. Registered' = Registered /\ Registered \subseteq Accounts
      BY <1>2, <1>3, <2>1, AccountsAssumption DEF Registered
    <2>3. old \in Row /\ old.password \in Password /\ new.password \in Password
      BY <1>2, <1>3 DEF IInv, AccountsTypeOK, Registered, Row
    <2>4. replaced' \in [Accounts -> SUBSET Password]
      BY <1>2, <1>5, <2>3 DEF IInv, AccountsTypeOK
    <2>5. /\ call' \in [Calls -> Call]
          /\ call'[c] = NoCall
          /\ \A d \in Calls \ {c} : call'[d] = call[d]
      BY <1>1 DEF IInv, AccountsTypeOK, Answer, NoCall, Call
    <2>6. AccountsTypeOK'
      BY <1>1, <2>1, <2>4, <2>5 DEF IInv, AccountsTypeOK
    <2>7. CallsOK'
      BY <1>1, <2>2, <2>5 DEF IInv, CallsOK, NoCall
    <2>8. RowsOK'
      BY <1>1, <1>2, <1>3, <2>1, <2>2 DEF IInv, RowsOK
    <2>9. TokensOK'
      BY <1>1, <2>2 DEF IInv, TokensOK
    <2>10. FreshOK'
      <3>1. \A d \in Calls : Replacing(d)' => d # c /\ Replacing(d) /\ call'[d] = call[d]
        BY <2>5 DEF Replacing, NoCall
      <3>2. \A d \in Calls : Replacing(d) => call[d].who \in Accounts
        BY <2>2 DEF IInv, CallsOK, Replacing
      <3> QED
        BY <3>1, <3>2, <1>3, <2>1 DEF IInv, FreshOK
    <2>11. PasswordsStayReplaced'
      BY <1>2, <1>3, <2>1, <2>2 DEF IInv, FreshOK, PasswordsStayReplaced
    <2> QED
      BY <2>6, <2>7, <2>8, <2>9, <2>10, <2>11 DEF IInv
  <1> QED
    BY <1>4, <1>5 DEF CommitCall

\* Every step preserves it.
LEMMA NextInv == IInv /\ [AccountsNext]_accountVars => IInv'
  <1> SUFFICES ASSUME IInv, [AccountsNext]_accountVars
               PROVE  IInv'
    OBVIOUS
  <1>0. /\ inbox \subseteq Token /\ access \subseteq Registered /\ mails \in 0..MaxMails
        /\ \A t \in inbox : t.kind = "verify" => t.sub \in Registered
        /\ passwords \in Nat /\ Registered \subseteq Accounts
        /\ \A u \in Registered : account[u] \in Row
        /\ deployment \in Deployment
    BY AccountsAssumption DEF IInv, AccountsTypeOK, TokensOK, Password, Registered
  <1>1. ASSUME NEW token \in Token, Mail(token), token.kind = "verify" => token.sub \in Registered,
               UNCHANGED <<deployment, account, access, passwords, replaced>>,
               \/ UNCHANGED call \/ \E c \in Calls : Answer(c)
        PROVE  IInv'
    <2>1. /\ inbox' \subseteq Token /\ mails' \in 0..MaxMails
          /\ \A t \in inbox' : t.kind = "verify" => t.sub \in Registered
      BY <1>0, <1>1, AccountsAssumption DEF Mail
    <2> QED
      BY <1>0, <1>1, <2>1, QuietInv
  <1>2. ASSUME NEW c \in Calls, SendVerificationEmail(c)
        PROVE  IInv'
    <2>1. call[c].who \in Registered
      BY <1>2 DEF SendVerificationEmail, IInv, CallsOK
    <2> QED
      BY <1>0, <1>1, <1>2, <2>1 DEF SendVerificationEmail, Token
  <1>3. ASSUME NEW a \in Addresses, ForgotPassword(a) \/ RequestVerificationEmail(a)
        PROVE  IInv'
    <2>1. WithAddress(a) \subseteq Registered
      BY DEF WithAddress
    <2>2. CASE ForgotPassword(a)
      BY <1>0, <1>1, <2>2 DEF ForgotPassword, Token
    <2>3. CASE RequestVerificationEmail(a)
      BY <1>0, <1>1, <2>1, <2>3 DEF RequestVerificationEmail, Token
    <2> QED
      BY <1>3, <2>2, <2>3
  <1>4. ASSUME NEW u \in Accounts, SignIn(u) \/ ExpireAccess(u)
        PROVE  IInv'
    <2>1. access' \subseteq Registered
      BY <1>0, <1>4 DEF SignIn, ExpireAccess
    <2> QED
      BY <1>0, <1>4, <2>1, QuietInv DEF SignIn, ExpireAccess
  <1>5. CASE ExpireMailed
    BY <1>0, <1>5, QuietInv DEF ExpireMailed
  <1>6. ASSUME NEW c \in Calls, ResetPassword(c)
        PROVE  IInv'
    <2>1. PICK u \in Registered : Load(c, u, [account[u] EXCEPT !.password = passwords + 1])
      BY <1>6 DEF ResetPassword, WithAddress
    <2> QED
      BY <1>0, <1>6, <2>1, LoadInv, AccountsAssumption DEF ResetPassword, Row, Password
  <1>7. ASSUME NEW c \in Calls, VerifyEmail(c)
        PROVE  IInv'
    <2>1. PICK t \in inbox : /\ t.kind = "verify"
                             /\ Load(c, t.sub, [account[t.sub] EXCEPT !.verified = TRUE,
                                                  !.active = @ \/ deployment.verifyActivates])
      BY <1>7 DEF VerifyEmail
    <2>2. t.sub \in Registered
      BY <1>0, <2>1
    <2> QED
      BY <1>0, <1>7, <2>1, <2>2, LoadInv DEF VerifyEmail, Row
  <1>8. ASSUME NEW c \in Calls, NEW u \in Accounts,
               ChangePassword(c, u) \/ UpdateProfile(c, u) \/ SetActive(c, u)
        PROVE  IInv'
    <2>1. u \in Registered
      BY <1>0, <1>8 DEF ChangePassword, UpdateProfile, SetActive, ActiveUser
    <2>2. CASE ChangePassword(c, u)
      BY <1>0, <2>1, <2>2, LoadInv, AccountsAssumption DEF ChangePassword, Row, Password
    <2>3. CASE UpdateProfile(c, u)
      BY <1>0, <2>1, <2>3, LoadInv DEF UpdateProfile, Row
    <2>4. CASE SetActive(c, u)
      BY <1>0, <2>1, <2>4, LoadInv DEF SetActive, Row
    <2> QED
      BY <1>8, <2>2, <2>3, <2>4
  <1>9. CASE UNCHANGED accountVars
    BY <1>0, <1>9, QuietInv DEF accountVars
  <1> QED
    BY <1>2, <1>3, <1>4, <1>5, <1>6, <1>7, <1>8, <1>9, RegisterInv, CreateUserInv, CommitCallInv
    DEF AccountsNext

-----------------------------------------------------------------------------

\* Rows, tokens and requests always have their types.
THEOREM TypeCorrect == AccountsSpec => []AccountsTypeOK
  <1>1. IInv => AccountsTypeOK
    BY DEF IInv
  <1> QED
    BY <1>1, InitInv, NextInv, PTL DEF AccountsSpec

\* A password that was changed or reset never opens its account again, however many requests
\* load and commit the row at the same time.
THEOREM ReplacedForGood == AccountsSpec => []PasswordsStayReplaced
  <1>1. IInv => PasswordsStayReplaced
    BY DEF IInv
  <1> QED
    BY <1>1, InitInv, NextInv, PTL DEF AccountsSpec
=============================================================================
