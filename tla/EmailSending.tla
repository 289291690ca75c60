---------------------------- MODULE EmailSending ----------------------------
(***************************************************************************)
(* Mails sent by EmailService: at once, for an agent's tool, or by the     *)
(* task email.send, which is acknowledged late and retried.  The SMTP      *)
(* server accepts a mail for some of its recipients; its answer, or the    *)
(* worker, may be lost after that.                                         *)
(***************************************************************************)
EXTENDS Naturals, FiniteSets

CONSTANTS
    Mails,
    Recipients,
    MaxRetries,      \* max_retries of the task
    MaxCrashes       \* bound: workers and answers lost after the server accepted

ASSUME EmailSendingAssumption == MaxRetries \in Nat /\ MaxCrashes \in Nat

VARIABLES
    mail,            \* what happens to each mail
    copies,          \* how often each recipient has each mail
    crashes,         \* workers and answers lost so far
    repeated         \* history: for each mail, how often it was tried again although the
                     \* server had accepted it

emailVars == <<mail, copies, crashes, repeated>>

\* A mail: its place; whether the task sends it; its recipients in To, Cc and Bcc; the
\* retries made; whether it went out in the attempt that ended; and what its sender was told.
MailPlaces == {"unsent", "queued", "connect", "data", "quit", "done"}
MailState == [pc : MailPlaces, task : BOOLEAN, to : SUBSET Recipients, retries : 0..MaxRetries,
              told : {"nothing", "success", "failure"}]
Unsent == [pc |-> "unsent", task |-> FALSE, to |-> {}, retries |-> 0, told |-> "nothing"]

EmailTypeOK ==
    /\ mail \in [Mails -> MailState]
    /\ copies \in [Mails -> [Recipients -> Nat]]
    /\ crashes \in 0..MaxCrashes
    /\ repeated \in [Mails -> Nat]

EmailInit ==
    /\ mail = [m \in Mails |-> Unsent]
    /\ copies = [m \in Mails |-> [r \in Recipients |-> 0]]
    /\ crashes = 0
    /\ repeated = [m \in Mails |-> 0]

MailAt(m, pc) == mail[m].pc = pc
MailGoes(m, pc) == mail' = [mail EXCEPT ![m].pc = pc]
Told(m, what) == [mail[m] EXCEPT !.pc = "done", !.told = what]

\* send_email_async puts the task on the queue.  A mail without recipients is built, and
\* refused by _send_message.
SendEmail(m) ==
    /\ MailAt(m, "unsent")
    /\ \E to \in SUBSET Recipients :
          mail' = [mail EXCEPT ![m].pc = "queued", ![m].task = TRUE, ![m].to = to]
    /\ UNCHANGED <<copies, crashes, repeated>>

\* SendEmailTool sends by itself, to To and Cc, and tells the agent of any error; without the
\* right to the account it sends nothing.
SendWithTool(m) ==
    /\ MailAt(m, "unsent")
    /\ \E to \in SUBSET Recipients :
          mail' \in {[mail EXCEPT ![m].pc = "connect", ![m].to = to],
                    [mail EXCEPT ![m] = Told(m, "failure")]}
    /\ UNCHANGED <<copies, crashes, repeated>>

\* A worker takes the task.
RunTask(m) ==
    /\ MailAt(m, "queued")
    /\ MailGoes(m, "connect")
    /\ UNCHANGED <<copies, crashes, repeated>>

\* An attempt ends with an error: retried by the task if the error is retryable and
\* retries are left, reported otherwise.
AttemptFails(m, retryable) ==
    mail' = [mail EXCEPT ![m] =
               IF @.task /\ retryable /\ @.retries < MaxRetries
               THEN [mail[m] EXCEPT !.pc = "queued", !.retries = @ + 1]
               ELSE Told(m, "failure")]

\* Before the server has the mail: no recipients, a bad attachment, no password or a wrong
\* configuration are not retried; connection and protocol errors are.
FailsEarly(m) ==
    /\ MailAt(m, "connect")
    /\ \/ AttemptFails(m, FALSE)
       \/ mail[m].to # {} /\ AttemptFails(m, TRUE)
    /\ UNCHANGED <<copies, crashes, repeated>>

LogIn(m) ==
    /\ MailAt(m, "connect")
    /\ mail[m].to # {}
    /\ MailGoes(m, "data")
    /\ UNCHANGED <<copies, crashes, repeated>>

\* Mutant of SendMessage: a mail refused for some recipients is tried again.
SendMessageAll(m) ==
    /\ MailAt(m, "data")
    /\ \E accepted \in SUBSET mail[m].to :
          /\ copies' = [copies EXCEPT ![m] = [r \in Recipients |->
                          IF r \in accepted THEN @[r] + 1 ELSE @[r]]]
          /\ IF accepted = mail[m].to THEN MailGoes(m, "quit") ELSE AttemptFails(m, TRUE)
    /\ UNCHANGED <<crashes, repeated>>

\* server.send_message: accepted for some of the recipients, the others being passed over in
\* silence; or for none, which is an error.
SendMessage(m) ==
    /\ MailAt(m, "data")
    /\ \/ \E accepted \in (SUBSET mail[m].to) \ {{}} :
             /\ copies' = [copies EXCEPT ![m] = [r \in Recipients |->
                             IF r \in accepted THEN @[r] + 1 ELSE @[r]]]
             /\ MailGoes(m, "quit")
       \/ \E retryable \in BOOLEAN : AttemptFails(m, retryable) /\ UNCHANGED copies
    /\ UNCHANGED <<crashes, repeated>>

\* The session is closed and the Message-ID returned.
Quit(m) ==
    /\ MailAt(m, "quit")
    /\ mail' = [mail EXCEPT ![m] = Told(m, "success")]
    /\ UNCHANGED <<copies, crashes, repeated>>

Crash == crashes < MaxCrashes /\ crashes' = crashes + 1

\* The server accepted, but its answer does not arrive, or QUIT is refused.
AnswerLost(m) ==
    /\ MailAt(m, "quit")
    /\ Crash
    /\ AttemptFails(m, TRUE)
    /\ repeated' = [repeated EXCEPT ![m] = @ + 1]
    /\ UNCHANGED copies

\* The worker dies; the broker delivers the task, not yet acknowledged, again.
WorkerDies(m) ==
    /\ mail[m].pc \in {"connect", "data", "quit"}
    /\ mail[m].task
    /\ Crash
    /\ MailGoes(m, "queued")
    /\ repeated' = [repeated EXCEPT ![m] = IF MailAt(m, "quit") THEN @ + 1 ELSE @]
    /\ UNCHANGED copies

EmailNext ==
    \E m \in Mails :
        \/ SendEmail(m) \/ SendWithTool(m) \/ RunTask(m) \/ FailsEarly(m)
        \/ LogIn(m) \/ SendMessage(m) \/ Quit(m) \/ AnswerLost(m) \/ WorkerDies(m)

EmailSpec == EmailInit /\ [][EmailNext]_emailVars

\* Nobody gets a mail more often than once and once more for every attempt that was lost
\* after the server had accepted it; a mail reported as sent has reached somebody, and only
\* its recipients have it (send_email_task's retries, EmailService._send_message).
CopiesAreExplained ==
    \A m \in Mails :
        /\ \A r \in Recipients : /\ copies[m][r] <= repeated[m] + 1
                                 /\ copies[m][r] > 0 => r \in mail[m].to
        /\ mail[m].told = "success" => \E r \in Recipients : copies[m][r] > 0
=============================================================================
