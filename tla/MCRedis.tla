------------------------------ MODULE MCRedis ------------------------------
(***************************************************************************)
(* What services keep in Redis: cached configurations, and for a mailbox   *)
(* the processed mails and the breaker.  The two share no key: a behaviour *)
(* is one of one part, and the variables of the other stay as they start.  *)
(***************************************************************************)
EXTENDS ConfigCache, MailPolling, TLC

CONSTANTS r1, r2, u1, u2

VARIABLE part

\* Users, and the requests or polls in progress, are interchangeable.
Interchangeable == Permutations(Users) \union Permutations(Requests)

RedisInit == part \in {"configs", "mail"} /\ Init /\ PollInit

RedisNext ==
    \/ part = "configs" /\ Next /\ UNCHANGED <<part, pollVars>>
    \/ part = "mail" /\ PollNext /\ UNCHANGED <<part, vars>>

RedisSpec == RedisInit /\ [][RedisNext]_<<part, vars, pollVars>>
=============================================================================
