------------------------- MODULE MailPollingProofs -------------------------
(***************************************************************************)
(* Theorems about MailPolling, for any number of polls, mails and faults,  *)
(* any limit and any threshold.                                            *)
(***************************************************************************)
EXTENDS MailPolling, TLAPS

-----------------------------------------------------------------------------
(* The inductive invariant.                                                *)

\* A mail that is not excused is in one place: its callback waits or runs and it has not
\* been handled, or it has been handled once, is marked and no poll will dispatch it.
Tracked ==
    \A u \in Mail \ repeatable :
        /\ handled[u] < 2
        /\ handled[u] = 1 => u \in processed
        /\ u \in queue => u \notin handling
        /\ u \in processed =>
              /\ u \notin queue /\ u \notin handling
              /\ \A p \in Polls : PollAt(p, "dispatch") => u \notin poll[p].mails

\* While results do not mix, who opens the cooldown has the counter at the threshold, and
\* who closes it has the counter clear.
Counted ==
    ~mixed =>
        /\ \A p \in Polls : PollAt(p, "open") => failcount = Threshold
        /\ \A p \in Polls : PollAt(p, "close") => failcount = 0

Breaker == Counted /\ BreakerHolds /\ HealthyIsClosed

\* What a poll owes and has not dispatched it still holds.
CatchesUp ==
    \A p \in Polls :
        poll[p].pc \in {"filter", "dispatch", "clear"} =>
            poll[p].owes \subseteq poll[p].mails \union queue \union handling
                                     \union processed \union repeatable

\* A poll past its dispatches has none left.
Emptied == \A p \in Polls : PollAt(p, "clear") => poll[p].mails = {}

IInv == PollTypeOK /\ Tracked /\ Breaker /\ CatchesUp /\ Emptied

\* The invariant holds before the first poll.
LEMMA InitIInv == PollInit => IInv
<1> SUFFICES ASSUME PollInit PROVE IInv
  OBVIOUS
<1>1. PollIdle \in Poll /\ PollIdle.pc = "idle" /\ PollIdle.mails = {}
  BY DEF PollIdle, Poll, Places
<1>2. PollTypeOK
  <2>1. 0 \in 0..MaxMail /\ 0 \in 0..Threshold /\ 0 \in 0..MaxPollFaults /\ 0 \in 0..2
    BY MailAssumption
  <2>2. QED
    BY <1>1, <2>1 DEF PollInit, PollTypeOK
<1>3. Tracked /\ CatchesUp /\ Emptied
  BY <1>1 DEF PollInit, Tracked, CatchesUp, Emptied, PollAt
<1>4. Breaker
  BY <1>1, MailAssumption DEF PollInit, Breaker, Counted, BreakerHolds, HealthyIsClosed, PollAt
<1>5. QED
  BY <1>2, <1>3, <1>4 DEF IInv

\* Only marks are forgotten.
LEMMA ForgetsMarks ==
    ASSUME NEW us \in {processed} \union {{u} : u \in processed}
    PROVE  us \in SUBSET processed
OBVIOUS

\* Mails are fetched from the window, which consists of mails.
LEMMA WindowTyped == PollTypeOK => Window \in SUBSET Mail
BY MailAssumption DEF PollTypeOK, Window, Unseen, Mail

-----------------------------------------------------------------------------
(* Every step preserves the invariant.                                     *)

\* Types.
LEMMA TypeStep == IInv /\ [PollNext]_pollVars => PollTypeOK'
<1> SUFFICES ASSUME IInv, [PollNext]_pollVars PROVE PollTypeOK'
  OBVIOUS
<1> USE MailAssumption
    DEF IInv, PollTypeOK, server, callbacks, breaker, history, PollAt, PollBecome, PollFault,
        Poll, Places
<1>1. ASSUME NEW p \in Polls, Begin(p)
      PROVE  PollTypeOK'
  BY <1>1 DEF Begin, NotInCooldown, PollGoto
<1>2. ASSUME NEW p \in Polls, Fetch(p)
      PROVE  PollTypeOK'
  BY <1>2, WindowTyped DEF Fetch, PollFault, Poll, Places
<1>3. ASSUME NEW p \in Polls, ServerFails(p)
      PROVE  PollTypeOK'
  BY <1>3 DEF ServerFails, PollDone, PollGoto
<1>4. ASSUME NEW p \in Polls, Broken(p)
      PROVE  PollTypeOK'
  BY <1>4 DEF Broken, PollDone, PollGoto
<1>5. ASSUME NEW p \in Polls, Filter(p)
      PROVE  PollTypeOK'
  BY <1>5 DEF Filter, Left, PollGoto
<1>6. ASSUME NEW p \in Polls, Dispatch(p)
      PROVE  PollTypeOK'
  BY <1>6 DEF Dispatch, Left
<1>7. ASSUME NEW p \in Polls, ClearCount(p)
      PROVE  PollTypeOK'
  <2>1. mixed' \in BOOLEAN /\ lapsed' \in BOOLEAN /\ cooldown' \in BOOLEAN
    BY <1>7, Zenon DEF ClearCount
  <2>2. QED
    BY <1>7, <2>1 DEF ClearCount, PollDone, PollGoto
<1>8. ASSUME NEW p \in Polls, Close(p)
      PROVE  PollTypeOK'
  <2>1. mixed' \in BOOLEAN /\ lapsed' \in BOOLEAN /\ cooldown' \in BOOLEAN
    BY <1>8, Zenon DEF Close
  <2>2. QED
    BY <1>8, <2>1 DEF Close, PollDone, PollGoto
<1>9. ASSUME NEW p \in Polls, Count(p)
      PROVE  PollTypeOK'
  <2>1. mixed' \in BOOLEAN /\ lapsed' \in BOOLEAN /\ cooldown' \in BOOLEAN
    BY <1>9, Zenon DEF Count
  <2>2. QED
    BY <1>9, <2>1 DEF Count, PollDone, PollGoto
<1>10. ASSUME NEW p \in Polls, Open(p)
       PROVE  PollTypeOK'
  <2>1. mixed' \in BOOLEAN /\ lapsed' \in BOOLEAN /\ cooldown' \in BOOLEAN
    BY <1>10, Zenon DEF Open
  <2>2. QED
    BY <1>10, <2>1 DEF Open, PollDone, PollGoto
<1>11. ASSUME NEW p \in Polls, PollDies(p)
       PROVE  PollTypeOK'
  BY <1>11 DEF PollDies, PollDone, PollGoto
<1>12. ASSUME NEW u \in Mail, Take(u)
       PROVE  PollTypeOK'
  BY <1>12 DEF Take
<1>13. ASSUME NEW u \in Mail, Mark(u)
       PROVE  PollTypeOK'
  BY <1>13 DEF Mark
<1>14. ASSUME NEW u \in Mail, FailCallback(u)
       PROVE  PollTypeOK'
  BY <1>14 DEF FailCallback
<1>15. ASSUME NEW u \in Mail, See(u)
       PROVE  PollTypeOK'
  BY <1>15 DEF See
<1>16. ASSUME NEW us \in SUBSET processed, Forget(us)
       PROVE  PollTypeOK'
  BY <1>16 DEF Forget
<1>17. CASE CooldownExpires
  BY <1>17 DEF CooldownExpires
<1>18. CASE CountExpires
  BY <1>18 DEF CountExpires
<1>19. CASE Arrive
  BY <1>19 DEF Arrive
<1>20. CASE UNCHANGED pollVars
  BY <1>20 DEF pollVars
<1>21. QED
  BY <1>1, <1>2, <1>3, <1>4, <1>5, <1>6, <1>7, <1>8, <1>9, <1>10, <1>11, <1>12, <1>13,
     <1>14, <1>15, <1>16, <1>17, <1>18, <1>19, <1>20, ForgetsMarks DEF PollNext, Progress

\* The way of a mail.
LEMMA TrackedStep == IInv /\ [PollNext]_pollVars => Tracked'
<1> SUFFICES ASSUME IInv, [PollNext]_pollVars PROVE Tracked'
  OBVIOUS
<1> USE MailAssumption
    DEF IInv, PollTypeOK, server, callbacks, breaker, history, PollAt, PollBecome, Tracked,
        PollFault, Poll
<1>1. ASSUME NEW p \in Polls, Begin(p)
      PROVE  Tracked'
  BY <1>1 DEF Begin, NotInCooldown, PollGoto
<1>2. ASSUME NEW p \in Polls, Fetch(p)
      PROVE  Tracked'
  BY <1>2 DEF Fetch
<1>3. ASSUME NEW p \in Polls, ServerFails(p)
      PROVE  Tracked'
  BY <1>3 DEF ServerFails, PollDone, PollGoto
<1>4. ASSUME NEW p \in Polls, Broken(p)
      PROVE  Tracked'
  BY <1>4 DEF Broken, PollDone, PollGoto
<1>5. ASSUME NEW p \in Polls, Filter(p)
      PROVE  Tracked'
  BY <1>5 DEF Filter, Left, PollGoto
<1>6. ASSUME NEW p \in Polls, Dispatch(p)
      PROVE  Tracked'
  BY <1>6 DEF Dispatch, Left
<1>7. ASSUME NEW p \in Polls, ClearCount(p)
      PROVE  Tracked'
  BY <1>7 DEF ClearCount, PollDone, PollGoto
<1>8. ASSUME NEW p \in Polls, Close(p)
      PROVE  Tracked'
  BY <1>8 DEF Close, PollDone, PollGoto
<1>9. ASSUME NEW p \in Polls, Count(p)
      PROVE  Tracked'
  BY <1>9 DEF Count, PollDone, PollGoto
<1>10. ASSUME NEW p \in Polls, Open(p)
       PROVE  Tracked'
  BY <1>10 DEF Open, PollDone, PollGoto
<1>11. ASSUME NEW p \in Polls, PollDies(p)
       PROVE  Tracked'
  BY <1>11 DEF PollDies, PollDone, PollGoto
<1>12. ASSUME NEW u \in Mail, Take(u)
       PROVE  Tracked'
  BY <1>12 DEF Take
<1>13. ASSUME NEW u \in Mail, Mark(u)
       PROVE  Tracked'
  BY <1>13 DEF Mark
<1>14. ASSUME NEW u \in Mail, FailCallback(u)
       PROVE  Tracked'
  BY <1>14 DEF FailCallback
<1>15. ASSUME NEW u \in Mail, See(u)
       PROVE  Tracked'
  BY <1>15 DEF See
<1>16. ASSUME NEW us \in SUBSET processed, Forget(us)
       PROVE  Tracked'
  BY <1>16 DEF Forget
<1>17. CASE CooldownExpires
  BY <1>17 DEF CooldownExpires
<1>18. CASE CountExpires
  BY <1>18 DEF CountExpires
<1>19. CASE Arrive
  BY <1>19 DEF Arrive
<1>20. CASE UNCHANGED pollVars
  BY <1>20 DEF pollVars
<1>21. QED
  BY <1>1, <1>2, <1>3, <1>4, <1>5, <1>6, <1>7, <1>8, <1>9, <1>10, <1>11, <1>12, <1>13,
     <1>14, <1>15, <1>16, <1>17, <1>18, <1>19, <1>20, ForgetsMarks DEF PollNext, Progress

\* The breaker.
LEMMA BreakerStep == IInv /\ [PollNext]_pollVars => Breaker'
<1> SUFFICES ASSUME IInv, [PollNext]_pollVars PROVE Breaker'
  OBVIOUS
<1> USE MailAssumption
    DEF IInv, PollTypeOK, server, callbacks, breaker, history, PollAt, PollBecome, Breaker, Counted,
        BreakerHolds, HealthyIsClosed, Recording, Poll
<1>1. ASSUME NEW p \in Polls, Begin(p)
      PROVE  Breaker'
  BY <1>1 DEF Begin, NotInCooldown, PollGoto
<1>2. ASSUME NEW p \in Polls, Fetch(p)
      PROVE  Breaker'
  BY <1>2 DEF Fetch
<1>3. ASSUME NEW p \in Polls, ServerFails(p)
      PROVE  Breaker'
  BY <1>3 DEF ServerFails, PollDone, PollGoto
<1>4. ASSUME NEW p \in Polls, Broken(p)
      PROVE  Breaker'
  BY <1>4 DEF Broken, PollDone, PollGoto
<1>5. ASSUME NEW p \in Polls, Filter(p)
      PROVE  Breaker'
  BY <1>5 DEF Filter, Left, PollGoto
<1>6. ASSUME NEW p \in Polls, Dispatch(p)
      PROVE  Breaker'
  BY <1>6 DEF Dispatch, Left
<1>7. ASSUME NEW p \in Polls, ClearCount(p)
      PROVE  Breaker'
  <2>1. CASE mixed'
    BY <2>1
  <2>2. CASE ~mixed'
    <3>1. ~mixed /\ ~Recording(p) /\ failcount' = 0 /\ PollGoto(p, "close") /\ UNCHANGED cooldown
      BY <1>7, <2>2 DEF ClearCount
    <3>2. QED
      BY <2>2, <3>1 DEF PollGoto
  <2>3. QED
    BY <2>1, <2>2
<1>8. ASSUME NEW p \in Polls, Close(p)
      PROVE  Breaker'
  BY <1>8 DEF Close, PollDone, PollGoto
<1>9. ASSUME NEW p \in Polls, Count(p)
      PROVE  Breaker'
  <2>1. CASE mixed'
    BY <2>1
  <2>2. CASE ~mixed'
    <3>1. /\ ~mixed /\ ~Recording(p) /\ UNCHANGED <<cooldown, lapsed>>
          /\ failcount' = IF failcount < Threshold THEN failcount + 1 ELSE failcount
          /\ IF failcount' = Threshold THEN PollGoto(p, "open") ELSE PollDone(p)
      BY <1>9, <2>2 DEF Count
    <3>2. QED
      BY <2>2, <3>1 DEF PollGoto, PollDone
  <2>3. QED
    BY <2>1, <2>2
<1>10. ASSUME NEW p \in Polls, Open(p)
       PROVE  Breaker'
  BY <1>10 DEF Open, PollDone, PollGoto
<1>11. ASSUME NEW p \in Polls, PollDies(p)
       PROVE  Breaker'
  BY <1>11 DEF PollDies, PollDone, PollGoto
<1>12. ASSUME NEW u \in Mail, Take(u)
       PROVE  Breaker'
  BY <1>12 DEF Take
<1>13. ASSUME NEW u \in Mail, Mark(u)
       PROVE  Breaker'
  BY <1>13 DEF Mark
<1>14. ASSUME NEW u \in Mail, FailCallback(u)
       PROVE  Breaker'
  BY <1>14 DEF FailCallback
<1>15. ASSUME NEW u \in Mail, See(u)
       PROVE  Breaker'
  BY <1>15 DEF See
<1>16. ASSUME NEW us \in SUBSET processed, Forget(us)
       PROVE  Breaker'
  BY <1>16 DEF Forget
<1>17. CASE CooldownExpires
  BY <1>17 DEF CooldownExpires
<1>18. CASE CountExpires
  BY <1>18 DEF CountExpires
<1>19. CASE Arrive
  BY <1>19 DEF Arrive
<1>20. CASE UNCHANGED pollVars
  BY <1>20 DEF pollVars
<1>21. QED
  BY <1>1, <1>2, <1>3, <1>4, <1>5, <1>6, <1>7, <1>8, <1>9, <1>10, <1>11, <1>12, <1>13,
     <1>14, <1>15, <1>16, <1>17, <1>18, <1>19, <1>20, ForgetsMarks DEF PollNext, Progress

\* What polls owe.
LEMMA CatchesUpStep == IInv /\ [PollNext]_pollVars => CatchesUp'
<1> SUFFICES ASSUME IInv, [PollNext]_pollVars PROVE CatchesUp'
  OBVIOUS
<1> USE MailAssumption
    DEF IInv, PollTypeOK, server, callbacks, breaker, history, PollAt, PollBecome, CatchesUp,
        Emptied, Poll
<1>1. ASSUME NEW p \in Polls, Begin(p)
      PROVE  CatchesUp'
  BY <1>1 DEF Begin, NotInCooldown, PollGoto
<1>2. ASSUME NEW p \in Polls, Fetch(p)
      PROVE  CatchesUp'
  BY <1>2 DEF Fetch
<1>3. ASSUME NEW p \in Polls, ServerFails(p)
      PROVE  CatchesUp'
  BY <1>3 DEF ServerFails, PollDone, PollGoto
<1>4. ASSUME NEW p \in Polls, Broken(p)
      PROVE  CatchesUp'
  BY <1>4 DEF Broken, PollDone, PollGoto
<1>5. ASSUME NEW p \in Polls, Filter(p)
      PROVE  CatchesUp'
  BY <1>5 DEF Filter, Left, PollGoto
<1>6. ASSUME NEW p \in Polls, Dispatch(p)
      PROVE  CatchesUp'
  BY <1>6 DEF Dispatch, Left
<1>7. ASSUME NEW p \in Polls, ClearCount(p)
      PROVE  CatchesUp'
  BY <1>7 DEF ClearCount, PollDone, PollGoto
<1>8. ASSUME NEW p \in Polls, Close(p)
      PROVE  CatchesUp'
  BY <1>8 DEF Close, PollDone, PollGoto
<1>9. ASSUME NEW p \in Polls, Count(p)
      PROVE  CatchesUp'
  BY <1>9 DEF Count, PollDone, PollGoto
<1>10. ASSUME NEW p \in Polls, Open(p)
       PROVE  CatchesUp'
  BY <1>10 DEF Open, PollDone, PollGoto
<1>11. ASSUME NEW p \in Polls, PollDies(p)
       PROVE  CatchesUp'
  BY <1>11 DEF PollDies, PollDone, PollGoto
<1>12. ASSUME NEW u \in Mail, Take(u)
       PROVE  CatchesUp'
  BY <1>12 DEF Take
<1>13. ASSUME NEW u \in Mail, Mark(u)
       PROVE  CatchesUp'
  BY <1>13 DEF Mark
<1>14. ASSUME NEW u \in Mail, FailCallback(u)
       PROVE  CatchesUp'
  BY <1>14 DEF FailCallback
<1>15. ASSUME NEW u \in Mail, See(u)
       PROVE  CatchesUp'
  BY <1>15 DEF See
<1>16. ASSUME NEW us \in SUBSET processed, Forget(us)
       PROVE  CatchesUp'
  BY <1>16 DEF Forget
<1>17. CASE CooldownExpires
  BY <1>17 DEF CooldownExpires
<1>18. CASE CountExpires
  BY <1>18 DEF CountExpires
<1>19. CASE Arrive
  BY <1>19 DEF Arrive
<1>20. CASE UNCHANGED pollVars
  BY <1>20 DEF pollVars
<1>21. QED
  BY <1>1, <1>2, <1>3, <1>4, <1>5, <1>6, <1>7, <1>8, <1>9, <1>10, <1>11, <1>12, <1>13,
     <1>14, <1>15, <1>16, <1>17, <1>18, <1>19, <1>20, ForgetsMarks DEF PollNext, Progress

\* Polls past their dispatches.
LEMMA EmptiedStep == IInv /\ [PollNext]_pollVars => Emptied'
<1> SUFFICES ASSUME IInv, [PollNext]_pollVars PROVE Emptied'
  OBVIOUS
<1> USE MailAssumption
    DEF IInv, PollTypeOK, server, callbacks, breaker, history, PollAt, PollBecome, Emptied, Poll
<1>1. ASSUME NEW p \in Polls, Begin(p)
      PROVE  Emptied'
  BY <1>1 DEF Begin, NotInCooldown, PollGoto
<1>2. ASSUME NEW p \in Polls, Fetch(p)
      PROVE  Emptied'
  BY <1>2 DEF Fetch
<1>3. ASSUME NEW p \in Polls, ServerFails(p)
      PROVE  Emptied'
  BY <1>3 DEF ServerFails, PollDone, PollGoto
<1>4. ASSUME NEW p \in Polls, Broken(p)
      PROVE  Emptied'
  BY <1>4 DEF Broken, PollDone, PollGoto
<1>5. ASSUME NEW p \in Polls, Filter(p)
      PROVE  Emptied'
  BY <1>5 DEF Filter, Left, PollGoto
<1>6. ASSUME NEW p \in Polls, Dispatch(p)
      PROVE  Emptied'
  BY <1>6 DEF Dispatch, Left
<1>7. ASSUME NEW p \in Polls, ClearCount(p)
      PROVE  Emptied'
  BY <1>7 DEF ClearCount, PollDone, PollGoto
<1>8. ASSUME NEW p \in Polls, Close(p)
      PROVE  Emptied'
  BY <1>8 DEF Close, PollDone, PollGoto
<1>9. ASSUME NEW p \in Polls, Count(p)
      PROVE  Emptied'
  BY <1>9 DEF Count, PollDone, PollGoto
<1>10. ASSUME NEW p \in Polls, Open(p)
       PROVE  Emptied'
  BY <1>10 DEF Open, PollDone, PollGoto
<1>11. ASSUME NEW p \in Polls, PollDies(p)
       PROVE  Emptied'
  BY <1>11 DEF PollDies, PollDone, PollGoto
<1>12. ASSUME NEW u \in Mail, Take(u)
       PROVE  Emptied'
  BY <1>12 DEF Take
<1>13. ASSUME NEW u \in Mail, Mark(u)
       PROVE  Emptied'
  BY <1>13 DEF Mark
<1>14. ASSUME NEW u \in Mail, FailCallback(u)
       PROVE  Emptied'
  BY <1>14 DEF FailCallback
<1>15. ASSUME NEW u \in Mail, See(u)
       PROVE  Emptied'
  BY <1>15 DEF See
<1>16. ASSUME NEW us \in SUBSET processed, Forget(us)
       PROVE  Emptied'
  BY <1>16 DEF Forget
<1>17. CASE CooldownExpires
  BY <1>17 DEF CooldownExpires
<1>18. CASE CountExpires
  BY <1>18 DEF CountExpires
<1>19. CASE Arrive
  BY <1>19 DEF Arrive
<1>20. CASE UNCHANGED pollVars
  BY <1>20 DEF pollVars
<1>21. QED
  BY <1>1, <1>2, <1>3, <1>4, <1>5, <1>6, <1>7, <1>8, <1>9, <1>10, <1>11, <1>12, <1>13,
     <1>14, <1>15, <1>16, <1>17, <1>18, <1>19, <1>20, ForgetsMarks DEF PollNext, Progress

\* IInv is an invariant.
LEMMA Invariance == PollSpec => []IInv
<1>1. IInv /\ [PollNext]_pollVars => IInv'
  BY TypeStep, TrackedStep, BreakerStep, CatchesUpStep, EmptiedStep DEF IInv
<1>2. QED
  BY InitIInv, <1>1, PTL DEF PollSpec

-----------------------------------------------------------------------------
\* Marks, keys, callbacks and polls always have their types.
THEOREM TypeCorrect == PollSpec => []PollTypeOK
<1>1. IInv => PollTypeOK
  BY DEF IInv
<1>2. QED
  BY Invariance, <1>1, PTL

\* The marks do what they are for: a mail is handled twice only if its callback was still
\* waiting or running at the next poll, failed, or its mark was forgotten.
THEOREM MarksPreventRepetition == PollSpec => []HandledOnce
<1>1. IInv => HandledOnce
  BY DEF IInv, PollTypeOK, Tracked, HandledOnce
<1>2. QED
  BY Invariance, <1>1, PTL

\* A server that keeps failing is left alone.
THEOREM FailuresOpenTheBreaker == PollSpec => []BreakerHolds
<1>1. IInv => BreakerHolds
  BY DEF IInv, Breaker
<1>2. QED
  BY Invariance, <1>1, PTL

\* A healthy poll lets the next one through.
THEOREM SuccessClosesTheBreaker == PollSpec => []HealthyIsClosed
<1>1. IInv => HealthyIsClosed
  BY DEF IInv, Breaker
<1>2. QED
  BY Invariance, <1>1, PTL

\* A poll that goes well leaves no mail of its window behind.
THEOREM PollsCatchUp == PollSpec => []PollCatchesUp
<1>1. IInv => PollCatchesUp
  BY DEF IInv, CatchesUp, Emptied, PollCatchesUp, PollAt
<1>2. QED
  BY Invariance, <1>1, PTL
=============================================================================
