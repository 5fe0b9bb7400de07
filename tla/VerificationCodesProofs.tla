------------------------ MODULE VerificationCodesProofs ------------------------
(***************************************************************************)
(* VerificationCodes for any number of mails and guesses, and any limits:   *)
(* a code is accepted once, wrong guesses are counted, a lock holds, and a  *)
(* failed mail takes back no code but its own.                              *)
(*                                                                         *)
(* The strengthening: a code is stored once, so that what was accepted is   *)
(* gone for good; the attempts at a code only grow, so that a guess which   *)
(* changes them makes all other readings stale; and, as long as no mail has *)
(* outlasted the cooldown, a send is alone until it has its mail's answer.  *)
(***************************************************************************)
EXTENDS VerificationCodes, FiniteSetTheorems, TLAPS

\* A guess that goes on has a try left.
TriesRemain == \A g \in Guesses : guess[g] \in {"idle", "decide", "again"} => tries[g] < MaxTries

\* A send that will not store its code any more.
Past(s) == send[s] \notin {"idle", "asked", "store"}

\* Whatever code is there, was read or was accepted, was stored; an accepted one is gone.
CodesAreStored ==
    /\ code # NoCode => Past(code)
    /\ \A g \in Guesses :
        /\ seen[g].code # NoCode => Past(seen[g].code)
        /\ guess[g] = "decide" => seen[g].code # NoCode
        /\ guess[g] = "accepted" => given[g] \in Sends /\ Past(given[g]) /\ code # given[g]

\* What a guess has read of the code that is still there is not more than there is now.
AttemptsGrow ==
    \A g \in Guesses :
        guess[g] = "decide" /\ seen[g].code = code => seen[g].attempts <= attempts

\* While a code is locked, nothing that was read of it is up to date.
LockUnseen == locked => \A g \in Guesses : guess[g] = "decide" => ~Unchanged(g)

\* A send between its cooldown and the end of its mail.
Busy == {"store", "release", "mail", "undo"}

\* It holds the cooldown, and the code that is there is its own.
CooldownHeld ==
    ~overrun =>
        \A s \in Sends :
            /\ send[s] \in Busy => cooldown = s
            /\ send[s] \in {"mail", "undo"} => code \in {s, NoCode}

CodesInv ==
    /\ TypeOK /\ TriesRemain
    /\ CodesAreStored /\ AcceptedOnce
    /\ AttemptsGrow /\ LockUnseen /\ WrongGuessesAreCounted
    /\ CooldownHeld

-------------------------------------------------------------------------------
USE CodesAssumption

\* Every step keeps the types.
LEMMA TypeStep ==
    ASSUME CodesInv, [Next]_vars
    PROVE  TypeOK'
<1>1. ASSUME NEW s \in Sends, Ask(s)
      PROVE  TypeOK'
    BY <1>1 DEF CodesInv, TypeOK, Ask, SendTo, keys, limits, guesses
<1>2. ASSUME NEW s \in Sends, NEW done \in BOOLEAN, ReleaseCooldown(s, done)
      PROVE  TypeOK'
    BY <1>2 DEF CodesInv, TypeOK, ReleaseCooldown, SendTo, keys, guesses
<1>3. ASSUME NEW s \in Sends, NEW ok \in BOOLEAN, Mail(s, ok)
      PROVE  TypeOK'
    BY <1>3 DEF CodesInv, TypeOK, Mail, SendTo, keys, limits, guesses
<1>4. ASSUME NEW s \in Sends, NEW done \in BOOLEAN, UndoSend(s, done)
      PROVE  TypeOK'
  <2>1. /\ code' \in Sends \cup {NoCode} /\ attempts' \in Nat
        /\ cooldown' \in Sends \cup {NoCode}
      BY <1>4 DEF CodesInv, TypeOK, UndoSend, keys
  <2>2. send' \in [Sends -> {"idle", "asked", "store", "release", "mail", "undo",
                           "sent", "limited", "failed"}]
      BY <1>4 DEF CodesInv, TypeOK, UndoSend, SendTo
  <2>3. /\ guess' \in [Guesses -> {"idle", "decide", "again", "accepted", "invalid", "lockout",
                                 "locked", "missing", "error"}]
        /\ given' \in [Guesses -> Sends \cup {NoCode}] /\ tries' \in [Guesses -> 0..MaxTries]
        /\ seen' \in [Guesses -> [code : Sends \cup {NoCode}, attempts : Nat]]
      BY <1>4 DEF CodesInv, TypeOK, UndoSend, guesses
  <2>4. locked' \in BOOLEAN /\ overrun' \in BOOLEAN
      BY <1>4 DEF CodesInv, TypeOK, UndoSend, keys
  <2> QED
      BY <2>1, <2>2, <2>3, <2>4 DEF TypeOK
<1>5. ASSUME NEW s \in Sends, NEW done \in BOOLEAN, NEW told \in BOOLEAN,
             TakeCooldown(s, done, told)
      PROVE  TypeOK'
    BY <1>5 DEF CodesInv, TypeOK, TakeCooldown, SendTo, keys, guesses
<1>6. ASSUME NEW s \in Sends, NEW done \in BOOLEAN, NEW told \in BOOLEAN, StoreCode(s, done, told)
      PROVE  TypeOK'
  <2>1. /\ code' \in Sends \cup {NoCode} /\ attempts' \in Nat
        /\ cooldown' \in Sends \cup {NoCode}
      BY <1>6 DEF CodesInv, TypeOK, StoreCode, keys, limits
  <2>2. send' \in [Sends -> {"idle", "asked", "store", "release", "mail", "undo",
                           "sent", "limited", "failed"}]
      BY <1>6 DEF CodesInv, TypeOK, StoreCode, SendTo
  <2>3. /\ guess' \in [Guesses -> {"idle", "decide", "again", "accepted", "invalid", "lockout",
                                 "locked", "missing", "error"}]
        /\ given' \in [Guesses -> Sends \cup {NoCode}] /\ tries' \in [Guesses -> 0..MaxTries]
        /\ seen' \in [Guesses -> [code : Sends \cup {NoCode}, attempts : Nat]]
      BY <1>6 DEF CodesInv, TypeOK, StoreCode, guesses
  <2>4. locked' \in BOOLEAN /\ overrun' \in BOOLEAN
      BY <1>6 DEF CodesInv, TypeOK, StoreCode, keys, limits
  <2> QED
      BY <2>1, <2>2, <2>3, <2>4 DEF TypeOK
<1>7. ASSUME NEW g \in Guesses, NEW c \in Sends \cup {NoCode}, ReadCode(g, c)
      PROVE  TypeOK'
    BY <1>7 DEF CodesInv, TypeOK, ReadCode, keys, limits
<1>8. ASSUME NEW g \in Guesses, NEW done \in BOOLEAN, NEW told \in BOOLEAN, Accept(g, done, told)
      PROVE  TypeOK'
  <2>1. /\ code' \in Sends \cup {NoCode} /\ attempts' \in Nat
        /\ cooldown' \in Sends \cup {NoCode}
      BY <1>8 DEF CodesInv, TypeOK, Accept, keys, limits
  <2>2. guess' \in [Guesses -> {"idle", "decide", "again", "accepted", "invalid", "lockout",
                              "locked", "missing", "error"}]
      BY <1>8 DEF CodesInv, TypeOK, Accept, GuessTo
  <2>3. /\ send' \in [Sends -> {"idle", "asked", "store", "release", "mail", "undo",
                              "sent", "limited", "failed"}]
        /\ given' \in [Guesses -> Sends \cup {NoCode}] /\ tries' \in [Guesses -> 0..MaxTries]
        /\ seen' \in [Guesses -> [code : Sends \cup {NoCode}, attempts : Nat]]
      BY <1>8 DEF CodesInv, TypeOK, Accept
  <2>4. locked' \in BOOLEAN /\ overrun' \in BOOLEAN
      BY <1>8 DEF CodesInv, TypeOK, Accept, keys, limits
  <2> QED
      BY <2>1, <2>2, <2>3, <2>4 DEF TypeOK
<1>9. ASSUME NEW g \in Guesses, NEW done \in BOOLEAN, NEW told \in BOOLEAN, Reject(g, done, told)
      PROVE  TypeOK'
  <2>1. /\ code' \in Sends \cup {NoCode} /\ attempts' \in Nat
        /\ cooldown' \in Sends \cup {NoCode}
      BY <1>9 DEF CodesInv, TypeOK, Reject, keys, limits
  <2>2. guess' \in [Guesses -> {"idle", "decide", "again", "accepted", "invalid", "lockout",
                              "locked", "missing", "error"}]
      BY <1>9 DEF CodesInv, TypeOK, Reject, GuessTo
  <2>3. /\ send' \in [Sends -> {"idle", "asked", "store", "release", "mail", "undo",
                              "sent", "limited", "failed"}]
        /\ given' \in [Guesses -> Sends \cup {NoCode}] /\ tries' \in [Guesses -> 0..MaxTries]
        /\ seen' \in [Guesses -> [code : Sends \cup {NoCode}, attempts : Nat]]
      BY <1>9 DEF CodesInv, TypeOK, Reject
  <2>4. locked' \in BOOLEAN /\ overrun' \in BOOLEAN
    <3>1. (seen[g].attempts + 1 >= MaxAttempts) \in BOOLEAN
        OBVIOUS
    <3> QED
        BY <1>9, <3>1, Zenon DEF CodesInv, TypeOK, Reject, keys, limits
  <2> QED
      BY <2>1, <2>2, <2>3, <2>4 DEF TypeOK
<1>10. ASSUME NEW g \in Guesses, NEW noTTL \in BOOLEAN, Conflict(g, noTTL)
      PROVE  TypeOK'
    BY <1>10 DEF CodesInv, TypeOK, TriesRemain, Conflict, keys, limits
<1>11. CASE CodeExpires
    BY <1>11 DEF CodesInv, TypeOK, CodeExpires, limits, guesses
<1>12. CASE LockEnds
    BY <1>12 DEF CodesInv, TypeOK, LockEnds, limits, guesses
<1>13. CASE CooldownEnds
    BY <1>13 DEF CodesInv, TypeOK, CooldownEnds, keys, guesses
<1>14. CASE UNCHANGED vars
    BY <1>14 DEF CodesInv, TypeOK, vars, keys, limits, guesses
<1> QED
    BY <1>1, <1>2, <1>3, <1>4, <1>5, <1>6, <1>7, <1>8, <1>9, <1>10, <1>11, <1>12, <1>13, <1>14
       DEF Next

\* A guess that goes on has a try left.
LEMMA TriesStep ==
    ASSUME CodesInv, [Next]_vars
    PROVE  TriesRemain'
<1>1. ASSUME NEW s \in Sends, Ask(s)
      PROVE  TriesRemain'
    BY <1>1 DEF CodesInv, TriesRemain, Ask, guesses
<1>2. ASSUME NEW s \in Sends, NEW done \in BOOLEAN, ReleaseCooldown(s, done)
      PROVE  TriesRemain'
    BY <1>2 DEF CodesInv, TriesRemain, ReleaseCooldown, guesses
<1>3. ASSUME NEW s \in Sends, NEW ok \in BOOLEAN, Mail(s, ok)
      PROVE  TriesRemain'
    BY <1>3 DEF CodesInv, TriesRemain, Mail, guesses
<1>4. ASSUME NEW s \in Sends, NEW done \in BOOLEAN, UndoSend(s, done)
      PROVE  TriesRemain'
    BY <1>4 DEF CodesInv, TriesRemain, UndoSend, guesses
<1>5. ASSUME NEW s \in Sends, NEW done \in BOOLEAN, NEW told \in BOOLEAN,
             TakeCooldown(s, done, told)
      PROVE  TriesRemain'
    BY <1>5 DEF CodesInv, TriesRemain, TakeCooldown, guesses
<1>6. ASSUME NEW s \in Sends, NEW done \in BOOLEAN, NEW told \in BOOLEAN, StoreCode(s, done, told)
      PROVE  TriesRemain'
    BY <1>6 DEF CodesInv, TriesRemain, StoreCode, guesses
<1>7. ASSUME NEW g \in Guesses, NEW c \in Sends \cup {NoCode}, ReadCode(g, c)
      PROVE  TriesRemain'
    BY <1>7 DEF CodesInv, TriesRemain, ReadCode
<1>8. ASSUME NEW g \in Guesses, NEW done \in BOOLEAN, NEW told \in BOOLEAN, Accept(g, done, told)
      PROVE  TriesRemain'
    BY <1>8 DEF CodesInv, TriesRemain, Accept, GuessTo
<1>9. ASSUME NEW g \in Guesses, NEW done \in BOOLEAN, NEW told \in BOOLEAN, Reject(g, done, told)
      PROVE  TriesRemain'
    BY <1>9 DEF CodesInv, TriesRemain, Reject, GuessTo
<1>10. ASSUME NEW g \in Guesses, NEW noTTL \in BOOLEAN, Conflict(g, noTTL)
      PROVE  TriesRemain'
    BY <1>10 DEF CodesInv, TypeOK, TriesRemain, Conflict
<1>11. CASE CodeExpires
    BY <1>11 DEF CodesInv, TriesRemain, CodeExpires, guesses
<1>12. CASE LockEnds
    BY <1>12 DEF CodesInv, TriesRemain, LockEnds, guesses
<1>13. CASE CooldownEnds
    BY <1>13 DEF CodesInv, TriesRemain, CooldownEnds, guesses
<1>14. CASE UNCHANGED vars
    BY <1>14 DEF CodesInv, TriesRemain, vars, guesses
<1> QED
    BY <1>1, <1>2, <1>3, <1>4, <1>5, <1>6, <1>7, <1>8, <1>9, <1>10, <1>11, <1>12, <1>13, <1>14
       DEF Next

\* A code is stored once, by the send of its name.
LEMMA StoredStep ==
    ASSUME CodesInv, [Next]_vars
    PROVE  CodesAreStored'
<1>1. ASSUME NEW s \in Sends, Ask(s)
      PROVE  CodesAreStored'
    BY <1>1 DEF CodesInv, CodesAreStored, Past, Ask, SendTo, keys, guesses
<1>2. ASSUME NEW s \in Sends, NEW done \in BOOLEAN, ReleaseCooldown(s, done)
      PROVE  CodesAreStored'
    BY <1>2 DEF CodesInv, CodesAreStored, Past, ReleaseCooldown, SendTo, keys, guesses
<1>3. ASSUME NEW s \in Sends, NEW ok \in BOOLEAN, Mail(s, ok)
      PROVE  CodesAreStored'
    BY <1>3 DEF CodesInv, CodesAreStored, Past, Mail, SendTo, keys, guesses
<1>4. ASSUME NEW s \in Sends, NEW done \in BOOLEAN, UndoSend(s, done)
      PROVE  CodesAreStored'
    BY <1>4 DEF CodesInv, CodesAreStored, Past, UndoSend, SendTo, keys, guesses
<1>5. ASSUME NEW s \in Sends, NEW done \in BOOLEAN, NEW told \in BOOLEAN,
             TakeCooldown(s, done, told)
      PROVE  CodesAreStored'
    BY <1>5
       DEF CodesInv, CodesAreStored, Past, TakeCooldown, SendTo, keys, guesses
<1>6. ASSUME NEW s \in Sends, NEW done \in BOOLEAN, NEW told \in BOOLEAN, StoreCode(s, done, told)
      PROVE  CodesAreStored'
    BY <1>6
       DEF CodesInv, TypeOK, CodesAreStored, Past, StoreCode, SendTo, keys, guesses
<1>7. ASSUME NEW g \in Guesses, NEW c \in Sends \cup {NoCode}, ReadCode(g, c)
      PROVE  CodesAreStored'
    BY <1>7 DEF CodesInv, TypeOK, CodesAreStored, Past, ReadCode, keys
<1>8. ASSUME NEW g \in Guesses, NEW done \in BOOLEAN, NEW told \in BOOLEAN, Accept(g, done, told)
      PROVE  CodesAreStored'
    BY <1>8
       DEF CodesInv, TypeOK, CodesAreStored, Past, Accept, Command, GuessTo, keys
<1>9. ASSUME NEW g \in Guesses, NEW done \in BOOLEAN, NEW told \in BOOLEAN, Reject(g, done, told)
      PROVE  CodesAreStored'
    BY <1>9
       DEF CodesInv, CodesAreStored, Past, Reject, GuessTo, Unchanged, keys
<1>10. ASSUME NEW g \in Guesses, NEW noTTL \in BOOLEAN, Conflict(g, noTTL)
      PROVE  CodesAreStored'
    BY <1>10 DEF CodesInv, CodesAreStored, Past, Conflict, keys
<1>11. CASE CodeExpires
    BY <1>11 DEF CodesInv, CodesAreStored, Past, CodeExpires, guesses
<1>12. CASE LockEnds
    BY <1>12 DEF CodesInv, CodesAreStored, Past, LockEnds, guesses
<1>13. CASE CooldownEnds
    BY <1>13 DEF CodesInv, CodesAreStored, Past, CooldownEnds, keys, guesses
<1>14. CASE UNCHANGED vars
    BY <1>14 DEF CodesInv, CodesAreStored, Past, vars, keys, guesses
<1> QED
    BY <1>1, <1>2, <1>3, <1>4, <1>5, <1>6, <1>7, <1>8, <1>9, <1>10, <1>11, <1>12, <1>13, <1>14
       DEF Next

\* The code that is accepted is the one that is there; those accepted before are not.
LEMMA AcceptedStep ==
    ASSUME CodesInv, [Next]_vars
    PROVE  AcceptedOnce'
<1>1. ASSUME NEW s \in Sends, Ask(s)
      PROVE  AcceptedOnce'
    BY <1>1
       DEF CodesInv, AcceptedOnce, Ask, guesses
<1>2. ASSUME NEW s \in Sends, NEW done \in BOOLEAN, ReleaseCooldown(s, done)
      PROVE  AcceptedOnce'
    BY <1>2 DEF CodesInv, AcceptedOnce, ReleaseCooldown, guesses
<1>3. ASSUME NEW s \in Sends, NEW ok \in BOOLEAN, Mail(s, ok)
      PROVE  AcceptedOnce'
    BY <1>3
       DEF CodesInv, AcceptedOnce, Mail, guesses
<1>4. ASSUME NEW s \in Sends, NEW done \in BOOLEAN, UndoSend(s, done)
      PROVE  AcceptedOnce'
    BY <1>4
       DEF CodesInv, AcceptedOnce, UndoSend, guesses
<1>5. ASSUME NEW s \in Sends, NEW done \in BOOLEAN, NEW told \in BOOLEAN,
             TakeCooldown(s, done, told)
      PROVE  AcceptedOnce'
    BY <1>5 DEF CodesInv, AcceptedOnce, TakeCooldown, guesses
<1>6. ASSUME NEW s \in Sends, NEW done \in BOOLEAN, NEW told \in BOOLEAN, StoreCode(s, done, told)
      PROVE  AcceptedOnce'
    BY <1>6 DEF CodesInv, AcceptedOnce, StoreCode, guesses
<1>7. ASSUME NEW g \in Guesses, NEW c \in Sends \cup {NoCode}, ReadCode(g, c)
      PROVE  AcceptedOnce'
    BY <1>7 DEF CodesInv, AcceptedOnce, ReadCode
<1>8. ASSUME NEW g \in Guesses, NEW done \in BOOLEAN, NEW told \in BOOLEAN, Accept(g, done, told)
      PROVE  AcceptedOnce'
    BY <1>8 DEF CodesInv, CodesAreStored, AcceptedOnce, Accept, GuessTo, Unchanged
<1>9. ASSUME NEW g \in Guesses, NEW done \in BOOLEAN, NEW told \in BOOLEAN, Reject(g, done, told)
      PROVE  AcceptedOnce'
    BY <1>9 DEF CodesInv, AcceptedOnce, Reject, GuessTo
<1>10. ASSUME NEW g \in Guesses, NEW noTTL \in BOOLEAN, Conflict(g, noTTL)
      PROVE  AcceptedOnce'
    BY <1>10
       DEF CodesInv, AcceptedOnce, Conflict
<1>11. CASE CodeExpires
    BY <1>11
       DEF CodesInv, AcceptedOnce, CodeExpires, guesses
<1>12. CASE LockEnds
    BY <1>12 DEF CodesInv, AcceptedOnce, LockEnds, guesses
<1>13. CASE CooldownEnds
    BY <1>13 DEF CodesInv, AcceptedOnce, CooldownEnds, guesses
<1>14. CASE UNCHANGED vars
    BY <1>14 DEF CodesInv, AcceptedOnce, vars, guesses
<1> QED
    BY <1>1, <1>2, <1>3, <1>4, <1>5, <1>6, <1>7, <1>8, <1>9, <1>10, <1>11, <1>12, <1>13, <1>14
       DEF Next

\* The attempts at a code only grow.
LEMMA AttemptsStep ==
    ASSUME CodesInv, [Next]_vars
    PROVE  AttemptsGrow'
<1>1. ASSUME NEW s \in Sends, Ask(s)
      PROVE  AttemptsGrow'
    BY <1>1
       DEF CodesInv, AttemptsGrow, Ask, keys, guesses
<1>2. ASSUME NEW s \in Sends, NEW done \in BOOLEAN, ReleaseCooldown(s, done)
      PROVE  AttemptsGrow'
    BY <1>2 DEF CodesInv, AttemptsGrow, ReleaseCooldown, keys, guesses
<1>3. ASSUME NEW s \in Sends, NEW ok \in BOOLEAN, Mail(s, ok)
      PROVE  AttemptsGrow'
    BY <1>3
       DEF CodesInv, AttemptsGrow, Mail, keys, guesses
<1>4. ASSUME NEW s \in Sends, NEW done \in BOOLEAN, UndoSend(s, done)
      PROVE  AttemptsGrow'
    BY <1>4
       DEF CodesInv, CodesAreStored, AttemptsGrow, UndoSend, keys, guesses
<1>5. ASSUME NEW s \in Sends, NEW done \in BOOLEAN, NEW told \in BOOLEAN,
             TakeCooldown(s, done, told)
      PROVE  AttemptsGrow'
    BY <1>5 DEF CodesInv, AttemptsGrow, TakeCooldown, keys, guesses
<1>6. ASSUME NEW s \in Sends, NEW done \in BOOLEAN, NEW told \in BOOLEAN, StoreCode(s, done, told)
      PROVE  AttemptsGrow'
    BY <1>6 DEF CodesInv, CodesAreStored, AttemptsGrow, Past, StoreCode, SendTo, keys, guesses
<1>7. ASSUME NEW g \in Guesses, NEW c \in Sends \cup {NoCode}, ReadCode(g, c)
      PROVE  AttemptsGrow'
    BY <1>7 DEF CodesInv, TypeOK, AttemptsGrow, ReadCode, keys
<1>8. ASSUME NEW g \in Guesses, NEW done \in BOOLEAN, NEW told \in BOOLEAN, Accept(g, done, told)
      PROVE  AttemptsGrow'
    BY <1>8 DEF CodesInv, CodesAreStored, AttemptsGrow, Accept, GuessTo, keys
<1>9. ASSUME NEW g \in Guesses, NEW done \in BOOLEAN, NEW told \in BOOLEAN, Reject(g, done, told)
      PROVE  AttemptsGrow'
    BY <1>9 DEF CodesInv, TypeOK, AttemptsGrow, Reject, GuessTo, Unchanged, keys
<1>10. ASSUME NEW g \in Guesses, NEW noTTL \in BOOLEAN, Conflict(g, noTTL)
      PROVE  AttemptsGrow'
    BY <1>10
       DEF CodesInv, AttemptsGrow, Conflict, keys
<1>11. CASE CodeExpires
    BY <1>11
       DEF CodesInv, CodesAreStored, AttemptsGrow, CodeExpires, guesses
<1>12. CASE LockEnds
    BY <1>12 DEF CodesInv, AttemptsGrow, LockEnds, guesses
<1>13. CASE CooldownEnds
    BY <1>13 DEF CodesInv, AttemptsGrow, CooldownEnds, keys, guesses
<1>14. CASE UNCHANGED vars
    BY <1>14 DEF CodesInv, AttemptsGrow, vars, keys, guesses
<1> QED
    BY <1>1, <1>2, <1>3, <1>4, <1>5, <1>6, <1>7, <1>8, <1>9, <1>10, <1>11, <1>12, <1>13, <1>14
       DEF Next

\* The guess that locks a code makes every other reading of it stale.
LEMMA LockStep ==
    ASSUME CodesInv, [Next]_vars
    PROVE  LockUnseen'
<1>1. ASSUME NEW s \in Sends, Ask(s)
      PROVE  LockUnseen'
    BY <1>1 DEF CodesInv, LockUnseen, Unchanged, Ask, keys, guesses
<1>2. ASSUME NEW s \in Sends, NEW done \in BOOLEAN, ReleaseCooldown(s, done)
      PROVE  LockUnseen'
    BY <1>2 DEF CodesInv, LockUnseen, Unchanged, ReleaseCooldown, keys, guesses
<1>3. ASSUME NEW s \in Sends, NEW ok \in BOOLEAN, Mail(s, ok)
      PROVE  LockUnseen'
    BY <1>3 DEF CodesInv, LockUnseen, Unchanged, Mail, keys, guesses
<1>4. ASSUME NEW s \in Sends, NEW done \in BOOLEAN, UndoSend(s, done)
      PROVE  LockUnseen'
    BY <1>4 DEF CodesInv, LockUnseen, Unchanged, UndoSend, keys, guesses
<1>5. ASSUME NEW s \in Sends, NEW done \in BOOLEAN, NEW told \in BOOLEAN,
             TakeCooldown(s, done, told)
      PROVE  LockUnseen'
    BY <1>5 DEF CodesInv, LockUnseen, Unchanged, TakeCooldown, keys, guesses
<1>6. ASSUME NEW s \in Sends, NEW done \in BOOLEAN, NEW told \in BOOLEAN, StoreCode(s, done, told)
      PROVE  LockUnseen'
    BY <1>6 DEF CodesInv, LockUnseen, Unchanged, StoreCode, keys, guesses
<1>7. ASSUME NEW g \in Guesses, NEW c \in Sends \cup {NoCode}, ReadCode(g, c)
      PROVE  LockUnseen'
    BY <1>7 DEF CodesInv, LockUnseen, Unchanged, ReadCode, keys
<1>8. ASSUME NEW g \in Guesses, NEW done \in BOOLEAN, NEW told \in BOOLEAN, Accept(g, done, told)
      PROVE  LockUnseen'
    BY <1>8 DEF CodesInv, LockUnseen, Accept, GuessTo, keys
<1>9. ASSUME NEW g \in Guesses, NEW done \in BOOLEAN, NEW told \in BOOLEAN, Reject(g, done, told)
      PROVE  LockUnseen'
  <2> SUFFICES ASSUME locked', NEW h \in Guesses, guess'[h] = "decide", Unchanged(h)'
               PROVE  FALSE
      BY DEF LockUnseen
  <2>1. h # g /\ guess[h] = "decide" /\ seen'[h] = seen[h]
      BY <1>9 DEF CodesInv, TypeOK, Reject, GuessTo
  <2>2. CASE done
    <3>1. code' = code /\ attempts' = attempts + 1
        BY <1>9, <2>2 DEF Reject, Unchanged
    <3>2. seen[h].code = code /\ seen[h].attempts = attempts + 1
        BY <2>1, <3>1 DEF Unchanged
    <3> QED
        BY <2>1, <3>2 DEF CodesInv, TypeOK, AttemptsGrow
  <2>3. CASE ~done
      BY <1>9, <2>1, <2>3 DEF CodesInv, LockUnseen, Reject, Unchanged, keys
  <2> QED
      BY <2>2, <2>3
<1>10. ASSUME NEW g \in Guesses, NEW noTTL \in BOOLEAN, Conflict(g, noTTL)
      PROVE  LockUnseen'
    BY <1>10 DEF CodesInv, LockUnseen, Unchanged, Conflict, keys
<1>11. CASE CodeExpires
    BY <1>11 DEF CodesInv, LockUnseen, CodeExpires
<1>12. CASE LockEnds
    BY <1>12 DEF CodesInv, LockUnseen, LockEnds
<1>13. CASE CooldownEnds
    BY <1>13 DEF CodesInv, LockUnseen, Unchanged, CooldownEnds, keys, guesses
<1>14. CASE UNCHANGED vars
    BY <1>14 DEF CodesInv, LockUnseen, Unchanged, vars, keys, guesses
<1> QED
    BY <1>1, <1>2, <1>3, <1>4, <1>5, <1>6, <1>7, <1>8, <1>9, <1>10, <1>11, <1>12, <1>13, <1>14
       DEF Next

\* Between its cooldown and its mail a send is alone.
LEMMA CooldownStep ==
    ASSUME CodesInv, [Next]_vars
    PROVE  CooldownHeld'
<1>1. ASSUME NEW s \in Sends, Ask(s)
      PROVE  CooldownHeld'
    BY <1>1 DEF CodesInv, CooldownHeld, Busy, Ask, SendTo, keys, limits
<1>2. ASSUME NEW s \in Sends, NEW done \in BOOLEAN, ReleaseCooldown(s, done)
      PROVE  CooldownHeld'
    BY <1>2 DEF CodesInv, TypeOK, CooldownHeld, Busy, ReleaseCooldown, SendTo
<1>3. ASSUME NEW s \in Sends, NEW ok \in BOOLEAN, Mail(s, ok)
      PROVE  CooldownHeld'
    BY <1>3 DEF CodesInv, CooldownHeld, Busy, Mail, SendTo, keys, limits
<1>4. ASSUME NEW s \in Sends, NEW done \in BOOLEAN, UndoSend(s, done)
      PROVE  CooldownHeld'
    BY <1>4 DEF CodesInv, TypeOK, CooldownHeld, Busy, UndoSend, SendTo
<1>5. ASSUME NEW s \in Sends, NEW done \in BOOLEAN, NEW told \in BOOLEAN,
             TakeCooldown(s, done, told)
      PROVE  CooldownHeld'
    BY <1>5 DEF CodesInv, CooldownHeld, Busy, TakeCooldown, Command, SendTo, keys
<1>6. ASSUME NEW s \in Sends, NEW done \in BOOLEAN, NEW told \in BOOLEAN, StoreCode(s, done, told)
      PROVE  CooldownHeld'
    BY <1>6
       DEF CodesInv, CooldownHeld, Busy, StoreCode, Command, SendTo, limits
<1>7. ASSUME NEW g \in Guesses, NEW c \in Sends \cup {NoCode}, ReadCode(g, c)
      PROVE  CooldownHeld'
    BY <1>7 DEF CodesInv, CooldownHeld, Busy, ReadCode, keys, limits
<1>8. ASSUME NEW g \in Guesses, NEW done \in BOOLEAN, NEW told \in BOOLEAN, Accept(g, done, told)
      PROVE  CooldownHeld'
    BY <1>8
       DEF CodesInv, CooldownHeld, Busy, Accept, keys, limits
<1>9. ASSUME NEW g \in Guesses, NEW done \in BOOLEAN, NEW told \in BOOLEAN, Reject(g, done, told)
      PROVE  CooldownHeld'
    BY <1>9
       DEF CodesInv, CooldownHeld, Busy, Reject, Unchanged, keys, limits
<1>10. ASSUME NEW g \in Guesses, NEW noTTL \in BOOLEAN, Conflict(g, noTTL)
      PROVE  CooldownHeld'
    BY <1>10 DEF CodesInv, CooldownHeld, Busy, Conflict, keys, limits
<1>11. CASE CodeExpires
    BY <1>11 DEF CodesInv, CooldownHeld, Busy, CodeExpires, limits
<1>12. CASE LockEnds
    BY <1>12 DEF CodesInv, CooldownHeld, Busy, LockEnds, limits
<1>13. CASE CooldownEnds
    BY <1>13 DEF CodesInv, CooldownHeld, Busy, CooldownEnds
<1>14. CASE UNCHANGED vars
    BY <1>14 DEF CodesInv, CooldownHeld, Busy, vars, keys, limits
<1> QED
    BY <1>1, <1>2, <1>3, <1>4, <1>5, <1>6, <1>7, <1>8, <1>9, <1>10, <1>11, <1>12, <1>13, <1>14
       DEF Next

\* One more element is at most one more.
LEMMA AddOne ==
    ASSUME NEW S, NEW x, IsFiniteSet(S)
    PROVE  IsFiniteSet(S \cup {x}) /\ Cardinality(S \cup {x}) <= Cardinality(S) + 1
<1>1. Cardinality(S) \in Nat
    BY FS_CardinalityType
<1>2. /\ IsFiniteSet(S \cup {x})
      /\ Cardinality(S \cup {x}) = IF x \in S THEN Cardinality(S) ELSE Cardinality(S) + 1
    BY Zenon, FS_AddElement
<1> QED
    BY <1>1, <1>2

\* A wrong guess is counted by the one who says so.
LEMMA CountStep ==
    ASSUME CodesInv, [Next]_vars
    PROVE  WrongGuessesAreCounted'
<1> DEFINE Told == {"invalid", "lockout"}
           Wrong == {h \in Guesses : guess[h] \in Told /\ seen[h].code = code}
           WrongNext == {h \in Guesses : guess'[h] \in Told /\ seen'[h].code = code'}
<1>1. IsFiniteSet(Wrong) /\ IsFiniteSet(WrongNext)
    BY FS_Subset
<1>2. Cardinality(Wrong) \in Nat /\ Cardinality(WrongNext) \in Nat /\ attempts \in Nat
    BY <1>1, FS_CardinalityType DEF CodesInv, TypeOK
<1>3. SUFFICES ASSUME code' # NoCode
               PROVE  Cardinality(WrongNext) <= attempts'
    BY DEF WrongGuessesAreCounted
<1>4. CASE code' = code /\ attempts' = attempts /\ WrongNext \subseteq Wrong
  <2>1. Cardinality(Wrong) <= attempts
      BY <1>3, <1>4 DEF CodesInv, WrongGuessesAreCounted
  <2>2. Cardinality(WrongNext) <= Cardinality(Wrong)
      BY <1>1, <1>4, FS_Subset
  <2> QED
      BY <1>2, <1>4, <2>1, <2>2
<1>5. ASSUME NEW s \in Sends, code' = s, attempts' = 0, ~Past(s), UNCHANGED <<guess, seen>>
      PROVE  Cardinality(WrongNext) <= attempts'
  <2>1. WrongNext = {}
      BY <1>5 DEF CodesInv, CodesAreStored
  <2> QED
      BY <1>5, <2>1, FS_EmptySet
<1>6. ASSUME NEW g \in Guesses, code' = code, attempts' = attempts + 1, seen' = seen,
             \A h \in Guesses \ {g} : guess'[h] = guess[h]
      PROVE  Cardinality(WrongNext) <= attempts'
  <2>1. WrongNext \subseteq Wrong \cup {g}
      BY <1>6
  <2>2. /\ IsFiniteSet(Wrong \cup {g})
        /\ Cardinality(Wrong \cup {g}) <= Cardinality(Wrong) + 1
      BY <1>1, AddOne
  <2>3. Cardinality(WrongNext) <= Cardinality(Wrong \cup {g})
      BY <2>1, <2>2, FS_Subset
  <2>4. Cardinality(Wrong) <= attempts
      BY <1>3, <1>6 DEF CodesInv, WrongGuessesAreCounted
  <2>5. Cardinality(Wrong \cup {g}) \in Nat
      BY <2>2, FS_CardinalityType
  <2> QED
      BY <1>2, <1>6, <2>2, <2>3, <2>4, <2>5
<1>7. ASSUME NEW s \in Sends, NEW done \in BOOLEAN, UndoSend(s, done)
      PROVE  Cardinality(WrongNext) <= attempts'
  <2>1. code' = code /\ attempts' = attempts /\ WrongNext \subseteq Wrong
      BY <1>3, <1>7 DEF UndoSend, keys, guesses
  <2> QED
      BY <1>4, <2>1
<1>8. ASSUME NEW s \in Sends, NEW done \in BOOLEAN, NEW told \in BOOLEAN, StoreCode(s, done, told)
      PROVE  Cardinality(WrongNext) <= attempts'
  <2>1. CASE done
      BY <1>5, <1>8, <2>1 DEF StoreCode, SendTo, Past, guesses
  <2>2. CASE ~done
      BY <1>4, <1>8, <2>2 DEF StoreCode, keys, guesses
  <2> QED
      BY <2>1, <2>2
<1>9. ASSUME NEW g \in Guesses, NEW c \in Sends \cup {NoCode}, ReadCode(g, c)
      PROVE  Cardinality(WrongNext) <= attempts'
  <2>1. code' = code /\ attempts' = attempts /\ WrongNext \subseteq Wrong
      BY <1>3, <1>9 DEF CodesInv, ReadCode, keys
  <2> QED
      BY <1>4, <2>1
<1>10. ASSUME NEW g \in Guesses, NEW done \in BOOLEAN, NEW told \in BOOLEAN, Accept(g, done, told)
      PROVE  Cardinality(WrongNext) <= attempts'
  <2>1. code' = code /\ attempts' = attempts /\ WrongNext \subseteq Wrong
      BY <1>3, <1>10 DEF CodesInv, Accept, GuessTo, keys
  <2> QED
      BY <1>4, <2>1
<1>11. ASSUME NEW g \in Guesses, NEW done \in BOOLEAN, NEW told \in BOOLEAN, Reject(g, done, told)
      PROVE  Cardinality(WrongNext) <= attempts'
  <2>1. CASE done
      BY <1>6, <1>11, <2>1 DEF CodesInv, Reject, GuessTo, Unchanged
  <2>2. CASE ~done
    <3>1. code' = code /\ attempts' = attempts /\ WrongNext \subseteq Wrong
        BY <1>11, <2>2 DEF CodesInv, Reject, Command, GuessTo, keys
    <3> QED
        BY <1>4, <3>1
  <2> QED
      BY <2>1, <2>2
<1>12. ASSUME NEW g \in Guesses, NEW noTTL \in BOOLEAN, Conflict(g, noTTL)
      PROVE  Cardinality(WrongNext) <= attempts'
  <2>1. code' = code /\ attempts' = attempts /\ WrongNext \subseteq Wrong
      BY <1>3, <1>12 DEF CodesInv, Conflict, keys
  <2> QED
      BY <1>4, <2>1
<1>13. CASE CodeExpires
    BY <1>3, <1>13 DEF CodeExpires
<1>14. CASE UNCHANGED <<code, attempts, guess, seen>>
    BY <1>4, <1>14
<1> QED
    BY <1>7, <1>8, <1>9, <1>10, <1>11, <1>12, <1>13, <1>14
    DEF Next, vars, keys, guesses, Ask, ReleaseCooldown, Mail, TakeCooldown, LockEnds, CooldownEnds

\* A guess that gets through has read what is there; under a lock nobody has.
LEMMA LockedStep ==
    ASSUME CodesInv, [Next]_vars, locked, locked', NEW g \in Guesses, guess'[g] # guess[g]
    PROVE  guess'[g] \notin {"accepted", "invalid", "lockout"}
<1>1. ASSUME NEW h \in Guesses, NEW c \in Sends \cup {NoCode}, ReadCode(h, c)
      PROVE  guess'[g] \notin {"accepted", "invalid", "lockout"}
    BY <1>1 DEF CodesInv, ReadCode
<1>2. ASSUME NEW h \in Guesses, NEW done \in BOOLEAN, NEW told \in BOOLEAN,
             Accept(h, done, told) \/ Reject(h, done, told)
      PROVE  FALSE
    BY <1>2 DEF CodesInv, LockUnseen, Accept, Reject, GuessTo
<1>3. ASSUME NEW h \in Guesses, NEW noTTL \in BOOLEAN, Conflict(h, noTTL)
      PROVE  guess'[g] \notin {"accepted", "invalid", "lockout"}
    BY <1>3 DEF CodesInv, Conflict
<1>4. CASE UNCHANGED guess
    BY <1>4
<1> QED
    BY <1>1, <1>2, <1>3, <1>4
    DEF Next, vars, guesses, Ask, ReleaseCooldown, Mail, UndoSend, TakeCooldown, StoreCode,
        CodeExpires, LockEnds, CooldownEnds

\* Only the send itself ends its "undo", and the code that is there then is its own.
LEMMA UndoneStep ==
    ASSUME CodesInv, [Next]_vars, NEW s \in Sends, NEW t \in Sends,
           send[s] = "undo", send'[s] = "failed", s # t, code = t, send[t] = "sent"
    PROVE  code' = t \/ overrun
    BY DEF CodesInv, CooldownHeld

-------------------------------------------------------------------------------
(* The theorems *)

\* Nothing has been mailed or guessed.
LEMMA InitInv == Init => CodesInv
<1> SUFFICES ASSUME Init PROVE CodesInv
    OBVIOUS
<1>1. TypeOK
  <2>1. locked \in BOOLEAN /\ overrun \in BOOLEAN
      BY Zenon DEF Init
  <2>2. seen \in [Guesses -> [code : Sends \cup {NoCode}, attempts : Nat]]
      BY DEF Init
  <2>3. tries \in [Guesses -> 0..MaxTries]
      BY CodesAssumption DEF Init
  <2> QED
      BY <2>1, <2>2, <2>3 DEF Init, TypeOK
<1>2. TriesRemain
    BY CodesAssumption DEF Init, TriesRemain
<1>3. CodesAreStored /\ AcceptedOnce /\ AttemptsGrow /\ LockUnseen
    BY DEF Init, CodesAreStored, AcceptedOnce, AttemptsGrow, LockUnseen
<1>4. WrongGuessesAreCounted /\ CooldownHeld
    BY DEF Init, WrongGuessesAreCounted, CooldownHeld, Busy
<1> QED
    BY <1>1, <1>2, <1>3, <1>4 DEF CodesInv

\* The inductive invariant, for any number of mails and guesses, and any limits.
THEOREM CodesInvariant == Spec => []CodesInv
<1>1. CodesInv /\ [Next]_vars => CodesInv'
    BY TypeStep, TriesStep, StoredStep, AcceptedStep, AttemptsStep, LockStep, CountStep,
       CooldownStep DEF CodesInv
<1> QED
    BY InitInv, <1>1, PTL DEF Spec

\* The types of Redis' keys and of the requests.
THEOREM CodeTypes == Spec => []TypeOK
<1>1. CodesInv => TypeOK
    BY DEF CodesInv
<1> QED
    BY CodesInvariant, <1>1, PTL

\* However guesses interleave, one code is accepted once (cache/store.go:113).
THEOREM CodeAcceptedOnce == Spec => []AcceptedOnce
<1>1. CodesInv => AcceptedOnce
    BY DEF CodesInv
<1> QED
    BY CodesInvariant, <1>1, PTL

\* Concurrent wrong guesses are all counted: nobody tries more often than MaxAttempts allows by
\* guessing in parallel.
THEOREM GuessesCounted == Spec => []WrongGuessesAreCounted
<1>1. CodesInv => WrongGuessesAreCounted
    BY DEF CodesInv
<1> QED
    BY CodesInvariant, <1>1, PTL

\* A locked code rejects the guesses that had read it before, too.
THEOREM LocksHold == Spec => LockedCodeRejects
<1>1. CodesInv /\ [Next]_vars =>
          [(locked /\ locked') =>
              \A g \in Guesses :
                  guess'[g] # guess[g] => guess'[g] \notin {"accepted", "invalid", "lockout"}]_vars
    BY LockedStep
<1> QED
    BY CodesInvariant, <1>1, PTL DEF Spec, LockedCodeRejects

\* A failed mail takes back no code that another send has mailed, unless a mail has outlasted
\* the cooldown (auth.go:91).
THEOREM MailedCodesStay == Spec => MailedCodeStays
<1>1. CodesInv /\ [Next]_vars =>
          [\A s, t \in Sends :
              (send[s] = "undo" /\ send'[s] = "failed" /\ s # t /\ code = t /\ send[t] = "sent")
                  => code' = t \/ overrun]_vars
    BY UndoneStep
<1> QED
    BY CodesInvariant, <1>1, PTL DEF Spec, MailedCodeStays
===============================================================================
