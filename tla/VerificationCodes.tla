-------------------------- MODULE VerificationCodes --------------------------
(***************************************************************************)
(* The verification codes of one e-mail address and one purpose: sendCode   *)
(* and consumeVerification of internal/controlplane/auth.go over            *)
(* PutVerification, DeleteVerification and ConsumeVerification of           *)
(* internal/infrastructure/cache/store.go.                                  *)
(*                                                                         *)
(* Redis holds one code, with the wrong guesses that were made at it, and a *)
(* cooldown for the next mail.  Mails are sent, and guesses made, at the    *)
(* same time; a guess reads the code, decides, and writes in a transaction  *)
(* that fails when the key has changed since.                               *)
(***************************************************************************)
EXTENDS Integers, FiniteSets

CONSTANTS
    Sends,          \* requests for a mail; each makes the code of its name
    Guesses,        \* requests that give a code
    NoCode,         \* no key; also a guess that is no code
    MaxAttempts,    \* Config.MaxAttempts
    MaxTries,       \* of ConsumeVerification
    Faults          \* what a run lets go wrong: "redis", "mail", and "slow": a mail outlasts
                    \* the cooldown

ASSUME CodesAssumption ==
    /\ NoCode \notin Sends /\ IsFiniteSet(Guesses)
    /\ MaxAttempts \in Nat \ {0} /\ MaxTries \in Nat \ {0}

VARIABLES
    code,       \* email_verification:<email>:<purpose>: which code, or NoCode ...
    attempts,   \* ... and its wrong guesses
    locked,     \* its LockedUntil is in the future
    cooldown,   \* who set the cooldown key; NoCode: not set
    overrun,    \* a mail has outlasted its cooldown
    send,       \* where a send is
    guess,      \* where a guess is
    given,      \* the code it gives
    seen,       \* what it has read: the code and its attempts
    tries       \* how often it has tried

keys     == <<code, attempts, locked>>
guesses  == <<guess, given, seen, tries>>
limits   == <<cooldown, overrun>>
vars == <<keys, limits, send, guesses>>

Init ==
    /\ code = NoCode /\ attempts = 0 /\ locked = FALSE
    /\ cooldown = NoCode /\ overrun = FALSE
    /\ send = [s \in Sends |-> "idle"]
    /\ guess = [g \in Guesses |-> "idle"]
    /\ given = [g \in Guesses |-> NoCode]
    /\ seen = [g \in Guesses |-> [code |-> NoCode, attempts |-> 0]]
    /\ tries = [g \in Guesses |-> 0]

\* A command is done or not, and the request is told so or told of an error.
Command(done, told) ==
    /\ told => done
    /\ ~told => "redis" \in Faults

SendTo(s, from, to) ==
    /\ send[s] = from
    /\ send' = [send EXCEPT ![s] = to]

-------------------------------------------------------------------------------
(* sendCode *)

\* The address is free, or somebody's: whether it may have a mail is found out first.
Ask(s) ==
    /\ SendTo(s, "idle", "asked")
    /\ UNCHANGED <<keys, limits, guesses>>

\* Mutant: the cooldown is set, but nobody looks whether it was.
TakeCooldownAnyway(s, done, told) ==
    /\ Command(done, told)
    /\ SendTo(s, "asked", IF told THEN "store" ELSE "failed")
    /\ cooldown' = IF done THEN s ELSE cooldown
    /\ UNCHANGED <<keys, overrun, guesses>>

\* PutVerification: SETNX of the cooldown.
TakeCooldown(s, done, told) ==
    /\ Command(done, told)
    /\ SendTo(s, "asked", IF ~told THEN "failed" ELSE IF cooldown = NoCode THEN "store" ELSE "limited")
    /\ cooldown' = IF done /\ cooldown = NoCode THEN s ELSE cooldown
    /\ UNCHANGED <<keys, overrun, guesses>>

\* The code replaces an older one, its attempts and its lock.
StoreCode(s, done, told) ==
    /\ Command(done, told)
    /\ SendTo(s, "store", IF told THEN "mail" ELSE "release")
    /\ IF done THEN code' = s /\ attempts' = 0 /\ locked' = FALSE ELSE UNCHANGED keys
    /\ UNCHANGED <<limits, guesses>>

\* It could not be stored: the cooldown is given back, if that can be done.
ReleaseCooldown(s, done) ==
    /\ Command(done, done)
    /\ SendTo(s, "release", "failed")
    /\ cooldown' = IF done THEN NoCode ELSE cooldown
    /\ UNCHANGED <<keys, overrun, guesses>>

\* The mail server takes the mail or does not.
Mail(s, ok) ==
    /\ SendTo(s, "mail", IF ok THEN "sent" ELSE "undo")
    /\ ok \/ "mail" \in Faults
    /\ UNCHANGED <<keys, limits, guesses>>

\* DeleteVerification: whatever code and cooldown there are.
UndoSend(s, done) ==
    /\ Command(done, done)
    /\ SendTo(s, "undo", "failed")
    /\ IF done
       THEN code' = NoCode /\ attempts' = 0 /\ locked' = FALSE /\ cooldown' = NoCode
       ELSE UNCHANGED <<keys, cooldown>>
    /\ UNCHANGED <<overrun, guesses>>

-------------------------------------------------------------------------------
(* ConsumeVerification *)

GuessTo(g, from, to) ==
    /\ guess[g] = from
    /\ guess' = [guess EXCEPT ![g] = to]

\* WATCH and GET.
ReadCode(g, c) ==
    /\ guess[g] = "idle" \/ (guess[g] = "again" /\ c = given[g])
    /\ guess' = [guess EXCEPT ![g] = IF code = NoCode THEN "missing"
                                     ELSE IF locked THEN "locked" ELSE "decide"]
    /\ given' = [given EXCEPT ![g] = c]
    /\ seen' = [seen EXCEPT ![g] = [code |-> code, attempts |-> attempts]]
    /\ UNCHANGED <<keys, limits, send, tries>>

\* Mutant: the transaction does not depend on the key it watched.
UnchangedUnwatched(g) == TRUE

\* Nobody has written the key since; a code is never stored twice.
Unchanged(g) == seen[g] = [code |-> code, attempts |-> attempts]

\* Mutant: the request starts again as often as it takes.
ConflictAgain(g, noTTL) ==
    /\ guess[g] = "decide" /\ ~Unchanged(g)
    /\ noTTL => code = NoCode /\ given[g] # seen[g].code
    /\ tries' = [tries EXCEPT ![g] = IF noTTL THEN @ ELSE @ + 1]
    /\ guess' = [guess EXCEPT ![g] = IF noTTL THEN "missing" ELSE "again"]
    /\ UNCHANGED <<keys, limits, send, given, seen>>

\* The key was written meanwhile: five times at most, the request starts again.  A wrong guess
\* at a key that is gone finds no TTL.
Conflict(g, noTTL) ==
    /\ guess[g] = "decide" /\ ~Unchanged(g)
    /\ noTTL => code = NoCode /\ given[g] # seen[g].code
    /\ tries' = [tries EXCEPT ![g] = IF noTTL THEN @ ELSE @ + 1]
    /\ guess' = [guess EXCEPT ![g] = IF noTTL THEN "missing"
                                     ELSE IF tries[g] + 1 = MaxTries THEN "error" ELSE "again"]
    /\ UNCHANGED <<keys, limits, send, given, seen>>

\* The right code: its key is deleted.
Accept(g, done, told) ==
    /\ given[g] = seen[g].code /\ Unchanged(g)
    /\ Command(done, told)
    /\ GuessTo(g, "decide", IF told THEN "accepted" ELSE "error")
    /\ IF done THEN code' = NoCode /\ attempts' = 0 /\ locked' = FALSE ELSE UNCHANGED keys
    /\ UNCHANGED <<limits, send, given, seen, tries>>

\* A wrong one: it is counted, and the one that reaches the limit locks.
Reject(g, done, told) ==
    /\ given[g] # seen[g].code /\ Unchanged(g)
    /\ Command(done, told)
    /\ LET n == seen[g].attempts + 1 IN
       /\ GuessTo(g, "decide",
                  IF ~told THEN "error" ELSE IF n >= MaxAttempts THEN "lockout" ELSE "invalid")
       /\ IF done
          THEN code' = seen[g].code /\ attempts' = n /\ locked' = (n >= MaxAttempts)
          ELSE UNCHANGED keys
    /\ UNCHANGED <<limits, send, given, seen, tries>>

-------------------------------------------------------------------------------
(* Time *)

\* The key of a locked code lives at least as long as the lock.
CodeExpires ==
    /\ code # NoCode /\ ~locked
    /\ code' = NoCode /\ attempts' = 0
    /\ UNCHANGED <<locked, limits, send, guesses>>

LockEnds ==
    /\ locked
    /\ locked' = FALSE
    /\ UNCHANGED <<code, attempts, limits, send, guesses>>

\* Redis answers well before, but nothing bounds the wait for the mail server's greeting.
CooldownEnds ==
    /\ cooldown # NoCode /\ send[cooldown] \notin {"store", "release"}
    /\ overrun' = (overrun \/ send[cooldown] \in {"mail", "undo"})
    /\ overrun' => "slow" \in Faults
    /\ cooldown' = NoCode
    /\ UNCHANGED <<keys, send, guesses>>

-------------------------------------------------------------------------------
Next ==
    \/ \E s \in Sends, done \in BOOLEAN :
        \/ Ask(s) \/ ReleaseCooldown(s, done) \/ Mail(s, done) \/ UndoSend(s, done)
        \/ \E told \in BOOLEAN : TakeCooldown(s, done, told) \/ StoreCode(s, done, told)
    \/ \E g \in Guesses :
        \/ \E c \in Sends \cup {NoCode} : ReadCode(g, c)
        \/ \E done, told \in BOOLEAN : Accept(g, done, told) \/ Reject(g, done, told)
        \/ \E noTTL \in BOOLEAN : Conflict(g, noTTL)
    \/ CodeExpires \/ LockEnds \/ CooldownEnds

Spec == Init /\ [][Next]_vars

-------------------------------------------------------------------------------
TypeOK ==
    /\ code \in Sends \cup {NoCode}
    /\ attempts \in Nat
    /\ locked \in BOOLEAN
    /\ cooldown \in Sends \cup {NoCode}
    /\ overrun \in BOOLEAN
    /\ send \in [Sends -> {"idle", "asked", "store", "release", "mail", "undo",
                           "sent", "limited", "failed"}]
    /\ guess \in [Guesses -> {"idle", "decide", "again", "accepted", "invalid", "lockout",
                              "locked", "missing", "error"}]
    /\ given \in [Guesses -> Sends \cup {NoCode}]
    /\ seen \in [Guesses -> [code : Sends \cup {NoCode}, attempts : Nat]]
    /\ tries \in [Guesses -> 0..MaxTries]

\* However guesses interleave, a code is accepted once.
AcceptedOnce ==
    \A g, h \in Guesses :
        (guess[g] = "accepted" /\ guess[h] = "accepted" /\ given[g] = given[h]) => g = h

\* Nobody is told that a guess was wrong without its being counted: concurrent guesses do not
\* overwrite each other's attempts.
WrongGuessesAreCounted ==
    code # NoCode =>
        Cardinality({g \in Guesses : guess[g] \in {"invalid", "lockout"} /\ seen[g].code = code})
            <= attempts

\* While a code is locked no guess at it gets through, not even one that had already read the
\* code when the lock was set.
LockedCodeRejects ==
    [][(locked /\ locked') =>
        \A g \in Guesses : guess'[g] # guess[g] => guess'[g] \notin {"accepted", "invalid", "lockout"}]_vars

\* A code that was mailed is not taken back by another send whose mail failed, unless a mail
\* has outlasted the cooldown that keeps sends apart.
MailedCodeStays ==
    [][\A s, t \in Sends :
        (send[s] = "undo" /\ send'[s] = "failed" /\ s # t /\ code = t /\ send[t] = "sent")
            => code' = t \/ overrun]_vars
===============================================================================
