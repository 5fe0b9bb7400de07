--------------------------- MODULE RefreshSessions ---------------------------
(***************************************************************************)
(* The refresh sessions of one account: Login, Refresh, Logout and          *)
(* ResetPassword of internal/controlplane/auth.go over the session keys of  *)
(* internal/infrastructure/cache/store.go.                                  *)
(*                                                                         *)
(* A refresh token is a key of its own in Redis, held by its hash.  A login *)
(* starts a family of them; a refresh replaces a token by the next one of   *)
(* its family.  A set per user lists its families: a password reset reads   *)
(* it and marks every family in it as revoked.  Requests run concurrently,  *)
(* one action for each transaction or statement; any of them may fail, and  *)
(* any request may stop between two of them.                                *)
(*                                                                         *)
(* The one token a request issues goes by the name of the request, and so   *)
(* does the family a login starts.  Passwords are numbered.  The code that  *)
(* a reset consumes first is the business of VerificationCodes.             *)
(***************************************************************************)
EXTENDS Integers

CONSTANTS
    Requests,
    None,       \* no family: the request issues no token
    Faults      \* what a run lets go wrong: "redis", "expiry"

ASSUME SessionsAssumption == None \notin Requests

VARIABLES
    password,   \* the user's: as many resets as have stored one
    live,       \* refresh:<hash>: the tokens that are there
    used,       \* refresh_used:<hash>: the tokens that were rotated
    listed,     \* user_families:<user>
    revoked,    \* family_revoked:<family>
    marked,     \* the tokens that were there when their family was last marked: their keys
                \* expire before the mark does
    step,       \* where a request is
    family,     \* of the session a request starts or rotates
    token,      \* that a refresh presents
    version,    \* of the password a login gave, or a reset stored
    seen,       \* the families a reset has read
    late        \* logins and refreshes whose session a reset could no longer see

redis == <<live, used, listed, revoked, marked>>
local == <<family, token, version, seen>>
vars  == <<password, redis, step, local, late>>

\* What a request may be doing: a login, a refresh, a reset, and how each ends.
Steps == {"idle", "issue", "check", "exec", "reused", "list", "mark",
          "answered", "reset", "refused", "logout"}

Init ==
    /\ password = 0
    /\ live = {} /\ used = {} /\ listed = {} /\ revoked = {} /\ marked = {}
    /\ step = [r \in Requests |-> "idle"]
    /\ family = [r \in Requests |-> None]
    /\ token = [r \in Requests |-> None]
    /\ version = [r \in Requests |-> 0]
    /\ seen = [r \in Requests |-> {}]
    /\ late = {}

\* A request goes on to its next statement, or ends.
To(r, from, to) ==
    /\ step[r] = from
    /\ step' = [step EXCEPT ![r] = to]

\* A statement is done or not, and the request is told so or told of an error.
Statement(done, told) ==
    /\ told => done
    /\ ~told => "redis" \in Faults

\* The sessions of the families in F are no longer accepted.
Mark(F) ==
    /\ revoked' = revoked \cup F
    /\ marked' = marked \cup {t \in live : family[t] \in F}

\* A reset has read the list, and will not mark a family that is added to it now: it forgets
\* one that is, and one of an older password was to be ended by it.
ResetHasRead(v) ==
    \E q \in Requests : step[q] = "mark" \/ (step[q] = "reset" /\ version[q] > v)

-------------------------------------------------------------------------------
(* Login *)

\* The account is read and the password verified.  Who logs in may know an old one.
VerifyPassword(r, v) ==
    /\ v \in 0..password
    /\ To(r, "idle", IF v = password THEN "issue" ELSE "refused")
    /\ version' = [version EXCEPT ![r] = v]
    /\ family' = [family EXCEPT ![r] = IF v = password THEN r ELSE None]
    /\ UNCHANGED <<password, redis, token, seen, late>>

\* issueSession, CreateSession.
CreateSession(r, done, told) ==
    /\ Statement(done, told)
    /\ To(r, "issue", IF told THEN "answered" ELSE "refused")
    /\ IF done THEN live' = live \cup {r} /\ listed' = listed \cup {r}
               ELSE UNCHANGED <<live, listed>>
    /\ late' = IF ResetHasRead(version[r]) THEN late \cup {r} ELSE late
    /\ UNCHANGED <<password, used, revoked, marked, local>>

-------------------------------------------------------------------------------
(* Refresh *)

\* Tokens a client has been given.
Issued == {t \in Requests : step[t] = "answered"}

\* GetSession: the token is there and its family is not revoked.
GetSession(r, t) ==
    /\ t \in Issued
    /\ To(r, "idle", IF t \in live /\ family[t] \notin revoked THEN "check" ELSE "refused")
    /\ token' = [token EXCEPT ![r] = t]
    /\ UNCHANGED <<password, redis, family, version, seen, late>>

\* RotateSession from WATCH on: the token is read again, and then the mark of its family.
\* One that has been rotated meanwhile is being used a second time.
CheckRotation(r) ==
    LET t == token[r] IN
    /\ To(r, "check",
          IF t \in live THEN IF family[t] \in revoked THEN "refused" ELSE "exec"
                        ELSE IF t \in used THEN "reused" ELSE "refused")
    /\ UNCHANGED <<password, redis, local, late>>

\* Mutant: the family is taken from the rotation that did not happen.
RevokeReusedEmpty(r, done) ==
    /\ To(r, "reused", "refused")
    /\ Statement(done, done)
    /\ IF done THEN Mark({family[r]}) ELSE UNCHANGED <<revoked, marked>>
    /\ UNCHANGED <<password, live, used, listed, local, late>>

\* ... and its whole family is revoked, whether the error is seen or not.
RevokeReused(r, done) ==
    /\ To(r, "reused", "refused")
    /\ Statement(done, done)
    /\ IF done THEN Mark({family[token[r]]}) ELSE UNCHANGED <<revoked, marked>>
    /\ UNCHANGED <<password, live, used, listed, local, late>>

\* Mutant: the transaction does not depend on the key it watched.
ExecUnwatched(r, done, told) ==
    /\ Statement(done, told)
    /\ To(r, "exec", IF told THEN "answered" ELSE "refused")
    /\ family' = [family EXCEPT ![r] = family[token[r]]]
    /\ version' = [version EXCEPT ![r] = version[token[r]]]
    /\ IF done
       THEN /\ live' = (live \ {token[r]}) \cup {r}
            /\ used' = used \cup {token[r]}
            /\ listed' = listed \cup {family[token[r]]}
       ELSE UNCHANGED <<live, used, listed>>
    /\ UNCHANGED <<password, revoked, marked, token, seen, late>>

\* EXEC: nothing if the watched key was deleted, or has expired: the request tries again.
\* Otherwise the next token replaces it; the mark of the family was not watched.
Exec(r, done, told) ==
    LET t == token[r] IN
    /\ Statement(done, told)
    /\ IF t \notin live
       THEN To(r, "exec", "check") /\ UNCHANGED <<live, used, listed, family, version, late>>
       ELSE /\ To(r, "exec", IF told THEN "answered" ELSE "refused")
            /\ family' = [family EXCEPT ![r] = family[t]]
            /\ version' = [version EXCEPT ![r] = version[t]]
            /\ IF done
               THEN /\ live' = (live \ {t}) \cup {r}
                    /\ used' = used \cup {t}
                    /\ listed' = listed \cup {family[t]}
                    /\ late' = IF ResetHasRead(version[t]) \/ t \in late
                               THEN late \cup {r} ELSE late
               ELSE UNCHANGED <<live, used, listed, late>>
    /\ UNCHANGED <<password, revoked, marked, token, seen>>

-------------------------------------------------------------------------------
(* Logout and ResetPassword *)

\* Logout deletes the token it is shown.
Logout(r, t, done) ==
    /\ t \in Issued
    /\ Statement(done, done)
    /\ To(r, "idle", "logout")
    /\ live' = IF done THEN live \ {t} ELSE live
    /\ UNCHANGED <<password, used, listed, revoked, marked, local, late>>

\* The code was right: the new password is stored.
StorePassword(r) ==
    /\ To(r, "idle", "list")
    /\ password' = password + 1
    /\ version' = [version EXCEPT ![r] = password + 1]
    /\ UNCHANGED <<redis, family, token, seen, late>>

\* RevokeUserSessions reads the list ...
ListFamilies(r, done) ==
    /\ Statement(done, done)
    /\ To(r, "list", IF done THEN "mark" ELSE "refused")
    /\ seen' = [seen EXCEPT ![r] = IF done THEN listed ELSE {}]
    /\ UNCHANGED <<password, redis, family, token, version, late>>

\* Mutant: the sessions are only taken off the list.
ForgetFamilies(r, done, told) ==
    /\ Statement(done, told)
    /\ To(r, "mark", IF told THEN "reset" ELSE "refused")
    /\ listed' = IF done THEN {} ELSE listed
    /\ UNCHANGED <<password, live, used, revoked, marked, local, late>>

\* ... and then, in one transaction, marks what it has read and deletes what is there.
MarkFamilies(r, done, told) ==
    /\ Statement(done, told)
    /\ To(r, "mark", IF told THEN "reset" ELSE "refused")
    /\ IF done THEN Mark(seen[r]) /\ listed' = {}
               ELSE UNCHANGED <<revoked, marked, listed>>
    /\ UNCHANGED <<password, live, used, local, late>>

-------------------------------------------------------------------------------
(* Redis expires keys: all live for RefreshTTL *)

ExpireToken(t) ==
    /\ "expiry" \in Faults
    /\ t \in live
    /\ live' = live \ {t}
    /\ UNCHANGED <<password, used, listed, revoked, marked, step, local, late>>

\* Not before the tokens that were there when it was set.
ExpireMark(f) ==
    /\ "expiry" \in Faults
    /\ f \in revoked
    /\ \A t \in live \cap marked : family[t] # f
    /\ revoked' = revoked \ {f}
    /\ UNCHANGED <<password, live, used, listed, marked, step, local, late>>

-------------------------------------------------------------------------------
Next ==
    \E r \in Requests :
        \/ \E v \in 0..password : VerifyPassword(r, v)
        \/ \E t \in Requests : GetSession(r, t)
        \/ \E done \in BOOLEAN :
            \/ RevokeReused(r, done) \/ ListFamilies(r, done)
            \/ \E t \in Requests : Logout(r, t, done)
            \/ \E told \in BOOLEAN :
                CreateSession(r, done, told) \/ Exec(r, done, told) \/ MarkFamilies(r, done, told)
        \/ CheckRotation(r) \/ StorePassword(r)
        \/ ExpireToken(r) \/ ExpireMark(r)

Spec == Init /\ [][Next]_vars

-------------------------------------------------------------------------------
TypeOK ==
    /\ password \in Nat
    /\ live \subseteq Requests /\ used \subseteq Requests
    /\ listed \subseteq Requests /\ revoked \subseteq Requests /\ marked \subseteq Requests
    /\ step \in [Requests -> Steps]
    /\ family \in [Requests -> Requests \cup {None}]
    /\ token \in [Requests -> Requests \cup {None}]
    /\ version \in [Requests -> Nat]
    /\ seen \in [Requests -> SUBSET Requests]
    /\ late \subseteq Requests

\* Two refreshes with one token, or one and a logout, whichever way they interleave, never
\* leave a family with two tokens.
OneTokenPerFamily == \A t, u \in live : family[t] = family[u] => t = u

\* A family whose last token was deleted, by a logout or because it expired, never has one
\* again: a refresh that had already looked at that token does not bring the session back.
\* (A family that a reset or a reused token has marked keeps its token: see SurvivorsWereLate.)
EndedFamilyStaysEnded ==
    [][\A t \in Requests :
        (step[t] = "answered" /\ \A u \in live : family[u] # family[t])
            => \A u \in live' : family'[u] # family[t]]_vars

\* A session a client can still refresh.
Usable(t) == t \in live /\ family[t] \notin revoked

\* A session that outlives a reset which reported success, though its login had not used the
\* new password, was created or rotated while a reset was already past its list.
SurvivorsWereLate ==
    \A t, q \in Requests :
        (Usable(t) /\ step[q] = "reset" /\ version[t] < version[q]) => t \in late
===============================================================================
