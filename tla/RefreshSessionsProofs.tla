------------------------ MODULE RefreshSessionsProofs -------------------------
(***************************************************************************)
(* RefreshSessions for any number of requests and any faults: one token of  *)
(* a family, families that end for good, and which sessions a reset leaves. *)
(*                                                                         *)
(* The strengthening follows a token from its creation to a reset: a family *)
(* is started by one login, a token that no reset missed is on the list,    *)
(* then in what the reset has read, then marked.                            *)
(***************************************************************************)
EXTENDS RefreshSessions, TLAPS

\* How a request that has issued a token may stand: told of it or not.
Issuing == {"answered", "refused"}

\* A token is issued by a request that is over, into a family; a reused one was such a token.
TokensAreIssued ==
    /\ \A t \in live \cup used : step[t] \in Issuing /\ family[t] \in Requests
    /\ \A r \in Requests :
        /\ step[r] = "answered" => family[r] \in Requests
        /\ step[r] \in {"check", "exec", "reused"} => token[r] \in Requests
        /\ step[r] = "reused" => token[r] \in used

\* A family is started by the login it is named after, before anybody else is in it.
FamiliesStartOnce ==
    \A r \in Requests :
        /\ step[r] = "idle" => family[r] = None
        /\ step[r] = "issue" => family[r] = r
        /\ family[r] \in Requests \ {r} => step[family[r]] \in Issuing

\* A token of a family that is marked, and that was there when it was marked.
Ended(t) == family[t] \in revoked /\ t \in marked

\* A session no reset has missed is on the list of its user's, and in what a reset has read.
ListCovers ==
    \A t \in live \ late :
        /\ family[t] \in listed \/ Ended(t)
        /\ \A q \in Requests : step[q] = "mark" => family[t] \in seen[q] \/ Ended(t)

\* What a finished reset has not missed it has ended.
ResetsHold ==
    \A q \in Requests, t \in live \ late :
        step[q] = "reset" /\ version[t] < version[q] => Ended(t)

SessionInv ==
    TypeOK /\ TokensAreIssued /\ FamiliesStartOnce /\ OneTokenPerFamily /\ ListCovers /\ ResetsHold

-------------------------------------------------------------------------------
USE SessionsAssumption

\* Every step keeps the types.
LEMMA TypeStep ==
    ASSUME SessionInv, [Next]_vars
    PROVE  TypeOK'
<1>1. ASSUME NEW r \in Requests, NEW v \in 0..password, VerifyPassword(r, v)
      PROVE  TypeOK'
    BY <1>1 DEF SessionInv, TypeOK, Steps, VerifyPassword, To, redis
<1>2. ASSUME NEW r \in Requests, NEW done \in BOOLEAN, NEW told \in BOOLEAN,
             CreateSession(r, done, told)
      PROVE  TypeOK'
    BY <1>2 DEF SessionInv, TypeOK, Steps, CreateSession, To, local
<1>3. ASSUME NEW r \in Requests, NEW t \in Requests, GetSession(r, t)
      PROVE  TypeOK'
    BY <1>3 DEF SessionInv, TypeOK, Steps, GetSession, To, redis
<1>4. ASSUME NEW r \in Requests, CheckRotation(r)
      PROVE  TypeOK'
    BY <1>4 DEF SessionInv, TypeOK, Steps, CheckRotation, To, local, redis
<1>5. ASSUME NEW r \in Requests, NEW done \in BOOLEAN, RevokeReused(r, done)
      PROVE  TypeOK'
    BY <1>5 DEF SessionInv, TypeOK, TokensAreIssued, Steps, RevokeReused, To, local, Mark
<1>6. ASSUME NEW r \in Requests, NEW done \in BOOLEAN, NEW told \in BOOLEAN, Exec(r, done, told)
      PROVE  TypeOK'
    BY <1>6 DEF SessionInv, TypeOK, TokensAreIssued, Steps, Exec, To
<1>7. ASSUME NEW r \in Requests, NEW t \in Requests, NEW done \in BOOLEAN, Logout(r, t, done)
      PROVE  TypeOK'
    BY <1>7 DEF SessionInv, TypeOK, Steps, Logout, To, local
<1>8. ASSUME NEW r \in Requests, StorePassword(r)
      PROVE  TypeOK'
    BY <1>8 DEF SessionInv, TypeOK, Steps, StorePassword, To, redis
<1>9. ASSUME NEW r \in Requests, NEW done \in BOOLEAN, ListFamilies(r, done)
      PROVE  TypeOK'
    BY <1>9 DEF SessionInv, TypeOK, Steps, ListFamilies, To, redis
<1>10. ASSUME NEW r \in Requests, NEW done \in BOOLEAN, NEW told \in BOOLEAN,
             MarkFamilies(r, done, told)
      PROVE  TypeOK'
    BY <1>10 DEF SessionInv, TypeOK, Steps, MarkFamilies, To, local, Mark
<1>11. ASSUME NEW r \in Requests, ExpireToken(r)
      PROVE  TypeOK'
    BY <1>11 DEF SessionInv, TypeOK, ExpireToken, local
<1>12. ASSUME NEW r \in Requests, ExpireMark(r)
      PROVE  TypeOK'
    BY <1>12 DEF SessionInv, TypeOK, ExpireMark, local
<1>13. CASE UNCHANGED vars
    BY <1>13 DEF SessionInv, TypeOK, vars, redis, local
<1> QED
    BY <1>1, <1>2, <1>3, <1>4, <1>5, <1>6, <1>7, <1>8, <1>9, <1>10, <1>11, <1>12, <1>13 DEF Next

\* Tokens come from requests that are over, and stay theirs.
LEMMA IssuedStep ==
    ASSUME SessionInv, [Next]_vars
    PROVE  TokensAreIssued'
<1>1. ASSUME NEW r \in Requests, NEW v \in 0..password, VerifyPassword(r, v)
      PROVE  TokensAreIssued'
    BY <1>1 DEF SessionInv, TokensAreIssued, Issuing, VerifyPassword, To, redis
<1>2. ASSUME NEW r \in Requests, NEW done \in BOOLEAN, NEW told \in BOOLEAN,
             CreateSession(r, done, told)
      PROVE  TokensAreIssued'
    BY <1>2
       DEF SessionInv, TypeOK, TokensAreIssued, FamiliesStartOnce, Issuing, CreateSession, To,
       local
<1>3. ASSUME NEW r \in Requests, NEW t \in Requests, GetSession(r, t)
      PROVE  TokensAreIssued'
    BY <1>3 DEF SessionInv, TypeOK, TokensAreIssued, Issuing, GetSession, To, redis
<1>4. ASSUME NEW r \in Requests, CheckRotation(r)
      PROVE  TokensAreIssued'
    BY <1>4 DEF SessionInv, TokensAreIssued, Issuing, CheckRotation, To, local, redis
<1>5. ASSUME NEW r \in Requests, NEW done \in BOOLEAN, RevokeReused(r, done)
      PROVE  TokensAreIssued'
    BY <1>5 DEF SessionInv, TokensAreIssued, Issuing, RevokeReused, To, local
<1>6. ASSUME NEW r \in Requests, NEW done \in BOOLEAN, NEW told \in BOOLEAN, Exec(r, done, told)
      PROVE  TokensAreIssued'
    BY <1>6
       DEF SessionInv, TypeOK, TokensAreIssued, Issuing, Exec, To
<1>7. ASSUME NEW r \in Requests, NEW t \in Requests, NEW done \in BOOLEAN, Logout(r, t, done)
      PROVE  TokensAreIssued'
    BY <1>7 DEF SessionInv, TokensAreIssued, Issuing, Logout, To, local
<1>8. ASSUME NEW r \in Requests, StorePassword(r)
      PROVE  TokensAreIssued'
    BY <1>8 DEF SessionInv, TokensAreIssued, Issuing, StorePassword, To, redis
<1>9. ASSUME NEW r \in Requests, NEW done \in BOOLEAN, ListFamilies(r, done)
      PROVE  TokensAreIssued'
    BY <1>9 DEF SessionInv, TokensAreIssued, Issuing, ListFamilies, To, redis
<1>10. ASSUME NEW r \in Requests, NEW done \in BOOLEAN, NEW told \in BOOLEAN,
             MarkFamilies(r, done, told)
      PROVE  TokensAreIssued'
    BY <1>10 DEF SessionInv, TokensAreIssued, Issuing, MarkFamilies, To, local
<1>11. ASSUME NEW r \in Requests, ExpireToken(r)
      PROVE  TokensAreIssued'
    BY <1>11
       DEF SessionInv, TokensAreIssued, ExpireToken, local
<1>12. ASSUME NEW r \in Requests, ExpireMark(r)
      PROVE  TokensAreIssued'
    BY <1>12
       DEF SessionInv, TokensAreIssued, ExpireMark, local
<1>13. CASE UNCHANGED vars
    BY <1>13
       DEF SessionInv, TokensAreIssued, vars, redis, local
<1> QED
    BY <1>1, <1>2, <1>3, <1>4, <1>5, <1>6, <1>7, <1>8, <1>9, <1>10, <1>11, <1>12, <1>13 DEF Next

\* Whoever joins a family finds it started.
LEMMA StartStep ==
    ASSUME SessionInv, [Next]_vars
    PROVE  FamiliesStartOnce'
<1>1. ASSUME NEW r \in Requests, NEW v \in 0..password, VerifyPassword(r, v)
      PROVE  FamiliesStartOnce'
    BY <1>1 DEF SessionInv, TypeOK, FamiliesStartOnce, Issuing, VerifyPassword, To
<1>2. ASSUME NEW r \in Requests, NEW done \in BOOLEAN, NEW told \in BOOLEAN,
             CreateSession(r, done, told)
      PROVE  FamiliesStartOnce'
    BY <1>2 DEF SessionInv, FamiliesStartOnce, Issuing, CreateSession, To, local
<1>3. ASSUME NEW r \in Requests, NEW t \in Requests, GetSession(r, t)
      PROVE  FamiliesStartOnce'
    BY <1>3 DEF SessionInv, FamiliesStartOnce, Issuing, GetSession, To
<1>4. ASSUME NEW r \in Requests, CheckRotation(r)
      PROVE  FamiliesStartOnce'
    BY <1>4 DEF SessionInv, FamiliesStartOnce, Issuing, CheckRotation, To, local
<1>5. ASSUME NEW r \in Requests, NEW done \in BOOLEAN, RevokeReused(r, done)
      PROVE  FamiliesStartOnce'
    BY <1>5 DEF SessionInv, FamiliesStartOnce, Issuing, RevokeReused, To, local
<1>6. ASSUME NEW r \in Requests, NEW done \in BOOLEAN, NEW told \in BOOLEAN, Exec(r, done, told)
      PROVE  FamiliesStartOnce'
    BY <1>6
       DEF SessionInv, TypeOK, TokensAreIssued, FamiliesStartOnce, Issuing, Exec, To
<1>7. ASSUME NEW r \in Requests, NEW t \in Requests, NEW done \in BOOLEAN, Logout(r, t, done)
      PROVE  FamiliesStartOnce'
    BY <1>7 DEF SessionInv, FamiliesStartOnce, Issuing, Logout, To, local
<1>8. ASSUME NEW r \in Requests, StorePassword(r)
      PROVE  FamiliesStartOnce'
    BY <1>8 DEF SessionInv, FamiliesStartOnce, Issuing, StorePassword, To
<1>9. ASSUME NEW r \in Requests, NEW done \in BOOLEAN, ListFamilies(r, done)
      PROVE  FamiliesStartOnce'
    BY <1>9 DEF SessionInv, FamiliesStartOnce, Issuing, ListFamilies, To
<1>10. ASSUME NEW r \in Requests, NEW done \in BOOLEAN, NEW told \in BOOLEAN,
             MarkFamilies(r, done, told)
      PROVE  FamiliesStartOnce'
    BY <1>10 DEF SessionInv, FamiliesStartOnce, Issuing, MarkFamilies, To, local
<1>11. ASSUME NEW r \in Requests, ExpireToken(r)
      PROVE  FamiliesStartOnce'
    BY <1>11
       DEF SessionInv, FamiliesStartOnce, ExpireToken, local
<1>12. ASSUME NEW r \in Requests, ExpireMark(r)
      PROVE  FamiliesStartOnce'
    BY <1>12
       DEF SessionInv, FamiliesStartOnce, ExpireMark, local
<1>13. CASE UNCHANGED vars
    BY <1>13
       DEF SessionInv, FamiliesStartOnce, vars, local
<1> QED
    BY <1>1, <1>2, <1>3, <1>4, <1>5, <1>6, <1>7, <1>8, <1>9, <1>10, <1>11, <1>12, <1>13 DEF Next

\* A new token is the first of its family, or takes the place of the one there was.
LEMMA OneTokenStep ==
    ASSUME SessionInv, [Next]_vars
    PROVE  OneTokenPerFamily'
<1>1. ASSUME NEW r \in Requests, NEW v \in 0..password, VerifyPassword(r, v)
      PROVE  OneTokenPerFamily'
    BY <1>1
       DEF SessionInv, OneTokenPerFamily, TokensAreIssued, Issuing, VerifyPassword, To, redis
<1>2. ASSUME NEW r \in Requests, NEW done \in BOOLEAN, NEW told \in BOOLEAN,
             CreateSession(r, done, told)
      PROVE  OneTokenPerFamily'
    BY <1>2 DEF SessionInv, TypeOK, OneTokenPerFamily, FamiliesStartOnce, Issuing,
       CreateSession, To, local
<1>3. ASSUME NEW r \in Requests, NEW done \in BOOLEAN, NEW told \in BOOLEAN, Exec(r, done, told)
      PROVE  OneTokenPerFamily'
    BY <1>3 DEF SessionInv, TypeOK, OneTokenPerFamily, TokensAreIssued, Issuing, Exec, To
<1>4. ASSUME NEW r \in Requests, NEW t \in Requests, NEW done \in BOOLEAN, Logout(r, t, done)
      PROVE  OneTokenPerFamily'
    BY <1>4 DEF SessionInv, OneTokenPerFamily, Logout, local
<1>5. ASSUME NEW r \in Requests, ExpireToken(r)
      PROVE  OneTokenPerFamily'
    BY <1>5 DEF SessionInv, OneTokenPerFamily, ExpireToken, local
<1>6. CASE UNCHANGED <<live, family>>
    BY <1>6 DEF SessionInv, OneTokenPerFamily
<1> QED
    BY <1>1, <1>2, <1>3, <1>4, <1>5, <1>6
    DEF Next, vars, redis, local, GetSession, CheckRotation, RevokeReused, StorePassword,
        ListFamilies, MarkFamilies, ExpireMark

\* A session a reset cannot have read is late; a mark outlives the tokens it was made for.
LEMMA ListStep ==
    ASSUME SessionInv, [Next]_vars
    PROVE  ListCovers'
<1>1. ASSUME NEW r \in Requests, NEW v \in 0..password, VerifyPassword(r, v)
      PROVE  ListCovers'
    BY <1>1 DEF SessionInv, TokensAreIssued, ListCovers, Ended, Issuing, VerifyPassword, To, redis
<1>2. ASSUME NEW r \in Requests, NEW done \in BOOLEAN, NEW told \in BOOLEAN,
             CreateSession(r, done, told)
      PROVE  ListCovers'
    BY <1>2
       DEF SessionInv, FamiliesStartOnce, ListCovers, Ended, ResetHasRead, CreateSession, To,
       local
<1>3. ASSUME NEW r \in Requests, NEW t \in Requests, GetSession(r, t)
      PROVE  ListCovers'
    BY <1>3 DEF SessionInv, ListCovers, Ended, GetSession, To, redis
<1>4. ASSUME NEW r \in Requests, CheckRotation(r)
      PROVE  ListCovers'
    BY <1>4 DEF SessionInv, ListCovers, Ended, CheckRotation, To, local, redis
<1>5. ASSUME NEW r \in Requests, NEW done \in BOOLEAN, RevokeReused(r, done)
      PROVE  ListCovers'
    BY <1>5 DEF SessionInv, ListCovers, Ended, RevokeReused, To, local, Mark
<1>6. ASSUME NEW r \in Requests, NEW done \in BOOLEAN, NEW told \in BOOLEAN, Exec(r, done, told)
      PROVE  ListCovers'
    BY <1>6
       DEF SessionInv, TypeOK, TokensAreIssued, ListCovers, Ended, Issuing, ResetHasRead, Exec, To
<1>7. ASSUME NEW r \in Requests, NEW t \in Requests, NEW done \in BOOLEAN, Logout(r, t, done)
      PROVE  ListCovers'
    BY <1>7 DEF SessionInv, ListCovers, Ended, Logout, To, local
<1>8. ASSUME NEW r \in Requests, StorePassword(r)
      PROVE  ListCovers'
    BY <1>8 DEF SessionInv, ListCovers, Ended, StorePassword, To, redis
<1>9. ASSUME NEW r \in Requests, NEW done \in BOOLEAN, ListFamilies(r, done)
      PROVE  ListCovers'
    BY <1>9 DEF SessionInv, TypeOK, ListCovers, Ended, ListFamilies, To, redis
<1>10. ASSUME NEW r \in Requests, NEW done \in BOOLEAN, NEW told \in BOOLEAN,
             MarkFamilies(r, done, told)
      PROVE  ListCovers'
    BY <1>10 DEF SessionInv, ListCovers, Ended, MarkFamilies, To, local, Mark
<1>11. ASSUME NEW r \in Requests, ExpireToken(r)
      PROVE  ListCovers'
    BY <1>11 DEF SessionInv, ListCovers, Ended, ExpireToken, local
<1>12. ASSUME NEW r \in Requests, ExpireMark(r)
      PROVE  ListCovers'
    BY <1>12 DEF SessionInv, ListCovers, Ended, ExpireMark, local
<1>13. CASE UNCHANGED vars
    BY <1>13 DEF SessionInv, ListCovers, Ended, vars, redis, local
<1> QED
    BY <1>1, <1>2, <1>3, <1>4, <1>5, <1>6, <1>7, <1>8, <1>9, <1>10, <1>11, <1>12, <1>13 DEF Next

\* A reset ends what it has read, and what is created after it is late or newer.
LEMMA ResetStep ==
    ASSUME SessionInv, [Next]_vars
    PROVE  ResetsHold'
<1>1. ASSUME NEW r \in Requests, NEW v \in 0..password, VerifyPassword(r, v)
      PROVE  ResetsHold'
    BY <1>1 DEF SessionInv, TokensAreIssued, ResetsHold, Ended, Issuing, VerifyPassword, To, redis
<1>2. ASSUME NEW r \in Requests, NEW done \in BOOLEAN, NEW told \in BOOLEAN,
             CreateSession(r, done, told)
      PROVE  ResetsHold'
    BY <1>2 DEF SessionInv, ResetsHold, Ended, ResetHasRead, CreateSession, To, local
<1>3. ASSUME NEW r \in Requests, NEW t \in Requests, GetSession(r, t)
      PROVE  ResetsHold'
    BY <1>3 DEF SessionInv, ResetsHold, Ended, GetSession, To, redis
<1>4. ASSUME NEW r \in Requests, CheckRotation(r)
      PROVE  ResetsHold'
    BY <1>4 DEF SessionInv, ResetsHold, Ended, CheckRotation, To, local, redis
<1>5. ASSUME NEW r \in Requests, NEW done \in BOOLEAN, RevokeReused(r, done)
      PROVE  ResetsHold'
    BY <1>5 DEF SessionInv, ResetsHold, Ended, RevokeReused, To, local, Mark
<1>6. ASSUME NEW r \in Requests, NEW done \in BOOLEAN, NEW told \in BOOLEAN, Exec(r, done, told)
      PROVE  ResetsHold'
    BY <1>6
       DEF SessionInv, TypeOK, TokensAreIssued, ResetsHold, Ended, Issuing, ResetHasRead, Exec, To
<1>7. ASSUME NEW r \in Requests, NEW t \in Requests, NEW done \in BOOLEAN, Logout(r, t, done)
      PROVE  ResetsHold'
    BY <1>7 DEF SessionInv, ResetsHold, Ended, Logout, To, local
<1>8. ASSUME NEW r \in Requests, StorePassword(r)
      PROVE  ResetsHold'
    BY <1>8 DEF SessionInv, TokensAreIssued, ResetsHold, Ended, Issuing, StorePassword, To, redis
<1>9. ASSUME NEW r \in Requests, NEW done \in BOOLEAN, ListFamilies(r, done)
      PROVE  ResetsHold'
    BY <1>9 DEF SessionInv, ResetsHold, Ended, ListFamilies, To, redis
<1>10. ASSUME NEW r \in Requests, NEW done \in BOOLEAN, NEW told \in BOOLEAN,
             MarkFamilies(r, done, told)
      PROVE  ResetsHold'
    BY <1>10
       DEF SessionInv, ListCovers, ResetsHold, Ended, MarkFamilies, To, local, Mark, Statement
<1>11. ASSUME NEW r \in Requests, ExpireToken(r)
      PROVE  ResetsHold'
    BY <1>11 DEF SessionInv, ResetsHold, Ended, ExpireToken, local
<1>12. ASSUME NEW r \in Requests, ExpireMark(r)
      PROVE  ResetsHold'
    BY <1>12 DEF SessionInv, ResetsHold, Ended, ExpireMark, local
<1>13. CASE UNCHANGED vars
    BY <1>13 DEF SessionInv, ResetsHold, Ended, vars, redis, local
<1> QED
    BY <1>1, <1>2, <1>3, <1>4, <1>5, <1>6, <1>7, <1>8, <1>9, <1>10, <1>11, <1>12, <1>13 DEF Next

\* Who has no session gets none: a login starts a family of its own, a refresh needs a token.
LEMMA EndedStep ==
    ASSUME SessionInv, [Next]_vars,
           NEW t \in Requests, step[t] = "answered", \A u \in live : family[u] # family[t]
    PROVE  \A u \in live' : family'[u] # family[t]
<1>1. ASSUME NEW r \in Requests, NEW v \in 0..password,
             VerifyPassword(r, v)
      PROVE  \A u \in live' : family'[u] # family[t]
    BY <1>1
       DEF SessionInv, FamiliesStartOnce, Issuing, VerifyPassword, To, redis
<1>2. ASSUME NEW r \in Requests, NEW done \in BOOLEAN, NEW told \in BOOLEAN,
             CreateSession(r, done, told)
      PROVE  \A u \in live' : family'[u] # family[t]
    BY <1>2
       DEF SessionInv, FamiliesStartOnce, Issuing, CreateSession, To, local
<1>3. ASSUME NEW r \in Requests, NEW done \in BOOLEAN, NEW told \in BOOLEAN,
             Exec(r, done, told)
      PROVE  \A u \in live' : family'[u] # family[t]
    BY <1>3 DEF SessionInv, TypeOK, Exec
<1>4. ASSUME NEW r \in Requests, NEW w \in Requests, NEW done \in BOOLEAN,
             Logout(r, w, done)
      PROVE  \A u \in live' : family'[u] # family[t]
    BY <1>4 DEF SessionInv, Logout, local
<1>5. ASSUME NEW r \in Requests,
             ExpireToken(r)
      PROVE  \A u \in live' : family'[u] # family[t]
    BY <1>5
       DEF SessionInv, ExpireToken, local
<1>6. CASE UNCHANGED <<live, family>>
    BY <1>6
<1> QED
    BY <1>1, <1>2, <1>3, <1>4, <1>5, <1>6
    DEF Next, vars, redis, local, GetSession, CheckRotation, RevokeReused, StorePassword,
        ListFamilies, MarkFamilies, ExpireMark

-------------------------------------------------------------------------------
(* The theorems *)

\* Before the first login there is nothing to get wrong.
LEMMA InitInv == Init => SessionInv
    BY DEF Init, SessionInv, TypeOK, Steps, TokensAreIssued, FamiliesStartOnce,
       OneTokenPerFamily, ListCovers, ResetsHold

\* The inductive invariant, for any number of requests and any faults.
THEOREM SessionInvariant == Spec => []SessionInv
<1>1. SessionInv /\ [Next]_vars => SessionInv'
    BY TypeStep, IssuedStep, StartStep, OneTokenStep, ListStep, ResetStep DEF SessionInv
<1> QED
    BY InitInv, <1>1, PTL DEF Spec

\* The types of Redis' keys and of the requests.
THEOREM SessionTypes == Spec => []TypeOK
<1>1. SessionInv => TypeOK
    BY DEF SessionInv
<1> QED
    BY SessionInvariant, <1>1, PTL

\* However refreshes and logouts interleave, no family has two tokens: WATCH on the token
\* suffices (cache/store.go:194).
THEOREM OneTokenHolds == Spec => []OneTokenPerFamily
<1>1. SessionInv => OneTokenPerFamily
    BY DEF SessionInv
<1> QED
    BY SessionInvariant, <1>1, PTL

\* A session with an older password that outlives a reset was created or rotated while a
\* reset was already past its list (cache/store.go:269): there is no other way.
THEOREM SurvivorsAreLate == Spec => []SurvivorsWereLate
<1>1. SessionInv => SurvivorsWereLate
    BY DEF SessionInv, SurvivorsWereLate, Usable, ResetsHold, Ended
<1> QED
    BY SessionInvariant, <1>1, PTL

\* A session whose last token a logout or the expiry has deleted does not come back, whichever
\* refresh was under way; one that was only marked as revoked keeps its token, and is not meant.
THEOREM EndedForGood == Spec => EndedFamilyStaysEnded
<1>1. SessionInv /\ [Next]_vars =>
          [\A t \in Requests :
              (step[t] = "answered" /\ \A u \in live : family[u] # family[t])
                  => \A u \in live' : family'[u] # family[t]]_vars
    BY EndedStep
<1> QED
    BY SessionInvariant, <1>1, PTL DEF Spec, EndedFamilyStaysEnded
===============================================================================
