------------------------------ MODULE Sessions ------------------------------
(***************************************************************************)
(* mobile-auth-v2.service.ts: the refresh tokens of one user.  A login     *)
(* begins a line of tokens, one for a device; refreshTokens revokes the    *)
(* token it is given and creates the next of the line.  It reads the token *)
(* in a transaction that locks nothing and revokes it by id, so another    *)
(* refresh, a logout or the clean-up may come between the two.  The update *)
(* waits for whoever holds the row, and nothing of a transaction is seen   *)
(* before it commits: its writes are one step.                             *)
(***************************************************************************)
EXTENDS Integers, FiniteSetsExt

CONSTANTS
  SnSessions,     \* requests in progress
  SnMaxTokens     \* bound on the rows ever created

ASSUME SessionsAssumption == IsFiniteSet(SnSessions) /\ SnMaxTokens \in Nat

VARIABLES
  snToken,    \* refresh_tokens: state of each row, and the login it descends from
  snLapsed,   \* tokens past expiresAt
  snSession,  \* the token each refresh has read, or 0
  \* History, for the properties:
  snNexts,    \* how many tokens each token was exchanged for
  snRaced,    \* tokens created from one that had ended since it was read, and theirs
  snEnded     \* logins whose own token, not a raced one, was revoked by a logout

snVars == <<snToken, snLapsed, snSession, snNexts, snRaced, snEnded>>

SnIds == 1..SnMaxTokens
SnNoToken == [state |-> "none", login |-> 0]

SNInit ==
  /\ snToken = [t \in SnIds |-> SnNoToken]
  /\ snLapsed = {} /\ snSession = [k \in SnSessions |-> 0]
  /\ snNexts = [t \in SnIds |-> 0] /\ snRaced = {} /\ snEnded = {}

SnLive == {t \in SnIds : snToken[t].state = "live"}
SnIsNext(t) == /\ snToken[t].state = "none"
               /\ \A u \in SnIds : u < t => snToken[u].state # "none"

\* createRefreshToken; a login is known by the number of its first token.
SNLogin(t) ==
  /\ SnIsNext(t)
  /\ snToken' = [snToken EXCEPT ![t] = [state |-> "live", login |-> t]]
  /\ UNCHANGED <<snLapsed, snSession, snNexts, snRaced, snEnded>>

\* The look of refreshTokens at the token: not revoked and not expired.
SnUsable(t) == t \in SnLive \ snLapsed
SNReadToken(k, t) ==
  /\ snSession[k] = 0 /\ SnUsable(t)
  /\ snSession' = [snSession EXCEPT ![k] = t]
  /\ UNCHANGED <<snToken, snLapsed, snNexts, snRaced, snEnded>>

\* The rest of the transaction.  The update finds no row after the clean-up,
\* and sets revokedAt again after a logout; the insert comes in any case.
SnAfterUseMutant(t) == snToken[t].state
SnAfterUse(t) == IF snToken[t].state = "live" THEN "revoked" ELSE snToken[t].state
SNRotate(k, n) ==
  LET t == snSession[k] IN
  /\ t # 0 /\ SnIsNext(n)
  /\ snToken' = [snToken EXCEPT ![t].state = SnAfterUse(t),
                                ![n] = [state |-> "live", login |-> snToken[t].login]]
  /\ snNexts' = [snNexts EXCEPT ![t] = snNexts[t] + 1]
  /\ snRaced' = IF t \in snRaced \/ t \notin SnLive THEN snRaced \cup {n} ELSE snRaced
  /\ snSession' = [snSession EXCEPT ![k] = 0]
  /\ UNCHANGED <<snLapsed, snEnded>>

SNRefuse(k) ==
  /\ snSession[k] # 0
  /\ snSession' = [snSession EXCEPT ![k] = 0]
  /\ UNCHANGED <<snToken, snLapsed, snNexts, snRaced, snEnded>>

\* logout revokes one token, logoutAllDevices every token of the user.
SnRevoked(T) == [t \in SnIds |->
                   IF t \in T THEN [snToken[t] EXCEPT !.state = "revoked"] ELSE snToken[t]]
SnRevoke(T) ==
  /\ snToken' = SnRevoked(T)
  /\ snEnded' = snEnded \cup {snToken[t].login : t \in T \ snRaced}
  /\ UNCHANGED <<snLapsed, snSession, snNexts, snRaced>>

SNLogout(t) == t \in SnLive /\ SnRevoke({t})
SNLogoutAll == SnLive # {} /\ SnRevoke(SnLive)

SNLapse(t) ==
  /\ snToken[t].state \in {"live", "revoked"} /\ t \notin snLapsed
  /\ snLapsed' = snLapsed \cup {t}
  /\ UNCHANGED <<snToken, snSession, snNexts, snRaced, snEnded>>

\* cleanupExpiredTokens, which the worker runs by a schedule.
SNCleanUp ==
  /\ \E t \in snLapsed : snToken[t].state # "deleted"
  /\ snToken' = [t \in SnIds |-> IF t \in snLapsed
                                 THEN [snToken[t] EXCEPT !.state = "deleted"]
                                 ELSE snToken[t]]
  /\ UNCHANGED <<snLapsed, snSession, snNexts, snRaced, snEnded>>

SNNext ==
  \/ \E t \in SnIds : SNLogin(t) \/ SNLogout(t) \/ SNLapse(t)
  \/ \E k \in SnSessions, t \in SnIds : SNReadToken(k, t) \/ SNRotate(k, t)
  \/ \E k \in SnSessions : SNRefuse(k)
  \/ SNLogoutAll \/ SNCleanUp

SNSpec == SNInit /\ [][SNNext]_snVars

SNTypeOK ==
  /\ snToken \in [SnIds ->
       [state : {"none", "live", "revoked", "deleted"}, login : 0..SnMaxTokens]]
  /\ snLapsed \subseteq SnIds /\ snRaced \subseteq SnIds /\ snEnded \subseteq SnIds
  /\ snSession \in [SnSessions -> 0..SnMaxTokens] /\ snNexts \in [SnIds -> Nat]

\* A login stays one line of tokens that ends when its holder logs out, as far
\* as a token is created from one that is still live; and one token is
\* exchanged at most once by every refresh at a time, whatever is revoked,
\* expires or is deleted between the look at it and the exchange.
SNOneLine ==
  /\ \A t, u \in SnLive \ snRaced :
       snToken[t].login = snToken[u].login => t = u /\ snToken[t].login \notin snEnded
  /\ \A t \in SnIds : snNexts[t] <= Cardinality(SnSessions)
=============================================================================
