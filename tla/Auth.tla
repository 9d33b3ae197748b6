-------------------------------- MODULE Auth --------------------------------
(***************************************************************************)
(* Signing in and staying signed in: internal/auth/service.go over         *)
(* internal/store/users.go, the handlers of api/auth_handlers.go and       *)
(* api/sso_handlers.go, the middleware, and the reset-password command.    *)
(* One account, several requests in progress at once.                      *)
(*                                                                         *)
(* A request reads the user row once, at its start, and works on that copy *)
(* while Argon2 runs; UpdateUser writes the whole copy back.  The clock    *)
(* counts one-time-password steps; the lifetimes are given in its units.   *)
(***************************************************************************)
EXTENDS Naturals, FiniteSets, FiniteSetsExt

CONSTANTS
    Reqs,          \* the requests that may be in progress at once
    MaxPerAccount, \* Lockout.MaxPerAccount
    LockWindow,    \* Lockout.Window
    MaxHashes,     \* maxConcurrentHashes
    SessionTTL, MaxSessionLife, ReauthWindow,
    MaxClock,      \* bound: the clock
    MaxPw,         \* bound: passwords the account ever has
    MaxSecrets,    \* bound: two-factor setups started
    MaxSessions,   \* bound: sessions ever issued
    AuthMixes      \* which requests a behaviour meets, and whether they overlap

AuthKinds == {"login", "sso", "reauth", "password", "profile", "startTOTP", "confirmTOTP",
              "disableTOTP", "revokeOthers", "revokeOne", "logout", "token", "reset"}
AuthFaults == {"disconnect", "disable", "clock", "refusal"}

ASSUME AuthMixesAssumption ==
    /\ AuthMixes \subseteq [kinds : SUBSET AuthKinds, faults : SUBSET AuthFaults,
                            overlap : BOOLEAN, secondFactor : BOOLEAN, asks : Nat,
                            until : 1..MaxClock]
    /\ {MaxClock, MaxPw, MaxSecrets, MaxSessions, SessionTTL, MaxSessionLife} \subseteq Nat
    /\ MaxSecrets > 0

VARIABLES
    user,     \* the users row
    last,     \* totp_last_counter of that row
    codes,    \* the unused recovery codes
    failed,   \* failed[t]: the failed attempts recorded at t
    session,  \* session[s]: the sessions rows
    tokens,   \* the api_tokens rows of the account
    areq,     \* areq[q]: a request in progress
    clock,
    admitted, \* history: the codes that got somebody past the second factor
    made,     \* history: passwords and secrets made, requests, a password put back,
              \* the password whose change was cut short
    amix

authVars == <<user, last, codes, failed, session, tokens, areq, clock, admitted, made, amix>>

Sids == 1..MaxSessions

NoUserRow == [pw |-> 0, old |-> FALSE, secret |-> 0, on |-> FALSE, disabled |-> FALSE]
NoSession == [live |-> FALSE, created |-> 0, seen |-> 0, expires |-> 0, reauth |-> 0,
              pw |-> 0, kept |-> 0, late |-> 0, missed |-> 0]
Idle == [kind |-> "none", at |-> "off", copy |-> NoUserRow, sid |-> 0, pw |-> 0,
         code |-> <<"none">>, list |-> {}, late |-> 0]

TOTPCodes == {<<"totp", k, n>> : k \in 1..MaxSecrets, n \in 0..(MaxClock + 1)}
RecoveryCodes == {<<"recovery", k>> : k \in 1..MaxSecrets}
Codes == TOTPCodes \cup RecoveryCodes

-----------------------------------------------------------------------------
(* The statements.                                                         *)

\* UpdateUser writes every column but the counter.
UpdateUser_NoSecret(u) == user' = [u EXCEPT !.secret = 0]  \* mutant: a column is left out
UpdateUser(u) == user' = u

\* The same, by a handler that is not about the password: it may put one back.
SaveCopy(u) == UpdateUser(u) /\ made' = [made EXCEPT !.lost = @ \/ u.pw # user.pw]

\* UpdatePasswordHash writes one.
UpdatePasswordHash_WholeRow(u, pw) == user' = [u EXCEPT !.pw = pw, !.old = FALSE]  \* mutant
UpdatePasswordHash(u, pw) == user' = [user EXCEPT !.pw = pw, !.old = FALSE]

\* SpendTOTPCounter: the check and the write are one statement.
Spendable_Again(n) == last <= n  \* mutant: the last code is good again
Spendable(n) == last < n
SpendTOTPCounter(n) == last' = IF Spendable(n) THEN n ELSE last

ReplaceRecoveryCodes(k) == codes' = {<<"recovery", k>>}
DeleteRecoveryCodes == codes' = {}

RecordFailure == failed' = [failed EXCEPT ![clock] = @ + 1]
ClearLoginAttempts == failed' = [t \in DOMAIN failed |-> 0]

CountFailedLogins ==
    MapThenSumSet(LAMBDA t : failed[t], {t \in 0..clock : clock < t + LockWindow})

-----------------------------------------------------------------------------
AuthInit ==
    /\ amix \in AuthMixes
    /\ \E old \in BOOLEAN :
        user = [NoUserRow EXCEPT !.pw = 1, !.old = old,
                !.secret = IF amix.secondFactor THEN 1 ELSE 0, !.on = amix.secondFactor]
    /\ last = 0 /\ clock = 1
    /\ codes = IF amix.secondFactor THEN {<<"recovery", 1>>} ELSE {}
    /\ failed = [t \in 0..MaxClock |-> 0]
    /\ session = [s \in Sids |-> IF s = 1 THEN [NoSession EXCEPT !.live = TRUE, !.created = 1,
                        !.seen = 1, !.expires = 1 + SessionTTL, !.reauth = 1, !.pw = 1]
                    ELSE NoSession]
    /\ tokens = {}
    /\ areq = [q \in Reqs |-> Idle]
    /\ admitted = [c \in Codes |-> 0]
    /\ made = [pw |-> 1, secret |-> user.secret, asked |-> 0, lost |-> FALSE, cut |-> 0]

Free1(q) == areq[q] = Idle
MayAsk(q, kind) == /\ Free1(q) /\ kind \in amix.kinds /\ made.asked < amix.asks
                   /\ made' = [made EXCEPT !.asked = @ + 1]
                   /\ ~amix.overlap => \A p \in Reqs : Free1(p)
AuthAt(q, where) == areq[q].at = where
AuthGo(q, where) == areq' = [areq EXCEPT ![q].at = where]
AuthReply(q) == areq' = [areq EXCEPT ![q] = Idle]

-----------------------------------------------------------------------------
(* Two limits are checked before anything else is done.                    *)
CheckLockout_OneMore == CountFailedLogins <= MaxPerAccount  \* mutant
CheckLockout == CountFailedLogins < MaxPerAccount

(* Login: a password, perhaps a code; the lockout, then the row.           *)
Login(q) ==
    /\ MayAsk(q, "login") /\ CheckLockout
    /\ \E pw \in 1..made.pw, c \in Codes \cup {<<"none">>, <<"wrong">>} :
        /\ c \in TOTPCodes => c[2] <= made.secret /\ c[3] + 1 >= clock /\ c[3] <= clock + 1
        /\ c \in RecoveryCodes => c[2] <= made.secret
        /\ areq' = [areq EXCEPT ![q] = [Idle EXCEPT !.kind = "login", !.at = "read",
                                            !.pw = pw, !.code = c]]
    /\ UNCHANGED <<user, last, codes, failed, session, tokens, clock, admitted, amix>>

LoginRead(q) ==
    /\ AuthAt(q, "read")
    /\ areq' = [areq EXCEPT ![q].at = "wait", ![q].copy = user]
    /\ UNCHANGED <<user, last, codes, failed, session, tokens, clock, admitted, made, amix>>

\* enterHash: at most so many hashes at once; the others wait, or give up.
EnterHash(q) ==
    /\ AuthAt(q, "wait")
    /\ Cardinality({p \in Reqs : AuthAt(p, "hash")}) < MaxHashes
    /\ AuthGo(q, "hash")
    /\ UNCHANGED <<user, last, codes, failed, session, tokens, clock, admitted, made, amix>>

\* A password against the copy: an account without one fails like a wrong one.
VerifyPassword(q) == areq[q].pw = areq[q].copy.pw

AfterPassword(q) ==
    LET r == areq[q]
        wrong == IF r.kind = "login" THEN ~VerifyPassword(q) \/ r.copy.disabled
                 ELSE r.copy.pw # 0 /\ ~VerifyPassword(q)
    IN  IF r.kind = "password" THEN IF VerifyPassword(q) THEN "write" ELSE "off"
        ELSE IF wrong THEN "fail"
        ELSE IF r.copy.on THEN IF r.code = <<"none">> THEN "off" ELSE "factor"
        ELSE IF r.kind = "login" THEN "rehash"
        ELSE IF r.copy.pw = 0 THEN "off" ELSE "done"

Verify(q) ==
    /\ AuthAt(q, "hash")
    /\ IF AfterPassword(q) = "off" THEN AuthReply(q) ELSE AuthGo(q, AfterPassword(q))
    /\ UNCHANGED <<user, last, codes, failed, session, tokens, clock, admitted, made, amix>>

\* VerifyTOTP: the secret of the copy, one step either side.
VerifyTOTP(k, c) == /\ c \in TOTPCodes /\ c[2] = k
                    /\ c[3] <= clock + 1 /\ clock <= c[3] + 1

(* spendSecondFactor: a code of the authenticator, or one written down.    *)
SpendSecondFactor(q) ==
    LET c == areq[q].code
        totp == VerifyTOTP(areq[q].copy.secret, c)
        good == IF totp THEN Spendable(c[3]) ELSE c \in codes
    IN  /\ AuthAt(q, "factor")
        /\ IF totp THEN SpendTOTPCounter(c[3]) ELSE UNCHANGED last
        /\ codes' = IF totp THEN codes ELSE codes \ {c}
        /\ admitted' = IF good THEN [admitted EXCEPT ![c] = @ + 1] ELSE admitted
        /\ AuthGo(q, IF ~good THEN "fail" ELSE IF areq[q].kind = "login" THEN "rehash" ELSE "done")
        /\ UNCHANGED <<user, failed, session, tokens, clock, made, amix>>

RecordLoginFailure(q) ==
    /\ AuthAt(q, "fail")
    /\ RecordFailure /\ AuthReply(q)
    /\ UNCHANGED <<user, last, codes, session, tokens, clock, admitted, made, amix>>

\* A hash made with older parameters is replaced, from the password typed.
Rehash(q) ==
    /\ AuthAt(q, "rehash")
    /\ IF areq[q].copy.old
       THEN /\ UpdatePasswordHash(areq[q].copy, areq[q].pw)
            /\ made' = [made EXCEPT !.lost = @ \/ areq[q].pw # user.pw]
       ELSE UNCHANGED <<user, made>>
    /\ AuthGo(q, "issue")
    /\ UNCHANGED <<last, codes, failed, session, tokens, clock, admitted, amix>>

\* issueSession and CreateSession.
NewSession == CHOOSE s \in Sids : session[s] = NoSession
               /\ \A t \in Sids : session[t] = NoSession => s <= t
IssueSession(q) ==
    /\ AuthAt(q, "issue")
    /\ \E s \in Sids : session[s] = NoSession
    /\ session' = [session EXCEPT ![NewSession] =
            [NoSession EXCEPT !.live = TRUE, !.created = clock, !.seen = clock, !.reauth = clock,
             !.expires = clock + SessionTTL, !.pw = areq[q].copy.pw, !.late = areq[q].late]]
    /\ AuthReply(q)
    /\ IF areq[q].kind = "login" THEN ClearLoginAttempts ELSE UNCHANGED failed
    /\ UNCHANGED <<user, last, codes, tokens, clock, admitted, made, amix>>

\* handleSSOCallback: the provider vouched for the address; no code is asked for.
SSOCallback(q) ==
    /\ MayAsk(q, "sso") /\ ~user.disabled
    /\ areq' = [areq EXCEPT ![q] = [Idle EXCEPT !.kind = "sso", !.at = "issue", !.copy = user]]
    /\ UNCHANGED <<user, last, codes, failed, session, tokens, clock, admitted, amix>>

-----------------------------------------------------------------------------
(* The middleware: a session gives a user, unless it is past its time.     *)

Expired(s) == clock > session[s].expires                    \* GetSessionByHash
Deadline(s) == session[s].created + MaxSessionLife
SlidingExpiry_Unbounded(s) == clock + SessionTTL  \* mutant: no ceiling
SlidingExpiry(s) == IF clock + SessionTTL > Deadline(s) THEN Deadline(s) ELSE clock + SessionTTL

TouchSession(s) == session' = [session EXCEPT ![s].seen = clock, ![s].expires = SlidingExpiry(s)]
DeleteSessions(S) == session' = [s \in Sids |-> IF s \in S THEN [session[s] EXCEPT !.live = FALSE]
                                                           ELSE session[s]]

PastItsLife_Never(s) == FALSE  \* mutant
PastItsLife(s) == clock > Deadline(s)
\* authenticate refuses, and forgets a session that is of no more use.
Refuse(s) ==
    /\ session[s].live /\ ~Expired(s) /\ (user.disabled \/ PastItsLife(s))
    /\ DeleteSessions({s})
    /\ UNCHANGED <<user, last, codes, failed, tokens, areq, clock, admitted, made, amix>>

RecentlyAuthenticated(s) == clock < session[s].reauth + ReauthWindow
Sensitive == {"startTOTP", "confirmTOTP", "disableTOTP", "token"}

\* What a request of each kind does first.
FirstStep(kind) == CASE kind \in {"reauth", "password"} -> "wait"
                     [] kind \in {"revokeOthers", "revokeOne", "logout"} -> "list"
                     [] kind = "confirmTOTP" -> "verify"
                     [] OTHER -> "write"

Authenticate(q, s, kind) ==
    /\ MayAsk(q, kind) /\ kind \notin {"login", "sso", "reset"}
    /\ session[s].live /\ ~Expired(s) /\ ~user.disabled /\ ~PastItsLife(s)
    /\ kind \in Sensitive => RecentlyAuthenticated(s)
    /\ kind = "reauth" => CheckLockout
    /\ IF session[s].seen < clock THEN TouchSession(s) ELSE UNCHANGED session
    /\ \E pw \in (IF kind \in {"reauth", "password"} THEN 1..made.pw ELSE {0}),
          c \in (IF kind \in {"reauth", "confirmTOTP"} THEN TOTPCodes ELSE {<<"none">>}) :
        /\ c \in TOTPCodes => c[2] <= made.secret /\ c[3] + 1 >= clock /\ c[3] <= clock + 1
        /\ areq' = [areq EXCEPT ![q] = [Idle EXCEPT !.kind = kind, !.at = FirstStep(kind),
                                            !.copy = user, !.sid = s, !.pw = pw, !.code = c]]
    /\ UNCHANGED <<user, last, codes, failed, tokens, clock, admitted, amix>>

\* Reauthenticate ends by stamping the session.
MarkReauthenticated(q) ==
    /\ AuthAt(q, "done")
    /\ ClearLoginAttempts
    /\ session' = [session EXCEPT ![areq[q].sid].reauth = IF @ < clock THEN clock ELSE @]
    /\ AuthReply(q)
    /\ UNCHANGED <<user, last, codes, tokens, clock, admitted, made, amix>>

-----------------------------------------------------------------------------
(* The handlers that write the row.                                        *)

\* The copy with a password that was never used before.
NewPassword(q) == [areq[q].copy EXCEPT !.pw = made.pw + 1, !.old = FALSE]

\* Whatever else is in progress now answers for a password that was.
MarkLate(q, row) == areq' = [p \in Reqs |->
    IF p = q THEN [areq[q] EXCEPT !.at = "list", !.copy = row]
    ELSE IF Free1(p) THEN areq[p] ELSE [areq[p] EXCEPT !.late = row.pw]]

ChangePassword(q) ==
    /\ AuthAt(q, "write") /\ areq[q].kind = "password" /\ made.pw < MaxPw
    /\ made' = [made EXCEPT !.pw = @ + 1]
    /\ UpdateUser(NewPassword(q)) /\ MarkLate(q, NewPassword(q))
    /\ UNCHANGED <<last, codes, failed, session, tokens, clock, admitted, amix>>

\* handleUpdateMe and handleRecoveryKeySaved: name, language, theme, a flag.
UpdateMe(q) ==
    /\ AuthAt(q, "write") /\ areq[q].kind = "profile"
    /\ SaveCopy(areq[q].copy) /\ AuthReply(q)
    /\ UNCHANGED <<last, codes, failed, session, tokens, clock, admitted, amix>>

SetupTOTP(q) ==
    /\ AuthAt(q, "write") /\ areq[q].kind = "startTOTP" /\ made.secret < MaxSecrets
    /\ made' = [made EXCEPT !.secret = @ + 1, !.lost = @ \/ areq[q].copy.pw # user.pw]
    /\ UpdateUser([areq[q].copy EXCEPT !.secret = made.secret + 1, !.on = FALSE])
    /\ areq' = [areq EXCEPT ![q].at = "codes", ![q].list = {made.secret + 1}]
    /\ UNCHANGED <<last, codes, failed, session, tokens, clock, admitted, amix>>

StoreRecoveryCodes(q) ==
    /\ AuthAt(q, "codes") /\ areq[q].kind = "startTOTP"
    /\ \E k \in areq[q].list : ReplaceRecoveryCodes(k)
    /\ AuthReply(q)
    /\ UNCHANGED <<user, last, failed, session, tokens, clock, admitted, made, amix>>

\* ConfirmTOTP spends the code whether or not it was still good.
ConfirmTOTP(q) ==
    /\ AuthAt(q, "verify")
    /\ IF areq[q].copy.secret # 0 /\ VerifyTOTP(areq[q].copy.secret, areq[q].code)
       THEN SpendTOTPCounter(areq[q].code[3]) /\ AuthGo(q, "write")
       ELSE UNCHANGED last /\ AuthReply(q)
    /\ UNCHANGED <<user, codes, failed, session, tokens, clock, admitted, made, amix>>

TurnOnTOTP(q) ==
    /\ AuthAt(q, "write") /\ areq[q].kind = "confirmTOTP"
    /\ SaveCopy([areq[q].copy EXCEPT !.on = TRUE]) /\ AuthReply(q)
    /\ UNCHANGED <<last, codes, failed, session, tokens, clock, admitted, amix>>

DisableTOTP_KeepCodes(q) ==  \* mutant: the codes written down stay good
    /\ AuthAt(q, "write") /\ areq[q].kind = "disableTOTP"
    /\ SaveCopy([areq[q].copy EXCEPT !.on = FALSE, !.secret = 0]) /\ AuthReply(q)
    /\ UNCHANGED <<last, codes, failed, session, tokens, clock, admitted, amix>>

DisableTOTP(q) ==
    /\ AuthAt(q, "write") /\ areq[q].kind = "disableTOTP"
    /\ SaveCopy([areq[q].copy EXCEPT !.on = FALSE, !.secret = 0]) /\ AuthGo(q, "codes")
    /\ UNCHANGED <<last, codes, failed, session, tokens, clock, admitted, amix>>

ForgetRecoveryCodes(q) ==
    /\ AuthAt(q, "codes") /\ areq[q].kind = "disableTOTP"
    /\ DeleteRecoveryCodes /\ AuthReply(q)
    /\ UNCHANGED <<user, last, failed, session, tokens, clock, admitted, made, amix>>

Newer(m, n) == IF m < n THEN n ELSE m

\* ListSessions: the ones whose time is not up.
ListSessions == {s \in Sids : session[s].live /\ session[s].expires > clock}

\* Every session but the one that asked is listed, and the list deleted one by one.
ListOthers_None(q) ==  \* mutant: the password changes and nobody is signed out
    /\ AuthAt(q, "list") /\ areq[q].kind \in {"password", "revokeOthers"}
    /\ areq' = [areq EXCEPT ![q].at = "delete", ![q].list = {}]
    /\ UNCHANGED <<user, last, codes, failed, session, tokens, clock, admitted, made, amix>>

\* A session whose time is up at this very instant still admits and is not shown.
MissedBy(q) == {s \in Sids : areq[q].kind = "password" /\ session[s].live /\ session[s].expires = clock}
ListOthers(q) ==
    /\ AuthAt(q, "list") /\ areq[q].kind \in {"password", "revokeOthers"}
    /\ areq' = [areq EXCEPT ![q].at = "delete", ![q].list = ListSessions \ {areq[q].sid}]
    /\ session' = [s \in Sids |-> IF s \in MissedBy(q)
            THEN [session[s] EXCEPT !.missed = Newer(@, areq[q].copy.pw)] ELSE session[s]]
    /\ UNCHANGED <<user, last, codes, failed, tokens, clock, admitted, made, amix>>

\* One of them.  A deletion the database refuses is dropped by a change of the password, which goes
\* on to the next one, and ends any other request.
DeleteOne(q, s) ==
    /\ AuthAt(q, "delete") /\ s \in areq[q].list
    /\ \/ DeleteSessions({s}) /\ areq' = [areq EXCEPT ![q].list = @ \ {s}]
       \/ /\ "refusal" \in amix.faults /\ areq[q].kind = "password"
          /\ session' = [session EXCEPT ![s].missed = Newer(@, areq[q].copy.pw)]
          /\ areq' = [areq EXCEPT ![q].list = @ \ {s}]
       \/ "refusal" \in amix.faults /\ areq[q].kind \in {"revokeOthers", "revokeOne"} /\ AuthReply(q) /\ UNCHANGED session
    /\ UNCHANGED <<user, last, codes, failed, tokens, clock, admitted, made, amix>>

\* The last of them is gone through; the session that changed the password stays.
DeleteOthers(q) ==
    /\ AuthAt(q, "delete") /\ areq[q].list = {}
    /\ session' = [s \in Sids |-> IF s = areq[q].sid /\ areq[q].kind = "password"
            THEN [session[s] EXCEPT !.kept = Newer(@, areq[q].copy.pw)] ELSE session[s]]
    /\ AuthReply(q)
    /\ UNCHANGED <<user, last, codes, failed, tokens, clock, admitted, made, amix>>

\* DeleteUserSessions: the reset ends all of them in one statement, or says that it could not.
DeleteUserSessions(q) ==
    /\ AuthAt(q, "list") /\ areq[q].kind = "reset"
    /\ \/ DeleteSessions(Sids) /\ UNCHANGED made
       \/ /\ "refusal" \in amix.faults /\ UNCHANGED session
          /\ made' = [made EXCEPT !.cut = Newer(@, areq[q].copy.pw)]
    /\ AuthReply(q)
    /\ UNCHANGED <<user, last, codes, failed, tokens, clock, admitted, amix>>

\* handleRevokeSession: one of the account's own, and no other's.
RevokeOne(q) ==
    /\ AuthAt(q, "list") /\ areq[q].kind = "revokeOne"
    /\ \E s \in ListSessions :
        areq' = [areq EXCEPT ![q].at = "delete", ![q].list = {s}]
    /\ UNCHANGED <<user, last, codes, failed, session, tokens, clock, admitted, made, amix>>

Logout(q) ==
    /\ AuthAt(q, "list") /\ areq[q].kind = "logout"
    /\ DeleteSessions({areq[q].sid}) /\ AuthReply(q)
    /\ UNCHANGED <<user, last, codes, failed, tokens, clock, admitted, made, amix>>

\* adminResetPassword: the command line, on the same database.
ResetRead(q) ==
    /\ MayAsk(q, "reset")
    /\ areq' = [areq EXCEPT ![q] = [Idle EXCEPT !.kind = "reset", !.at = "write", !.copy = user]]
    /\ UNCHANGED <<user, last, codes, failed, session, tokens, clock, admitted, amix>>

ResetPassword(q) ==
    /\ AuthAt(q, "write") /\ areq[q].kind = "reset" /\ made.pw < MaxPw
    /\ made' = [made EXCEPT !.pw = @ + 1]
    /\ UpdateUser(NewPassword(q)) /\ MarkLate(q, NewPassword(q))
    /\ UNCHANGED <<last, codes, failed, session, tokens, clock, admitted, amix>>

-----------------------------------------------------------------------------
(* API tokens, the clock and what else may happen.                         *)

CreateAPIToken(q) ==
    /\ AuthAt(q, "write") /\ areq[q].kind = "token"
    /\ \E expires \in {0, clock + 1} : tokens' = tokens \cup {expires}
    /\ AuthReply(q)
    /\ UNCHANGED <<user, last, codes, failed, session, clock, admitted, made, amix>>

(* AuthenticateToken: a token gives the user too, but no session: nothing  *)
(* sensitive, and no session to keep when the others are signed out.       *)
TokenGood(t) == (t # 0 => clock <= t) /\ ~user.disabled
AuthenticateToken(q, t, kind) ==
    /\ t \in tokens /\ TokenGood(t)
    /\ MayAsk(q, kind) /\ kind \in {"profile", "password", "revokeOthers", "revokeOne"}
    /\ \E pw \in (IF kind = "password" THEN 1..made.pw ELSE {0}) :
        areq' = [areq EXCEPT ![q] = [Idle EXCEPT !.kind = kind, !.at = FirstStep(kind),
                                        !.copy = user, !.pw = pw]]
    /\ UNCHANGED <<user, last, codes, failed, session, tokens, clock, admitted, amix>>

\* handleRevokeToken: of one's own tokens only.
RevokeToken(t) ==
    /\ t \in tokens /\ tokens' = tokens \ {t}
    /\ UNCHANGED <<user, last, codes, failed, session, areq, clock, admitted, made, amix>>

\* The hourly housekeeping.
PurgeExpiredSessions ==
    /\ \E s \in Sids : session[s].live /\ session[s].expires <= clock
    /\ DeleteSessions({s \in Sids : session[s].expires <= clock})
    /\ UNCHANGED <<user, last, codes, failed, tokens, areq, clock, admitted, made, amix>>

\* The password is written and the sessions are still to end.
ChangesPassword(q) == areq[q].kind \in {"password", "reset"} /\ areq[q].at \in {"list", "delete"}

\* The browser goes away while the request waits or between two statements.
Disconnect(q) ==
    /\ "disconnect" \in amix.faults
    /\ areq[q].at \in {"wait", "codes", "list", "delete"} /\ areq[q].kind # "reset"
    /\ made' = IF ChangesPassword(q) THEN [made EXCEPT !.cut = Newer(@, areq[q].copy.pw)] ELSE made
    /\ AuthReply(q)
    /\ UNCHANGED <<user, last, codes, failed, session, tokens, clock, admitted, amix>>

\* No handler sets the column; somebody may, by hand.
AdministratorDisables ==
    /\ "disable" \in amix.faults /\ ~user.disabled
    /\ user' = [user EXCEPT !.disabled = TRUE]
    /\ UNCHANGED <<last, codes, failed, session, tokens, areq, clock, admitted, made, amix>>

AuthTick ==
    /\ "clock" \in amix.faults /\ clock < amix.until /\ clock' = clock + 1
    /\ UNCHANGED <<user, last, codes, failed, session, tokens, areq, admitted, made, amix>>

AuthNext ==
    \/ \E q \in Reqs :
        \/ Login(q) \/ LoginRead(q) \/ EnterHash(q) \/ Verify(q) \/ SpendSecondFactor(q)
        \/ RecordLoginFailure(q) \/ Rehash(q) \/ IssueSession(q) \/ SSOCallback(q)
        \/ \E s \in Sids, kind \in AuthKinds : Authenticate(q, s, kind)
        \/ \E t \in tokens, kind \in AuthKinds : AuthenticateToken(q, t, kind)
        \/ MarkReauthenticated(q) \/ ChangePassword(q) \/ UpdateMe(q) \/ SetupTOTP(q)
        \/ StoreRecoveryCodes(q) \/ ConfirmTOTP(q) \/ TurnOnTOTP(q) \/ DisableTOTP(q)
        \/ ForgetRecoveryCodes(q) \/ ListOthers(q) \/ RevokeOne(q) \/ Logout(q) \/ DeleteOthers(q)
        \/ \E s \in Sids : DeleteOne(q, s)
        \/ DeleteUserSessions(q) \/ ResetRead(q) \/ ResetPassword(q) \/ CreateAPIToken(q) \/ Disconnect(q)
    \/ \E s \in Sids : Refuse(s)
    \/ \E t \in tokens : RevokeToken(t)
    \/ PurgeExpiredSessions \/ AdministratorDisables \/ AuthTick

AuthSpec == AuthInit /\ [][AuthNext]_authVars

-----------------------------------------------------------------------------
AuthTypeOK ==
    /\ user \in [pw : 0..MaxPw, old : BOOLEAN, secret : 0..MaxSecrets, on : BOOLEAN,
                 disabled : BOOLEAN]
    /\ user.on => user.secret # 0
    /\ codes \subseteq RecoveryCodes /\ DOMAIN session = Sids /\ DOMAIN areq = Reqs

(* A code gets somebody past the second factor once, whoever else presents *)
(* it in the same instant, at the sign-in page or when stepping up.        *)
CodeAdmitsOnce == \A c \in Codes : admitted[c] <= 1

(* Wrong attempts in one window: the limit, and the ones that were already *)
(* past the check when it was reached.                                     *)
LockoutHolds == CountFailedLogins < MaxPerAccount + Cardinality(Reqs)

(* A session of an older password, once the change to the present one has  *)
(* gone through: the one that changed it, one whose sign-in was in progress *)
(* when it changed, one whose time was up at the instant of the list, or   *)
(* one whose deletion was refused (unless the change was cut short and     *)
(* said so, or a save of something else has put an older password back).   *)
Excused(s) == user.pw \in {session[s].kept, session[s].late, session[s].missed, made.cut}
NoOldSessions ==
    made.lost \/ (\E q \in Reqs : ChangesPassword(q) /\ areq[q].copy.pw = user.pw) \/
    \A s \in Sids : session[s].live /\ ~Expired(s) /\ session[s].pw < user.pw => Excused(s)

(* "A password change must invalidate anything an attacker already holds": *)
(* once it has gone through and has not said otherwise, the only session   *)
(* left of an older password is the one that changed it.                   *)
ChangeEndsThem ==
    made.lost \/ made.cut = user.pw \/ (\E q \in Reqs : ChangesPassword(q) /\ areq[q].copy.pw = user.pw) \/
    \A s \in Sids : session[s].live /\ ~Expired(s) /\ session[s].pw < user.pw => session[s].kept = user.pw

(* No session is used past its ceiling, however often it is used.          *)
SessionCeiling == \A s \in Sids : session[s].seen <= Deadline(s)

(* Codes written down are good only for a second factor being set up or on *)
(* (between requests, when they do not overlap and none is cut short).     *)
CodesFollowTheSecret ==
    ~amix.overlap /\ "disconnect" \notin amix.faults /\ (\A q \in Reqs : Free1(q)) /\ user.secret = 0
        => codes = {}

(* Signing in never undoes what was done to the row meanwhile: it writes   *)
(* the hash and nothing else.                                              *)
SigningIn(q) == Rehash(q) \/ IssueSession(q)
SignInKeepsTheRow ==
    [][(\E q \in Reqs : SigningIn(q)) =>
            user' = [user EXCEPT !.pw = user'.pw, !.old = user'.old]]_authVars
=============================================================================
