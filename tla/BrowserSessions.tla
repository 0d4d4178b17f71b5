--------------------------- MODULE BrowserSessions ---------------------------
(***************************************************************************)
(* The browser session of an OIDC login, shared by requests on several     *)
(* processes.  Access tokens are refreshed, and the identity behind a new  *)
(* one verified, by a request that claimed the session's lease; no lock is *)
(* held while the identity provider is asked.  The provider rotates        *)
(* refresh tokens: the n-th answer carries access and refresh token n, and *)
(* only the newest refresh token is good.  The store serializes updates of *)
(* the record and does not show an expired one.                            *)
(***************************************************************************)
EXTENDS IdentityRepository

CONSTANTS BrowserThreads,
          TokenTime, RefreshMargin,       \* an access token's longest life; 30 s before its end
          LeaseTime, IdleTime, AbsoluteTime,
          MaxIssued, MaxBrowserRequests, MaxBrowserClock, MaxBrowserCrashes

ASSUME BrowserAssumption ==
    /\ {TokenTime, RefreshMargin, IdleTime, AbsoluteTime, MaxIssued, MaxBrowserRequests,
        MaxBrowserClock, MaxBrowserCrashes} \subseteq Nat
    /\ LeaseTime \in Nat \ {0}

VARIABLES loginState,      \* the state record of a login: "none", "saved" or "taken"
          session,         \* the session's record, or NotFound
          good, issued,    \* the provider: the good refresh token, tokens issued
          user,            \* what requests are doing
          verified,        \* history: access tokens whose identity was verified
          ended,           \* history: why the record was deleted
          excused,         \* history: the provider rejected the user or answered too late, a
                           \* rotated token was lost, or a lease ran out under its owner
          clock, requestsLeft, crashesLeft

providerVars == <<good, issued>>
historyVars == <<verified, ended, excused>>
budgetVars == <<clock, requestsLeft, crashesLeft>>
browserVars == <<loginState, session, providerVars, user, historyVars, budgetVars>>

BrowserSessionActive(s) == clock < s.expires /\ clock < s.idle
SessionUsable(s) == BrowserSessionActive(s) /\ ~s.pending /\ clock < s.tokenExpires

(* The record an update or a read finds.                                   *)
ReadBrowserRecord == IF session # NotFound /\ BrowserSessionActive(session) THEN session ELSE NotFound

(* The last verified credentials, if they still hold.                      *)
AcceptedSession(s) ==
    [token |-> s.accepted, holds |-> BrowserSessionActive(s) /\ clock < s.acceptedExpires]

Idling == [op |-> "idle", answer |-> 0]
ContinueAs(t, r) == user' = [user EXCEPT ![t] = r]
AnswerWith(t, token) == ContinueAs(t, [op |-> "idle", answer |-> token])

---------------------------------------------------------------------------
(* Login: the state is taken by one callback, which then exchanges the    *)
(* code.  The provider may issue no refresh token, refuse or be away.  An  *)
(* access token's life is counted from before the provider was asked, and  *)
(* its own exp may end it sooner: at the answer some of it is left.        *)

BeginAuth ==
    /\ loginState = "none" /\ loginState' = "saved"
    /\ UNCHANGED <<session, providerVars, user, historyVars, budgetVars>>
HandleCallback(t) ==
    /\ user[t].op = "idle" /\ requestsLeft > 0 /\ requestsLeft' = requestsLeft - 1
    /\ loginState # "none" /\ loginState' = "taken"
    /\ ContinueAs(t, IF loginState = "saved" THEN [op |-> "exchange"] ELSE Idling)
    /\ UNCHANGED <<session, providerVars, historyVars, clock, crashesLeft>>
ExchangeCode(t) ==
    /\ user[t].op = "exchange" /\ ContinueAs(t, Idling)
    /\ \/ \E refresh \in {0, 1}, life \in 1 .. TokenTime :
            /\ issued' = 1 /\ good' = refresh /\ verified' = {1}
            /\ session' = [access |-> 1, refresh |-> refresh, pending |-> FALSE,
                           tokenExpires |-> clock + life,
                           accepted |-> 1, acceptedExpires |-> clock + life,
                           expires |-> clock + AbsoluteTime, idle |-> clock + IdleTime,
                           activity |-> clock, owner |-> {}, until |-> 0]
       \/ UNCHANGED <<providerVars, verified, session>>
    /\ UNCHANGED <<loginState, ended, excused, budgetVars>>

---------------------------------------------------------------------------
(* A request with the session's cookie.                                    *)

SessionWithError(t) ==
    /\ user[t].op = "idle" /\ requestsLeft > 0 /\ requestsLeft' = requestsLeft - 1
    /\ ContinueAs(t, [op |-> "read", refreshed |-> FALSE])
    /\ UNCHANGED <<loginState, session, providerVars, historyVars, clock, crashesLeft>>

RefreshDue(s, refreshed) ==
    /\ s.refresh # 0
    /\ \/ clock >= s.tokenExpires
       \/ ~s.pending /\ ~refreshed /\ clock + RefreshMargin >= s.tokenExpires
ActivityDue(s) == clock > s.activity

ReadSession(t) ==
    LET s == ReadBrowserRecord
        j == user[t]
        due == RefreshDue(s, j.refreshed)
    IN  /\ j.op = "read"
        /\ IF s = NotFound
           THEN /\ AnswerWith(t, 0) /\ session' = NotFound
                /\ ended' = IF session # NotFound THEN ended \cup {"limit"} ELSE ended
           ELSE /\ UNCHANGED <<session, ended>>
                /\ IF clock >= s.tokenExpires /\ s.refresh = 0
                   THEN ContinueAs(t, [op |-> "delete", refreshed |-> j.refreshed, seen |-> s])
                   ELSE IF ~due /\ ~s.pending
                   THEN IF ActivityDue(s)
                        THEN ContinueAs(t, [op |-> "renew", refreshed |-> j.refreshed, seen |-> s])
                        ELSE AnswerWith(t, s.access)
                   ELSE IF s.owner # {} /\ clock < s.until
                   THEN IF AcceptedSession(s).holds THEN AnswerWith(t, s.accepted)
                        ELSE ContinueAs(t, j) \/ AnswerWith(t, 0)      \* waits, or has waited long enough
                   ELSE ContinueAs(t, [op |-> "claim", refreshed |-> j.refreshed, seen |-> s, due |-> due])
        /\ UNCHANGED <<loginState, providerVars, verified, excused, budgetVars>>

DeleteSession(t) ==
    LET s == ReadBrowserRecord
        stale == s # NotFound /\ s.access # user[t].seen.access
    IN  /\ user[t].op = "delete" /\ AnswerWith(t, 0)
        /\ session' = IF stale THEN s ELSE NotFound
        /\ ended' = IF stale THEN ended ELSE ended \cup {"limit"}
        /\ UNCHANGED <<loginState, providerVars, verified, excused, budgetVars>>

RenewActivity(t) ==
    LET s == ReadBrowserRecord
        j == user[t]
    IN  /\ j.op = "renew"
        /\ IF s = NotFound THEN AnswerWith(t, 0) /\ session' = NotFound
           ELSE IF ~SessionUsable(s) \/ s.access # j.seen.access
           THEN ContinueAs(t, [op |-> "read", refreshed |-> j.refreshed]) /\ UNCHANGED session
           ELSE /\ AnswerWith(t, s.access)
                /\ session' = IF ActivityDue(s)
                              THEN [s EXCEPT !.activity = clock, !.idle = clock + IdleTime] ELSE s
        /\ ended' = IF s = NotFound /\ session # NotFound THEN ended \cup {"limit"} ELSE ended
        /\ UNCHANGED <<loginState, providerVars, verified, excused, budgetVars>>

\* Mutant: a live lease of another request is not respected.
ClaimsTaken(s, seen) ==
    /\ s.access = seen.access /\ s.refresh = seen.refresh /\ s.pending = seen.pending
    /\ s.tokenExpires = seen.tokenExpires
Claims(s, seen) ==
    /\ s.access = seen.access /\ s.refresh = seen.refresh /\ s.pending = seen.pending
    /\ s.tokenExpires = seen.tokenExpires
    /\ ~(s.owner # {} /\ clock < s.until)

(* One claim has one owner: the request and the time are its random name.  *)
ClaimLease(t) ==
    LET s == ReadBrowserRecord
        j == user[t]
        owned == [s EXCEPT !.owner = {<<t, clock>>}, !.until = clock + LeaseTime]
    IN  /\ j.op = "claim"
        /\ IF s = NotFound \/ ~Claims(s, j.seen)
           THEN /\ ContinueAs(t, [op |-> "read", refreshed |-> j.refreshed])
                /\ session' = s
                /\ ended' = IF s = NotFound /\ session # NotFound THEN ended \cup {"limit"} ELSE ended
           ELSE /\ session' = owned /\ UNCHANGED ended
                /\ ContinueAs(t, [op |-> IF j.due THEN "refresh" ELSE "identity", refreshed |-> j.refreshed,
                          owner |-> owned.owner, seen |-> owned])
        /\ UNCHANGED <<loginState, providerVars, verified, excused, budgetVars>>

(* The provider is asked.  The answer may be lost after the token rotated; *)
(* one whose access token has no life left is refused for good.            *)
AskCommit(t, updated, permanent, failed, refreshed) ==
    ContinueAs(t, [op |-> "commit", refreshed |-> refreshed, owner |-> user[t].owner, seen |-> user[t].seen,
           updated |-> updated, permanent |-> permanent, failed |-> failed])

RefreshTokens(t) ==
    LET j == user[t]
        s == j.seen
        kept == IF s.pending THEN s
                ELSE [s EXCEPT !.accepted = s.access, !.acceptedExpires = s.tokenExpires]
        rotated(life) == [kept EXCEPT !.access = issued + 1, !.refresh = issued + 1,
                                      !.tokenExpires = clock + life, !.pending = TRUE]
    IN  /\ j.op = "refresh"
        /\ \/ /\ s.refresh = good /\ issued < MaxIssued
              /\ issued' = issued + 1 /\ good' = issued + 1
              /\ \/ /\ \E life \in 1 .. TokenTime : AskCommit(t, rotated(life), FALSE, FALSE, TRUE)
                    /\ UNCHANGED excused
                 \/ /\ \E expired \in BOOLEAN : AskCommit(t, s, expired, TRUE, j.refreshed)
                    /\ excused' = TRUE
           \/ /\ s.refresh # good /\ AskCommit(t, s, TRUE, TRUE, j.refreshed)
              /\ UNCHANGED <<providerVars, excused>>
           \/ AskCommit(t, s, FALSE, TRUE, j.refreshed) /\ UNCHANGED <<providerVars, excused>>
        /\ UNCHANGED <<loginState, session, verified, ended, budgetVars>>

(* The identity behind the new token is verified; an identity token that   *)
(* expired meanwhile is replaced by one more rotation under the lease.     *)
RefreshIdentity(t) ==
    LET j == user[t]
        s == j.seen
        checked == [s EXCEPT !.accepted = s.access, !.acceptedExpires = s.tokenExpires,
                             !.pending = FALSE]
    IN  /\ j.op = "identity"
        /\ \/ AskCommit(t, checked, FALSE, FALSE, j.refreshed) /\ verified' = verified \cup {s.access}
           \/ AskCommit(t, s, FALSE, TRUE, j.refreshed) /\ UNCHANGED verified
           \/ ~j.refreshed /\ ContinueAs(t, [j EXCEPT !.op = "refresh"]) /\ UNCHANGED verified
        /\ UNCHANGED <<loginState, session, providerVars, ended, excused, budgetVars>>
(* The provider no longer vouches for the user, or takes the grant back.   *)
IdentityRejected(t) ==
    /\ user[t].op \in {"refresh", "identity"} /\ AskCommit(t, user[t].seen, TRUE, TRUE, user[t].refreshed)
    /\ excused' = TRUE
    /\ UNCHANGED <<loginState, session, providerVars, verified, ended, budgetVars>>

CommitLeased(t) ==
    LET s == ReadBrowserRecord
        j == user[t]
        again == [op |-> "read", refreshed |-> j.refreshed]
    IN  /\ j.op = "commit"
        /\ IF s = NotFound \/ s.owner # j.owner
           THEN ContinueAs(t, again) /\ session' = s /\ UNCHANGED ended
           ELSE IF j.permanent
           THEN AnswerWith(t, 0) /\ session' = NotFound /\ ended' = ended \cup {"refused"}
           ELSE /\ session' = [(IF j.failed THEN s ELSE j.updated) EXCEPT !.owner = {}, !.until = 0]
                /\ IF ~j.failed THEN ContinueAs(t, again)
                   ELSE AnswerWith(t, IF AcceptedSession(j.seen).holds THEN j.seen.accepted ELSE 0)
                /\ UNCHANGED ended
        /\ UNCHANGED <<loginState, providerVars, verified, excused, budgetVars>>

(* Optional identity: only what the record says is used.                   *)
LookupSession(t) ==
    LET s == ReadBrowserRecord
    IN  /\ user[t].op = "idle" /\ requestsLeft > 0 /\ requestsLeft' = requestsLeft - 1
        /\ s # NotFound
        /\ AnswerWith(t, IF AcceptedSession(s).holds THEN s.accepted ELSE 0)
        /\ UNCHANGED <<loginState, session, providerVars, historyVars, clock, crashesLeft>>

(* A process stops under a request, or the store fails it.                 *)
BrowserCrash(t) ==
    /\ user[t].op # "idle" /\ crashesLeft > 0 /\ crashesLeft' = crashesLeft - 1
    /\ ContinueAs(t, Idling)
    /\ excused' = (excused \/ (user[t].op = "commit" /\ user[t].updated.refresh # user[t].seen.refresh))
    /\ UNCHANGED <<loginState, session, providerVars, verified, ended, clock, requestsLeft>>

BrowserTick ==
    /\ clock < MaxBrowserClock /\ clock' = clock + 1
    /\ excused' = (excused \/ \E t \in BrowserThreads :
                      /\ user[t].op \in {"refresh", "identity", "commit"}
                      /\ clock + 1 >= user[t].seen.until)
    /\ UNCHANGED <<loginState, session, providerVars, user, verified, ended, requestsLeft, crashesLeft>>

---------------------------------------------------------------------------
BrowserInit ==
    /\ loginState = "none" /\ session = NotFound /\ good = 0 /\ issued = 0
    /\ user = [t \in BrowserThreads |-> Idling]
    /\ verified = {} /\ ended = {} /\ excused = FALSE
    /\ clock = 0 /\ requestsLeft = MaxBrowserRequests /\ crashesLeft = MaxBrowserCrashes

BrowserNext ==
    \/ \E t \in BrowserThreads :
        \/ HandleCallback(t) \/ ExchangeCode(t) \/ SessionWithError(t) \/ ReadSession(t)
        \/ DeleteSession(t) \/ RenewActivity(t) \/ ClaimLease(t) \/ RefreshTokens(t) \/ RefreshIdentity(t)
        \/ IdentityRejected(t) \/ CommitLeased(t) \/ LookupSession(t) \/ BrowserCrash(t)
    \/ BeginAuth \/ BrowserTick

---------------------------------------------------------------------------
(* Requests that share a session neither end it nor trust it too early: it *)
(* is refused by the provider only when the provider rejected the user, a  *)
(* rotated token was lost with the answer or the process that had it, its  *)
(* access token had expired when it arrived, or a lease ran out under its  *)
(* owner, never because two requests used one refresh token; and whoever   *)
(* is answered with an identity is answered by a verified access token.    *)
SessionKept ==
    /\ "refused" \in ended => excused
    /\ \A t \in BrowserThreads :
          user[t].op = "idle" => user[t].answer \in verified \cup {0}
=============================================================================
