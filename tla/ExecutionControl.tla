-------------------------- MODULE ExecutionControl --------------------------
(***************************************************************************)
(* Execution authority of the control plane: the ExecutionRegistry         *)
(* (internal/nanoflare/execution.go, resource_grants.go) and the private   *)
(* RuntimeExecutionServer in front of it (internal/api/runtime_execution.go,*)
(* resource_grants.go).  A runner opens a session, registers a resource    *)
(* grant per snapshot, publishes it, admits invocations (each admission is *)
(* a capability token kept alive by counted pins) and retires the grant.   *)
(* Resource requests take a token of their own until their response ends.  *)
(*                                                                         *)
(* Two mutexes matter.  RuntimeExecutionServer.mu serialises the handlers  *)
(* and is held while a session is closed pin by pin; ExecutionRegistry.mu  *)
(* covers one registry call at a time, so retire, AcquireResource, the end *)
(* of a resource response and the middle of the pin handler can run        *)
(* between two steps of a session's close.                                 *)
(***************************************************************************)
EXTENDS Naturals, FiniteSets

CONSTANTS
    Sessions,       \* runner session ids; each is random and opened at most once
    Registrations,  \* caller-chosen registration nonces
    Snapshots,      \* identities of frozen execution content
    Resources,      \* resources (kind and id) a request can name
    Declares,       \* Declares[x]: the resources snapshot x declares
    Tokens,         \* pool of random nfexec_ capability tokens, never reused
    Calls,          \* control calls whose pin id is a fresh random id
    MaxSeq,         \* bound on a session's admission sequence numbers
    TTL,            \* runtimeExecutionSessionTTL, in ticks of the clock
    NoSession, NoGrant, NoSnapshot, NoToken

ASSUME ControlAssumption ==
    /\ IsFiniteSet(Tokens) /\ IsFiniteSet(Calls) /\ IsFiniteSet(Sessions)
    /\ MaxSeq \in Nat /\ TTL \in Nat \ {0}
    /\ Declares \in [Snapshots -> SUBSET Resources]
    /\ NoSession \notin Sessions /\ NoSnapshot \notin Snapshots /\ NoToken \notin Tokens
    /\ NoGrant \notin Sessions \X Registrations
    /\ Calls \cap (Sessions \X (1..MaxSeq)) = {}

(***************************************************************************)
(* ResourceGrantID hashes session and registration, so a grant id is the   *)
(* pair.  The pin of a sequenced admission is named session:sequence.      *)
(***************************************************************************)
Grants == Sessions \X Registrations
ResourceGrantID(s, r) == <<s, r>>
SessionOf(g) == g[1]
AdmissionPin(s, n) == <<s, n>>
PinIds == (Sessions \X (1..MaxSeq)) \cup Calls

VARIABLES
    session,    \* session[s]: "new", "open" or "closed"
    ttl,        \* ttl[s]: ticks until the session expires
    highWater,  \* highWater[s]: admission sequence watermark
    closed,     \* the server has been shut down
    closing,    \* the session being closed under RuntimeExecutionServer.mu
    pins,       \* RuntimeExecutionServer.pins
    uses,       \* runtimeExecutionSession.tokens: pins that hold a token
    owners,     \* RuntimeExecutionServer.owners
    calls,      \* progress of the pin handler, call by call
    rev,        \* ExecutionRegistry.revisions
    tokens,     \* ExecutionRegistry.tokens
    registered, \* ExecutionRegistry.registrations
    revoked,    \* ExecutionRegistry.revokedGrants
    released    \* history: admissions a release has been processed for

serverVars == <<session, ttl, highWater, closed, closing, pins, uses, owners, calls, released>>
registryVars == <<rev, tokens, registered, revoked>>
vars == <<session, ttl, highWater, closed, closing, pins, uses, owners, calls,
          rev, tokens, registered, revoked, released>>

GrantStates == {"prepared", "published", "draining", "revoked"}
Revision == [state : GrantStates \cup {"absent"}, accepting : BOOLEAN,
             leases : Nat, operations : Nat, snapshot : Snapshots \cup {NoSnapshot}]
Admission == [kind : {"unused", "admission", "operation", "dead"},
              grant : Grants \cup {NoGrant}, pins : Nat]
Pin == [token : Tokens \cup {NoToken}, session : Sessions \cup {NoSession},
        grant : Grants \cup {NoGrant}]
Call == [phase : {"idle", "checked", "held", "done"},
         token : Tokens \cup {NoToken}, owner : Sessions \cup {NoSession}]

Absent == [state |-> "absent", accepting |-> FALSE, leases |-> 0, operations |-> 0,
           snapshot |-> NoSnapshot]
Prepared(x) == [Absent EXCEPT !.state = "prepared", !.snapshot = x]
Unused == [kind |-> "unused", grant |-> NoGrant, pins |-> 0]
Dead == [kind |-> "dead", grant |-> NoGrant, pins |-> 0]
NoPin == [token |-> NoToken, session |-> NoSession, grant |-> NoGrant]
Idle == [phase |-> "idle", token |-> NoToken, owner |-> NoSession]
Done == [phase |-> "done", token |-> NoToken, owner |-> NoSession]

Init ==
    /\ session = [s \in Sessions |-> "new"]
    /\ ttl = [s \in Sessions |-> 0]
    /\ highWater = [s \in Sessions |-> 0]
    /\ closed = FALSE
    /\ closing = NoSession
    /\ pins = [p \in PinIds |-> NoPin]
    /\ uses = [t \in Tokens |-> 0]
    /\ owners = [t \in Tokens |-> NoSession]
    /\ calls = [c \in Calls |-> Idle]
    /\ rev = [g \in Grants |-> Absent]
    /\ tokens = [t \in Tokens |-> Unused]
    /\ registered = {}
    /\ revoked = {}
    /\ released = {}

-----------------------------------------------------------------------------
(* Registry calls as functions of the registry's state.                    *)

\* sessionLiveLocked, and liveSessionLocked for a session that has not expired.
Live(s) == s \in Sessions /\ session[s] = "open" /\ ttl[s] > 0

Held(t) == tokens[t].kind \in {"admission", "operation"}

\* Mutant: operations do not keep their revision.
CollectRevisionForgetsOperations(rv) ==
    IF rv.accepting \/ rv.state = "prepared" \/ rv.leases > 0 THEN rv ELSE Absent

\* collectRevisionLocked: drop a revision nothing references any more.
CollectRevision(rv) ==
    IF rv.accepting \/ rv.state = "prepared" \/ rv.leases > 0 THEN rv
    ELSE IF rv.operations > 0 THEN [rv EXCEPT !.state = "revoked"]
    ELSE Absent

\* The revision stops counting admission a.
EndLease(a, rv) == IF a.kind = "operation" THEN [rv EXCEPT !.operations = @ - 1]
                   ELSE [rv EXCEPT !.leases = @ - 1]

\* ExecutionLease.Release gives one pin back; the last one ends the admission.
ReleaseLeaseTokens(t) ==
    IF ~Held(t) THEN tokens
    ELSE IF tokens[t].pins > 1 THEN [tokens EXCEPT ![t].pins = @ - 1]
    ELSE [tokens EXCEPT ![t] = Dead]

\* Mutant: the last release does not collect the revision.
ReleaseLeaseRevisionsUncollected(t) ==
    IF ~Held(t) \/ tokens[t].pins > 1 THEN rev
    ELSE [rev EXCEPT ![tokens[t].grant] = EndLease(tokens[t], @)]

ReleaseLeaseRevisions(t) ==
    IF ~Held(t) \/ tokens[t].pins > 1 THEN rev
    ELSE [rev EXCEPT ![tokens[t].grant] = CollectRevision(EndLease(tokens[t], @))]

ReleaseLease(t) ==
    /\ tokens' = ReleaseLeaseTokens(t)
    /\ rev' = ReleaseLeaseRevisions(t)

\* releasePinLocked
ReleasePin(p) ==
    IF pins[p] = NoPin
    THEN UNCHANGED <<pins, uses, owners, tokens, rev>>
    ELSE LET t == pins[p].token IN
         /\ pins' = [pins EXCEPT ![p] = NoPin]
         /\ uses' = [uses EXCEPT ![t] = @ - 1]
         /\ owners' = IF uses[t] = 1 THEN [owners EXCEPT ![t] = NoSession] ELSE owners
         /\ ReleaseLease(t)

\* storePinLocked
StorePin(p, t, s, g) ==
    /\ pins' = [pins EXCEPT ![p] = [token |-> t, session |-> s, grant |-> g]]
    /\ uses' = [uses EXCEPT ![t] = @ + 1]
    /\ owners' = [owners EXCEPT ![t] = s]

\* ExecutionRegistry.admit accepts grant g for a runner of session s.
Admissible(s, g) == rev[g].accepting /\ SessionOf(g) = s /\ Live(s)

\* ExecutionRegistry.admit
NewAdmission(g, t) ==
    /\ tokens[t].kind = "unused"
    /\ tokens' = [tokens EXCEPT ![t] = [kind |-> "admission", grant |-> g, pins |-> 1]]
    /\ rev' = [rev EXCEPT ![g].leases = @ + 1]

AdmissionsOf(S) == {t \in Tokens : tokens[t].kind = "admission" /\ tokens[t].grant \in S}

\* Mutant: the closing session counts its tokens out without deleting them.
RevokeResourceSessionKeepsTokens(s) ==
    LET mine == {g \in Grants : SessionOf(g) = s} IN
    /\ tokens' = tokens
    /\ rev' = [g \in Grants |->
                IF g \notin mine \/ rev[g].state = "absent" THEN rev[g]
                ELSE CollectRevision([rev[g] EXCEPT
                        !.state = "revoked", !.accepting = FALSE,
                        !.leases = @ - Cardinality(AdmissionsOf({g}))])]
    /\ registered' = registered \ mine
    /\ revoked' = revoked \ mine

\* RevokeResourceSession: every invocation token of the session dies, accepted
\* operations keep their revision until they finish.
RevokeResourceSession(s) ==
    LET mine == {g \in Grants : SessionOf(g) = s} IN
    /\ tokens' = [t \in Tokens |-> IF t \in AdmissionsOf(mine) THEN Dead ELSE tokens[t]]
    /\ rev' = [g \in Grants |->
                IF g \notin mine \/ rev[g].state = "absent" THEN rev[g]
                ELSE CollectRevision([rev[g] EXCEPT
                        !.state = "revoked", !.accepting = FALSE,
                        !.leases = @ - Cardinality(AdmissionsOf({g}))])]
    /\ registered' = registered \ mine
    /\ revoked' = revoked \ mine

-----------------------------------------------------------------------------
(* Sessions.                                                               *)

\* RuntimeExecutionServer.mu is free.  Close keeps it until no session is open.
MuFree == closing = NoSession /\ (closed => \A s \in Sessions : session[s] # "open")

\* A handler that starts with liveSessionLocked for session s and the closed check.
Serving(s) == MuFree /\ ~closed /\ Live(s)

OpenSession(s) ==
    /\ MuFree /\ ~closed
    /\ session[s] = "new"
    /\ session' = [session EXCEPT ![s] = "open"]
    /\ ttl' = [ttl EXCEPT ![s] = TTL]
    /\ UNCHANGED <<highWater, closed, closing, pins, uses, owners, calls, registryVars, released>>

Heartbeat(s) ==
    /\ MuFree /\ Live(s)
    /\ ttl' = [ttl EXCEPT ![s] = TTL]
    /\ UNCHANGED <<session, highWater, closed, closing, pins, uses, owners, calls,
                   registryVars, released>>

\* Time passes for every open session.
Tick ==
    /\ \E s \in Sessions : session[s] = "open" /\ ttl[s] > 0
    /\ ttl' = [s \in Sessions |-> IF ttl[s] > 0 THEN ttl[s] - 1 ELSE 0]
    /\ UNCHANGED <<session, highWater, closed, closing, pins, uses, owners, calls,
                   registryVars, released>>

\* closeSessionLocked takes the mutex; CloseReleasePin and CloseRevoke finish it.
BeginClose(s) ==
    /\ closing = NoSession
    /\ session[s] = "open"
    /\ closing' = s
    /\ UNCHANGED <<session, ttl, highWater, closed, pins, uses, owners, calls,
                   registryVars, released>>

\* The runner's close-session.
CloseSession(s) == MuFree /\ BeginClose(s)

\* Mutant: nothing looks for idle sessions while the server runs.
ExpireSessionOnlyAtShutdown(s) == closed /\ BeginClose(s)

\* Mutant: shutdown stops the janitor and forgets the sessions it looked after.
ExpireSessionUntilShutdown(s) == ttl[s] = 0 /\ ~closed /\ BeginClose(s)

\* expireSessions (janitor and every request), liveSessionLocked, Close.
ExpireSession(s) == (ttl[s] = 0 \/ closed) /\ BeginClose(s)

CloseReleasePin(p) ==
    /\ closing # NoSession
    /\ pins[p].session = closing
    /\ ReleasePin(p)
    /\ UNCHANGED <<session, ttl, highWater, closed, closing, calls, registered, revoked, released>>

CloseRevoke ==
    /\ closing # NoSession
    /\ \A p \in PinIds : pins[p].session # closing
    /\ session' = [session EXCEPT ![closing] = "closed"]
    /\ ttl' = [ttl EXCEPT ![closing] = 0]
    /\ closing' = NoSession
    /\ RevokeResourceSession(closing)
    /\ UNCHANGED <<highWater, closed, pins, uses, owners, calls, released>>

\* RuntimeExecutionServer.Close
Close ==
    /\ MuFree /\ ~closed
    /\ closed' = TRUE
    /\ UNCHANGED <<session, ttl, highWater, closing, pins, uses, owners, calls,
                   registryVars, released>>

-----------------------------------------------------------------------------
(* Grants.                                                                 *)

\* Mutant: a registration does not look for an earlier retirement.
RegisterRevives(s, r, x) ==
    LET g == ResourceGrantID(s, r) IN
    /\ Serving(s)
    /\ g \notin registered
    /\ rev' = [rev EXCEPT ![g] = Prepared(x)]
    /\ registered' = registered \cup {g}
    /\ UNCHANGED <<serverVars, tokens, revoked>>

\* register, PrepareResourceGrant.  A repeated registration and one whose grant
\* was retired first change nothing; nor does content the store refuses.
Register(s, r, x) ==
    LET g == ResourceGrantID(s, r) IN
    /\ Serving(s)
    /\ g \notin registered /\ g \notin revoked
    /\ rev' = [rev EXCEPT ![g] = Prepared(x)]
    /\ registered' = registered \cup {g}
    /\ UNCHANGED <<serverVars, tokens, revoked>>

\* publish, PublishResourceGrant
Publish(s, g) ==
    /\ Serving(s)
    /\ SessionOf(g) = s
    /\ rev[g].state \in {"prepared", "published"}
    /\ rev' = [rev EXCEPT ![g].state = "published", ![g].accepting = TRUE]
    /\ UNCHANGED <<serverVars, tokens, registered, revoked>>

\* retire, RetireResourceGrant: a registry call that does not take
\* RuntimeExecutionServer.mu.  The runner only retires grants of its session.
Retire(g) ==
    /\ Live(SessionOf(g))
    /\ revoked' = revoked \cup {g}
    /\ rev' = IF rev[g].state = "absent" THEN rev
              ELSE [rev EXCEPT ![g] =
                      CollectRevision([@ EXCEPT !.state = "draining", !.accepting = FALSE])]
    /\ UNCHANGED <<serverVars, tokens, registered>>

-----------------------------------------------------------------------------
(* Admissions and pins.                                                    *)

\* admit with a sequence number.  A repeated admission returns its token, one at
\* or below the watermark is refused, and both leave the state alone.
Admit(s, n, g, t) ==
    LET p == AdmissionPin(s, n) IN
    /\ Serving(s)
    /\ pins[p] = NoPin
    /\ n > highWater[s]
    /\ highWater' = [highWater EXCEPT ![s] = n]
    /\ IF Admissible(s, g)
       THEN NewAdmission(g, t) /\ StorePin(p, t, s, g)
       ELSE UNCHANGED <<tokens, rev, pins, uses, owners>>
    /\ UNCHANGED <<session, ttl, closed, closing, calls, registered, revoked, released>>

\* admit without a sequence number: the server picks a fresh pin id.
AdmitUnsequenced(c, s, g, t) ==
    /\ Serving(s)
    /\ calls[c] = Idle
    /\ Admissible(s, g)
    /\ NewAdmission(g, t)
    /\ StorePin(c, t, s, g)
    /\ calls' = [calls EXCEPT ![c] = Done]
    /\ UNCHANGED <<session, ttl, highWater, closed, closing, registered, revoked, released>>

\* pin, first critical section: the token's owner is a live session.
PinCheck(c, t) ==
    /\ MuFree
    /\ calls[c] = Idle
    /\ Live(owners[t])
    /\ calls' = [calls EXCEPT ![c] = [phase |-> "checked", token |-> t, owner |-> owners[t]]]
    /\ UNCHANGED <<session, ttl, highWater, closed, closing, pins, uses, owners,
                   registryVars, released>>

\* Mutant: the extra pin is handed out but not counted.
PinAcquireUncounted(c) ==
    LET t == calls[c].token
        ok == Held(t) /\ Live(SessionOf(tokens[t].grant)) IN
    /\ calls[c].phase = "checked"
    /\ calls' = [calls EXCEPT ![c] = IF ok THEN [@ EXCEPT !.phase = "held"] ELSE Done]
    /\ UNCHANGED <<session, ttl, highWater, closed, closing, pins, uses, owners,
                   rev, tokens, registered, revoked, released>>

\* pin, ExecutionRegistry.Pin without RuntimeExecutionServer.mu
PinAcquire(c) ==
    LET t == calls[c].token
        ok == Held(t) /\ Live(SessionOf(tokens[t].grant)) IN
    /\ calls[c].phase = "checked"
    /\ tokens' = IF ok THEN [tokens EXCEPT ![t].pins = @ + 1] ELSE tokens
    /\ calls' = [calls EXCEPT ![c] = IF ok THEN [@ EXCEPT !.phase = "held"] ELSE Done]
    /\ UNCHANGED <<session, ttl, highWater, closed, closing, pins, uses, owners,
                   rev, registered, revoked, released>>

\* pin, keepPin succeeds
PinKeep(c) ==
    /\ calls[c].phase = "held"
    /\ Serving(calls[c].owner)
    /\ StorePin(c, calls[c].token, calls[c].owner, NoGrant)
    /\ calls' = [calls EXCEPT ![c] = Done]
    /\ UNCHANGED <<session, ttl, highWater, closed, closing, registryVars, released>>

\* pin, keepPin finds the session gone and the handler gives its lease back
PinAbort(c) ==
    /\ calls[c].phase = "held"
    /\ session[calls[c].owner] = "closed"
    /\ ReleaseLease(calls[c].token)
    /\ calls' = [calls EXCEPT ![c] = Done]
    /\ UNCHANGED <<session, ttl, highWater, closed, closing, pins, uses, owners,
                   registered, revoked, released>>

\* Mutant: releasing an admission the server has not seen leaves no trace.
ReleaseAdmissionForgotten(s, n) ==
    /\ MuFree /\ Live(s)
    /\ released' = released \cup {AdmissionPin(s, n)}
    /\ ReleasePin(AdmissionPin(s, n))
    /\ UNCHANGED <<session, ttl, highWater, closed, closing, calls, registered, revoked>>

\* release of a sequenced admission, whether or not it was ever admitted
ReleaseAdmission(s, n) ==
    /\ MuFree /\ Live(s)
    /\ highWater' = [highWater EXCEPT ![s] = IF n > @ THEN n ELSE @]
    /\ released' = released \cup {AdmissionPin(s, n)}
    /\ ReleasePin(AdmissionPin(s, n))
    /\ UNCHANGED <<session, ttl, closed, closing, calls, registered, revoked>>

\* release of a pin with a random id
ReleaseExtraPin(c) ==
    /\ MuFree
    /\ Live(pins[c].session)
    /\ ReleasePin(c)
    /\ UNCHANGED <<session, ttl, highWater, closed, closing, calls, registered, revoked, released>>

-----------------------------------------------------------------------------
(* Resource requests (internal/api/resource_grants.go).                    *)

\* AcquireResource: the operation token that serves one resource request.
AcquireResource(g, x, t) ==
    /\ Live(SessionOf(g))
    /\ \/ rev[g].state = "published"
       \/ rev[g].state = "draining" /\ rev[g].leases > 0
    /\ x \in Declares[rev[g].snapshot]
    /\ tokens[t].kind = "unused"
    /\ tokens' = [tokens EXCEPT ![t] = [kind |-> "operation", grant |-> g, pins |-> 1]]
    /\ rev' = [rev EXCEPT ![g].operations = @ + 1]
    /\ UNCHANGED <<serverVars, registered, revoked>>

\* The resource response has finished and its handler releases the lease.
FinishResource(t) ==
    /\ tokens[t].kind = "operation"
    /\ ReleaseLease(t)
    /\ UNCHANGED <<serverVars, registered, revoked>>

-----------------------------------------------------------------------------
SessionStep == \E s \in Sessions :
    OpenSession(s) \/ Heartbeat(s) \/ CloseSession(s) \/ ExpireSession(s)
CloseStep == (\E p \in PinIds : CloseReleasePin(p)) \/ CloseRevoke \/ Close
GrantStep == \E s \in Sessions, r \in Registrations :
    \/ \E x \in Snapshots : Register(s, r, x)
    \/ \E s2 \in Sessions : Publish(s2, <<s, r>>)
    \/ Retire(<<s, r>>)
AdmitStep == \E s \in Sessions, g \in Grants, t \in Tokens :
    \/ \E n \in 1..MaxSeq : Admit(s, n, g, t)
    \/ \E c \in Calls : AdmitUnsequenced(c, s, g, t)
PinStep == \E c \in Calls :
    (\E t \in Tokens : PinCheck(c, t)) \/ PinAcquire(c) \/ PinKeep(c) \/ PinAbort(c)
ReleaseStep ==
    \/ \E s \in Sessions, n \in 1..MaxSeq : ReleaseAdmission(s, n)
    \/ \E c \in Calls : ReleaseExtraPin(c)
ResourceStep == \E t \in Tokens :
    \/ \E g \in Grants, x \in Resources : AcquireResource(g, x, t)
    \/ FinishResource(t)

Next == SessionStep \/ Tick \/ CloseStep \/ GrantStep \/ AdmitStep \/ PinStep
            \/ ReleaseStep \/ ResourceStep

Spec == Init /\ [][Next]_vars

\* Time passes, the janitor looks at the sessions every 15 seconds, every request
\* expires them too, and a session whose close has begun is closed to the end.
Fairness ==
    /\ WF_vars(Tick)
    /\ \A s \in Sessions : WF_vars(ExpireSession(s))
    /\ WF_vars(\E p \in PinIds : CloseReleasePin(p))
    /\ WF_vars(CloseRevoke)

FairSpec == Spec /\ Fairness

-----------------------------------------------------------------------------
(* Properties.                                                             *)

PinsOn(t) == {p \in PinIds : pins[p].token = t}
CallsOn(t) == {c \in Calls : calls[c].phase = "held" /\ calls[c].token = t}
TokensOf(kind, g) == {t \in Tokens : tokens[t].kind = kind /\ tokens[t].grant = g}

\* Every variable has its type.
TypeOK ==
    /\ session \in [Sessions -> {"new", "open", "closed"}]
    /\ ttl \in [Sessions -> Nat]
    /\ highWater \in [Sessions -> Nat]
    /\ closed \in BOOLEAN
    /\ closing \in Sessions \cup {NoSession}
    /\ pins \in [PinIds -> Pin]
    /\ uses \in [Tokens -> Nat]
    /\ owners \in [Tokens -> Sessions \cup {NoSession}]
    /\ calls \in [Calls -> Call]
    /\ rev \in [Grants -> Revision]
    /\ tokens \in [Tokens -> Admission]
    /\ registered \subseteq Grants
    /\ revoked \subseteq Grants
    /\ released \subseteq Sessions \X (1..MaxSeq)

\* Every reference count equals the set of things it counts, whatever the pin
\* handler and a session's close do between their critical sections: the pins of
\* an admission are the server's pins plus the pin calls still in flight, a
\* revision's leases and operations are its live tokens, and the server names an
\* owner for a token exactly while it stores a pin on it.
PinCountsExact ==
    \A t \in Tokens :
        /\ tokens[t].kind = "admission" =>
               tokens[t].pins = Cardinality(PinsOn(t)) + Cardinality(CallsOn(t))
        /\ tokens[t].kind = "operation" => tokens[t].pins = 1
        /\ uses[t] = Cardinality(PinsOn(t))
        /\ owners[t] = IF PinsOn(t) = {} THEN NoSession ELSE SessionOf(tokens[t].grant)

LeaseCountsExact ==
    \A g \in Grants :
        /\ rev[g].leases = Cardinality(TokensOf("admission", g))
        /\ rev[g].operations = Cardinality(TokensOf("operation", g))

CountsExact == PinCountsExact /\ LeaseCountsExact

\* "Any admitted lifetime still needs the deployment's objects": while a token is
\* held its revision stays in the registry, so ReferencesDeployment and
\* ReferencesObject protect its bundle and assets.
AdmittedWorkProtected ==
    \A t \in Tokens : Held(t) => rev[tokens[t].grant].state # "absent"

\* A revision that accepts nothing is only kept for work that still runs, so
\* retired objects do become collectable: draining means an admission is live,
\* revoked means only resource operations are.
NoStrandedRevision ==
    \A g \in Grants :
        /\ rev[g].state = "draining" => TokensOf("admission", g) # {}
        /\ rev[g].state = "revoked" =>
               TokensOf("admission", g) = {} /\ TokensOf("operation", g) # {}

\* A closed session keeps no authority: no live invocation token, no pin, no
\* owner entry and no grant that could serve or admit, even when a pin call was
\* between its critical sections while the session was closed.
ClosedSessionHoldsNothing ==
    \A s \in Sessions : session[s] = "closed" =>
        /\ \A t \in Tokens :
               (tokens[t].kind = "admission" => SessionOf(tokens[t].grant) # s) /\ owners[t] # s
        /\ \A p \in PinIds : pins[p].session # s
        /\ \A g \in Grants : SessionOf(g) = s => rev[g].state \in {"absent", "revoked"}

\* "Makes admission cancellation safe even if its response is lost": once a
\* release of an admission has been processed, no admit request for it, however
\* late, stores a pin.
CanceledStaysCanceled == \A p \in released : pins[p] = NoPin

\* The grants' abstract life cycle.
Status(g) ==
    IF session[SessionOf(g)] = "closed" THEN "gone"
    ELSE IF rev[g].state = "absent"
         THEN IF g \in registered \cup revoked THEN "gone" ELSE "absent"
    ELSE IF rev[g].state = "revoked" THEN "gone"
    ELSE rev[g].state

Life == INSTANCE GrantLifecycle WITH
    status <- [g \in Grants |-> Status(g)],
    content <- [g \in Grants |-> rev[g].snapshot],
    work <- [g \in Grants |-> TokensOf("admission", g)],
    operations <- [g \in Grants |-> TokensOf("operation", g)],
    issued <- {t \in Tokens : tokens[t].kind # "unused"}

\* The registry and its server implement the grant life cycle: authority is never
\* revived, content is frozen, tokens are never reissued and draining grants only
\* serve work already admitted.
ImplementsGrantLifecycle == Life!Spec

\* A runner that stops renewing its sessions loses them: unless heartbeats keep
\* arriving for ever, every open session ends up closed.
SilentSessionsReclaimed ==
    \/ []<><<\E s \in Sessions : Heartbeat(s)>>_vars
    \/ \A s \in Sessions : session[s] = "open" ~> session[s] = "closed"

\* Shutting the server down closes every session that was open.
ShutdownClosesSessions == closed ~> \A s \in Sessions : session[s] # "open"

=============================================================================
