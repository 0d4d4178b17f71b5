------------------------------- MODULE Dispatch -------------------------------
(***************************************************************************)
(* Dispatch roots and leases.  The gateway opens a root for a request to a *)
(* worker with dispatch bindings; the worker's code acquires leases under  *)
(* it, nested ones under those, and performs effects under a lease.  Every *)
(* section under dispatch.mu is one action; the enabled flag, the clock    *)
(* and authorization are read before the lock is taken.  Callbacks that    *)
(* run after the unlock or by a timer are entries of timers.               *)
(***************************************************************************)
EXTENDS IdentityRepository, FiniteSetsExt

CONSTANTS DispatchRequests,  \* requests of the gateway, one root each
          Callers,           \* concurrent calls of workers' code
          RootTime, DrainTime, MaxClock,     \* 30 s, 2 s; the behaviour's length
          RootLimit, LeaseLimit, DepthLimit, Budget,
          MaxToggles                         \* uses of the switch in a behaviour

ASSUME DispatchAssumption ==
    {RootTime, DrainTime, MaxClock, RootLimit, LeaseLimit, DepthLimit, Budget, MaxToggles}
        \subseteq Nat

VARIABLES enabled, toggles,    \* "on", "clearing" (flag down, maps not yet emptied), "off"
          roots, leases,       \* dispatch.roots, dispatch.leases
          contexts,            \* context -> [line: itself and its ancestors, deadline]
          cancelled,           \* contexts cancelled explicitly
          timers,              \* callbacks to run: <<due, "cancel" | "release", which>>
          request,             \* where the gateway's handling of a request is
          callback,            \* the AfterFunc on the request's context
          gone,                \* requests whose client went away
          releases,            \* request -> times its endpoint was released
          lost,                \* history: holds dropped with an expired root
          calls, callsLeft, now

rootVars == <<roots, leases, contexts, cancelled, timers>>
gatewayVars == <<request, callback, gone, releases, lost>>
dispatchVars == <<enabled, toggles, rootVars, gatewayVars, calls, callsLeft, now>>

MinTime(a, b) == IF a < b THEN a ELSE b
ContextDone(x) == contexts[x].line \cap cancelled # {} \/ now >= contexts[x].deadline
RootContext(g) == <<"root", g>>
LeaseContext(l) == <<"lease", l>>

(* A context derived from another with a deadline of its own.              *)
WithDeadline(x, parents, deadline) ==
    Put(contexts, x, [line |-> {x} \cup UNION {contexts[p].line : p \in parents},
                      deadline |-> Min({deadline} \cup {contexts[p].deadline : p \in parents})])

---------------------------------------------------------------------------
(* The gateway: a root is begun, an endpoint taken, held and the root ended*)

BeginRequest(g) ==
    /\ request[g] = "new" /\ enabled = "on"
    /\ request' = [request EXCEPT ![g] = "admitted"]
    /\ UNCHANGED <<enabled, toggles, rootVars, callback, gone, releases, lost, calls, callsLeft, now>>

BeginDispatchRoot(g) ==
    LET expired == {x \in DOMAIN roots : now >= roots[x].expires}
        kept == [x \in DOMAIN roots \ expired |-> roots[x]]
        root == [expires |-> now + RootTime, finished |-> FALSE, cancelled |-> FALSE,
                 instance |-> 0, remaining |-> Budget, release |-> FALSE]
    IN  /\ request[g] = "admitted"
        /\ cancelled' = cancelled \cup {RootContext(x) : x \in expired}
        /\ lost' = lost \cup {x \in expired : roots[x].release}
        /\ IF Cardinality(DOMAIN kept) >= RootLimit
           THEN /\ roots' = kept /\ request' = [request EXCEPT ![g] = "unserved"]
                /\ UNCHANGED <<contexts, callback>>
           ELSE /\ roots' = Put(kept, g, root)
                /\ contexts' = WithDeadline(RootContext(g), {}, now + RootTime)
                /\ request' = [request EXCEPT ![g] = "open"]
                /\ callback' = [callback EXCEPT ![g] = "armed"]
        /\ UNCHANGED <<enabled, toggles, leases, timers, gone, releases, calls, callsLeft, now>>

EnsureWorker(g) ==
    /\ request[g] = "open" /\ request' = [request EXCEPT ![g] = "serving"]
    /\ UNCHANGED <<enabled, toggles, rootVars, callback, gone, releases, lost, calls, callsLeft, now>>

HoldDispatchRoot(g) ==
    /\ request[g] = "serving" /\ request' = [request EXCEPT ![g] = "held"]
    /\ IF g \notin DOMAIN roots
       THEN releases' = [releases EXCEPT ![g] = @ + 1] /\ UNCHANGED <<roots, timers>>
       ELSE /\ UNCHANGED releases
            /\ IF roots[g].finished \/ roots[g].cancelled
               THEN timers' = timers \cup {<<roots[g].expires, "release", g>>} /\ UNCHANGED roots
               ELSE roots' = [roots EXCEPT ![g].release = TRUE] /\ UNCHANGED timers
    /\ UNCHANGED <<enabled, toggles, leases, contexts, cancelled, callback, gone, lost, calls,
                   callsLeft, now>>

\* Mutant: ending a root does not arm the timer that cancels its context.
NoCancelTimer(g, expires) == {}
CancelTimer(g, expires) == {<<expires, "cancel", RootContext(g)>>}

\* Mutant: the release stays with the root after it was taken.
EndedHolding(root, cancel, expires) ==
    [root EXCEPT !.finished = TRUE, !.cancelled = @ \/ cancel, !.expires = expires]
Ended(root, cancel, expires) ==
    [root EXCEPT !.finished = TRUE, !.cancelled = @ \/ cancel, !.expires = expires,
                 !.release = FALSE]

EndDispatchRoot(g, cancel) ==
    IF g \notin DOMAIN roots THEN UNCHANGED <<roots, leases, timers>>
    ELSE LET root == roots[g]
             early == IF cancel THEN now ELSE root.expires
             expires == IF root.finished THEN early ELSE MinTime(early, now + DrainTime)
         IN  /\ roots' = [roots EXCEPT ![g] = Ended(root, cancel, expires)]
             /\ leases' = [l \in DOMAIN leases |->
                              IF leases[l].root # g THEN leases[l]
                              ELSE [leases[l] EXCEPT !.expires = MinTime(@, expires)]]
             /\ timers' = timers \cup CancelTimer(g, expires)
                                 \cup IF root.release THEN {<<expires, "release", g>>} ELSE {}

RequestDone(g) == g \in gone \/ ContextDone(RootContext(g))
ClientLeaves(g) ==
    /\ request[g] \in {"open", "serving", "held"} /\ g \notin gone /\ gone' = gone \cup {g}
    /\ UNCHANGED <<enabled, toggles, rootVars, request, callback, releases, lost, calls, callsLeft,
                   now>>
AfterFunc(g) ==
    /\ callback[g] = "armed" /\ RequestDone(g)
    /\ callback' = [callback EXCEPT ![g] = "started"]
    /\ UNCHANGED <<enabled, toggles, rootVars, request, gone, releases, lost, calls, callsLeft, now>>
AfterFuncEnds(g) ==
    /\ callback[g] = "started" /\ callback' = [callback EXCEPT ![g] = "stopped"]
    /\ EndDispatchRoot(g, TRUE)
    /\ UNCHANGED <<enabled, toggles, contexts, cancelled, request, gone, releases, lost, calls,
                   callsLeft, now>>
(* A request that was answered without the worker has nothing to hold.     *)
RequestEnds(g) ==
    /\ request[g] \in {"open", "held"}
    /\ request' = [request EXCEPT ![g] = IF @ = "held" THEN "over" ELSE "unserved"]
    /\ callback' = [callback EXCEPT ![g] = IF @ = "armed" THEN "stopped" ELSE @]
    /\ EndDispatchRoot(g, RequestDone(g))
    /\ UNCHANGED <<enabled, toggles, contexts, cancelled, gone, releases, lost, calls, callsLeft, now>>

Fire(timer) ==
    /\ timer \in timers /\ timer[1] <= now /\ timers' = timers \ {timer}
    /\ IF timer[2] = "cancel"
       THEN cancelled' = cancelled \cup {timer[3]} /\ UNCHANGED releases
       ELSE releases' = [releases EXCEPT ![timer[3]] = @ + 1] /\ UNCHANGED cancelled
    /\ UNCHANGED <<enabled, toggles, roots, leases, contexts, request, callback, gone, lost, calls,
                   callsLeft, now>>

---------------------------------------------------------------------------
(* The administrator's switch.                                             *)

SetPlatformDispatchEnabled(on) ==
    /\ enabled = (IF on THEN "off" ELSE "on") /\ enabled' = (IF on THEN "on" ELSE "clearing")
    /\ toggles > 0 /\ toggles' = toggles - 1
    /\ UNCHANGED <<rootVars, gatewayVars, calls, callsLeft, now>>
DisableClears ==
    /\ enabled = "clearing" /\ enabled' = "off"
    /\ timers' = timers \cup {<<now, "cancel", RootContext(g)>> : g \in DOMAIN roots}
                        \cup {<<now, "release", g>> : g \in {x \in DOMAIN roots : roots[x].release}}
                        \cup {<<now, "cancel", LeaseContext(l)>> : l \in DOMAIN leases}
    /\ roots' = None /\ leases' = None
    /\ UNCHANGED <<toggles, contexts, cancelled, gatewayVars, calls, callsLeft, now>>

---------------------------------------------------------------------------
(* Calls of workers' code.                                                 *)

NoCall == [op |-> "idle"]
StartCall(c, r) ==
    calls[c] = NoCall /\ callsLeft > 0 /\ callsLeft' = callsLeft - 1 /\ calls' = [calls EXCEPT ![c] = r]
ToStage(c, r) == calls' = [calls EXCEPT ![c] = r]
CallFrame == UNCHANGED <<enabled, toggles, gatewayVars, now>>

(* The source worker's code knows its root from the request it serves.     *)
AcquireDispatchWithRoot(c, g, instance) ==
    /\ enabled = "on" /\ request[g] \in {"serving", "held", "over"}
    /\ RootContext(g) \in DOMAIN contexts
    /\ StartCall(c, [op |-> "admit", root |-> g, parent |-> 0, depth |-> 0, instance |-> instance,
                     at |-> now])
    /\ CallFrame /\ UNCHANGED rootVars

(* Using a lease begins with authorizing it and every lease above it.      *)
UseLease(c, l, use) ==
    /\ enabled = "on" /\ LeaseContext(l) \in DOMAIN contexts
    /\ StartCall(c, [op |-> "authorize", lease |-> l, check |-> l, use |-> use])
    /\ CallFrame /\ UNCHANGED rootVars

AuthorizeInvocation(c) ==
    LET j == calls[c]
        present == j.check \in DOMAIN leases
        current == present /\ now < leases[j.check].expires
        g == leases[j.check].root
        open == g \in DOMAIN roots /\ ~roots[g].cancelled /\ now < roots[g].expires
        above == leases[j.check].parent
    IN  /\ j.op = "authorize"
        /\ IF enabled # "on" THEN ToStage(c, NoCall) /\ UNCHANGED <<leases, cancelled>>
           ELSE IF ~current
           THEN /\ ToStage(c, NoCall) /\ leases' = Drop(leases, j.check)
                /\ cancelled' = cancelled \cup IF present THEN {LeaseContext(j.check)} ELSE {}
           ELSE /\ ToStage(c, IF ~open THEN NoCall
                              ELSE IF above # 0 THEN [j EXCEPT !.check = above]
                              ELSE [op |-> j.use, lease |-> j.lease])
                /\ UNCHANGED <<leases, cancelled>>
        /\ CallFrame /\ UNCHANGED <<callsLeft, roots, contexts, timers>>

AcquireServiceDispatch(c) ==
    LET j == calls[c]
        parent == leases[j.lease]
    IN  /\ j.op = "nested"
        /\ ToStage(c, IF j.lease \notin DOMAIN leases \/ parent.depth >= DepthLimit THEN NoCall
                      ELSE [op |-> "admit", root |-> parent.root, parent |-> j.lease,
                            depth |-> parent.depth + 1, instance |-> 0, at |-> now])
        /\ CallFrame /\ UNCHANGED <<callsLeft, rootVars>>

(* The locked section: a lease is admitted under its parent and its root,  *)
(* by the clock read before the lock.  The root pays also when the table   *)
(* turns out to be full.                                                   *)
AcquireResolvedDispatch(c) ==
    LET j == calls[c]
        g == j.root
        parentHolds == j.parent # 0 =>
            /\ j.parent \in DOMAIN leases /\ j.at < leases[j.parent].expires
            /\ leases[j.parent].root = g /\ j.depth <= DepthLimit
        rootHolds ==
            /\ g \in DOMAIN roots /\ ~roots[g].cancelled /\ j.at < roots[g].expires
            /\ j.depth = 0 => roots[g].instance \in {0, j.instance}
        instance == IF j.depth = 0 THEN j.instance ELSE roots[g].instance
        expired == {l \in DOMAIN leases : j.at >= leases[l].expires}
        kept == [l \in DOMAIN leases \ expired |-> leases[l]]
        new == 1 + Cardinality({x \in DOMAIN contexts : x[1] = "lease"})
        deadline == Min({j.at + RootTime, roots[g].expires}
                        \cup IF j.parent = 0 THEN {} ELSE {leases[j.parent].expires})
        above == IF j.parent = 0 THEN RootContext(g) ELSE LeaseContext(j.parent)
    IN  /\ j.op = "admit" /\ ToStage(c, NoCall)
        /\ IF ~(parentHolds /\ rootHolds) THEN UNCHANGED <<roots, leases, contexts, cancelled>>
           ELSE IF roots[g].remaining < 1
           THEN roots' = [roots EXCEPT ![g].instance = instance]
                /\ UNCHANGED <<leases, contexts, cancelled>>
           ELSE /\ roots' = [roots EXCEPT ![g].instance = instance, ![g].remaining = @ - 1]
                /\ cancelled' = cancelled \cup {LeaseContext(l) : l \in expired}
                /\ IF Cardinality(DOMAIN kept) >= LeaseLimit
                   THEN leases' = kept /\ UNCHANGED contexts
                   ELSE /\ leases' = Put(kept, new,
                              [root |-> g, parent |-> j.parent, depth |-> j.depth,
                               expires |-> deadline, finished |-> FALSE, remaining |-> Budget])
                        /\ contexts' = WithDeadline(LeaseContext(new), {above}, deadline)
        /\ CallFrame /\ UNCHANGED <<callsLeft, timers>>

(* An effect is paid for by the root, then by the lease.                   *)
DispatchEffect(c, cost) ==
    LET j == calls[c]
        held == j.lease \in DOMAIN leases /\ now < leases[j.lease].expires
        g == leases[j.lease].root
        open == g \in DOMAIN roots /\ ~roots[g].cancelled /\ now < roots[g].expires
    IN  /\ j.op = "effect"
        /\ IF held /\ open /\ cost <= roots[g].remaining
           THEN /\ roots' = [roots EXCEPT ![g].remaining = @ - cost]
                /\ IF cost <= leases[j.lease].remaining
                   THEN /\ leases' = [leases EXCEPT ![j.lease].remaining = @ - cost]
                        /\ ToStage(c, [op |-> "paid", lease |-> j.lease])
                   ELSE ToStage(c, NoCall) /\ UNCHANGED leases
           ELSE ToStage(c, NoCall) /\ UNCHANGED <<roots, leases>>
        /\ CallFrame /\ UNCHANGED <<callsLeft, contexts, cancelled, timers>>
DispatchEffectContext(c) ==
    LET l == calls[c].lease
    IN  /\ calls[c].op = "paid"
        /\ ToStage(c, IF enabled = "on" /\ l \in DOMAIN leases /\ now < leases[l].expires
                      THEN [op |-> "running", lease |-> l, deadline |-> leases[l].expires]
                      ELSE NoCall)
        /\ CallFrame /\ UNCHANGED <<callsLeft, rootVars>>
EffectReturns(c) ==
    /\ calls[c].op = "running" /\ ToStage(c, NoCall)
    /\ CallFrame /\ UNCHANGED <<callsLeft, rootVars>>

Descendants(l) == {x \in DOMAIN leases : LeaseContext(l) \in contexts[LeaseContext(x)].line}
FinishDispatch(c, cancel) ==
    LET l == calls[c].lease
        below == Descendants(l)
        expires == MinTime(leases[l].expires, now + DrainTime)
    IN  /\ calls[c].op = "finish" /\ ToStage(c, NoCall)
        /\ IF l \notin DOMAIN leases THEN UNCHANGED <<leases, cancelled, timers>>
           ELSE IF cancel
           THEN /\ leases' = [x \in DOMAIN leases \ below |-> leases[x]]
                /\ cancelled' = cancelled \cup {LeaseContext(x) : x \in below}
                /\ UNCHANGED timers
           ELSE IF leases[l].finished THEN UNCHANGED <<leases, cancelled, timers>>
           ELSE /\ leases' = [x \in DOMAIN leases |->
                                 [leases[x] EXCEPT !.finished = @ \/ x = l,
                                     !.expires = IF x \in below THEN MinTime(@, expires) ELSE @]]
                /\ timers' = timers \cup {<<expires, "cancel", LeaseContext(l)>>}
                /\ UNCHANGED cancelled
        /\ CallFrame /\ UNCHANGED <<callsLeft, roots, contexts>>

Tick == now < MaxClock /\ now' = now + 1
        /\ UNCHANGED <<enabled, toggles, rootVars, gatewayVars, calls, callsLeft>>

---------------------------------------------------------------------------
(* A process starts; workers' code may make n calls.                       *)
DispatchInit(n) ==
    /\ enabled = "on" /\ toggles = MaxToggles
    /\ roots = None /\ leases = None /\ contexts = None /\ cancelled = {} /\ timers = {}
    /\ request = [g \in DispatchRequests |-> "new"]
    /\ callback = [g \in DispatchRequests |-> "none"]
    /\ gone = {} /\ releases = [g \in DispatchRequests |-> 0] /\ lost = {}
    /\ calls = [c \in Callers |-> NoCall] /\ callsLeft = n /\ now = 0

(* One request has been answered, its worker works on and has a lease.     *)
DispatchServing(g, n, uses) ==
    LET root == [expires |-> RootTime, finished |-> FALSE, cancelled |-> FALSE, instance |-> 1,
                 remaining |-> Budget - 1, release |-> TRUE]
        lease == [root |-> g, parent |-> 0, depth |-> 0, expires |-> RootTime, finished |-> FALSE,
                  remaining |-> Budget]
    IN  /\ enabled = "on" /\ toggles = uses
        /\ roots = Put(None, g, root) /\ leases = Put(None, 1, lease)
        /\ contexts = [x \in {RootContext(g), LeaseContext(1)} |->
                          [line |-> {RootContext(g), x}, deadline |-> RootTime]]
        /\ cancelled = {} /\ timers = {}
        /\ request = [x \in DispatchRequests |-> IF x = g THEN "held" ELSE "unserved"]
        /\ callback = [x \in DispatchRequests |-> IF x = g THEN "armed" ELSE "none"]
        /\ gone = {} /\ releases = [x \in DispatchRequests |-> 0] /\ lost = {}
        /\ calls = [c \in Callers |-> NoCall] /\ callsLeft = n /\ now = 0

LeaseIDs == {x[2] : x \in {y \in DOMAIN contexts : y[1] = "lease"}}

DispatchNext ==
    \/ \E g \in DispatchRequests :
        \/ BeginRequest(g) \/ BeginDispatchRoot(g) \/ EnsureWorker(g) \/ HoldDispatchRoot(g)
        \/ ClientLeaves(g) \/ AfterFunc(g) \/ AfterFuncEnds(g) \/ RequestEnds(g)
    \/ \E timer \in timers : Fire(timer)
    \/ \E on \in BOOLEAN : SetPlatformDispatchEnabled(on)
    \/ DisableClears
    \/ \E c \in Callers :
        \/ \E g \in DispatchRequests, instance \in {1, 2} : AcquireDispatchWithRoot(c, g, instance)
        \/ \E l \in LeaseIDs, use \in {"nested", "effect", "finish"} : UseLease(c, l, use)
        \/ AuthorizeInvocation(c) \/ AcquireServiceDispatch(c) \/ AcquireResolvedDispatch(c)
        \/ \E cost \in {1, Budget} : DispatchEffect(c, cost)
        \/ DispatchEffectContext(c) \/ EffectReturns(c)
        \/ \E cancel \in BOOLEAN : FinishDispatch(c, cancel)
    \/ Tick

---------------------------------------------------------------------------
(* Work done under a lease stays inside the request it belongs to: a lease *)
(* ends no later than the lease above it and its root, one whose root or   *)
(* parent is gone has ended, and an effect whose context is still open     *)
(* belongs to a lease and a root that have not ended, unless the callback  *)
(* that cancels it is about to run.  Finishing, cancelling, expiry, a      *)
(* client going away and disabling dispatch all meet here.                 *)
InvocationsBounded ==
    /\ \A l \in DOMAIN leases :
        /\ IF leases[l].root \in DOMAIN roots THEN leases[l].expires <= roots[leases[l].root].expires
           ELSE leases[l].expires <= now
        /\ leases[l].parent # 0 =>
              IF leases[l].parent \in DOMAIN leases
              THEN leases[l].expires <= leases[leases[l].parent].expires
              ELSE leases[l].expires <= now
    /\ \A c \in Callers :
        LET l == calls[c].lease
            x == LeaseContext(l)
        IN  calls[c].op = "running" /\ now < calls[c].deadline /\ ~ContextDone(x) =>
                \/ /\ l \in DOMAIN leases /\ now < leases[l].expires
                   /\ ~roots[leases[l].root].cancelled
                \/ \E timer \in timers :
                      timer[1] <= now /\ timer[2] = "cancel" /\ timer[3] \in contexts[x].line

(* The endpoint a request took from the runner is given back once: never   *)
(* twice, and when the request is over the release was made, is scheduled  *)
(* or waits with the root; the one exception is a hold on a root that      *)
(* expired and was swept by another request before its own end.            *)
HoldsReturned ==
    \A g \in DispatchRequests :
        LET scheduled == Cardinality({x \in timers : x[2] = "release" /\ x[3] = g})
            waiting == g \in DOMAIN roots /\ roots[g].release
        IN  /\ releases[g] + scheduled + (IF waiting THEN 1 ELSE 0) <= 1
            /\ request[g] \in {"held", "over"} => releases[g] + scheduled > 0 \/ waiting \/ g \in lost
            /\ request[g] = "over" => ~waiting
=============================================================================
