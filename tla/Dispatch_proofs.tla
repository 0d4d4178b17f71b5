---------------------------- MODULE Dispatch_proofs ----------------------------
(***************************************************************************)
(* Proofs about Dispatch, for any number of requests, callers, roots,      *)
(* leases and uses of the switch: work done under a lease ends with the    *)
(* request it belongs to, and an endpoint that was held is given back once.*)
(***************************************************************************)
EXTENDS Dispatch, FiniteSetTheorems, TLAPS

DispatchStart ==
    \E n \in Nat : \/ DispatchInit(n)
                   \/ \E g \in DispatchRequests, uses \in Nat : DispatchServing(g, n, uses)
DispatchSpec == DispatchStart /\ [][DispatchNext]_dispatchVars

Stages == {"new", "admitted", "open", "serving", "held", "over", "unserved"}
Uses == {"nested", "effect", "finish"}
AnyContext == {RootContext(g) : g \in DispatchRequests} \cup {LeaseContext(i) : i \in Nat \ {0}}
Timer == (Nat \X {"cancel"} \X AnyContext) \cup (Nat \X {"release"} \X DispatchRequests)
Root == [expires : Nat, finished : BOOLEAN, cancelled : BOOLEAN, instance : Nat,
         remaining : Int, release : BOOLEAN]
Lease == [root : DispatchRequests, parent : Nat, depth : Nat, expires : Nat,
          finished : BOOLEAN, remaining : Int]
Admission == [op : {"admit"}, root : DispatchRequests, parent : Nat, depth : Nat,
              instance : Nat, at : Nat]
Call == [op : {"idle"}] \cup Admission
        \cup [op : {"authorize"}, lease : Nat, check : Nat, use : Uses]
        \cup [op : Uses \cup {"paid"}, lease : Nat]
        \cup [op : {"running"}, lease : Nat, deadline : Nat]

\* Every variable the argument uses has its type.
DispatchTyped ==
    /\ roots \in [DOMAIN roots -> Root] /\ DOMAIN roots \subseteq DispatchRequests
    /\ leases \in [DOMAIN leases -> Lease] /\ DOMAIN leases \subseteq Nat \ {0}
    /\ DOMAIN contexts \subseteq AnyContext
    /\ timers \subseteq Timer /\ now \in Nat
    /\ request \in [DispatchRequests -> Stages] /\ releases \in [DispatchRequests -> Nat]
    /\ calls \in [Callers -> Call]

Waiting(g) == g \in DOMAIN roots /\ roots[g].release
ReleaseTimers(g) == {x \in timers : x[2] = "release" /\ x[3] = g}
Unheld(g) == releases[g] = 0 /\ ReleaseTimers(g) = {} /\ ~Waiting(g)

\* A hold is nowhere, with the root, with one timer, or was given back; a request that
\* has none yet has none, and one that has lost it lost it with its root.
HoldSound(g) ==
    /\ \/ releases[g] = 0 /\ ReleaseTimers(g) = {}
       \/ releases[g] = 0 /\ ~Waiting(g) /\ \E x \in timers : ReleaseTimers(g) = {x}
       \/ releases[g] = 1 /\ ~Waiting(g) /\ ReleaseTimers(g) = {}
    /\ request[g] \notin {"held", "over"} => Unheld(g)
    /\ request[g] \in {"held", "over"} /\ Unheld(g) => g \in lost
    /\ request[g] = "over" => ~Waiting(g)
HoldsSound == \A g \in DispatchRequests : HoldSound(g)

\* A root is begun once per request.
RootsFresh ==
    \A g \in DispatchRequests : request[g] \in {"new", "admitted"} =>
        g \notin DOMAIN roots /\ RootContext(g) \notin DOMAIN contexts

\* Leases are numbered in the order of their contexts.
LeaseContexts == {x \in DOMAIN contexts : x[1] = "lease"}
NumbersSound ==
    /\ IsFiniteSet(LeaseContexts)
    /\ LeaseContexts = {LeaseContext(i) : i \in 1..Cardinality(LeaseContexts)}

\* A context derives from itself, and a lease's from those of its root and its parent.
Derived(l) ==
    LET lease == leases[l]
        line == contexts[LeaseContext(l)].line
    IN  /\ LeaseContext(l) \in DOMAIN contexts /\ RootContext(lease.root) \in DOMAIN contexts
        /\ RootContext(lease.root) \in line
        /\ lease.parent # 0 =>
              /\ LeaseContext(lease.parent) \in DOMAIN contexts
              /\ contexts[LeaseContext(lease.parent)].line \subseteq line
              /\ lease.parent \in DOMAIN leases => leases[lease.parent].root = lease.root
ContextsSound ==
    /\ \A x \in DOMAIN contexts : x \in contexts[x].line
    /\ \A g \in DOMAIN roots : RootContext(g) \in DOMAIN contexts
    /\ \A l \in DOMAIN leases : Derived(l)

\* A lease ends with its root and the lease above it, or has ended with them.
Bounded(l) ==
    LET lease == leases[l]
    IN  /\ lease.root \in DOMAIN roots => lease.expires <= roots[lease.root].expires
        /\ lease.root \notin DOMAIN roots => lease.expires <= now
        /\ lease.parent \in DOMAIN leases => lease.expires <= leases[lease.parent].expires
        /\ lease.parent # 0 /\ lease.parent \notin DOMAIN leases => lease.expires <= now
LeasesBounded == \A l \in DOMAIN leases : Bounded(l)

\* A context in line is cancelled, or a timer due by time e cancels one.
EndsBy(cs, ts, line, e) ==
    line \cap cs # {} \/ \E x \in ts : x[1] <= e /\ x[2] = "cancel" /\ x[3] \in line

\* A cancelled root's context ends.
RootsCancelled ==
    \A g \in DOMAIN roots :
        roots[g].cancelled => EndsBy(cancelled, timers, {RootContext(g)}, now)

\* An effect runs until its lease ends, unless its context ends before.
EffectSound(r) ==
    LET line == contexts[LeaseContext(r.lease)].line
    IN  r.op = "running" =>
            /\ LeaseContext(r.lease) \in DOMAIN contexts
            /\ \/ /\ r.lease \in DOMAIN leases
                  /\ \/ r.deadline <= leases[r.lease].expires
                     \/ EndsBy(cancelled, timers, line, leases[r.lease].expires)
               \/ EndsBy(cancelled, timers, line, now)
CallsSound ==
    \A c \in Callers : /\ EffectSound(calls[c])
                       /\ calls[c].op = "admit" => calls[c].at <= now

DispatchInv ==
    /\ DispatchTyped /\ HoldsSound /\ RootsFresh /\ NumbersSound
    /\ ContextsSound /\ LeasesBounded /\ RootsCancelled /\ CallsSound

-----------------------------------------------------------------------------
(* Helpers: times, tables and timers.                                      *)

\* The earlier of two times.
LEMMA MinTimes ==
    \A a, b \in Nat : /\ MinTime(a, b) \in Nat /\ MinTime(a, b) \in {a, b}
                      /\ MinTime(a, b) <= a /\ MinTime(a, b) <= b
BY DEF MinTime

\* The earliest of some times, when there is one.
LEMMA MinIsLeast ==
    ASSUME NEW S, NEW m \in S, \A y \in S : m <= y
    PROVE  Min(S) \in S /\ \A y \in S : Min(S) <= y
BY DEF Min

\* The times a new lease ends by: its own, its root's and its parent's.
LEMMA MinOfThree ==
    ASSUME NEW a \in Nat, NEW b \in Nat, NEW T, T \subseteq Nat, T = {} \/ \E c \in Nat : T = {c}
    PROVE  LET m == Min({a, b} \cup T)
           IN  m \in Nat /\ m <= a /\ m <= b /\ \A c \in T : m <= c
<1> DEFINE S == {a, b} \cup T
<1>1. \E m \in S : \A y \in S : m <= y OBVIOUS
<1>2. Min(S) \in S /\ \A y \in S : Min(S) <= y BY <1>1, MinIsLeast
<1> QED BY <1>2

\* Putting an entry into a table and dropping one.
LEMMA PutFacts ==
    \A f, k, v : /\ DOMAIN Put(f, k, v) = DOMAIN f \cup {k} /\ Put(f, k, v)[k] = v
                 /\ \A x \in DOMAIN f : x # k => Put(f, k, v)[x] = f[x]
BY DEF Put
LEMMA DropFacts ==
    \A f, k : /\ DOMAIN Drop(f, k) = DOMAIN f \ {k}
              /\ \A x \in DOMAIN f \ {k} : Drop(f, k)[x] = f[x]
BY DEF Drop

\* Two contexts are the same only if they are a root's or a lease's of one number.
LEMMA ContextNames ==
    /\ \A g, h : RootContext(g) = RootContext(h) => g = h
    /\ \A i, j : LeaseContext(i) = LeaseContext(j) => i = j
    /\ \A g, i : RootContext(g) # LeaseContext(i)
    /\ \A g : RootContext(g)[1] = "root"
    /\ \A i : LeaseContext(i)[1] = "lease" /\ LeaseContext(i)[2] = i
BY DEF RootContext, LeaseContext

\* What a timer is about.
LEMMA TimerKinds ==
    ASSUME NEW x \in Timer
    PROVE  /\ x[1] \in Nat /\ x[2] \in {"cancel", "release"}
           /\ x[2] = "cancel" => x[3] \in AnyContext
           /\ x[2] = "release" => x[3] \in DispatchRequests /\ x = <<x[1], "release", x[3]>>
BY DEF Timer
LEMMA CancelTimerKind ==
    \A e \in Nat, y \in AnyContext :
        /\ <<e, "cancel", y>> \in Timer /\ <<e, "cancel", y>>[1] = e
        /\ <<e, "cancel", y>>[2] = "cancel" /\ <<e, "cancel", y>>[3] = y
BY DEF Timer
LEMMA ReleaseTimerKind ==
    \A e \in Nat, g \in DispatchRequests :
        /\ <<e, "release", g>> \in Timer /\ <<e, "release", g>>[1] = e
        /\ <<e, "release", g>>[2] = "release" /\ <<e, "release", g>>[3] = g
BY DEF Timer
-----------------------------------------------------------------------------
(* What a step that keeps its promises leaves of each part of the invariant. *)

\* Contexts stay, a cancellation that is due stays due or happens, and no lease ends
\* earlier than it was to end unless its context ends with it.
Steady ==
    /\ now' \in Nat /\ now <= now'
    /\ \A x \in DOMAIN contexts : x \in DOMAIN contexts' /\ contexts'[x] = contexts[x]
    /\ cancelled \subseteq cancelled'
    /\ \A x \in timers : x[2] = "cancel" => x \in timers' \/ x[3] \in cancelled'
    /\ \A l \in DOMAIN leases :
          LET line == contexts[LeaseContext(l)].line
          IN  \/ /\ l \in DOMAIN leases'
                 /\ \/ leases'[l].expires = leases[l].expires
                    \/ EndsBy(cancelled', timers', line, leases'[l].expires)
              \/ EndsBy(cancelled', timers', line, now')

\* A cancellation that is due by some time stays so.
LEMMA EndsStay ==
    ASSUME DispatchTyped, Steady
    PROVE  \A line : \A e, f \in Nat :
             e <= f /\ EndsBy(cancelled, timers, line, e) => EndsBy(cancelled', timers', line, f)
BY TimerKinds DEF Steady, EndsBy, DispatchTyped

\* A call that does not change stays sound.
LEMMA CallsStay ==
    ASSUME DispatchTyped, CallsSound, Steady, NEW c \in Callers, calls'[c] = calls[c]
    PROVE  EffectSound(calls[c])' /\ (calls[c].op = "admit" => calls[c].at <= now)'
<1> DEFINE r == calls[c]
           line == contexts[LeaseContext(r.lease)].line
<1>1. now \in Nat /\ now' \in Nat /\ now <= now' BY DEF Steady, DispatchTyped
<1>2. calls[c] \in Call BY DEF DispatchTyped
<1>3. (calls[c].op = "admit" => calls[c].at <= now)'
    BY <1>2, <1>1 DEF Call, Admission, Uses, CallsSound
<1>4. ASSUME calls[c].op = "running" PROVE EffectSound(calls[c])'
  <2>1. calls[c].lease \in Nat /\ calls[c].deadline \in Nat BY <1>2, <1>4 DEF Call, Admission, Uses
  <2>2. EffectSound(calls[c]) BY DEF CallsSound
  <2>3. /\ LeaseContext(r.lease) \in DOMAIN contexts'
        /\ contexts'[LeaseContext(r.lease)] = contexts[LeaseContext(r.lease)]
    BY <1>4, <2>2 DEF EffectSound, Steady
  <2>4. \A x, y \in Nat : x <= y /\ EndsBy(cancelled, timers, line, x) =>
                             EndsBy(cancelled', timers', line, y)
    BY EndsStay
  <2>5. CASE EndsBy(cancelled, timers, line, now) BY <1>1, <2>4, <2>5, <2>3 DEF EffectSound
  <2>6. CASE r.lease \in DOMAIN leases
      BY <2>6, <1>1, <2>4, <1>4, <2>2, <2>3 DEF DispatchTyped, Lease, Steady, EffectSound
  <2> QED BY <1>4, <2>2, <2>5, <2>6 DEF EffectSound
<1>5. calls[c].op # "running" => EffectSound(calls[c])' BY DEF EffectSound
<1> QED BY <1>3, <1>4, <1>5
\* A step that makes no root cancelled leaves the cancelled ones to end.
LEMMA RootsStay ==
    ASSUME DispatchTyped, RootsCancelled, Steady,
           \A g \in DOMAIN roots' : roots'[g].cancelled =>
               \/ g \in DOMAIN roots /\ roots[g].cancelled
               \/ EndsBy(cancelled', timers', {RootContext(g)}, now')
    PROVE  RootsCancelled'
BY EndsStay DEF Steady, DispatchTyped, RootsCancelled, RootContext

\* A step that is not about holds leaves them.
LEMMA HoldsStay ==
    ASSUME HoldsSound, UNCHANGED <<releases, lost>>,
           \A x \in timers : x[2] = "release" => x \in timers',
           \A x \in timers' : x[2] = "release" => x \in timers,
           \A g \in DispatchRequests : Waiting(g)' <=> Waiting(g),
           \A g \in DispatchRequests :
               request'[g] = request[g] \/ {request[g], request'[g]} \cap {"held", "over"} = {}
    PROVE  HoldsSound'
<1> SUFFICES ASSUME NEW g \in DispatchRequests PROVE HoldSound(g)' BY DEF HoldsSound
<1>1. ReleaseTimers(g)' = ReleaseTimers(g) BY DEF ReleaseTimers
<1>2. Waiting(g)' <=> Waiting(g) OBVIOUS
<1>3. Unheld(g)' <=> Unheld(g) BY <1>1, <1>2 DEF Unheld
<1>4. HoldSound(g) BY DEF HoldsSound
<1>5. ASSUME NEW x, ReleaseTimers(g) = {x} PROVE x \in timers' BY <1>1, <1>5 DEF ReleaseTimers
<1>6. (\E x \in timers : ReleaseTimers(g) = {x}) => \E x \in timers' : ReleaseTimers(g)' = {x}
  BY <1>1, <1>5
<1>7. request'[g] = request[g] \/ {request[g], request'[g]} \cap {"held", "over"} = {} OBVIOUS
<1> QED BY <1>1, <1>2, <1>3, <1>4, <1>6, <1>7 DEF HoldSound

\* Leases and roots that stay derive as they did.
LEMMA ContextsStay ==
    ASSUME ContextsSound, Steady,
           \A x \in DOMAIN contexts' : x \in DOMAIN contexts \/ x \in contexts'[x].line,
           \A g \in DOMAIN roots' : g \in DOMAIN roots \/ RootContext(g) \in DOMAIN contexts',
           \A l \in DOMAIN leases' :
               /\ l \in DOMAIN leases /\ leases'[l].root = leases[l].root
               /\ leases'[l].parent = leases[l].parent
    PROVE  ContextsSound'
<1>1. \A x \in DOMAIN contexts : x \in DOMAIN contexts' /\ contexts'[x] = contexts[x] BY DEF Steady
<1>2. \A x \in DOMAIN contexts' : x \in contexts'[x].line BY <1>1 DEF ContextsSound
<1>3. \A g \in DOMAIN roots' : RootContext(g) \in DOMAIN contexts' BY <1>1 DEF ContextsSound
<1>4. ASSUME NEW l \in DOMAIN leases' PROVE Derived(l)'
  <2>1. Derived(l) /\ l \in DOMAIN leases BY DEF ContextsSound
  <2>2. /\ leases'[l].root = leases[l].root /\ leases'[l].parent = leases[l].parent
        /\ leases[l].parent \in DOMAIN leases' =>
              /\ leases[l].parent \in DOMAIN leases
              /\ leases'[leases[l].parent].root = leases[leases[l].parent].root
    OBVIOUS
  <2>3. /\ LeaseContext(l) \in DOMAIN contexts' /\ RootContext(leases[l].root) \in DOMAIN contexts'
        /\ RootContext(leases[l].root) \in contexts'[LeaseContext(l)].line
    BY <1>1, <2>1 DEF Derived
  <2>4. ASSUME leases[l].parent # 0
        PROVE  /\ LeaseContext(leases[l].parent) \in DOMAIN contexts'
               /\ contexts'[LeaseContext(leases[l].parent)].line \subseteq contexts'[LeaseContext(l)].line
               /\ leases[l].parent \in DOMAIN leases =>
                      leases[leases[l].parent].root = leases[l].root
    BY <1>1, <2>1, <2>4 DEF Derived
  <2> QED BY <2>2, <2>3, <2>4 DEF Derived, RootContext, LeaseContext
<1> QED BY <1>2, <1>3, <1>4 DEF ContextsSound, RootContext

\* A lease in a table that lost only leases that have ended, under roots that lost only
\* ones that have ended, is bounded as it was.
LEMMA BoundsStay ==
    ASSUME DispatchTyped, LeasesBounded, Steady,
           \A g \in DOMAIN roots' : g \in DOMAIN roots => roots'[g].expires = roots[g].expires,
           \A g \in DOMAIN roots \ DOMAIN roots' : roots[g].expires <= now',
           \A l \in DOMAIN leases' : l \in DOMAIN leases =>
               /\ leases'[l].root = leases[l].root /\ leases'[l].parent = leases[l].parent
               /\ leases'[l].expires = leases[l].expires
               /\ leases[l].root \in DOMAIN roots' => leases[l].root \in DOMAIN roots
               /\ leases[l].parent \in DOMAIN leases' => leases[l].parent \in DOMAIN leases,
           \A l \in DOMAIN leases \ DOMAIN leases' : leases[l].expires <= now',
           NEW l \in DOMAIN leases', l \in DOMAIN leases
    PROVE  Bounded(l)'
<1>1. Bounded(l) BY DEF LeasesBounded
<1>2. now \in Nat /\ now' \in Nat /\ now <= now' BY DEF Steady, DispatchTyped
<1>3. leases[l] \in Lease /\ leases[l].expires \in Nat BY DEF DispatchTyped, Lease
<1> DEFINE g == leases[l].root
           p == leases[l].parent
           e == leases[l].expires
<1>4. leases'[l].root = g /\ leases'[l].parent = p /\ leases'[l].expires = e OBVIOUS
<1>5. g \in DOMAIN roots' => e <= roots'[g].expires BY <1>1 DEF Bounded
<1>6. g \notin DOMAIN roots' => e <= now' BY <1>1, <1>2, <1>3 DEF DispatchTyped, Root, Bounded
<1>7. p \in DOMAIN leases' => e <= leases'[p].expires BY <1>1 DEF Bounded
<1>8. p # 0 /\ p \notin DOMAIN leases' => e <= now'
    BY <1>1, <1>2, <1>3 DEF DispatchTyped, Lease, Bounded
<1> QED BY <1>4, <1>5, <1>6, <1>7, <1>8 DEF Bounded
\* A step that leaves roots, leases, contexts and timers: a stage of a request before its
\* hold, of a call, or time passing.
LEMMA QuietKeeps ==
    ASSUME DispatchInv, UNCHANGED <<roots, leases, contexts, cancelled, timers, releases, lost>>,
           now' \in Nat, now <= now', request' \in [DispatchRequests -> Stages],
           \A g \in DispatchRequests :
               \/ request'[g] = request[g]
               \/ /\ {request[g], request'[g]} \cap {"held", "over"} = {}
                  /\ request'[g] \in {"new", "admitted"} => request[g] \in {"new", "admitted"},
           calls' \in [Callers -> Call],
           \A c \in Callers :
               \/ calls'[c] = calls[c]
               \/ /\ calls'[c].op = "admit" => calls'[c].at <= now'
                  /\ calls'[c].op # "running" \/ EffectSound(calls[c])'
    PROVE  DispatchInv'
<1> USE DEF DispatchInv
<1>1. Steady BY DEF Steady
<1>2. DispatchTyped' BY DEF DispatchTyped
<1>3. HoldsSound' BY HoldsStay DEF Waiting, DispatchInv
<1>4. RootsFresh' BY DEF RootsFresh, RootContext
<1>5. NumbersSound' BY DEF NumbersSound, LeaseContexts, LeaseContext
<1>6. ContextsSound' BY <1>1, ContextsStay
<1>7. LeasesBounded' BY <1>1, BoundsStay DEF LeasesBounded
<1>8. RootsCancelled' BY <1>1, RootsStay
<1>9. CallsSound' BY <1>1, CallsStay DEF EffectSound, CallsSound
<1> QED BY <1>2, <1>3, <1>4, <1>5, <1>6, <1>7, <1>8, <1>9

\* The gateway's steps that only move a request on.
LEMMA RequestStepsKeep ==
    ASSUME DispatchInv, NEW g \in DispatchRequests,
           BeginRequest(g) \/ EnsureWorker(g) \/ ClientLeaves(g) \/ AfterFunc(g)
    PROVE  DispatchInv'
BY QuietKeeps DEF BeginRequest, EnsureWorker, ClientLeaves, AfterFunc, rootVars, DispatchInv,
   DispatchTyped, Stages

\* A step of the switch, of time or of a call that only changes the call.
LEMMA QuietCall ==
    ASSUME DispatchInv, NEW c \in Callers, NEW r \in Call, calls' = [calls EXCEPT ![c] = r],
           UNCHANGED <<roots, leases, contexts, cancelled, timers, gatewayVars, now>>,
           r.op # "running", r.op = "admit" => r.at <= now
    PROVE  DispatchInv'
BY QuietKeeps DEF DispatchInv, DispatchTyped, gatewayVars
\* The switch and the clock by themselves.
LEMMA SwitchAndClockKeep ==
    ASSUME DispatchInv, Tick \/ \E on \in BOOLEAN : SetPlatformDispatchEnabled(on)
    PROVE  DispatchInv'
BY QuietKeeps DEF Tick, SetPlatformDispatchEnabled, rootVars, DispatchInv, DispatchTyped,
   gatewayVars

\* A call begins: an acquisition under the root the request serves, or a use of a lease.
LEMMA CallsBegin ==
    ASSUME DispatchInv, NEW c \in Callers,
           \/ \E g \in DispatchRequests, instance \in {1, 2} : AcquireDispatchWithRoot(c, g, instance)
           \/ \E l \in LeaseIDs, use \in Uses : UseLease(c, l, use)
    PROVE  DispatchInv'
<1>1. now \in Nat BY DEF DispatchInv, DispatchTyped
<1>2. ASSUME NEW g \in DispatchRequests, NEW instance \in {1, 2}, AcquireDispatchWithRoot(c, g, instance)
      PROVE  DispatchInv'
  <2> DEFINE r == [op |-> "admit", root |-> g, parent |-> 0, depth |-> 0, instance |-> instance,
                   at |-> now]
  <2>1. /\ calls' = [calls EXCEPT ![c] = r]
        /\ UNCHANGED <<roots, leases, contexts, cancelled, timers, gatewayVars, now>>
    BY <1>2 DEF AcquireDispatchWithRoot, StartCall, CallFrame, rootVars
  <2>2. r \in Call /\ r.op # "running" /\ r.at <= now BY <1>1 DEF Call, Admission
  <2> HIDE DEF r
  <2> QED BY <2>1, <2>2, QuietCall
<1>3. ASSUME NEW l \in LeaseIDs, NEW use \in Uses, UseLease(c, l, use) PROVE DispatchInv'
  <2> DEFINE r == [op |-> "authorize", lease |-> l, check |-> l, use |-> use]
  <2>1. /\ calls' = [calls EXCEPT ![c] = r]
        /\ UNCHANGED <<roots, leases, contexts, cancelled, timers, gatewayVars, now>>
    BY <1>3 DEF UseLease, StartCall, CallFrame, rootVars
  <2>2. l \in Nat BY ContextNames DEF LeaseIDs, DispatchInv, DispatchTyped, AnyContext
  <2>3. r \in Call /\ r.op = "authorize" BY <2>2 DEF Call
  <2> HIDE DEF r
  <2> QED BY <2>1, <2>3, QuietCall
<1> QED BY <1>2, <1>3

\* A nested acquisition goes on with the root and the depth of its lease.
LEMMA AcquireServiceKeeps ==
    ASSUME DispatchInv, NEW c \in Callers, AcquireServiceDispatch(c) PROVE DispatchInv'
<1> DEFINE j == calls[c]
           parent == leases[j.lease]
           next == [op |-> "admit", root |-> parent.root, parent |-> j.lease,
                    depth |-> parent.depth + 1, instance |-> 0, at |-> now]
           r == IF j.lease \notin DOMAIN leases \/ parent.depth >= DepthLimit THEN NoCall ELSE next
<1>1. /\ j.op = "nested" /\ calls' = [calls EXCEPT ![c] = r]
      /\ UNCHANGED <<roots, leases, contexts, cancelled, timers, gatewayVars, now>>
  BY DEF AcquireServiceDispatch, ToStage, CallFrame, rootVars
<1>2. j \in Call /\ now \in Nat BY DEF DispatchInv, DispatchTyped
<1>3. j.lease \in Nat BY <1>1, <1>2 DEF Call, Admission, Uses
<1>4. CASE j.lease \notin DOMAIN leases \/ parent.depth >= DepthLimit
  <2>1. r = NoCall /\ NoCall \in Call /\ NoCall.op = "idle" BY <1>4 DEF NoCall, Call
  <2> HIDE DEF r
  <2> QED BY <1>1, <2>1, QuietCall
<1>5. CASE ~(j.lease \notin DOMAIN leases \/ parent.depth >= DepthLimit)
  <2>1. parent \in Lease BY <1>5 DEF DispatchInv, DispatchTyped
  <2>2. parent.root \in DispatchRequests /\ parent.depth \in Nat BY <2>1 DEF Lease
  <2>3. next \in Call /\ next.op # "running" /\ next.at <= now BY <1>2, <1>3, <2>2 DEF Call, Admission
  <2>4. r = next BY <1>5
  <2> HIDE DEF r, next
  <2> QED BY <1>1, <2>3, <2>4, QuietCall
<1> QED BY <1>4, <1>5

\* An effect that was paid for runs until its lease is to end; one that returns is over.
LEMMA EffectStepsKeep ==
    ASSUME DispatchInv, NEW c \in Callers, DispatchEffectContext(c) \/ EffectReturns(c)
    PROVE  DispatchInv'
<1> DEFINE l == calls[c].lease
           run == [op |-> "running", lease |-> l, deadline |-> leases[l].expires]
<1>1. UNCHANGED <<roots, leases, contexts, cancelled, timers, gatewayVars, now>>
  BY DEF DispatchEffectContext, EffectReturns, CallFrame, rootVars
<1>2. \/ calls' = [calls EXCEPT ![c] = NoCall]
      \/ /\ calls[c].op = "paid" /\ l \in DOMAIN leases /\ calls' = [calls EXCEPT ![c] = run]
  BY DEF DispatchEffectContext, EffectReturns, ToStage
<1>3. CASE calls' = [calls EXCEPT ![c] = NoCall]
  <2>1. NoCall \in Call /\ NoCall.op = "idle" BY DEF NoCall, Call
  <2> QED BY <1>1, <1>3, <2>1, QuietCall
<1>4. CASE calls[c].op = "paid" /\ l \in DOMAIN leases /\ calls' = [calls EXCEPT ![c] = run]
  <2>1. /\ request \in [DispatchRequests -> Stages] /\ calls \in [Callers -> Call] /\ now \in Nat
    BY DEF DispatchInv, DispatchTyped
  <2>2. l \in Nat BY <1>4, <2>1 DEF Call, Admission, Uses
  <2>3. leases[l].expires \in Nat BY <1>4 DEF DispatchInv, DispatchTyped, Lease
  <2>4. run \in Call /\ run.op = "running" /\ run.lease = l /\ run.deadline = leases[l].expires
    BY <2>2, <2>3 DEF Call
  <2>5. LeaseContext(l) \in DOMAIN contexts BY <1>4 DEF DispatchInv, ContextsSound, Derived
  <2> HIDE DEF run
  <2>6. calls'[c] = run /\ \A d \in Callers : d # c => calls'[d] = calls[d] BY <1>4, <2>1
  <2>7. calls' \in [Callers -> Call] BY <1>4, <2>1, <2>4
  <2>8. EffectSound(calls[c])'
    BY <1>1, <1>4, <2>3, <2>4, <2>5, <2>6 DEF EffectSound, LeaseContext
  <2>9. UNCHANGED <<releases, lost, request>> /\ now' = now BY <1>1 DEF gatewayVars
  <2>10. \A d \in Callers :
           \/ calls'[d] = calls[d]
           \/ /\ calls'[d].op = "admit" => calls'[d].at <= now'
              /\ calls'[d].op # "running" \/ EffectSound(calls[d])' BY <2>4, <2>6, <2>8
  <2> QED BY <1>1, <2>1, <2>7, <2>9, <2>10, QuietKeeps
<1> QED BY <1>2, <1>3, <1>4
\* A steady step that derives no context and begins no root or lease: what is left to
\* show of it is where the holds are and that leases are bounded.
LEMMA WorkKeeps ==
    ASSUME DispatchInv, Steady, DispatchTyped', HoldsSound', LeasesBounded', UNCHANGED contexts,
           \A g \in DispatchRequests :
               request'[g] \in {"new", "admitted"} => request[g] \in {"new", "admitted"},
           \A g \in DOMAIN roots' :
               /\ g \in DOMAIN roots
               /\ roots'[g].cancelled => \/ roots[g].cancelled
                                         \/ EndsBy(cancelled', timers', {RootContext(g)}, now'),
           \A l \in DOMAIN leases' :
               /\ l \in DOMAIN leases /\ leases'[l].root = leases[l].root
               /\ leases'[l].parent = leases[l].parent,
           \A c \in Callers :
               \/ calls'[c] = calls[c]
               \/ /\ calls'[c].op = "admit" => calls'[c].at <= now'
                  /\ calls'[c].op # "running"
    PROVE  DispatchInv'
<1>1. DispatchTyped /\ RootsFresh /\ NumbersSound /\ ContextsSound /\ RootsCancelled /\ CallsSound
  BY DEF DispatchInv
<1>2. RootsFresh' BY <1>1 DEF RootsFresh, RootContext
<1>3. NumbersSound' BY <1>1 DEF NumbersSound, LeaseContexts, LeaseContext
<1>4. ContextsSound' BY <1>1, ContextsStay
<1>5. RootsCancelled' BY <1>1, RootsStay
<1>6. CallsSound' BY <1>1, CallsStay DEF EffectSound, CallsSound
<1> QED BY <1>2, <1>3, <1>4, <1>5, <1>6 DEF DispatchInv

\* A timer fires: a context is cancelled, or the endpoint of a request is given back.
LEMMA FireKeeps ==
    ASSUME DispatchInv, NEW timer \in timers, Fire(timer) PROVE DispatchInv'
<1>1. DispatchTyped /\ HoldsSound /\ LeasesBounded /\ ContextsSound BY DEF DispatchInv
<1>2. /\ timer[1] <= now /\ timers' = timers \ {timer}
      /\ UNCHANGED <<roots, leases, contexts, request, lost, calls, now>>
      /\ \/ timer[2] = "cancel" /\ cancelled' = cancelled \cup {timer[3]} /\ UNCHANGED releases
         \/ /\ timer[2] # "cancel" /\ releases' = [releases EXCEPT ![timer[3]] = @ + 1]
            /\ UNCHANGED cancelled
  BY DEF Fire
<1>3. timer \in Timer /\ timers \subseteq Timer /\ now \in Nat BY <1>1 DEF DispatchTyped
<1>4. timer[2] # "cancel" => timer[2] = "release" /\ timer[3] \in DispatchRequests
  BY <1>3, TimerKinds
<1>5. releases' \in [DispatchRequests -> Nat] BY <1>1, <1>2, <1>4 DEF DispatchTyped
<1>6. DispatchTyped' BY <1>1, <1>2, <1>5 DEF DispatchTyped
<1>7. Steady BY <1>2, <1>3 DEF Steady
<1>8. \A l \in DOMAIN leases : Bounded(l)' BY <1>1, <1>2, <1>7, BoundsStay
<1>9. LeasesBounded' BY <1>2, <1>8 DEF LeasesBounded
<1>10. \A g \in DispatchRequests : Waiting(g)' <=> Waiting(g) BY <1>2 DEF Waiting
<1>11. HoldsSound'
  <2>1. CASE timer[2] = "cancel" BY <1>2, <2>1, <1>1, <1>10, HoldsStay
  <2>2. CASE timer[2] = "release"
      BY <1>4, <2>2, <1>2, <1>1, <1>10 DEF DispatchTyped, ReleaseTimers, HoldsSound, Unheld,
         HoldSound
  <2> QED BY <1>2, <1>4, <2>1, <2>2
<1> QED BY <1>2, <1>6, <1>7, <1>9, <1>11, WorkKeeps
\* A step of a call leaves the holds as they are.
LEMMA CallKeepsHolds ==
    ASSUME DispatchInv, UNCHANGED <<releases, lost, request>>, timers \subseteq timers',
           \A x \in timers' \ timers : x[2] = "cancel",
           \A g \in DOMAIN roots : roots'[g].release = roots[g].release,
           DOMAIN roots' = DOMAIN roots
    PROVE  HoldsSound'
BY HoldsStay DEF Waiting, DispatchInv

\* A call that goes on to a stage of its own, neither running nor admitting.
LEMMA StageOfCall ==
    ASSUME DispatchInv, NEW c \in Callers, NEW r \in Call, calls' = [calls EXCEPT ![c] = r],
           r.op \notin {"running", "admit"}
    PROVE  /\ calls' \in [Callers -> Call]
           /\ \A d \in Callers :
                 \/ calls'[d] = calls[d]
                 \/ /\ calls'[d].op = "admit" => calls'[d].at <= now'
                    /\ calls'[d].op # "running"
BY DEF DispatchInv, DispatchTyped

\* Paying for an effect changes what is left of the root and the lease, nothing else.
LEMMA DispatchEffectKeeps ==
    ASSUME DispatchInv, NEW c \in Callers, NEW cost \in {1, Budget}, DispatchEffect(c, cost)
    PROVE  DispatchInv'
<1> DEFINE l == calls[c].lease
           g == leases[l].root
           paid == [op |-> "paid", lease |-> l]
<1>1. DispatchTyped /\ LeasesBounded /\ ContextsSound BY DEF DispatchInv
<1>2. /\ calls[c].op = "effect" /\ calls[c] \in Call /\ now \in Nat
      /\ UNCHANGED <<contexts, cancelled, timers, request, releases, lost, now>>
  BY <1>1 DEF DispatchEffect, DispatchTyped, CallFrame, gatewayVars
<1>3. l \in Nat BY <1>2 DEF Call, Admission, Uses
<1>4. cost \in Int BY DispatchAssumption
<1>5. \/ roots' = roots
      \/ g \in DOMAIN roots /\ roots' = [roots EXCEPT ![g].remaining = @ - cost]
  BY DEF DispatchEffect
<1>6. \/ leases' = leases
      \/ l \in DOMAIN leases /\ leases' = [leases EXCEPT ![l].remaining = @ - cost]
  BY DEF DispatchEffect
<1>7. /\ roots' \in [DOMAIN roots -> Root] /\ DOMAIN roots' = DOMAIN roots
      /\ \A h \in DOMAIN roots : /\ roots'[h].expires = roots[h].expires
                                 /\ roots'[h].cancelled = roots[h].cancelled
                                 /\ roots'[h].release = roots[h].release
  <2>1. roots \in [DOMAIN roots -> Root] BY <1>1 DEF DispatchTyped
  <2>2. CASE g \in DOMAIN roots /\ roots' = [roots EXCEPT ![g].remaining = @ - cost]
      BY <1>4, <2>1, <2>2 DEF Root
  <2> QED BY <1>5, <2>1, <2>2
<1>8. /\ leases' \in [DOMAIN leases -> Lease] /\ DOMAIN leases' = DOMAIN leases
      /\ \A k \in DOMAIN leases : /\ leases'[k].root = leases[k].root
                                  /\ leases'[k].parent = leases[k].parent
                                  /\ leases'[k].expires = leases[k].expires
    BY <1>1, <1>4, <1>6 DEF DispatchTyped, Lease
<1>9. /\ calls' \in [Callers -> Call]
      /\ \A d \in Callers :
            \/ calls'[d] = calls[d]
            \/ /\ calls'[d].op = "admit" => calls'[d].at <= now'
               /\ calls'[d].op # "running"
    BY <1>3, StageOfCall DEF DispatchEffect, ToStage, NoCall, Call
<1>10. DispatchTyped' BY <1>1, <1>2, <1>7, <1>8, <1>9 DEF DispatchTyped
<1>11. Steady BY <1>2, <1>8 DEF Steady
<1>12. HoldsSound' BY <1>2, <1>7, CallKeepsHolds
<1>13. \A k \in DOMAIN leases' : Bounded(k)' BY <1>1, <1>7, <1>8, <1>11, BoundsStay
<1>14. LeasesBounded' BY <1>13 DEF LeasesBounded
<1> QED BY <1>2, <1>7, <1>8, <1>9, <1>10, <1>11, <1>12, <1>14, WorkKeeps

\* A lease that is found ended on the way up is dropped and its context cancelled.
LEMMA AuthorizeKeeps ==
    ASSUME DispatchInv, NEW c \in Callers, AuthorizeInvocation(c) PROVE DispatchInv'
<1> DEFINE j == calls[c]
           k == j.check
           above == leases[k].parent
           up == [j EXCEPT !.check = above]
           use == [op |-> j.use, lease |-> j.lease]
<1>1. DispatchTyped /\ LeasesBounded /\ ContextsSound BY DEF DispatchInv
<1>2. /\ j.op = "authorize" /\ j \in Call /\ now \in Nat
      /\ UNCHANGED <<roots, contexts, timers, request, releases, lost, now>>
  BY <1>1 DEF AuthorizeInvocation, DispatchTyped, CallFrame, gatewayVars
<1>3. j \in [op : {"authorize"}, lease : Nat, check : Nat, use : Uses]
  BY <1>2 DEF Call, Admission, Uses
<1>4. \/ leases' = leases /\ cancelled' = cancelled
      \/ /\ ~(k \in DOMAIN leases /\ now < leases[k].expires)
         /\ leases' = Drop(leases, k)
         /\ cancelled' = cancelled \cup IF k \in DOMAIN leases THEN {LeaseContext(k)} ELSE {}
  BY DEF AuthorizeInvocation
<1>5. leases \in [DOMAIN leases -> Lease] BY <1>1 DEF DispatchTyped
<1>6. /\ DOMAIN leases' \subseteq DOMAIN leases /\ leases' \in [DOMAIN leases' -> Lease]
      /\ \A l \in DOMAIN leases' : leases'[l] = leases[l]
      /\ \A l \in DOMAIN leases \ DOMAIN leases' :
            leases[l].expires <= now /\ LeaseContext(l) \in cancelled'
      /\ cancelled \subseteq cancelled' BY <1>5, DropFacts, <1>2, <1>4 DEF Lease, Drop
<1>7. /\ calls' \in [Callers -> Call]
      /\ \A d \in Callers :
            \/ calls'[d] = calls[d]
            \/ /\ calls'[d].op = "admit" => calls'[d].at <= now'
               /\ calls'[d].op # "running"
    BY <1>5, <1>3, StageOfCall DEF AuthorizeInvocation, ToStage, NoCall, Call, Lease, Uses
<1>8. DispatchTyped' BY <1>1, <1>2, <1>6, <1>7 DEF DispatchTyped
<1>9. Steady BY <1>1, <1>6, <1>2 DEF ContextsSound, Derived, EndsBy, Steady
<1>10. HoldsSound' BY <1>2, CallKeepsHolds
<1>11. \A l \in DOMAIN leases' : Bounded(l)' BY <1>2, <1>1, <1>6, <1>9, BoundsStay
<1>12. LeasesBounded' BY <1>11 DEF LeasesBounded
<1> QED BY <1>2, <1>6, <1>7, <1>8, <1>9, <1>10, <1>12, WorkKeeps
\* A lease is below the lease above it, with everything below that one.
LEMMA BelowParent ==
    ASSUME DispatchInv, NEW l, NEW x \in DOMAIN leases, leases[x].parent # 0,
           leases[x].parent \in Descendants(l)
    PROVE  x \in Descendants(l)
BY DEF DispatchInv, ContextsSound, Derived, Descendants

\* Cancelling a lease drops it and the leases below it, and cancels their contexts.
LEMMA CancelledFinishKeeps ==
    ASSUME DispatchInv, NEW c \in Callers, FinishDispatch(c, TRUE) PROVE DispatchInv'
<1> DEFINE l == calls[c].lease
           below == Descendants(l)
<1>1. DispatchTyped /\ LeasesBounded /\ ContextsSound BY DEF DispatchInv
<1>2. /\ UNCHANGED <<roots, contexts, timers, request, releases, lost, now>>
      /\ \/ leases' = leases /\ cancelled' = cancelled
         \/ /\ leases' = [x \in DOMAIN leases \ below |-> leases[x]]
            /\ cancelled' = cancelled \cup {LeaseContext(x) : x \in below}
      /\ calls' = [calls EXCEPT ![c] = NoCall]
  BY DEF FinishDispatch, ToStage, CallFrame, gatewayVars
<1>3. leases \in [DOMAIN leases -> Lease] /\ now \in Nat BY <1>1 DEF DispatchTyped
<1>4. below \subseteq DOMAIN leases BY DEF Descendants
<1>5. /\ DOMAIN leases' \subseteq DOMAIN leases /\ leases' \in [DOMAIN leases' -> Lease]
      /\ \A x \in DOMAIN leases' : leases'[x] = leases[x]
      /\ \A x \in DOMAIN leases \ DOMAIN leases' : LeaseContext(x) \in cancelled'
      /\ cancelled \subseteq cancelled' BY <1>2, <1>3, <1>4
<1>6. \A x \in DOMAIN leases' : leases[x].parent # 0 /\ leases[x].parent \in DOMAIN leases =>
        leases[x].parent \in DOMAIN leases' BY BelowParent, <1>2
<1>7. /\ calls' \in [Callers -> Call]
      /\ \A d \in Callers :
            \/ calls'[d] = calls[d]
            \/ /\ calls'[d].op = "admit" => calls'[d].at <= now'
               /\ calls'[d].op # "running" BY <1>2, StageOfCall DEF NoCall, Call
<1>8. DispatchTyped' BY <1>1, <1>2, <1>5, <1>7 DEF DispatchTyped
<1> HIDE DEF l, below
<1>9. Steady BY <1>1, <1>5, <1>2, <1>3 DEF ContextsSound, Derived, EndsBy, Steady
<1>10. HoldsSound' BY <1>2, CallKeepsHolds
<1>11. ASSUME NEW x \in DOMAIN leases' PROVE Bounded(x)'
    BY <1>1, <1>5, <1>2, <1>6 DEF LeasesBounded, DispatchTyped, Bounded
<1>12. LeasesBounded' BY <1>11 DEF LeasesBounded
<1> QED BY <1>2, <1>5, <1>7, <1>8, <1>9, <1>10, <1>12, WorkKeeps

\* Finishing a lease lets it and the leases below it end soon, when a timer cancels its
\* context.
LEMMA FinishKeeps ==
    ASSUME DispatchInv, NEW c \in Callers, FinishDispatch(c, FALSE) PROVE DispatchInv'
<1> DEFINE l == calls[c].lease
           below == Descendants(l)
           expires == MinTime(leases[l].expires, now + DrainTime)
           timer == <<expires, "cancel", LeaseContext(l)>>
           ending == [x \in DOMAIN leases |->
                         [leases[x] EXCEPT !.finished = @ \/ x = l,
                             !.expires = IF x \in below THEN MinTime(@, expires) ELSE @]]
<1>1. DispatchTyped /\ LeasesBounded /\ ContextsSound BY DEF DispatchInv
<1>2. /\ UNCHANGED <<roots, contexts, cancelled, request, releases, lost, now>>
      /\ \/ leases' = leases /\ timers' = timers
         \/ l \in DOMAIN leases /\ leases' = ending /\ timers' = timers \cup {timer}
      /\ calls' = [calls EXCEPT ![c] = NoCall]
  BY DEF FinishDispatch, ToStage, CallFrame, gatewayVars
<1>3. leases \in [DOMAIN leases -> Lease] /\ now \in Nat /\ timers \subseteq Timer
  BY <1>1 DEF DispatchTyped
<1>4. /\ calls' \in [Callers -> Call]
      /\ \A d \in Callers :
            \/ calls'[d] = calls[d]
            \/ /\ calls'[d].op = "admit" => calls'[d].at <= now'
               /\ calls'[d].op # "running" BY <1>2, StageOfCall DEF NoCall, Call
<1>5. CASE leases' = leases /\ timers' = timers
    BY <1>1, <1>2, <1>4, <1>5, <1>3, CallKeepsHolds, BoundsStay, WorkKeeps DEF DispatchTyped,
       Steady, LeasesBounded
<1>6. CASE l \in DOMAIN leases /\ leases' = ending /\ timers' = timers \cup {timer}
  <2>1. leases[l].expires \in Nat /\ now + DrainTime \in Nat
    <3>1. l \in DOMAIN leases BY <1>6
    <3> HIDE DEF l, ending
    <3>2. leases[l] \in Lease BY <1>3, <3>1
    <3> QED BY <1>3, <3>2, DispatchAssumption DEF Lease
  <2>2. expires \in Nat BY <2>1, MinTimes
  <2>3. LeaseContext(l) \in AnyContext BY <1>1, <1>6 DEF DispatchTyped, AnyContext
  <2>4. timer \in Timer /\ timer[1] = expires /\ timer[2] = "cancel" /\ timer[3] = LeaseContext(l)
    BY <2>2, <2>3, CancelTimerKind
  <2> HIDE DEF expires, timer
  <2>5. ASSUME NEW x \in DOMAIN leases
        PROVE  /\ leases'[x] \in Lease /\ leases'[x].root = leases[x].root
               /\ leases'[x].parent = leases[x].parent
               /\ x \in below => leases'[x].expires = MinTime(leases[x].expires, expires)
               /\ x \notin below => leases'[x].expires = leases[x].expires
      BY <1>6, <1>3, <2>2, MinTimes DEF Lease
  <2>6. DOMAIN leases' = DOMAIN leases /\ leases' = [x \in DOMAIN leases |-> leases'[x]] BY <1>6
  <2> HIDE DEF ending, below
  <2>7. leases' \in [DOMAIN leases -> Lease] BY <2>5, <2>6
  <2>8. DispatchTyped' BY <1>1, <1>2, <1>4, <1>6, <2>4, <2>6, <2>7 DEF DispatchTyped
  <2>9. Steady
    <3>1. ASSUME NEW x \in DOMAIN leases
          PROVE  \/ leases'[x].expires = leases[x].expires
                 \/ EndsBy(cancelled', timers', contexts[LeaseContext(x)].line, leases'[x].expires)
        BY <2>5, <1>3, <2>2, MinTimes, <1>6, <2>4 DEF Lease, Descendants, below, EndsBy
    <3>2. timers \subseteq timers' BY <1>6
    <3>3. now' \in Nat /\ now <= now' /\ contexts' = contexts /\ cancelled' = cancelled BY <1>2, <1>3
    <3> QED BY <2>6, <3>1, <3>2, <3>3 DEF Steady
  <2>10. HoldsSound' BY <1>6, <2>4, <1>2, CallKeepsHolds
  <2>11. ASSUME NEW x \in DOMAIN leases' PROVE Bounded(x)'
    <3>1. x \in DOMAIN leases /\ Bounded(x) BY <1>1, <2>6 DEF LeasesBounded
    <3>2. \A y \in DOMAIN leases : leases[y].expires \in Nat BY <1>3 DEF Lease
    <3>3. leases'[x].expires \in Nat /\ leases'[x].expires <= leases[x].expires
      BY <2>2, <2>5, <3>1, <3>2, MinTimes
    <3> DEFINE p == leases[x].parent
               g == leases[x].root
    <3>4. g \in DOMAIN roots => leases'[x].expires <= roots[g].expires
        BY <1>1, <3>1, <3>2, <3>3 DEF DispatchTyped, Root, Bounded
    <3>5. g \notin DOMAIN roots => leases'[x].expires <= now
      BY <1>3, <3>1, <3>2, <3>3 DEF Bounded
    <3>6. p # 0 /\ p \notin DOMAIN leases => leases'[x].expires <= now
      BY <1>3, <3>1, <3>2, <3>3 DEF Bounded
    <3>7. p \in DOMAIN leases => leases'[x].expires <= leases'[p].expires
      <4>1. SUFFICES ASSUME p \in DOMAIN leases PROVE leases'[x].expires <= leases'[p].expires
        OBVIOUS
      <4>2. leases[x].expires <= leases[p].expires BY <3>1, <4>1 DEF Bounded
      <4>3. CASE p \notin below BY <2>5, <3>2, <3>3, <4>1, <4>2, <4>3, <3>1
      <4>4. CASE p \in below
        <5>1. p # 0 BY <1>1, <4>1 DEF DispatchTyped
        <5>2. x \in below BY <3>1, <4>4, <5>1, BelowParent DEF below
        <5>3. leases'[p].expires = MinTime(leases[p].expires, expires) BY <2>5, <4>1, <4>4
        <5>4. leases'[x].expires = MinTime(leases[x].expires, expires) BY <2>5, <3>1, <5>2
        <5> QED BY <2>2, <3>1, <3>2, <4>1, <4>2, <5>3, <5>4 DEF MinTime
      <4> QED BY <4>3, <4>4
    <3>8. UNCHANGED <<roots, now>> /\ leases'[x].root = g /\ leases'[x].parent = p
      BY <1>2, <2>5, <3>1
    <3> QED BY <2>6, <3>4, <3>5, <3>6, <3>7, <3>8 DEF Bounded
  <2>12. LeasesBounded' BY <2>11 DEF LeasesBounded
  <2> QED BY <1>2, <1>4, <2>5, <2>6, <2>8, <2>9, <2>10, <2>12, WorkKeeps
<1> QED BY <1>2, <1>5, <1>6
\* A request whose hold a step does not touch.
LEMMA OneHoldStays ==
    ASSUME HoldsSound, NEW h \in DispatchRequests, releases'[h] = releases[h],
           ReleaseTimers(h)' = ReleaseTimers(h), Waiting(h)' <=> Waiting(h), lost \subseteq lost',
           \/ request'[h] = request[h]
           \/ {request[h], request'[h]} \cap {"held", "over"} = {}
    PROVE  HoldSound(h)'
BY DEF HoldsSound, Unheld, ReleaseTimers, HoldSound

\* The endpoint of a request is held: with the root, until a timer, or not at all.
LEMMA HoldKeeps ==
    ASSUME DispatchInv, NEW g \in DispatchRequests, HoldDispatchRoot(g) PROVE DispatchInv'
<1> DEFINE timer == <<roots[g].expires, "release", g>>
<1>1. DispatchTyped /\ HoldsSound /\ LeasesBounded BY DEF DispatchInv
<1>2. /\ request[g] = "serving" /\ request' = [request EXCEPT ![g] = "held"]
      /\ UNCHANGED <<leases, contexts, cancelled, lost, calls, now>>
      /\ \/ /\ g \notin DOMAIN roots /\ releases' = [releases EXCEPT ![g] = @ + 1]
            /\ UNCHANGED <<roots, timers>>
         \/ /\ g \in DOMAIN roots /\ timers' = timers \cup {timer} /\ UNCHANGED <<roots, releases>>
         \/ /\ g \in DOMAIN roots /\ roots' = [roots EXCEPT ![g].release = TRUE]
            /\ UNCHANGED <<timers, releases>>
  BY DEF HoldDispatchRoot
<1>3. /\ roots \in [DOMAIN roots -> Root] /\ timers \subseteq Timer /\ now \in Nat
      /\ releases \in [DispatchRequests -> Nat] /\ request \in [DispatchRequests -> Stages]
  BY <1>1 DEF DispatchTyped
<1>4. g \in DOMAIN roots => /\ timer \in Timer /\ timer[1] = roots[g].expires
                            /\ timer[2] = "release" /\ timer[3] = g
    BY <1>3, ReleaseTimerKind DEF Root
<1> HIDE DEF timer
<1>5. /\ roots' \in [DOMAIN roots -> Root]
      /\ \A h \in DOMAIN roots : roots'[h].expires = roots[h].expires
      /\ \A h \in DOMAIN roots : roots'[h].cancelled = roots[h].cancelled
      /\ \A h \in DOMAIN roots \ {g} : roots'[h].release = roots[h].release
  <2>1. CASE roots' = roots BY <1>3, <2>1
  <2>2. CASE g \in DOMAIN roots /\ roots' = [roots EXCEPT ![g].release = TRUE]
    BY <1>3, <2>2 DEF Root
  <2> QED BY <1>2, <2>1, <2>2
<1>13. DOMAIN roots' = DOMAIN roots BY <1>5
<1>6. /\ releases' \in [DispatchRequests -> Nat] /\ request' \in [DispatchRequests -> Stages]
      /\ timers' \subseteq Timer /\ timers \subseteq timers'
      /\ request'[g] = "held"
      /\ \A h \in DispatchRequests : h # g => request'[h] = request[h] /\ releases'[h] = releases[h]
  BY <1>2, <1>3, <1>4 DEF Stages
<1>7. DispatchTyped' BY <1>1, <1>2, <1>5, <1>6, <1>13 DEF DispatchTyped
<1>8. Steady BY <1>2, <1>3, <1>6 DEF Steady
<1>9. HoldsSound'
  <2>1. ASSUME NEW h \in DispatchRequests, h # g PROVE HoldSound(h)'
      BY <1>2, <1>4, <2>1, <1>5, <1>13, <1>1, <1>6, OneHoldStays DEF ReleaseTimers, Waiting
  <2>2. HoldSound(g)'
      BY <1>1, <1>2, <1>3, <1>6, <1>4, <1>13 DEF HoldsSound, HoldSound, Unheld, ReleaseTimers,
         Waiting, Root
  <2> QED BY <2>1, <2>2 DEF HoldsSound
<1>10. \A l \in DOMAIN leases' : Bounded(l)' BY <1>1, <1>2, <1>5, <1>8, <1>13, BoundsStay
<1>11. LeasesBounded' BY <1>10 DEF LeasesBounded
<1>12. \A h \in DispatchRequests :
         request'[h] \in {"new", "admitted"} => request[h] \in {"new", "admitted"}
  BY <1>6
<1> QED BY <1>2, <1>5, <1>7, <1>8, <1>9, <1>11, <1>12, <1>13, WorkKeeps

\* Ending a root lets it and its leases end soon, when a timer cancels its context, and
\* gives its hold to another timer.
LEMMA EndFacts ==
    ASSUME DispatchInv, NEW g \in DispatchRequests, NEW cancel \in BOOLEAN,
           EndDispatchRoot(g, cancel), UNCHANGED <<contexts, cancelled, now>>
    PROVE  /\ roots' \in [DOMAIN roots -> Root] /\ leases' \in [DOMAIN leases -> Lease]
           /\ timers \subseteq timers' /\ timers' \subseteq Timer
           /\ Steady /\ LeasesBounded'
           /\ \A l \in DOMAIN leases : /\ leases'[l].root = leases[l].root
                                       /\ leases'[l].parent = leases[l].parent
           /\ \A h \in DOMAIN roots : roots'[h].cancelled =>
                 \/ roots[h].cancelled
                 \/ EndsBy(cancelled', timers', {RootContext(h)}, now')
           /\ \A h \in DispatchRequests \ {g} : /\ ReleaseTimers(h)' = ReleaseTimers(h)
                                                /\ Waiting(h)' <=> Waiting(h)
           /\ ~Waiting(g)'
           /\ Waiting(g) => \E x \in timers' : ReleaseTimers(g)' = ReleaseTimers(g) \cup {x}
           /\ ~Waiting(g) => ReleaseTimers(g)' = ReleaseTimers(g)
<1>1. DispatchTyped /\ LeasesBounded /\ ContextsSound BY DEF DispatchInv
<1>2. /\ roots \in [DOMAIN roots -> Root] /\ leases \in [DOMAIN leases -> Lease]
      /\ timers \subseteq Timer /\ now \in Nat
  BY <1>1 DEF DispatchTyped
<1>3. CASE g \notin DOMAIN roots
    BY <1>3, <1>2, <1>1, BoundsStay DEF EndDispatchRoot, Steady, LeasesBounded, Waiting,
       ReleaseTimers
<1>4. CASE g \in DOMAIN roots
  <2> DEFINE root == roots[g]
             early == IF cancel THEN now ELSE root.expires
             expires == IF root.finished THEN early ELSE MinTime(early, now + DrainTime)
             ended == Ended(root, cancel, expires)
             timer == <<expires, "cancel", RootContext(g)>>
             release == <<expires, "release", g>>
  <2>1. /\ roots' = [roots EXCEPT ![g] = ended]
        /\ leases' = [l \in DOMAIN leases |->
                         IF leases[l].root # g THEN leases[l]
                         ELSE [leases[l] EXCEPT !.expires = MinTime(@, expires)]]
        /\ timers' = timers \cup {timer} \cup IF root.release THEN {release} ELSE {}
    BY <1>4 DEF EndDispatchRoot, CancelTimer
  <2>2. root \in Root /\ root.expires \in Nat BY <1>2, <1>4 DEF Root
  <2>3. expires \in Nat /\ (cancel => expires <= now) BY <1>2, DispatchAssumption, <2>2, MinTimes
  <2>4. /\ ended \in Root /\ ended.expires = expires /\ ended.release = FALSE
        /\ ended.cancelled => root.cancelled \/ cancel BY <2>2, <2>3 DEF Ended, Root
  <2>5. /\ timer \in Timer /\ timer[1] = expires /\ timer[2] = "cancel" /\ timer[3] = RootContext(g)
        /\ release \in Timer /\ release[1] = expires /\ release[2] = "release" /\ release[3] = g
      BY <2>3, CancelTimerKind, ReleaseTimerKind DEF AnyContext
  <2> HIDE DEF expires, ended, timer, release
  <2>6. roots' \in [DOMAIN roots -> Root] /\ DOMAIN roots' = DOMAIN roots
    BY <1>2, <1>4, <2>1, <2>4
  <2>7. /\ roots'[g] = ended
        /\ \A h \in DOMAIN roots \ {g} : roots'[h] = roots[h]
    BY <1>4, <2>1
  <2>8. /\ timers \subseteq timers' /\ timers' \subseteq Timer /\ timer \in timers'
        /\ root.release => release \in timers'
        /\ \A x \in timers' : x \in timers \/ x = timer \/ (root.release /\ x = release)
      BY <2>1, <2>5, <1>2
  <2>9. ASSUME NEW l \in DOMAIN leases
        PROVE  /\ leases'[l] \in Lease /\ leases'[l].root = leases[l].root
               /\ leases'[l].parent = leases[l].parent
               /\ leases[l].root # g => leases'[l].expires = leases[l].expires
               /\ leases[l].root = g => leases'[l].expires = MinTime(leases[l].expires, expires)
      BY <1>2, <2>1, <2>3, MinTimes DEF Lease
  <2>10. DOMAIN leases' = DOMAIN leases /\ leases' \in [DOMAIN leases -> Lease] BY <2>1, <2>9
  <2>11. Steady
    <3>1. ASSUME NEW l \in DOMAIN leases
          PROVE  \/ leases'[l].expires = leases[l].expires
                 \/ EndsBy(cancelled', timers', contexts[LeaseContext(l)].line, leases'[l].expires)
        BY <2>9, <1>2, <2>3, MinTimes, <1>1, <2>5, <2>8 DEF Lease, ContextsSound, Derived, EndsBy
    <3> QED BY <1>2, <2>8, <2>10, <3>1 DEF Steady
  <2>12. ASSUME NEW x \in DOMAIN leases' PROVE Bounded(x)'
    <3>1. x \in DOMAIN leases /\ Bounded(x) /\ Derived(x)
      BY <1>1, <2>10 DEF LeasesBounded, ContextsSound
    <3>2. \A y \in DOMAIN leases : leases[y].expires \in Nat BY <1>2 DEF Lease
    <3>3. leases'[x].expires \in Nat /\ leases'[x].expires <= leases[x].expires
      BY <2>3, <2>9, <3>1, <3>2, MinTimes
    <3> DEFINE p == leases[x].parent
               h == leases[x].root
    <3>4. h \in DOMAIN roots => leases'[x].expires <= roots'[h].expires
        BY <3>1, <3>2, <2>3, <2>9, MinTimes, <2>4, <2>7 DEF Bounded
    <3>5. h \notin DOMAIN roots => leases'[x].expires <= now
      BY <1>2, <3>1, <3>2, <3>3 DEF Bounded
    <3>6. p # 0 /\ p \notin DOMAIN leases => leases'[x].expires <= now
      BY <1>2, <3>1, <3>2, <3>3 DEF Bounded
    <3>7. p \in DOMAIN leases => leases'[x].expires <= leases'[p].expires
        BY <3>1, <1>1, <2>9, <2>3, <3>2 DEF Bounded, DispatchTyped, Derived, MinTime
    <3>8. now' = now /\ leases'[x].root = h /\ leases'[x].parent = p BY <2>9, <3>1
    <3> QED BY <2>6, <2>10, <3>4, <3>5, <3>6, <3>7, <3>8 DEF Bounded
  <2>13. LeasesBounded' BY <2>12 DEF LeasesBounded
  <2>14. ASSUME NEW h \in DOMAIN roots, roots'[h].cancelled
         PROVE  roots[h].cancelled \/ EndsBy(cancelled', timers', {RootContext(h)}, now')
      BY <2>7, <2>14, <2>4, <2>3, <2>5, <2>8 DEF EndsBy
  <2>15. \A h \in DispatchRequests \ {g} : /\ ReleaseTimers(h)' = ReleaseTimers(h)
                                           /\ Waiting(h)' <=> Waiting(h)
    BY <2>5, <2>6, <2>7, <2>8 DEF ReleaseTimers, Waiting
  <2>16. ~Waiting(g)' BY <2>4, <2>7 DEF Waiting
  <2>17. Waiting(g) => \E x \in timers' : ReleaseTimers(g)' = ReleaseTimers(g) \cup {x}
      BY <2>8, <2>5 DEF Waiting, ReleaseTimers
  <2>18. ~Waiting(g) => ReleaseTimers(g)' = ReleaseTimers(g)
    BY <1>4, <2>5, <2>8 DEF ReleaseTimers, Waiting
  <2> HIDE DEF root
  <2> QED BY <2>6, <2>8, <2>9, <2>10, <2>11, <2>13, <2>14, <2>15, <2>16, <2>17, <2>18
<1> QED BY <1>3, <1>4

\* The request whose root was ended: its hold goes from the root to a timer.
LEMMA HoldEnds ==
    ASSUME HoldsSound, NEW g \in DispatchRequests, UNCHANGED <<releases, lost>>,
           \A h \in DispatchRequests \ {g} : /\ ReleaseTimers(h)' = ReleaseTimers(h)
                                             /\ Waiting(h)' <=> Waiting(h)
                                             /\ request'[h] = request[h],
           ~Waiting(g)',
           Waiting(g) => \E x \in timers' : ReleaseTimers(g)' = ReleaseTimers(g) \cup {x},
           ~Waiting(g) => ReleaseTimers(g)' = ReleaseTimers(g),
           timers \subseteq timers',
           \/ request'[g] = request[g]
           \/ request[g] = "held" /\ request'[g] = "over"
           \/ request[g] = "open" /\ request'[g] = "unserved"
    PROVE  HoldsSound'
<1>1. ASSUME NEW h \in DispatchRequests, h # g PROVE HoldSound(h)' BY <1>1, OneHoldStays
<1>2. HoldSound(g)' BY DEF HoldsSound, HoldSound, Unheld
<1> QED BY <1>1, <1>2 DEF HoldsSound

\* A root is ended by its request's end or by the context of the request.
LEMMA EndsKeep ==
    ASSUME DispatchInv, NEW g \in DispatchRequests, AfterFuncEnds(g) \/ RequestEnds(g)
    PROVE  DispatchInv'
<1>1. /\ UNCHANGED <<contexts, cancelled, releases, lost, calls, now>>
      /\ \E cancel \in BOOLEAN : EndDispatchRoot(g, cancel)
      /\ \/ request' = request
         \/ request[g] = "held" /\ request' = [request EXCEPT ![g] = "over"]
         \/ request[g] = "open" /\ request' = [request EXCEPT ![g] = "unserved"]
    BY DEF AfterFuncEnds, RequestDone, RequestEnds
<1>2. PICK cancel \in BOOLEAN : EndDispatchRoot(g, cancel) BY <1>1
<1>3. DispatchTyped /\ HoldsSound BY DEF DispatchInv
<1>4. request \in [DispatchRequests -> Stages] BY <1>3 DEF DispatchTyped
<1>5. /\ request' \in [DispatchRequests -> Stages]
      /\ \A h \in DispatchRequests \ {g} : request'[h] = request[h]
      /\ \/ request'[g] = request[g]
         \/ request[g] = "held" /\ request'[g] = "over"
         \/ request[g] = "open" /\ request'[g] = "unserved"
  BY <1>1, <1>4 DEF Stages
<1>6. UNCHANGED <<contexts, cancelled, now>> BY <1>1
<1>7. /\ roots' \in [DOMAIN roots -> Root] /\ leases' \in [DOMAIN leases -> Lease]
      /\ timers \subseteq timers' /\ timers' \subseteq Timer
      /\ Steady /\ LeasesBounded'
      /\ \A l \in DOMAIN leases : /\ leases'[l].root = leases[l].root
                                  /\ leases'[l].parent = leases[l].parent
      /\ \A h \in DOMAIN roots : roots'[h].cancelled =>
            \/ roots[h].cancelled
            \/ EndsBy(cancelled', timers', {RootContext(h)}, now')
  BY <1>2, <1>6, EndFacts
<1>8. /\ \A h \in DispatchRequests \ {g} : /\ ReleaseTimers(h)' = ReleaseTimers(h)
                                           /\ Waiting(h)' <=> Waiting(h)
      /\ ~Waiting(g)'
      /\ Waiting(g) => \E x \in timers' : ReleaseTimers(g)' = ReleaseTimers(g) \cup {x}
      /\ ~Waiting(g) => ReleaseTimers(g)' = ReleaseTimers(g)
  BY <1>2, <1>6, EndFacts
<1>9. DOMAIN roots' = DOMAIN roots /\ DOMAIN leases' = DOMAIN leases BY <1>7
<1>10. DispatchTyped' BY <1>1, <1>3, <1>5, <1>7, <1>9 DEF DispatchTyped
<1>11. HoldsSound' BY <1>1, <1>3, <1>5, <1>7, <1>8, HoldEnds
<1>12. \A h \in DispatchRequests :
         request'[h] \in {"new", "admitted"} => request[h] \in {"new", "admitted"}
  BY <1>5
<1> QED BY <1>1, <1>7, <1>9, <1>10, <1>11, <1>12, WorkKeeps

\* A root is begun for a request that never had one; roots that have expired are swept
\* away first, and a hold of theirs is lost.
LEMMA BeginKeeps ==
    ASSUME DispatchInv, NEW g \in DispatchRequests, BeginDispatchRoot(g) PROVE DispatchInv'
<1> DEFINE expired == {x \in DOMAIN roots : now >= roots[x].expires}
           kept == [x \in DOMAIN roots \ expired |-> roots[x]]
           root == [expires |-> now + RootTime, finished |-> FALSE, cancelled |-> FALSE,
                    instance |-> 0, remaining |-> Budget, release |-> FALSE]
           ctx == [line |-> {RootContext(g)} \cup UNION {contexts[p].line : p \in {}},
                   deadline |-> Min({now + RootTime} \cup {contexts[p].deadline : p \in {}})]
<1>1. /\ DispatchTyped /\ HoldsSound /\ RootsFresh /\ NumbersSound
      /\ ContextsSound /\ LeasesBounded /\ RootsCancelled /\ CallsSound
  BY DEF DispatchInv
<1>2. /\ request[g] = "admitted" /\ UNCHANGED <<leases, timers, releases, calls, now>>
      /\ cancelled \subseteq cancelled' /\ lost' = lost \cup {x \in expired : roots[x].release}
      /\ \/ /\ roots' = kept /\ contexts' = contexts
            /\ request' = [request EXCEPT ![g] = "unserved"]
         \/ /\ roots' = Put(kept, g, root) /\ contexts' = Put(contexts, RootContext(g), ctx)
            /\ request' = [request EXCEPT ![g] = "open"]
  BY DEF BeginDispatchRoot, WithDeadline
<1>3. /\ roots \in [DOMAIN roots -> Root] /\ now \in Nat /\ timers \subseteq Timer
      /\ leases \in [DOMAIN leases -> Lease] /\ request \in [DispatchRequests -> Stages]
      /\ calls \in [Callers -> Call] /\ DOMAIN roots \subseteq DispatchRequests
  BY <1>1 DEF DispatchTyped
<1>4. g \notin DOMAIN roots /\ RootContext(g) \notin DOMAIN contexts BY <1>1, <1>2 DEF RootsFresh
<1>5. root \in Root /\ root.release = FALSE /\ root.cancelled = FALSE
  BY <1>3, DispatchAssumption DEF Root
<1>6. RootContext(g) \in ctx.line OBVIOUS
<1> HIDE DEF root, ctx
<1>7. /\ \A x \in DOMAIN roots' : \/ x \in DOMAIN roots \ expired /\ roots'[x] = roots[x]
                                  \/ x = g /\ roots'[x] = root /\ RootContext(x) \in DOMAIN contexts'
      /\ \A x \in DOMAIN roots \ expired : x \in DOMAIN roots' /\ roots'[x] = roots[x]
      /\ \A x \in expired : x \notin DOMAIN roots'
      /\ roots' \in [DOMAIN roots' -> Root] BY <1>3, <1>4, <1>5, <1>2 DEF Put
<1>8. /\ \A x \in DOMAIN contexts : x \in DOMAIN contexts' /\ contexts'[x] = contexts[x]
      /\ \A x \in DOMAIN contexts' :
            x \in DOMAIN contexts \/ (x = RootContext(g) /\ x \in contexts'[x].line)
      /\ LeaseContexts' = LeaseContexts /\ DOMAIN contexts' \subseteq AnyContext
    BY <1>1, ContextNames, <1>4, <1>6, <1>2 DEF DispatchTyped, AnyContext, LeaseContexts, Put
<1>9. /\ request' \in [DispatchRequests -> Stages] /\ request'[g] \in {"open", "unserved"}
      /\ \A h \in DispatchRequests \ {g} : request'[h] = request[h]
  BY <1>2, <1>3 DEF Stages
<1>10. DispatchTyped' BY <1>3, <1>7, <1>1, <1>2, <1>8, <1>9 DEF DispatchTyped
<1>11. Steady BY <1>2, <1>3, <1>8 DEF Steady
<1>12. HoldsSound'
  <2>1. ASSUME NEW h \in DispatchRequests PROVE HoldSound(h)'
    <3>1. ReleaseTimers(h)' = ReleaseTimers(h) BY <1>2 DEF ReleaseTimers
    <3>2. HoldSound(h) BY <1>1 DEF HoldsSound
    <3>3. CASE h \in expired /\ roots[h].release
        BY <3>3, <3>2, <1>7, <1>2, <1>9, <3>1 DEF Waiting, HoldSound, Unheld
    <3>4. CASE ~(h \in expired /\ roots[h].release)
      <4>1. Waiting(h)' <=> Waiting(h) BY <3>4, <1>7, <1>4, <1>5 DEF Waiting
      <4>2. \/ request'[h] = request[h]
            \/ {request[h], request'[h]} \cap {"held", "over"} = {}
        BY <1>2, <1>9
      <4>3. releases'[h] = releases[h] /\ lost \subseteq lost' BY <1>2
      <4> QED BY <1>1, <3>1, <4>1, <4>2, <4>3, OneHoldStays
    <3> QED BY <3>3, <3>4
  <2> QED BY <2>1 DEF HoldsSound
<1>13. RootsFresh' BY <1>9, <1>1, ContextNames, <1>7, <1>8 DEF RootsFresh, RootContext
<1>14. NumbersSound'
  BY <1>1, <1>8 DEF NumbersSound, LeaseContext
<1>15. ContextsSound' BY <1>8, <1>7, <1>2, <1>1, <1>11, ContextsStay
<1>16. LeasesBounded'
    BY <1>4, <1>7, <1>3, <1>2, <1>1, <1>11, BoundsStay DEF Root, ContextsSound, Derived,
       LeasesBounded
<1>17. RootsCancelled' BY <1>5, <1>7, <1>1, <1>11, RootsStay
<1>18. CallsSound' BY <1>2, <1>1, <1>11, CallsStay DEF CallsSound
<1> QED BY <1>10, <1>12, <1>13, <1>14, <1>15, <1>16, <1>17, <1>18 DEF DispatchInv

\* Dispatch is disabled: every context is cancelled and every hold given back by a timer
\* that is due now.
LEMMA DisableKeeps ==
    ASSUME DispatchInv, DisableClears PROVE DispatchInv'
<1> DEFINE rootEnds == {<<now, "cancel", RootContext(g)>> : g \in DOMAIN roots}
           returns == {<<now, "release", g>> : g \in {x \in DOMAIN roots : roots[x].release}}
           leaseEnds == {<<now, "cancel", LeaseContext(l)>> : l \in DOMAIN leases}
<1>1. DispatchTyped /\ HoldsSound /\ ContextsSound BY DEF DispatchInv
<1>2. /\ timers' = timers \cup rootEnds \cup returns \cup leaseEnds
      /\ roots' = None /\ leases' = None
      /\ UNCHANGED <<contexts, cancelled, request, releases, lost, calls, now>>
  BY DEF DisableClears, gatewayVars
<1>3. /\ now \in Nat /\ timers \subseteq Timer /\ DOMAIN roots \subseteq DispatchRequests
      /\ DOMAIN leases \subseteq Nat \ {0}
  BY <1>1 DEF DispatchTyped
<1>4. \A x \in rootEnds \cup leaseEnds : x \in Timer /\ x[1] = now /\ x[2] = "cancel"
    BY <1>3, CancelTimerKind DEF AnyContext
<1>5. \A l \in DOMAIN leases : \E x \in leaseEnds : x[3] = LeaseContext(l)
  <2>1. \A l \in DOMAIN leases : <<now, "cancel", LeaseContext(l)>> \in leaseEnds OBVIOUS
  <2>2. \A l \in DOMAIN leases : LeaseContext(l) \in AnyContext BY <1>3 DEF AnyContext
  <2> QED BY <1>3, <2>1, <2>2, CancelTimerKind
<1>6. /\ \A x \in returns : /\ x \in Timer /\ x[2] = "release" /\ Waiting(x[3])
                            /\ x = <<now, "release", x[3]>>
      /\ \A g \in DispatchRequests : Waiting(g) => <<now, "release", g>> \in returns
      /\ \A g \in DispatchRequests : <<now, "release", g>>[2] = "release" /\ <<now, "release", g>>[3] = g
  BY <1>3, ReleaseTimerKind DEF Waiting
<1> HIDE DEF rootEnds, returns, leaseEnds
<1>7. /\ timers \subseteq timers' /\ timers' \subseteq Timer
      /\ DOMAIN roots' = {} /\ DOMAIN leases' = {}
      /\ roots' \in [DOMAIN roots' -> Root] /\ leases' \in [DOMAIN leases' -> Lease]
  BY <1>2, <1>3, <1>4, <1>6 DEF None
<1>8. DispatchTyped' BY <1>1, <1>2, <1>7 DEF DispatchTyped
<1>9. Steady BY <1>1, <1>5, <1>2, <1>3, <1>4, <1>7 DEF ContextsSound, Derived, EndsBy, Steady
<1>10. HoldsSound'
  <2>1. ASSUME NEW g \in DispatchRequests PROVE HoldSound(g)'
    <3>1. HoldSound(g) BY <1>1 DEF HoldsSound
    <3>2. ~Waiting(g)' BY <1>7 DEF Waiting
    <3>3. releases'[g] = releases[g] /\ request'[g] = request[g] /\ lost' = lost BY <1>2
    <3>4. CASE Waiting(g)
      <4> DEFINE release == <<now, "release", g>>
      <4>1. release \in timers' /\ release \in returns BY <1>2, <1>6, <3>4
      <4>2. release[2] = "release" /\ release[3] = g BY <1>6
      <4>3. \A x \in returns : x[3] = g => x = release BY <1>6
      <4> HIDE DEF release
      <4>4. releases[g] = 0 /\ ReleaseTimers(g) = {} /\ request[g] \in {"held", "over"}
        BY <3>1, <3>4 DEF HoldSound, Unheld
      <4>5. ReleaseTimers(g)' = {release}
        BY <1>2, <1>4, <4>1, <4>2, <4>3, <4>4 DEF ReleaseTimers
      <4> QED BY <3>2, <3>3, <4>1, <4>4, <4>5 DEF HoldSound, Unheld
    <3>5. CASE ~Waiting(g)
        BY <1>6, <3>5, <1>2, <1>4, <3>3, <1>1, <3>2, OneHoldStays DEF ReleaseTimers
    <3> QED BY <3>4, <3>5
  <2> QED BY <2>1 DEF HoldsSound
<1>11. LeasesBounded' BY <1>7 DEF LeasesBounded
<1> QED BY <1>2, <1>7, <1>8, <1>9, <1>10, <1>11, WorkKeeps

\* A root that pays for a lease, or only learns its instance.
LEMMA PaidRoots ==
    ASSUME DispatchTyped, NEW g \in DOMAIN roots, NEW instance \in Nat,
           \/ roots' = [roots EXCEPT ![g].instance = instance]
           \/ roots' = [roots EXCEPT ![g].instance = instance, ![g].remaining = @ - 1]
    PROVE  /\ roots' \in [DOMAIN roots -> Root]
           /\ \A h \in DOMAIN roots : /\ roots'[h].expires = roots[h].expires
                                      /\ roots'[h].cancelled = roots[h].cancelled
                                      /\ roots'[h].release = roots[h].release
BY DEF DispatchTyped, Root

\* The leases that have ended by the time of an admission are swept away, with their
\* contexts cancelled.
LEMMA SweptLeases ==
    ASSUME DispatchInv, NEW at \in Nat, at <= now, NEW ended, NEW kept,
           ended = {l \in DOMAIN leases : at >= leases[l].expires},
           kept = [l \in DOMAIN leases \ ended |-> leases[l]],
           cancelled' = cancelled \cup {LeaseContext(l) : l \in ended}
    PROVE  /\ DOMAIN kept \subseteq DOMAIN leases /\ kept \in [DOMAIN kept -> Lease]
           /\ \A l \in DOMAIN kept : kept[l] = leases[l]
           /\ \A l \in DOMAIN leases : at < leases[l].expires => l \in DOMAIN kept
           /\ \A l \in DOMAIN leases \ DOMAIN kept :
                 leases[l].expires <= now /\ LeaseContext(l) \in cancelled'
           /\ cancelled \subseteq cancelled'
BY DEF DispatchInv, DispatchTyped, Lease

\* An admission that begins no lease: ended leases may have been swept away.
LEMMA RefusedKeeps ==
    ASSUME DispatchInv, NEW c \in Callers, calls' = [calls EXCEPT ![c] = NoCall],
           UNCHANGED <<contexts, timers, request, releases, lost, now>>,
           roots' \in [DOMAIN roots -> Root],
           \A h \in DOMAIN roots : /\ roots'[h].expires = roots[h].expires
                                   /\ roots'[h].cancelled = roots[h].cancelled
                                   /\ roots'[h].release = roots[h].release,
           DOMAIN leases' \subseteq DOMAIN leases, leases' \in [DOMAIN leases' -> Lease],
           \A l \in DOMAIN leases' : leases'[l] = leases[l],
           \A l \in DOMAIN leases \ DOMAIN leases' :
               leases[l].expires <= now /\ LeaseContext(l) \in cancelled',
           cancelled \subseteq cancelled'
    PROVE  DispatchInv'
<1>1. DispatchTyped /\ LeasesBounded /\ ContextsSound BY DEF DispatchInv
<1>2. DOMAIN roots' = DOMAIN roots /\ now' = now /\ now \in Nat BY <1>1 DEF DispatchTyped
<1>3. /\ calls' \in [Callers -> Call]
      /\ \A d \in Callers :
            \/ calls'[d] = calls[d]
            \/ /\ calls'[d].op = "admit" => calls'[d].at <= now'
               /\ calls'[d].op # "running" BY StageOfCall DEF NoCall, Call
<1>4. DispatchTyped' BY <1>1, <1>2, <1>3 DEF DispatchTyped
<1>5. Steady BY <1>1, <1>2 DEF ContextsSound, Derived, EndsBy, Steady
<1>6. HoldsSound' BY <1>2, CallKeepsHolds
<1>7. ASSUME NEW l \in DOMAIN leases' PROVE Bounded(l)'
  BY <1>1, <1>2, <1>5, BoundsStay
<1>8. LeasesBounded' BY <1>7 DEF LeasesBounded
<1> QED BY <1>2, <1>3, <1>4, <1>5, <1>6, <1>8, WorkKeeps

\* A lease is admitted: it takes a number of its own, ends no later than its root and the
\* lease above it, and its context derives from theirs.
LEMMA AdmittedKeeps ==
    ASSUME DispatchInv, NEW c \in Callers, calls' = [calls EXCEPT ![c] = NoCall],
           UNCHANGED <<timers, request, releases, lost, now>>,
           roots' \in [DOMAIN roots -> Root],
           \A h \in DOMAIN roots : /\ roots'[h].expires = roots[h].expires
                                   /\ roots'[h].cancelled = roots[h].cancelled
                                   /\ roots'[h].release = roots[h].release,
           NEW kept, DOMAIN kept \subseteq DOMAIN leases, kept \in [DOMAIN kept -> Lease],
           \A l \in DOMAIN kept : kept[l] = leases[l],
           \A l \in DOMAIN leases \ DOMAIN kept :
               leases[l].expires <= now /\ LeaseContext(l) \in cancelled',
           cancelled \subseteq cancelled',
           NEW g \in DOMAIN roots, NEW p \in Nat, NEW lease \in Lease, NEW new, NEW context,
           lease.root = g, lease.parent = p, lease.expires <= roots[g].expires,
           p # 0 => /\ p \in DOMAIN kept /\ leases[p].root = g
                    /\ lease.expires <= leases[p].expires,
           new = 1 + Cardinality(LeaseContexts),
           context.line = {LeaseContext(new)} \cup
               contexts[IF p = 0 THEN RootContext(g) ELSE LeaseContext(p)].line,
           leases' = Put(kept, new, lease),
           contexts' = Put(contexts, LeaseContext(new), context)
    PROVE  DispatchInv'
<1> DEFINE above == IF p = 0 THEN RootContext(g) ELSE LeaseContext(p)
           n == Cardinality(LeaseContexts)
<1>1. /\ DispatchTyped /\ RootsFresh /\ NumbersSound /\ ContextsSound /\ LeasesBounded
      /\ RootsCancelled /\ CallsSound
  BY DEF DispatchInv
<1>2. /\ DOMAIN roots' = DOMAIN roots /\ now' = now /\ now \in Nat /\ timers \subseteq Timer
      /\ DOMAIN leases \subseteq Nat \ {0} /\ DOMAIN roots \subseteq DispatchRequests
      /\ DOMAIN contexts \subseteq AnyContext /\ leases \in [DOMAIN leases -> Lease]
  BY <1>1 DEF DispatchTyped
<1>3. IsFiniteSet(LeaseContexts) /\ n \in Nat /\ LeaseContexts = {LeaseContext(i) : i \in 1..n}
  BY <1>1, FS_CardinalityType DEF NumbersSound
<1>4. new = n + 1 /\ new \in Nat \ {0} BY <1>3
<1> HIDE DEF n
<1>5. LeaseContext(new) \notin LeaseContexts BY <1>3, <1>4, ContextNames
<1>6. LeaseContext(new) \notin DOMAIN contexts BY <1>5, ContextNames DEF LeaseContexts
<1>7. new \notin DOMAIN leases BY <1>1, <1>6 DEF ContextsSound, Derived
<1>8. \A l \in DOMAIN leases : leases[l].parent # new
  BY <1>1, <1>4, <1>6 DEF ContextsSound, Derived
<1>9. /\ DOMAIN contexts' = DOMAIN contexts \cup {LeaseContext(new)}
      /\ contexts'[LeaseContext(new)] = context
      /\ \A x \in DOMAIN contexts : x \in DOMAIN contexts' /\ contexts'[x] = contexts[x]
  BY <1>6 DEF Put
<1>10. /\ DOMAIN leases' = DOMAIN kept \cup {new} /\ leases'[new] = lease
       /\ \A l \in DOMAIN kept : l \in DOMAIN leases' /\ leases'[l] = leases[l]
       /\ leases' \in [DOMAIN leases' -> Lease] BY <1>7, <1>2 DEF Put
<1>11. /\ LeaseContext(new) \in context.line /\ above \in DOMAIN contexts
       /\ contexts[above].line \subseteq context.line /\ RootContext(g) \in contexts[above].line
       /\ RootContext(g) \in DOMAIN contexts BY <1>1 DEF ContextsSound, Derived
<1>12. /\ calls' \in [Callers -> Call]
       /\ \A d \in Callers :
             \/ calls'[d] = calls[d]
             \/ /\ calls'[d].op = "admit" => calls'[d].at <= now'
                /\ calls'[d].op # "running" BY StageOfCall DEF NoCall, Call
<1>13. DispatchTyped' BY <1>4, <1>2, <1>9, <1>10, <1>1, <1>12 DEF AnyContext, DispatchTyped
<1>14. Steady BY <1>1, <1>2, <1>9, <1>10 DEF ContextsSound, Derived, EndsBy, Steady
<1>15. HoldsSound' BY <1>2, CallKeepsHolds
<1>16. RootsFresh' BY <1>9, ContextNames, <1>1, <1>2 DEF RootsFresh, RootContext
<1>17. NumbersSound'
  <2>1. LeaseContexts' = LeaseContexts \cup {LeaseContext(new)}
    <3>1. LeaseContext(new)[1] = "lease" BY ContextNames
    <3>2. DOMAIN contexts' = DOMAIN contexts \cup {LeaseContext(new)} BY <1>9
    <3>3. LeaseContexts' = {x \in DOMAIN contexts' : x[1] = "lease"} BY DEF LeaseContexts
    <3> QED BY <3>1, <3>2, <3>3 DEF LeaseContexts
  <2>2. IsFiniteSet(LeaseContexts)' /\ Cardinality(LeaseContexts)' = n + 1
    BY <1>3, <1>5, <2>1, FS_AddElement DEF n
  <2>3. LeaseContexts' = {LeaseContext(i) : i \in 1..(n + 1)} BY <1>3, <1>4, <2>1
  <2> QED BY <2>2, <2>3 DEF NumbersSound, LeaseContext
<1>18. ContextsSound'
  <2>1. \A x \in DOMAIN contexts' : x \in contexts'[x].line
    BY <1>1, <1>9, <1>11 DEF ContextsSound
  <2>2. \A h \in DOMAIN roots' : RootContext(h) \in DOMAIN contexts'
    BY <1>1, <1>2, <1>9 DEF ContextsSound
  <2>3. ASSUME NEW l \in DOMAIN kept PROVE Derived(l)'
    <3> DEFINE q == leases[l].parent
               h == leases[l].root
    <3>1. Derived(l) /\ leases'[l] = leases[l] BY <1>1, <1>10 DEF ContextsSound
    <3>2. /\ LeaseContext(l) \in DOMAIN contexts' /\ RootContext(h) \in DOMAIN contexts'
          /\ RootContext(h) \in contexts'[LeaseContext(l)].line
      BY <1>9, <3>1 DEF Derived
    <3>3. ASSUME q # 0
          PROVE  /\ LeaseContext(q) \in DOMAIN contexts'
                 /\ contexts'[LeaseContext(q)].line \subseteq contexts'[LeaseContext(l)].line
      BY <1>9, <3>1, <3>3 DEF Derived
    <3>4. ASSUME q # 0, q \in DOMAIN leases' PROVE leases'[q].root = h
        BY <1>8, <1>10, <3>4, <3>1 DEF Derived
    <3> QED BY <3>1, <3>2, <3>3, <3>4 DEF Derived, RootContext, LeaseContext
  <2>4. Derived(new)' BY <1>9, <1>11, <1>10 DEF Derived, RootContext, LeaseContext
  <2>5. \A l \in DOMAIN leases' : Derived(l)' BY <1>10, <2>3, <2>4
  <2> QED BY <2>1, <2>2, <2>5 DEF ContextsSound, RootContext
<1>19. LeasesBounded'
    BY <1>2, <1>7, <1>8, <1>10, <1>1, <1>14, BoundsStay, <1>4 DEF Bounded, LeasesBounded
<1>20. RootsCancelled' BY <1>1, <1>2, <1>14, RootsStay
<1>21. CallsSound' BY <1>1, <1>14, CallsStay, <1>12 DEF EffectSound, CallsSound
<1> QED BY <1>13, <1>15, <1>16, <1>17, <1>18, <1>19, <1>20, <1>21 DEF DispatchInv

\* The locked section of an acquisition, with each of its outcomes.
LEMMA AcquireKeeps ==
    ASSUME DispatchInv, NEW c \in Callers, AcquireResolvedDispatch(c) PROVE DispatchInv'
<1> DEFINE j == calls[c]
           g == j.root
           p == j.parent
           instance == IF j.depth = 0 THEN j.instance ELSE roots[g].instance
           ended == {l \in DOMAIN leases : j.at >= leases[l].expires}
           kept == [l \in DOMAIN leases \ ended |-> leases[l]]
           new == 1 + Cardinality(LeaseContexts)
           above == IF p = 0 THEN RootContext(g) ELSE LeaseContext(p)
           times == IF p = 0 THEN {} ELSE {leases[p].expires}
           deadline == Min({j.at + RootTime, roots[g].expires} \cup times)
           lease == [root |-> g, parent |-> p, depth |-> j.depth, expires |-> deadline,
                     finished |-> FALSE, remaining |-> Budget]
           context == [line |-> {LeaseContext(new)} \cup UNION {contexts[x].line : x \in {above}},
                       deadline |-> Min({deadline} \cup {contexts[x].deadline : x \in {above}})]
           parentHolds == p # 0 => /\ p \in DOMAIN leases /\ j.at < leases[p].expires
                                   /\ leases[p].root = g
           rootPays == \/ roots' = [roots EXCEPT ![g].instance = instance]
                       \/ roots' = [roots EXCEPT ![g].instance = instance, ![g].remaining = @ - 1]
<1>1. DispatchTyped /\ CallsSound BY DEF DispatchInv
<1>2. /\ j.op = "admit" /\ calls' = [calls EXCEPT ![c] = NoCall]
      /\ UNCHANGED <<timers, request, releases, lost, now>>
  BY DEF AcquireResolvedDispatch, ToStage, CallFrame, gatewayVars
<1>3. \/ UNCHANGED <<roots, leases, contexts, cancelled>>
      \/ /\ g \in DOMAIN roots /\ roots' = [roots EXCEPT ![g].instance = instance]
         /\ UNCHANGED <<leases, contexts, cancelled>>
      \/ /\ parentHolds /\ g \in DOMAIN roots
         /\ roots' = [roots EXCEPT ![g].instance = instance, ![g].remaining = @ - 1]
         /\ cancelled' = cancelled \cup {LeaseContext(l) : l \in ended}
         /\ \/ leases' = kept /\ contexts' = contexts
            \/ /\ leases' = Put(kept, new, lease)
               /\ contexts' = Put(contexts, LeaseContext(new), context)
  BY DEF AcquireResolvedDispatch, WithDeadline, LeaseContexts
<1>4. j \in Admission BY <1>1, <1>2 DEF DispatchTyped, Call, Uses
<1>5. /\ g \in DispatchRequests /\ p \in Nat /\ j.depth \in Nat /\ j.instance \in Nat
      /\ j.at \in Nat /\ j.at <= now /\ now \in Nat
  BY <1>1, <1>2, <1>4 DEF Admission, CallsSound, DispatchTyped
<1>6. /\ roots \in [DOMAIN roots -> Root] /\ leases \in [DOMAIN leases -> Lease]
  BY <1>1 DEF DispatchTyped
<1>7. g \in DOMAIN roots => instance \in Nat /\ roots[g].expires \in Nat BY <1>5, <1>6 DEF Root
<1> HIDE DEF j, instance
<1>8. ASSUME g \in DOMAIN roots, rootPays
      PROVE  /\ roots' \in [DOMAIN roots -> Root]
             /\ \A h \in DOMAIN roots : /\ roots'[h].expires = roots[h].expires
                                        /\ roots'[h].cancelled = roots[h].cancelled
                                        /\ roots'[h].release = roots[h].release
  BY <1>1, <1>7, <1>8, PaidRoots
<1>9. CASE UNCHANGED <<roots, leases, contexts, cancelled>>
  BY <1>2, <1>6, <1>9, RefusedKeeps
<1>10. CASE /\ g \in DOMAIN roots /\ roots' = [roots EXCEPT ![g].instance = instance]
            /\ UNCHANGED <<leases, contexts, cancelled>>
  BY <1>2, <1>6, <1>8, <1>10, RefusedKeeps
<1>11. CASE /\ parentHolds /\ g \in DOMAIN roots
            /\ roots' = [roots EXCEPT ![g].instance = instance, ![g].remaining = @ - 1]
            /\ cancelled' = cancelled \cup {LeaseContext(l) : l \in ended}
            /\ \/ leases' = kept /\ contexts' = contexts
               \/ /\ leases' = Put(kept, new, lease)
                  /\ contexts' = Put(contexts, LeaseContext(new), context)
  <2>1. /\ DOMAIN kept \subseteq DOMAIN leases /\ kept \in [DOMAIN kept -> Lease]
        /\ \A l \in DOMAIN kept : kept[l] = leases[l]
        /\ \A l \in DOMAIN leases : j.at < leases[l].expires => l \in DOMAIN kept
        /\ \A l \in DOMAIN leases \ DOMAIN kept :
              leases[l].expires <= now /\ LeaseContext(l) \in cancelled'
        /\ cancelled \subseteq cancelled'
    BY <1>5, <1>11, SweptLeases
  <2>2. /\ roots' \in [DOMAIN roots -> Root]
        /\ \A h \in DOMAIN roots : /\ roots'[h].expires = roots[h].expires
                                   /\ roots'[h].cancelled = roots[h].cancelled
                                   /\ roots'[h].release = roots[h].release
    BY <1>8, <1>11
  <2>3. /\ deadline \in Nat /\ deadline <= roots[g].expires
        /\ p # 0 => deadline <= leases[p].expires
    <3>1. j.at + RootTime \in Nat BY <1>5, DispatchAssumption
    <3>2. roots[g].expires \in Nat BY <1>7, <1>11
    <3>3. p # 0 => leases[p].expires \in Nat BY <1>6, <1>11 DEF Lease
    <3>4. times \subseteq Nat /\ (times = {} \/ \E y \in Nat : times = {y}) BY <3>3
    <3>5. p # 0 => leases[p].expires \in times OBVIOUS
    <3> HIDE DEF times
    <3> QED BY <3>1, <3>2, <3>4, <3>5, MinOfThree
  <2>4. /\ lease \in Lease /\ lease.root = g /\ lease.parent = p /\ lease.expires = deadline
      BY <1>5, <2>3, DispatchAssumption DEF Lease
  <2>5. p # 0 => p \in DOMAIN kept /\ leases[p].root = g BY <1>11, <2>1
  <2>6. context.line = {LeaseContext(new)} \cup contexts[above].line OBVIOUS
  <2>7. UNCHANGED <<timers, request, releases, lost, now>> BY <1>2
  <2> HIDE DEF kept, deadline, lease, context, ended, new
  <2>8. CASE leases' = kept /\ contexts' = contexts
    BY <1>2, <2>1, <2>2, <2>8, RefusedKeeps
  <2>9. CASE leases' = Put(kept, new, lease) /\ contexts' = Put(contexts, LeaseContext(new), context)
    <3>1. new = 1 + Cardinality(LeaseContexts) BY DEF new
    <3>2. lease.expires <= roots[g].expires /\ (p # 0 => lease.expires <= leases[p].expires)
      BY <2>3, <2>4
    <3>3. g \in DOMAIN roots BY <1>11
    <3> HIDE DEF g, p
    <3> QED BY <1>2, <1>5, <2>1, <2>2, <2>4, <2>5, <2>6, <2>7, <2>9, <3>1, <3>2, <3>3, AdmittedKeeps
  <2> QED BY <1>11, <2>8, <2>9
<1> HIDE DEF kept, deadline, lease, context, ended, new, parentHolds
<1> QED BY <1>3, <1>9, <1>10, <1>11

-----------------------------------------------------------------------------
(* The invariant is inductive, and what it says.                           *)

\* A process starts with nothing, or serves one request whose worker has a lease.
LEMMA DispatchStarts == DispatchStart => DispatchInv
<1>1. ASSUME NEW n \in Nat, DispatchInit(n) PROVE DispatchInv
  <2>1. /\ DOMAIN roots = {} /\ DOMAIN leases = {} /\ DOMAIN contexts = {}
        /\ roots \in [DOMAIN roots -> Root] /\ leases \in [DOMAIN leases -> Lease]
        /\ timers = {} /\ now = 0
        /\ \A c \in Callers : calls[c] = NoCall
    BY <1>1 DEF DispatchInit, None
  <2>2. NoCall \in Call /\ NoCall.op = "idle" BY DEF NoCall, Call
  <2>3. DispatchTyped BY <1>1, <2>1, <2>2 DEF DispatchInit, DispatchTyped, Stages
  <2>4. HoldsSound
    BY <1>1, <2>1 DEF DispatchInit, HoldsSound, HoldSound, Unheld, Waiting, ReleaseTimers
  <2>5. RootsFresh /\ ContextsSound /\ LeasesBounded /\ RootsCancelled
    BY <2>1 DEF RootsFresh, ContextsSound, LeasesBounded, RootsCancelled
  <2>6. NumbersSound BY <2>1, FS_EmptySet DEF LeaseContexts, NumbersSound
  <2>7. CallsSound BY <2>1, <2>2 DEF CallsSound, EffectSound
  <2> QED BY <2>3, <2>4, <2>5, <2>6, <2>7 DEF DispatchInv
<1>2. ASSUME NEW n \in Nat, NEW g \in DispatchRequests, NEW uses \in Nat,
             DispatchServing(g, n, uses)
      PROVE  DispatchInv
  <2> DEFINE root == [expires |-> RootTime, finished |-> FALSE, cancelled |-> FALSE, instance |-> 1,
                      remaining |-> Budget - 1, release |-> TRUE]
             lease == [root |-> g, parent |-> 0, depth |-> 0, expires |-> RootTime,
                       finished |-> FALSE, remaining |-> Budget]
  <2>1. /\ roots = Put(None, g, root) /\ leases = Put(None, 1, lease)
        /\ contexts = [x \in {RootContext(g), LeaseContext(1)} |->
                          [line |-> {RootContext(g), x}, deadline |-> RootTime]]
        /\ cancelled = {} /\ timers = {} /\ lost = {} /\ now = 0
        /\ request = [x \in DispatchRequests |-> IF x = g THEN "held" ELSE "unserved"]
        /\ releases = [x \in DispatchRequests |-> 0]
        /\ calls = [c \in Callers |-> NoCall]
    BY <1>2 DEF DispatchServing
  <2>2. root \in Root /\ root.expires = RootTime /\ root.cancelled = FALSE /\ root.release = TRUE
    BY DispatchAssumption DEF Root
  <2>3. lease \in Lease /\ lease.root = g /\ lease.parent = 0 /\ lease.expires = RootTime
    BY DispatchAssumption DEF Lease
  <2> HIDE DEF root, lease
  <2>4. /\ DOMAIN roots = {g} /\ roots[g] = root /\ roots \in [DOMAIN roots -> Root]
        /\ DOMAIN leases = {1} /\ leases[1] = lease /\ leases \in [DOMAIN leases -> Lease]
    BY <2>1, <2>2, <2>3 DEF Put, None
  <2>5. /\ DOMAIN contexts = {RootContext(g), LeaseContext(1)}
        /\ \A x \in DOMAIN contexts : contexts[x].line = {RootContext(g), x}
    BY <2>1
  <2>6. NoCall \in Call /\ NoCall.op = "idle" /\ \A c \in Callers : calls[c] = NoCall
    BY <2>1 DEF NoCall, Call
  <2>7. DispatchTyped BY <2>5, <2>4, <2>1, <2>6 DEF AnyContext, Stages, DispatchTyped
  <2>8. HoldsSound BY <2>1, <2>2, <2>4 DEF ReleaseTimers, Waiting, HoldsSound, HoldSound, Unheld
  <2>9. RootsFresh BY <2>1 DEF RootsFresh
  <2>10. NumbersSound
    <3>1. LeaseContexts = {LeaseContext(1)} BY <2>5, ContextNames DEF LeaseContexts
    <3>2. IsFiniteSet(LeaseContexts) /\ Cardinality(LeaseContexts) = 1 BY <3>1, FS_Singleton
    <3>3. {LeaseContext(i) : i \in 1..1} = {LeaseContext(1)} OBVIOUS
    <3> QED BY <3>1, <3>2, <3>3 DEF NumbersSound
  <2>11. ContextsSound BY <2>3, <2>4, <2>5 DEF ContextsSound, Derived
  <2>12. LeasesBounded BY <2>2, <2>3, <2>4, DispatchAssumption DEF LeasesBounded, Bounded
  <2>13. RootsCancelled BY <2>2, <2>4 DEF RootsCancelled
  <2>14. CallsSound BY <2>6 DEF CallsSound, EffectSound
  <2> QED BY <2>7, <2>8, <2>9, <2>10, <2>11, <2>12, <2>13, <2>14 DEF DispatchInv
<1> QED BY <1>1, <1>2 DEF DispatchStart

\* Every step keeps the invariant.
LEMMA DispatchSteps == DispatchInv /\ [DispatchNext]_dispatchVars => DispatchInv'
<1> SUFFICES ASSUME DispatchInv, [DispatchNext]_dispatchVars PROVE DispatchInv' OBVIOUS
<1>1. ASSUME NEW g \in DispatchRequests,
             BeginRequest(g) \/ EnsureWorker(g) \/ ClientLeaves(g) \/ AfterFunc(g)
      PROVE  DispatchInv'
  BY <1>1, RequestStepsKeep
<1>2. ASSUME NEW g \in DispatchRequests, BeginDispatchRoot(g) PROVE DispatchInv'
  BY <1>2, BeginKeeps
<1>3. ASSUME NEW g \in DispatchRequests, HoldDispatchRoot(g) PROVE DispatchInv'
  BY <1>3, HoldKeeps
<1>4. ASSUME NEW g \in DispatchRequests, AfterFuncEnds(g) \/ RequestEnds(g) PROVE DispatchInv'
  BY <1>4, EndsKeep
<1>5. ASSUME NEW timer \in timers, Fire(timer) PROVE DispatchInv' BY <1>5, FireKeeps
<1>6. CASE Tick \/ \E on \in BOOLEAN : SetPlatformDispatchEnabled(on)
  BY <1>6, SwitchAndClockKeep
<1>7. CASE DisableClears BY <1>7, DisableKeeps
<1>8. ASSUME NEW c \in Callers,
             \/ \E g \in DispatchRequests, instance \in {1, 2} :
                   AcquireDispatchWithRoot(c, g, instance)
             \/ \E l \in LeaseIDs, use \in Uses : UseLease(c, l, use)
      PROVE  DispatchInv'
  BY <1>8, CallsBegin
<1>9. ASSUME NEW c \in Callers, AuthorizeInvocation(c) PROVE DispatchInv'
  BY <1>9, AuthorizeKeeps
<1>10. ASSUME NEW c \in Callers, AcquireServiceDispatch(c) PROVE DispatchInv'
  BY <1>10, AcquireServiceKeeps
<1>11. ASSUME NEW c \in Callers, AcquireResolvedDispatch(c) PROVE DispatchInv'
  BY <1>11, AcquireKeeps
<1>12. ASSUME NEW c \in Callers, NEW cost \in {1, Budget}, DispatchEffect(c, cost)
       PROVE  DispatchInv'
  BY <1>12, DispatchEffectKeeps
<1>13. ASSUME NEW c \in Callers, DispatchEffectContext(c) \/ EffectReturns(c) PROVE DispatchInv'
  BY <1>13, EffectStepsKeep
<1>14. ASSUME NEW c \in Callers, NEW cancel \in BOOLEAN, FinishDispatch(c, cancel)
       PROVE  DispatchInv'
  BY <1>14, FinishKeeps, CancelledFinishKeeps
<1>15. CASE UNCHANGED dispatchVars
    BY <1>15, QuietKeeps DEF dispatchVars, rootVars, gatewayVars, DispatchInv, DispatchTyped
<1> QED BY <1>1, <1>2, <1>3, <1>4, <1>5, <1>6, <1>7, <1>8, <1>9, <1>10, <1>11, <1>12, <1>13,
           <1>14, <1>15 DEF DispatchNext, Uses

\* The invariant holds of every behaviour: whichever way a root or a lease ends, the work
\* under it is bounded or about to be cancelled, and each hold is in one place.
THEOREM DispatchInductive == DispatchSpec => []DispatchInv
BY DispatchStarts, DispatchSteps, PTL DEF DispatchSpec

\* Work done under a lease stays inside the request it belongs to.
THEOREM LeasesProved == DispatchSpec => []InvocationsBounded
<1>1. DispatchInv => InvocationsBounded
  <2> SUFFICES ASSUME DispatchInv PROVE InvocationsBounded OBVIOUS
  <2>1. DispatchTyped /\ ContextsSound /\ LeasesBounded /\ RootsCancelled /\ CallsSound
    BY DEF DispatchInv
  <2>2. now \in Nat /\ leases \in [DOMAIN leases -> Lease] /\ timers \subseteq Timer
    BY <2>1 DEF DispatchTyped
  <2>3. \A l \in DOMAIN leases :
          /\ IF leases[l].root \in DOMAIN roots
             THEN leases[l].expires <= roots[leases[l].root].expires
             ELSE leases[l].expires <= now
          /\ leases[l].parent # 0 =>
                IF leases[l].parent \in DOMAIN leases
                THEN leases[l].expires <= leases[leases[l].parent].expires
                ELSE leases[l].expires <= now
    BY <2>1 DEF LeasesBounded, Bounded
  <2>4. ASSUME NEW c \in Callers, calls[c].op = "running", now < calls[c].deadline,
               ~ContextDone(LeaseContext(calls[c].lease))
        PROVE  LET l == calls[c].lease
                   x == LeaseContext(l)
               IN  \/ /\ l \in DOMAIN leases /\ now < leases[l].expires
                      /\ ~roots[leases[l].root].cancelled
                   \/ \E timer \in timers :
                         timer[1] <= now /\ timer[2] = "cancel" /\ timer[3] \in contexts[x].line
    <3> DEFINE l == calls[c].lease
               line == contexts[LeaseContext(l)].line
               due == \E timer \in timers : timer[1] <= now /\ timer[2] = "cancel" /\ timer[3] \in line
    <3>1. line \cap cancelled = {} BY <2>4 DEF ContextDone
    <3>2. EndsBy(cancelled, timers, line, now) => due BY <3>1 DEF EndsBy
    <3>3. EffectSound(calls[c]) /\ calls[c] \in Call BY <2>1 DEF CallsSound, DispatchTyped
    <3>4. calls[c].deadline \in Nat BY <2>4, <3>3 DEF Call, Admission, Uses
    <3>5. \/ /\ l \in DOMAIN leases
             /\ \/ calls[c].deadline <= leases[l].expires
                \/ EndsBy(cancelled, timers, line, leases[l].expires)
          \/ EndsBy(cancelled, timers, line, now)
      BY <2>4, <3>3 DEF EffectSound
    <3>6. l \in DOMAIN leases => leases[l].expires \in Nat BY <2>2 DEF Lease
    <3>7. CASE l \in DOMAIN leases /\ now < leases[l].expires
        BY <2>1, <2>2, <3>6, <3>7, <3>1 DEF LeasesBounded, Bounded, ContextsSound, Derived,
           RootsCancelled, EndsBy
    <3>8. CASE l \in DOMAIN leases /\ ~(now < leases[l].expires)
      <4>1. ~(calls[c].deadline <= leases[l].expires) BY <2>2, <2>4, <3>4, <3>6, <3>8
      <4>2. leases[l].expires <= now BY <2>2, <3>6, <3>8
      <4>3. EndsBy(cancelled, timers, line, leases[l].expires) => due
          BY <2>2, TimerKinds, <3>6, <3>8, <4>2, <3>1 DEF EndsBy
      <4> QED BY <3>2, <3>5, <4>1, <4>3
    <3>9. CASE l \notin DOMAIN leases BY <3>2, <3>5, <3>9
    <3> QED BY <3>7, <3>8, <3>9
  <2> QED BY <2>3, <2>4 DEF InvocationsBounded
<1> QED BY <1>1, DispatchInductive, PTL

\* The endpoint a request took from the runner is given back once.
THEOREM HoldsProved == DispatchSpec => []HoldsReturned
<1>1. DispatchInv => HoldsReturned
  <2> SUFFICES ASSUME DispatchInv, NEW g \in DispatchRequests
               PROVE  LET scheduled == Cardinality(ReleaseTimers(g))
                      IN  /\ releases[g] + scheduled + (IF Waiting(g) THEN 1 ELSE 0) <= 1
                          /\ request[g] \in {"held", "over"} =>
                                releases[g] + scheduled > 0 \/ Waiting(g) \/ g \in lost
                          /\ request[g] = "over" => ~Waiting(g)
    BY DEF HoldsReturned, ReleaseTimers, Waiting
  <2>1. HoldSound(g) BY DEF DispatchInv, HoldsSound
  <2>2. CASE releases[g] = 0 /\ ReleaseTimers(g) = {}
      BY <2>2, FS_EmptySet, <2>1 DEF HoldSound, Unheld
  <2>3. CASE releases[g] = 0 /\ ~Waiting(g) /\ \E x \in timers : ReleaseTimers(g) = {x}
    <3>1. Cardinality(ReleaseTimers(g)) = 1 BY <2>3, FS_Singleton
    <3> QED BY <2>3, <3>1
  <2>4. CASE releases[g] = 1 /\ ~Waiting(g) /\ ReleaseTimers(g) = {} BY <2>4, FS_EmptySet
  <2> QED BY <2>1, <2>2, <2>3, <2>4 DEF HoldSound
<1> QED BY <1>1, DispatchInductive, PTL
=============================================================================
