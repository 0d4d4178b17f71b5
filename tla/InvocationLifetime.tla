------------------------- MODULE InvocationLifetime -------------------------
(***************************************************************************)
(* The life of an invocation: its admission and pin at the control plane,  *)
(* its record and root lifetime in the dynamic manager's broker            *)
(* (internal/runtime/dynamic_manager.go), and the wrapper generated around *)
(* user code that acknowledges start and completion by epoch               *)
(* (internal/config/invocation_loader.go).                                 *)
(*                                                                         *)
(* An admission number names the invocation, its token and its pin.  Every *)
(* broker handler runs under DynamicManager.mu and is one step; a wrapper  *)
(* repeats a notification until it is answered, so its answer may be lost  *)
(* and copies of it may arrive late.                                       *)
(***************************************************************************)
EXTENDS Naturals, FiniteSets

CONSTANTS
    MaxAdmissions,      \* bound on admissions
    MaxEpoch,           \* bound on method calls of one returned capability
    MaxInvocationFaults \* bound on lost answers, failed calls and process exits

ASSUME InvocationAssumption ==
    MaxAdmissions \in Nat /\ MaxEpoch \in Nat \ {0} /\ MaxInvocationFaults \in Nat

Admissions == 1..MaxAdmissions

VARIABLES
    inv,        \* DynamicManager.invocations; root is the admission that opened the root
    root,       \* dynamicLifetime of the roots: responseDone and pending
    queue,      \* DynamicManager.pendingReleases
    wrapper,    \* the wrapper of every admission inside the process
    pinned,     \* pins the control plane holds
    refused,    \* admission ids it will refuse: released, or below the watermark
    late,       \* admit requests still under way after the manager gave up on them
    admitted,   \* DynamicManager.nextAdmission
    revoked,    \* history: admissions an abandon completed before they started
    upsets      \* faults so far

invocationVars == <<inv, root, queue, wrapper, pinned, refused, late, admitted, revoked, upsets>>

NoInvocation == [live |-> FALSE, root |-> 0, started |-> FALSE, complete |-> FALSE, epoch |-> 0]

InvocationInit ==
    /\ inv = [n \in Admissions |-> NoInvocation]
    /\ root = [n \in Admissions |-> [open |-> FALSE, responseDone |-> FALSE, pending |-> 0]]
    /\ wrapper = [n \in Admissions |-> [st |-> "none", epoch |-> 0]]
    /\ queue = {} /\ pinned = {} /\ refused = {} /\ late = {} /\ revoked = {} /\ admitted = 0 /\ upsets = 0

Upset == upsets < MaxInvocationFaults /\ upsets' = upsets + 1

-----------------------------------------------------------------------------
(* Admission: admitLocked for Ensure, a service call or a named export.    *)

\* The admission succeeds, or its outcome is unknown and its pin is queued for release.
Admit(r) ==
    /\ admitted < MaxAdmissions
    /\ admitted' = admitted + 1 /\ UNCHANGED revoked
    /\ LET n == admitted + 1
           into == IF r = 0 THEN n ELSE r IN
       \/ /\ pinned' = pinned \cup {n}
          /\ inv' = [inv EXCEPT ![n] = [NoInvocation EXCEPT !.live = TRUE, !.root = into]]
          /\ root' = [root EXCEPT ![into].open = TRUE, ![into].pending = @ + 1]
          /\ wrapper' = [wrapper EXCEPT ![n].st = "new"]
          /\ UNCHANGED <<queue, refused, late, upsets>>
       \/ /\ Upset
          /\ queue' = queue \cup {n}
          /\ late' = late \cup {n}
          /\ UNCHANGED <<inv, root, wrapper, pinned, refused>>

\* A request for a published Worker.
AdmitRequest == Admit(0)

\* User code calls a bound service or one of its own named exports.
CallService(caller) ==
    /\ wrapper[caller].st = "running"
    /\ inv[caller].live /\ inv[caller].started
    /\ Admit(inv[caller].root)

\* The request reaches the control plane after the manager has given up on it.
LateAdmit(n) ==
    /\ n \in late
    /\ late' = late \ {n}
    /\ pinned' = IF n \in refused THEN pinned ELSE pinned \cup {n}
    /\ UNCHANGED <<inv, root, queue, wrapper, refused, admitted, revoked, upsets>>

-----------------------------------------------------------------------------
(* Broker: lifetimes of a root.                                            *)

\* finishLocked: a root ends with its response and the last of its work.
Ended(r, i, ro) ==
    IF ro[r].responseDone /\ ro[r].pending = 0
    THEN {n \in Admissions : i[n].live /\ i[n].root = r} ELSE {}

\* Forget invocations and queue their pins (releasePins).
Drop(ns, i) ==
    /\ inv' = [n \in Admissions |-> IF n \in ns THEN NoInvocation ELSE i[n]]
    /\ queue' = queue \cup ns

\* Release of the EnsuredWorker, once: the response is done and a first admission that
\* never started is cancelled.
ReleaseRoot(r) ==
    /\ root[r].open /\ ~root[r].responseDone
    /\ LET unstarted == inv[r].live /\ ~inv[r].started
           ro == [root EXCEPT ![r].responseDone = TRUE,
                              ![r].pending = IF unstarted /\ ~inv[r].complete THEN @ - 1 ELSE @]
           first == IF unstarted THEN {r} ELSE {} IN
       root' = ro /\ Drop(first \cup Ended(r, inv, ro), inv)
    /\ UNCHANGED <<wrapper, pinned, refused, late, admitted, revoked, upsets>>

\* "start" takes the first epoch, or the next one after the last was completed.
Startable(n, e) ==
    inv[n].live /\ IF inv[n].started THEN inv[n].complete /\ e = inv[n].epoch + 1 ELSE e = 1

\* A new epoch is work the root waits for.
Started(n, e) ==
    /\ inv' = [inv EXCEPT ![n].started = TRUE, ![n].epoch = e,
                          ![n].complete = IF inv[n].started THEN FALSE ELSE @]
    /\ root' = [root EXCEPT ![inv[n].root].pending = IF inv[n].started THEN @ + 1 ELSE @]

\* A start that is already in effect is acknowledged again.
Repeated(n, e) == inv[n].live /\ inv[n].started /\ e = inv[n].epoch /\ ~inv[n].complete

\* Mutant: a completion is taken for the current epoch whatever epoch it names.
OutdatedNever(n, e) == FALSE

\* A completion of an earlier epoch is acknowledged and ignored.
Outdated(n, e) == e < inv[n].epoch

\* "complete" of epoch e (0: no epoch given), accepted.
Completed(n, e) ==
    IF e # 0 /\ Outdated(n, e) THEN UNCHANGED <<inv, root, queue>>
    ELSE LET ro == [root EXCEPT ![inv[n].root].pending = IF inv[n].complete THEN @ ELSE @ - 1]
             i == [inv EXCEPT ![n].complete = TRUE] IN
         root' = ro /\ Drop(Ended(inv[n].root, i, ro), i)

\* "complete" without an epoch when the Worker could not even be loaded.
CompleteWithoutExecution(n) ==
    /\ wrapper[n].st = "new"
    /\ wrapper' = [wrapper EXCEPT ![n].st = "gone"]
    /\ IF inv[n].live THEN Completed(n, 0) ELSE UNCHANGED <<inv, root, queue>>
    /\ UNCHANGED <<pinned, refused, late, admitted, revoked, upsets>>

\* A call to a bound Worker is rejected, by user code or because the caller's abort signal
\* fired: it never reaches the wrapper, is still on its way there, or goes on in it; a
\* start handshake under way is not stopped.
RejectedCall(n) ==
    /\ inv[n].root # n /\ wrapper[n].st # "none"
    /\ \/ UNCHANGED wrapper
       \/ wrapper[n].st = "new" /\ wrapper' = [wrapper EXCEPT ![n].st = "gone"]


\* "abandon" of a rejected call: an admission that has not acknowledged its start is
\* complete.  Its record stays while its root has other work, and a start that arrives
\* then is still accepted.
Abandon(n) ==
    /\ RejectedCall(n)
    /\ IF ~inv[n].live THEN UNCHANGED <<inv, root, queue, revoked>>
       ELSE LET ends == ~inv[n].started /\ ~inv[n].complete
                ro == [root EXCEPT ![inv[n].root].pending = IF ends THEN @ - 1 ELSE @]
                i == IF ends THEN [inv EXCEPT ![n].complete = TRUE] ELSE inv IN
            /\ root' = ro /\ Drop(Ended(inv[n].root, i, ro), i)
            /\ revoked' = IF ends THEN revoked \cup {n} ELSE revoked
    /\ UNCHANGED <<pinned, refused, late, admitted, upsets>>

-----------------------------------------------------------------------------
(* The wrapper inside the process.                                         *)

\* beginEpoch: the first call, or a method of a returned capability once the previous
\* completion was acknowledged.
BeginEpoch(n) ==
    /\ wrapper[n].st \in {"new", "done"} /\ wrapper[n].epoch < MaxEpoch
    /\ wrapper' = [wrapper EXCEPT ![n] = [st |-> "starting", epoch |-> @.epoch + 1]]
    /\ UNCHANGED <<inv, root, queue, pinned, refused, late, admitted, revoked, upsets>>

\* lifecycle("start"): user code runs once the start is acknowledged; a refusal is final.
NotifyStart(n) ==
    LET e == wrapper[n].epoch IN
    /\ wrapper[n].st = "starting"
    /\ IF Startable(n, e) /\ ~Repeated(n, e) THEN Started(n, e) ELSE UNCHANGED <<inv, root>>
    /\ \/ /\ wrapper' = [wrapper EXCEPT ![n].st = IF Startable(n, e) \/ Repeated(n, e) THEN "running" ELSE "gone"]
          /\ UNCHANGED upsets
       \/ UNCHANGED wrapper /\ Upset
    /\ UNCHANGED <<queue, pinned, refused, late, admitted, revoked>>

\* The handler and everything it passed to waitUntil are done.
UserDone(n) ==
    /\ wrapper[n].st = "running"
    /\ wrapper' = [wrapper EXCEPT ![n].st = "completing"]
    /\ UNCHANGED <<inv, root, queue, pinned, refused, late, admitted, revoked, upsets>>

\* lifecycle("complete").
NotifyComplete(n) ==
    /\ wrapper[n].st = "completing"
    /\ IF inv[n].live THEN Completed(n, wrapper[n].epoch) ELSE UNCHANGED <<inv, root, queue>>
    /\ \/ /\ wrapper' = [wrapper EXCEPT ![n].st = IF inv[n].live THEN "done" ELSE "gone"]
          /\ UNCHANGED upsets
       \/ UNCHANGED wrapper /\ Upset
    /\ UNCHANGED <<pinned, refused, late, admitted, revoked>>

\* A copy of an earlier completion arrives late.
LateComplete(n, e) ==
    /\ e < wrapper[n].epoch /\ e > 0 /\ inv[n].live
    /\ Completed(n, e)
    /\ UNCHANGED <<wrapper, pinned, refused, late, admitted, revoked, upsets>>

-----------------------------------------------------------------------------
(* Releases and the process.                                               *)

\* flushReleases: a release that is not answered stays queued.
FlushRelease(n) ==
    /\ n \in queue
    /\ \/ /\ pinned' = pinned \ {n} /\ refused' = refused \cup {n}
          /\ queue' = queue \ {n} /\ UNCHANGED upsets
       \/ /\ UNCHANGED queue /\ Upset
          /\ \/ UNCHANGED <<pinned, refused>>
             \/ pinned' = pinned \ {n} /\ refused' = refused \cup {n}
    /\ UNCHANGED <<inv, root, wrapper, late, admitted, revoked>>

\* watchDynamic: the process is gone and with it every invocation.
ProcessLost ==
    /\ \E n \in Admissions : wrapper[n].st \notin {"none", "gone"}
    /\ Upset
    /\ wrapper' = [n \in Admissions |-> IF wrapper[n].st = "none" THEN wrapper[n]
                                        ELSE [wrapper[n] EXCEPT !.st = "gone"]]
    /\ Drop({n \in Admissions : inv[n].live}, inv)
    /\ UNCHANGED <<root, pinned, refused, late, admitted, revoked>>

InvocationNext ==
    \/ AdmitRequest \/ ProcessLost
    \/ \E n \in Admissions :
          \/ CallService(n) \/ LateAdmit(n) \/ ReleaseRoot(n) \/ CompleteWithoutExecution(n) \/ Abandon(n)
          \/ BeginEpoch(n) \/ NotifyStart(n) \/ UserDone(n) \/ NotifyComplete(n) \/ FlushRelease(n)
          \/ \E e \in 1..MaxEpoch : LateComplete(n, e)

\* What never stands still: clients close, user code ends, wrappers repeat their
\* notifications, the heartbeat flushes the queue, a request under way arrives.
InvocationProgress ==
    \E n \in Admissions :
        \/ ReleaseRoot(n) \/ UserDone(n) \/ NotifyStart(n) \/ NotifyComplete(n)
        \/ FlushRelease(n) \/ LateAdmit(n) \/ (wrapper[n].st = "new" /\ BeginEpoch(n))

InvocationSpec ==
    InvocationInit /\ [][InvocationNext]_invocationVars /\ WF_invocationVars(InvocationProgress)

-----------------------------------------------------------------------------
(* Properties.                                                             *)

\* A root that still has invocations counts exactly those whose work is not complete.
PendingExact ==
    \A r \in Admissions : (\E n \in Admissions : inv[n].live /\ inv[n].root = r) =>
        root[r].pending = Cardinality({n \in Admissions : inv[n].live /\ inv[n].root = r /\ ~inv[n].complete})

\* User code that runs is known to the broker and keeps its pin, whatever completions
\* of earlier epochs, abandoned siblings or closed responses arrive meanwhile; only the
\* first epoch of a call abandoned during its start handshake runs uncounted.
RunningWorkPinned ==
    \A n \in Admissions : wrapper[n].st = "running" =>
        \/ inv[n].live /\ n \in pinned \ queue
        \/ ~inv[n].live /\ n \in revoked /\ wrapper[n].epoch = 1

\* No pin is forgotten: what the control plane holds is in use here, queued for
\* release, or will be refused when its late request arrives.
PinsAccounted == \A n \in pinned \cup late : inv[n].live \/ n \in queue \/ n \in refused

\* The pins are exactly what the work needs, across start and completion
\* handshakes, abandoned calls, lost answers and late copies: roots count their unfinished
\* work, running code is pinned unless its call was abandoned before it acknowledged its
\* start, and nothing is pinned that nobody will release.
PinsExact == PendingExact /\ RunningWorkPinned /\ PinsAccounted

=============================================================================
