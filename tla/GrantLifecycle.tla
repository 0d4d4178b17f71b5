--------------------------- MODULE GrantLifecycle ---------------------------
(***************************************************************************)
(* What a resource grant promises, without sessions, pins, counters or     *)
(* mutexes: "each grant is a fresh, non-revivable generation of authority" *)
(* (internal/nanoflare/resource_grants.go).  A grant is prepared with      *)
(* frozen content, published, drained while admitted work still runs and   *)
(* then gone for good.  Accepted operations may outlive the grant.         *)
(***************************************************************************)
CONSTANTS Grants, Snapshots, Tokens, NoSnapshot

VARIABLES
    status,     \* status[g]: absent, prepared, published, draining or gone
    content,    \* content[g]: the frozen snapshot while it is needed
    work,       \* work[g]: tokens of the invocations admitted under g
    operations, \* operations[g]: tokens of resource requests in progress
    issued      \* tokens handed out so far

vars == <<status, content, work, operations, issued>>

\* Content is kept exactly while the grant or anything accepted under it needs it.
Kept(g, st, w, o) == st[g] \in {"prepared", "published", "draining"} \/ w[g] # {} \/ o[g] # {}

Settle == content' = [g \in Grants |->
    IF Kept(g, status', work', operations') THEN content[g] ELSE NoSnapshot]

Init ==
    /\ status = [g \in Grants |-> "absent"]
    /\ content = [g \in Grants |-> NoSnapshot]
    /\ work = [g \in Grants |-> {}]
    /\ operations = [g \in Grants |-> {}]
    /\ issued = {}

Prepare(g, x) ==
    /\ status[g] = "absent"
    /\ status' = [status EXCEPT ![g] = "prepared"]
    /\ content' = [content EXCEPT ![g] = x]
    /\ UNCHANGED <<work, operations, issued>>

Publish(g) ==
    /\ status[g] = "prepared"
    /\ status' = [status EXCEPT ![g] = "published"]
    /\ UNCHANGED <<content, work, operations, issued>>

\* Retirement ends fresh admission and never existing work.
Retire(g) ==
    /\ status' = [status EXCEPT ![g] = IF work[g] = {} THEN "gone" ELSE "draining"]
    /\ UNCHANGED <<work, operations, issued>>
    /\ Settle

Admit(g, t) ==
    /\ status[g] = "published"
    /\ t \notin issued
    /\ work' = [work EXCEPT ![g] = @ \cup {t}]
    /\ issued' = issued \cup {t}
    /\ UNCHANGED <<status, content, operations>>

Finish(g, t) ==
    /\ t \in work[g]
    /\ work' = [work EXCEPT ![g] = @ \ {t}]
    /\ status' = [status EXCEPT ![g] = IF @ = "draining" /\ work[g] = {t} THEN "gone" ELSE @]
    /\ UNCHANGED <<operations, issued>>
    /\ Settle

\* Only a published grant, or a draining one with admitted work, accepts requests.
Accept(g, t) ==
    /\ status[g] \in {"published", "draining"}
    /\ t \notin issued
    /\ operations' = [operations EXCEPT ![g] = @ \cup {t}]
    /\ issued' = issued \cup {t}
    /\ UNCHANGED <<status, content, work>>

Complete(g, t) ==
    /\ t \in operations[g]
    /\ operations' = [operations EXCEPT ![g] = @ \ {t}]
    /\ UNCHANGED <<status, work, issued>>
    /\ Settle

\* The session that owns the grants S ends; accepted operations go on.
Revoke(S) ==
    /\ status' = [g \in Grants |-> IF g \in S THEN "gone" ELSE status[g]]
    /\ work' = [g \in Grants |-> IF g \in S THEN {} ELSE work[g]]
    /\ UNCHANGED <<operations, issued>>
    /\ Settle

Next ==
    \/ \E g \in Grants :
          \/ \E x \in Snapshots : Prepare(g, x)
          \/ Publish(g)
          \/ Retire(g)
          \/ \E t \in Tokens : Admit(g, t) \/ Finish(g, t) \/ Accept(g, t) \/ Complete(g, t)
    \/ \E S \in SUBSET Grants : Revoke(S)

Spec == Init /\ [][Next]_vars

=============================================================================
