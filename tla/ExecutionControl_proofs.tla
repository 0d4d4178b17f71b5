----------------------- MODULE ExecutionControl_proofs -----------------------
(***************************************************************************)
(* Proofs about ExecutionControl, for every number of sessions, grants,    *)
(* tokens and calls.                                                       *)
(***************************************************************************)
EXTENDS ExecutionControl, FiniteSetTheorems, TLAPS

\* The counters of a revision rv agree with its state, and it only outlives its
\* session, whose state is st, for its operations.
RevisionSound(rv, st) ==
    /\ rv.state = "absent" => rv = Absent
    /\ rv.accepting <=> rv.state = "published"
    /\ rv.state = "prepared" => rv.leases = 0 /\ rv.operations = 0
    /\ rv.state = "draining" => rv.leases > 0
    /\ rv.state = "revoked" => rv.leases = 0 /\ rv.operations > 0
    /\ st = "closed" => rv.state \in {"absent", "revoked"}
    /\ st = "new" => rv.state = "absent"

RevisionsSound ==
    \A g \in Grants :
        /\ RevisionSound(rev[g], session[SessionOf(g)])
        /\ rev[g].state # "absent" /\ session[SessionOf(g)] = "open" => g \in registered

\* A held token has a grant and at least one pin; an admission's session is open.
TokensSound ==
    \A t \in Tokens :
        /\ Held(t) => tokens[t].grant \in Grants /\ tokens[t].pins > 0
        /\ tokens[t].kind = "admission" => session[SessionOf(tokens[t].grant)] = "open"

\* A stored pin holds a live admission of its session.
PinsSound ==
    \A p \in PinIds :
        \/ pins[p] = NoPin
        \/ /\ pins[p].token \in Tokens
           /\ pins[p].session = SessionOf(tokens[pins[p].token].grant)
           /\ tokens[pins[p].token].kind = "admission"

\* A pin call in progress works for the token's own session and its id is unused;
\* the pin it holds keeps the token alive until the session is closed.
CallsSound ==
    \A c \in Calls :
        /\ calls[c].phase # "done" => pins[c] = NoPin
        /\ calls[c].phase \in {"checked", "held"} =>
              /\ calls[c].token \in Tokens
              /\ calls[c].owner \in Sessions
              /\ tokens[calls[c].token].kind \in {"admission", "dead"}
              /\ tokens[calls[c].token].kind = "admission" =>
                     calls[c].owner = SessionOf(tokens[calls[c].token].grant)
        /\ calls[c].phase = "held" /\ tokens[calls[c].token].kind = "dead" =>
              session[calls[c].owner] = "closed"

\* A released admission is at or below its session's watermark and has no pin.
ReleasesSound ==
    \A s \in Sessions, n \in 1..MaxSeq : AdmissionPin(s, n) \in released =>
        n <= highWater[s] /\ pins[AdmissionPin(s, n)] = NoPin

ClosingSound == closing \in Sessions => session[closing] = "open"

\* What the registry needs, and what the server adds to it.
RegistryInv == RevisionsSound /\ TokensSound /\ LeaseCountsExact
ServerInv == PinsSound /\ CallsSound /\ ReleasesSound /\ ClosingSound /\ PinCountsExact
IInv == TypeOK /\ RegistryInv /\ ServerInv

-----------------------------------------------------------------------------
(* Identifiers and counting.                                               *)

\* The session of a grant and the registrations a session can make.
LEMMA GrantFacts ==
    /\ \A g \in Grants : SessionOf(g) \in Sessions
    /\ \A s \in Sessions, r \in Registrations :
          ResourceGrantID(s, r) \in Grants /\ SessionOf(ResourceGrantID(s, r)) = s
    /\ NoGrant \notin Grants
BY ControlAssumption DEF Grants, SessionOf, ResourceGrantID

\* Pin ids are finite in number and an admission's is no call's.
LEMMA PinIdFacts ==
    /\ IsFiniteSet(PinIds)
    /\ \A c \in Calls : c \in PinIds
    /\ \A s \in Sessions, n \in 1..MaxSeq : AdmissionPin(s, n) \in PinIds \ Calls
    /\ \A s, s2 \in Sessions, n, n2 \in 1..MaxSeq :
          AdmissionPin(s, n) = AdmissionPin(s2, n2) => s = s2 /\ n = n2
<1>1. IsFiniteSet(1..MaxSeq)
    BY ControlAssumption, FS_Interval, SMT
<1>2. IsFiniteSet(Sessions \X (1..MaxSeq))
    BY <1>1, ControlAssumption, FS_Product
<1>3. IsFiniteSet(PinIds)
    BY <1>2, ControlAssumption, FS_Union DEF PinIds
<1> QED
    BY <1>3, ControlAssumption DEF PinIds, AdmissionPin

\* Cardinalities of the counted sets are natural numbers.
LEMMA CountFacts ==
    ASSUME NEW S, NEW T \in {Tokens, PinIds, Calls}, S \subseteq T
    PROVE  /\ IsFiniteSet(S)
           /\ Cardinality(S) \in Nat
           /\ Cardinality(S) = 0 <=> S = {}
           /\ \A x \in S : Cardinality(S \ {x}) = Cardinality(S) - 1
           /\ \A x : x \notin S => Cardinality(S \cup {x}) = Cardinality(S) + 1
BY ControlAssumption, PinIdFacts, FS_Subset, FS_CardinalityType, FS_EmptySet, FS_RemoveElement,
   FS_AddElement

-----------------------------------------------------------------------------
(* Registry calls preserve the registry's invariant.                       *)

\* collectRevisionLocked leaves a sound revision or removes it.
LEMMA CollectSound ==
    ASSUME NEW rv \in Revision, NEW st \in {"new", "open", "closed"},
           rv.state # "absent",
           rv.accepting <=> rv.state = "published",
           rv.state = "prepared" => rv.leases = 0 /\ rv.operations = 0,
           rv.state = "revoked" => rv.leases = 0,
           st = "closed" => rv.state = "revoked",
           st # "new"
    PROVE  RevisionSound(CollectRevision(rv), st)
BY DEF RevisionSound, CollectRevision, Revision, Absent, GrantStates

\* ExecutionLease.Release on a held token: a pin of several goes, or the token
\* dies and its revision is collected.
LEMMA ReleaseLeaseStep ==
    ASSUME TypeOK, RegistryInv, NEW t \in Tokens, Held(t), ReleaseLease(t),
           UNCHANGED <<session, registered>>
    PROVE  /\ tokens' \in [Tokens -> Admission] /\ rev' \in [Grants -> Revision]
           /\ RegistryInv'
           /\ \A u \in Tokens : u # t => tokens'[u] = tokens[u]
           /\ \/ /\ tokens[t].pins > 1
                 /\ tokens' = [tokens EXCEPT ![t].pins = @ - 1]
              \/ /\ tokens[t].pins = 1
                 /\ tokens'[t] = Dead
<1>0. PICK g \in Grants, k \in {"admission", "operation"} :
         tokens[t].grant = g /\ tokens[t].kind = k
    BY DEF RegistryInv, TokensSound, Held
<1>1. tokens[t] \in Admission /\ rev[g] \in Revision /\ tokens[t].pins > 0
    BY DEF TypeOK, RegistryInv, TokensSound
<1>2. CASE tokens[t].pins > 1
    <2>1. tokens' = [tokens EXCEPT ![t].pins = @ - 1] /\ rev' = rev
        BY <1>2 DEF ReleaseLease, ReleaseLeaseTokens, ReleaseLeaseRevisions
    <2>2. tokens' \in [Tokens -> Admission]
        BY SMTT(30), <2>1, <1>1, <1>2 DEF TypeOK, Admission
    <2>3. \A u \in Tokens : tokens'[u].kind = tokens[u].kind /\ tokens'[u].grant = tokens[u].grant
        BY <2>1 DEF TypeOK, Admission
    <2>4. \A kind, h : TokensOf(kind, h)' = TokensOf(kind, h)
        BY <2>3 DEF TokensOf
    <2>5. TokensSound'
        BY <2>1, <2>3, <1>2 DEF RegistryInv, TokensSound, Held, TypeOK, Admission
    <2>6. RevisionsSound' /\ LeaseCountsExact'
        BY <2>1, <2>4 DEF RegistryInv, RevisionsSound, LeaseCountsExact
    <2> QED
        BY <2>1, <2>2, <2>5, <2>6, <1>2 DEF RegistryInv, TypeOK
<1>3. CASE tokens[t].pins = 1
    <2> DEFINE rv == EndLease(tokens[t], rev[g])
    <2>1. /\ tokens' = [tokens EXCEPT ![t] = Dead]
          /\ rev' = [rev EXCEPT ![g] = CollectRevision(rv)]
        BY <1>0, <1>3 DEF ReleaseLease, ReleaseLeaseTokens, ReleaseLeaseRevisions, TypeOK
    <2>2. k \in {"admission", "operation"}
        OBVIOUS
    <2>3. /\ \A h : TokensOf(k, h)' = IF h = g THEN TokensOf(k, h) \ {t} ELSE TokensOf(k, h)
          /\ \A kind \in {"admission", "operation"} :
                kind # k => \A h : TokensOf(kind, h)' = TokensOf(kind, h)
          /\ t \in TokensOf(k, g)
        BY <1>0, <2>1, <2>2 DEF TokensOf, Dead, TypeOK
    <2>4. TokensOf(k, g) \subseteq Tokens
        BY DEF TokensOf
    <2>5. /\ Cardinality(TokensOf(k, g)) \in Nat \ {0}
          /\ Cardinality(TokensOf(k, g) \ {t}) = Cardinality(TokensOf(k, g)) - 1
        BY <2>3, <2>4, CountFacts
    <2>6. \A h \in Grants :
             rev[h].leases = Cardinality(TokensOf("admission", h))
             /\ rev[h].operations = Cardinality(TokensOf("operation", h))
        BY DEF RegistryInv, LeaseCountsExact
    <2>7. tokens' \in [Tokens -> Admission]
        BY <2>1 DEF TypeOK, Admission, Dead
    <2>8. TokensSound'
        BY <2>1 DEF RegistryInv, TokensSound, Held, TypeOK, Dead
    <2>9. /\ rv \in Revision
          /\ rv.leases = IF k = "admission" THEN rev[g].leases - 1 ELSE rev[g].leases
          /\ rv.operations = IF k = "operation" THEN rev[g].operations - 1 ELSE rev[g].operations
          /\ rv.state = rev[g].state /\ rv.accepting = rev[g].accepting
          /\ rv.snapshot = rev[g].snapshot
        BY <1>0, <2>2, <2>5, <2>6, <1>1 DEF Revision, EndLease
    <2> HIDE DEF rv
    <2>10. /\ CollectRevision(rv) \in Revision
           /\ CollectRevision(rv).leases = rv.leases
           /\ CollectRevision(rv).operations = rv.operations
        BY <2>9, <1>1 DEF CollectRevision, Revision, Absent, GrantStates
    <2>11. rev'[g] = CollectRevision(rv) /\ \A h \in Grants : h # g => rev'[h] = rev[h]
        BY <2>1, <1>1 DEF TypeOK
    <2>12. rev' \in [Grants -> Revision]
        BY <2>1, <2>10 DEF TypeOK
    <2>13. LeaseCountsExact'
        <3>1. /\ rev'[g].leases = Cardinality(TokensOf("admission", g)')
              /\ rev'[g].operations = Cardinality(TokensOf("operation", g)')
            BY <2>2, <2>3, <2>5, <2>6, <2>9, <2>10, <2>11
        <3>2. \A h \in Grants : h # g =>
                 /\ rev'[h].leases = Cardinality(TokensOf("admission", h)')
                 /\ rev'[h].operations = Cardinality(TokensOf("operation", h)')
            BY <2>2, <2>3, <2>6, <2>11
        <3> QED
            BY <3>1, <3>2 DEF LeaseCountsExact
    <2>14. RevisionsSound'
        <3>1. rev[g].state # "absent"
            BY <2>2, <2>5, <2>6, <1>1 DEF RegistryInv, RevisionsSound, RevisionSound, Absent
        <3>2. RevisionSound(CollectRevision(rv), session[SessionOf(g)])
            BY <3>1, <2>9, <2>5, <2>6, <2>2, <1>1, GrantFacts, CollectSound DEF RegistryInv,
               RevisionsSound, RevisionSound, Revision, TypeOK
        <3> QED
            BY <3>1, <3>2, <2>11 DEF RegistryInv, RevisionsSound
    <2> QED
        BY <2>1, <2>7, <2>8, <2>12, <2>13, <2>14, <1>3 DEF RegistryInv, TypeOK
<1> QED
    BY <1>1, <1>2, <1>3 DEF Admission

\* ExecutionRegistry.admit: a fresh token of an accepting revision.
LEMMA NewAdmissionStep ==
    ASSUME TypeOK, RegistryInv, NEW s \in Sessions, NEW g \in Grants, NEW t \in Tokens,
           Admissible(s, g), NewAdmission(g, t), UNCHANGED <<session, registered>>
    PROVE  /\ tokens' \in [Tokens -> Admission] /\ rev' \in [Grants -> Revision]
           /\ RegistryInv'
<1>1. /\ tokens' = [tokens EXCEPT ![t] = [kind |-> "admission", grant |-> g, pins |-> 1]]
      /\ rev' = [rev EXCEPT ![g].leases = @ + 1]
      /\ tokens[t].kind = "unused" /\ rev[g].accepting
      /\ session[SessionOf(g)] = "open"
    BY DEF NewAdmission, Admissible, Live
<1>2. tokens' \in [Tokens -> Admission] /\ rev' \in [Grants -> Revision]
    <2>1. tokens' \in [Tokens -> Admission]
        BY <1>1 DEF TypeOK, Admission
    <2>2. [rev[g] EXCEPT !.leases = @ + 1] \in Revision
        BY DEF TypeOK, Revision
    <2>3. rev' = [rev EXCEPT ![g] = [rev[g] EXCEPT !.leases = @ + 1]]
        BY <1>1 DEF TypeOK
    <2> QED
        BY <2>1, <2>2, <2>3 DEF TypeOK
<1>3. TokensSound'
    BY <1>1 DEF RegistryInv, TokensSound, Held, TypeOK, Admission
<1>4. /\ TokensOf("admission", g)' = TokensOf("admission", g) \cup {t}
      /\ \A h : h # g => TokensOf("admission", h)' = TokensOf("admission", h)
      /\ \A h : TokensOf("operation", h)' = TokensOf("operation", h)
      /\ t \notin TokensOf("admission", g)
    BY <1>1 DEF TokensOf, TypeOK, Admission
<1>5. Cardinality(TokensOf("admission", g) \cup {t}) = Cardinality(TokensOf("admission", g)) + 1
    BY <1>4, CountFacts DEF TokensOf
<1>6. LeaseCountsExact'
    BY ZenonT(60), <1>1, <1>4, <1>5 DEF RegistryInv, LeaseCountsExact, TypeOK, Revision
<1>7. RevisionsSound'
    BY <1>1, <1>2 DEF RegistryInv, RevisionsSound, RevisionSound, TypeOK, Revision
<1> QED
    BY <1>2, <1>3, <1>6, <1>7 DEF RegistryInv

\* A resource request takes an operation token.
LEMMA AcquireResourceStep ==
    ASSUME TypeOK, RegistryInv, NEW g \in Grants, NEW x \in Resources, NEW t \in Tokens,
           AcquireResource(g, x, t)
    PROVE  /\ tokens' \in [Tokens -> Admission] /\ rev' \in [Grants -> Revision]
           /\ RegistryInv'
<1>1. /\ tokens' = [tokens EXCEPT ![t] = [kind |-> "operation", grant |-> g, pins |-> 1]]
      /\ rev' = [rev EXCEPT ![g].operations = @ + 1]
      /\ tokens[t].kind = "unused" /\ rev[g].state \in {"published", "draining"}
      /\ session[SessionOf(g)] = "open" /\ session' = session /\ registered' = registered
    BY DEF AcquireResource, Live, serverVars
<1>2. tokens' \in [Tokens -> Admission] /\ rev' \in [Grants -> Revision]
    <2>1. tokens' \in [Tokens -> Admission]
        BY <1>1 DEF TypeOK, Admission
    <2>2. [rev[g] EXCEPT !.operations = @ + 1] \in Revision
        <3>1. rev[g] \in Revision
            BY DEF TypeOK
        <3> QED
            BY <3>1 DEF Revision
    <2>3. rev' = [rev EXCEPT ![g] = [rev[g] EXCEPT !.operations = @ + 1]]
        BY <1>1 DEF TypeOK
    <2> QED
        BY <2>1, <2>2, <2>3 DEF TypeOK
<1>3. TokensSound'
    BY <1>1 DEF RegistryInv, TokensSound, Held, TypeOK, Admission
<1>4. /\ TokensOf("operation", g)' = TokensOf("operation", g) \cup {t}
      /\ \A h : h # g => TokensOf("operation", h)' = TokensOf("operation", h)
      /\ \A h : TokensOf("admission", h)' = TokensOf("admission", h)
      /\ t \notin TokensOf("operation", g)
    BY <1>1 DEF TokensOf, TypeOK, Admission
<1>5. Cardinality(TokensOf("operation", g) \cup {t}) = Cardinality(TokensOf("operation", g)) + 1
    BY <1>4, CountFacts DEF TokensOf
<1>6. LeaseCountsExact'
    BY ZenonT(60), <1>1, <1>4, <1>5 DEF RegistryInv, LeaseCountsExact, TypeOK, Revision
<1>7. RevisionsSound'
    BY <1>1, <1>2 DEF RegistryInv, RevisionsSound, RevisionSound, TypeOK, Revision
<1> QED
    BY <1>2, <1>3, <1>6, <1>7 DEF RegistryInv

\* Registration, publication and retirement leave the tokens and counters alone.
LEMMA GrantStepPreserves ==
    ASSUME TypeOK, RegistryInv, NEW s \in Sessions, NEW r \in Registrations,
           \/ \E x \in Snapshots : Register(s, r, x)
           \/ \E s2 \in Sessions : Publish(s2, ResourceGrantID(s, r))
           \/ Retire(ResourceGrantID(s, r))
    PROVE  /\ rev' \in [Grants -> Revision] /\ registered' \subseteq Grants /\ revoked' \subseteq Grants
           /\ RegistryInv'
           /\ UNCHANGED <<serverVars, tokens>>
<1>0. PICK g \in Grants : g = ResourceGrantID(s, r) /\ SessionOf(g) = s
    BY GrantFacts
<1>1. UNCHANGED <<serverVars, tokens>> /\ session' = session
    BY DEF Register, Publish, Retire, serverVars
<1>2. TokensSound'
    BY <1>1 DEF RegistryInv, TokensSound, Held
<1>3. \A kind, h : TokensOf(kind, h)' = TokensOf(kind, h)
    BY <1>1 DEF TokensOf
<1>4. CASE \E x \in Snapshots : Register(s, r, x)
    <2>1. PICK x \in Snapshots : Register(s, r, x)
        BY <1>4
    <2>2. /\ session[SessionOf(g)] = "open"
          /\ rev' = [rev EXCEPT ![g] = Prepared(x)]
          /\ registered' = registered \cup {g} /\ g \notin registered /\ revoked' = revoked
        BY <2>1, <1>0 DEF Register, Serving, Live
    <2>3. rev[g] = Absent
        BY <2>2 DEF RegistryInv, RevisionsSound, RevisionSound
    <2>4. rev' \in [Grants -> Revision]
        BY <2>2 DEF TypeOK, Revision, Prepared, Absent, GrantStates
    <2>5. RevisionsSound'
        BY <2>2, <1>1 DEF RegistryInv, RevisionsSound, RevisionSound, TypeOK, Prepared, Absent
    <2>6. LeaseCountsExact'
        BY <2>2, <2>3, <1>3 DEF RegistryInv, LeaseCountsExact, TypeOK, Prepared, Absent
    <2> QED
        BY <2>2, <2>4, <2>5, <2>6, <1>1, <1>2 DEF RegistryInv, TypeOK
<1>5. CASE \E s2 \in Sessions : Publish(s2, ResourceGrantID(s, r))
    <2>2. /\ session[SessionOf(g)] = "open" /\ rev[g].state \in {"prepared", "published"}
          /\ rev' = [rev EXCEPT ![g].state = "published", ![g].accepting = TRUE]
          /\ registered' = registered /\ revoked' = revoked
        BY <1>5, <1>0 DEF Publish, Serving, Live
    <2>4. rev' \in [Grants -> Revision]
        <3>1. [rev[g] EXCEPT !.state = "published", !.accepting = TRUE] \in Revision
            BY DEF TypeOK, Revision, GrantStates
        <3>2. rev' = [rev EXCEPT ![g] = [rev[g] EXCEPT !.state = "published", !.accepting = TRUE]]
            BY <2>2 DEF TypeOK
        <3> QED
            BY <3>1, <3>2 DEF TypeOK
    <2>5. RevisionsSound'
        BY <2>2, <1>1 DEF RegistryInv, RevisionsSound, RevisionSound, TypeOK, Revision
    <2>6. LeaseCountsExact'
        BY <2>2, <1>3 DEF RegistryInv, LeaseCountsExact, TypeOK, Revision
    <2> QED
        BY <2>2, <2>4, <2>5, <2>6, <1>1, <1>2 DEF RegistryInv, TypeOK
<1>6. CASE Retire(ResourceGrantID(s, r))
    <2> DEFINE rv == [rev[g] EXCEPT !.state = "draining", !.accepting = FALSE]
    <2>1. /\ session[SessionOf(g)] = "open" /\ registered' = registered
          /\ revoked' = revoked \cup {g}
          /\ rev' = IF rev[g].state = "absent" THEN rev
                    ELSE [rev EXCEPT ![g] = CollectRevision(rv)]
        BY <1>6, <1>0 DEF Retire, Live, TypeOK
    <2>2. CASE rev[g].state = "absent"
        BY <2>1, <2>2, <1>1, <1>2, <1>3 DEF RegistryInv, RevisionsSound, LeaseCountsExact, TypeOK
    <2>3. CASE rev[g].state # "absent"
        <3>1. /\ rv \in Revision /\ rv.state = "draining" /\ rv.accepting = FALSE
              /\ rv.leases = rev[g].leases /\ rv.operations = rev[g].operations
            BY DEF TypeOK, Revision, GrantStates
        <3> HIDE DEF rv
        <3>2. /\ CollectRevision(rv) \in Revision
              /\ CollectRevision(rv).leases = rev[g].leases
              /\ CollectRevision(rv).operations = rev[g].operations
            BY <3>1 DEF CollectRevision, Revision, Absent, GrantStates
        <3>3. RevisionSound(CollectRevision(rv), session[SessionOf(g)])
            BY <3>1, <2>1, CollectSound
        <3>4. rev'[g] = CollectRevision(rv) /\ \A h \in Grants : h # g => rev'[h] = rev[h]
            BY <2>1, <2>3 DEF TypeOK
        <3>5. rev' \in [Grants -> Revision]
            BY <2>1, <2>3, <3>2 DEF TypeOK
        <3>6. RevisionsSound'
            BY <3>3, <3>4, <2>1, <2>3, <1>1 DEF RegistryInv, RevisionsSound
        <3>7. LeaseCountsExact'
            BY <3>2, <3>4, <1>3 DEF RegistryInv, LeaseCountsExact
        <3> QED
            BY <2>1, <3>5, <3>6, <3>7, <1>1, <1>2 DEF RegistryInv, TypeOK
    <2> QED
        BY <2>2, <2>3
<1> QED
    BY <1>4, <1>5, <1>6

\* RevokeResourceSession, when the session's entry goes in the same critical
\* section: what is left of the session are revisions its operations still use.
LEMMA RevokeStep ==
    ASSUME TypeOK, RegistryInv, NEW s \in Sessions, session[s] = "open",
           RevokeResourceSession(s), session' = [session EXCEPT ![s] = "closed"]
    PROVE  /\ tokens' \in [Tokens -> Admission] /\ rev' \in [Grants -> Revision]
           /\ registered' \subseteq Grants /\ revoked' \subseteq Grants
           /\ RegistryInv'
<1> DEFINE mine == {g \in Grants : SessionOf(g) = s}
           Swept(g) == [rev[g] EXCEPT !.state = "revoked", !.accepting = FALSE,
                                      !.leases = @ - Cardinality(AdmissionsOf({g}))]
<1>1. /\ \A t \in Tokens : tokens'[t] = IF t \in AdmissionsOf(mine) THEN Dead ELSE tokens[t]
      /\ \A g \in Grants : rev'[g] =
            IF g \notin mine \/ rev[g].state = "absent" THEN rev[g]
            ELSE CollectRevision(Swept(g))
      /\ registered' = registered \ mine /\ revoked' = revoked \ mine
      /\ DOMAIN tokens' = Tokens /\ tokens' = [t \in Tokens |-> tokens'[t]]
      /\ DOMAIN rev' = Grants /\ rev' = [g \in Grants |-> rev'[g]]
    BY DEF RevokeResourceSession
<1>2. \A g \in Grants :
         /\ Swept(g) \in Revision /\ Swept(g).leases = 0 /\ Swept(g).state = "revoked"
         /\ Swept(g).accepting = FALSE /\ Swept(g).operations = rev[g].operations
    <2>1. TAKE g \in Grants
    <2>2. AdmissionsOf({g}) = TokensOf("admission", g)
        BY DEF AdmissionsOf, TokensOf
    <2>3. rev[g].leases = Cardinality(AdmissionsOf({g}))
        BY <2>2 DEF RegistryInv, LeaseCountsExact
    <2>4. rev[g] \in Revision /\ rev[g].leases - Cardinality(AdmissionsOf({g})) = 0
        BY <2>3 DEF TypeOK, Revision
    <2>5. Swept(g) = [rev[g] EXCEPT !.state = "revoked", !.accepting = FALSE, !.leases = 0]
        BY <2>4
    <2>6. PICK rv \in Revision : rv = rev[g]
        BY <2>4
    <2>7. Swept(g) = [rv EXCEPT !.state = "revoked", !.accepting = FALSE, !.leases = 0]
        BY <2>5, <2>6
    <2>8. LET w == [rv EXCEPT !.state = "revoked", !.accepting = FALSE, !.leases = 0]
          IN  /\ w \in Revision /\ w.leases = 0 /\ w.state = "revoked"
              /\ w.accepting = FALSE /\ w.operations = rv.operations
        BY DEF Revision, GrantStates
    <2> HIDE DEF Swept
    <2> QED
        BY <2>6, <2>7, <2>8
<1> HIDE DEF Swept
<1>3. \A g \in Grants : g \in mine /\ rev[g].state # "absent" =>
         /\ CollectRevision(Swept(g)) \in Revision
         /\ CollectRevision(Swept(g)).leases = 0
         /\ CollectRevision(Swept(g)).operations = rev[g].operations
         /\ RevisionSound(CollectRevision(Swept(g)), "closed")
    BY <1>2 DEF CollectRevision, Revision, Absent, GrantStates, RevisionSound
<1>4. tokens' \in [Tokens -> Admission]
    <2>1. Dead \in Admission
        BY DEF Admission, Dead
    <2>2. \A t \in Tokens : tokens'[t] \in Admission
        BY <2>1, <1>1 DEF TypeOK
    <2> QED
        BY <2>2, <1>1
<1>5. rev' \in [Grants -> Revision]
    BY <1>1, <1>3 DEF TypeOK
<1>6. \A g \in Grants : session'[SessionOf(g)] = IF g \in mine THEN "closed" ELSE session[SessionOf(g)]
    BY GrantFacts DEF TypeOK
<1>7. TokensSound' BY <1>1, <1>6 DEF TokensSound, SessionOf, Held, Dead, RegistryInv, AdmissionsOf
<1>8. \A g \in Grants :
         /\ TokensOf("admission", g)' = IF g \in mine THEN {} ELSE TokensOf("admission", g)
         /\ TokensOf("operation", g)' = TokensOf("operation", g)
    BY <1>1 DEF TokensOf, AdmissionsOf, Dead
<1>9. LeaseCountsExact'
    <2> SUFFICES ASSUME NEW g \in Grants
                 PROVE  /\ rev'[g].leases = Cardinality(TokensOf("admission", g)')
                        /\ rev'[g].operations = Cardinality(TokensOf("operation", g)')
        BY DEF LeaseCountsExact
    <2>2. /\ rev[g].leases = Cardinality(TokensOf("admission", g))
          /\ rev[g].operations = Cardinality(TokensOf("operation", g))
        BY DEF RegistryInv, LeaseCountsExact
    <2>3. CASE g \notin mine
        BY <2>2, <2>3, <1>1, <1>8
    <2>4. CASE g \in mine /\ rev[g].state # "absent"
        BY ZenonT(60), <2>2, <2>4, <1>1, <1>3, <1>8, FS_EmptySet
    <2>5. CASE g \in mine /\ rev[g].state = "absent"
        <3>1. rev[g].leases = 0
            BY <2>5 DEF RegistryInv, RevisionsSound, RevisionSound, Absent
        <3> QED
            BY <3>1, <2>2, <2>5, <1>1, <1>8, FS_EmptySet
    <2> QED
        BY <2>3, <2>4, <2>5
<1>10. RevisionsSound' BY <1>1, <1>6, <1>3 DEF RevisionsSound, RegistryInv, RevisionSound
<1> QED
    BY <1>1, <1>4, <1>5, <1>7, <1>9, <1>10 DEF RegistryInv, TypeOK

-----------------------------------------------------------------------------
(* The server's pins, tokens and calls.                                    *)

\* A step that leaves the registry and the sessions alone keeps its invariant.
LEMMA SameRegistry ==
    ASSUME RegistryInv, UNCHANGED <<session, tokens, rev, registered>>
    PROVE  RegistryInv'
BY DEF RegistryInv, RevisionsSound, RevisionSound, TokensSound, LeaseCountsExact, TokensOf, Held

\* A step that leaves the pins, tokens, calls and sessions alone keeps their counts.
LEMMA SamePins ==
    ASSUME PinsSound, CallsSound, PinCountsExact,
           UNCHANGED <<session, pins, uses, owners, calls, tokens>>
    PROVE  PinsSound' /\ CallsSound' /\ PinCountsExact'
<1>1. PinsSound'
    BY DEF PinsSound, SessionOf
<1>2. CallsSound'
    BY DEF CallsSound, SessionOf
<1>3. PinCountsExact' BY DEF PinsOn, CallsOn, PinCountsExact, SessionOf
<1> QED
    BY <1>1, <1>2, <1>3

\* storePinLocked adds one pin to the token's set.
LEMMA StorePinSets ==
    ASSUME TypeOK, NEW p \in PinIds, NEW t \in Tokens, NEW s \in Sessions,
           NEW g \in Grants \cup {NoGrant}, pins[p] = NoPin, StorePin(p, t, s, g)
    PROVE  /\ pins' \in [PinIds -> Pin] /\ uses' \in [Tokens -> Nat]
           /\ owners' \in [Tokens -> Sessions \cup {NoSession}]
           /\ \A q \in PinIds : pins'[q] = IF q = p THEN [token |-> t, session |-> s, grant |-> g]
                                           ELSE pins[q]
           /\ PinsOn(t)' = PinsOn(t) \cup {p}
           /\ \A u \in Tokens : u # t => PinsOn(u)' = PinsOn(u)
           /\ Cardinality(PinsOn(t)') = Cardinality(PinsOn(t)) + 1
           /\ \A u \in Tokens : uses'[u] = IF u = t THEN uses[u] + 1 ELSE uses[u]
           /\ \A u \in Tokens : owners'[u] = IF u = t THEN s ELSE owners[u]
<1>1. /\ pins' = [pins EXCEPT ![p] = [token |-> t, session |-> s, grant |-> g]]
      /\ uses' = [uses EXCEPT ![t] = @ + 1]
      /\ owners' = [owners EXCEPT ![t] = s]
    BY DEF StorePin
<1>2. pins' \in [PinIds -> Pin] BY <1>1 DEF Pin, TypeOK
<1>3. uses' \in [Tokens -> Nat] /\ owners' \in [Tokens -> Sessions \cup {NoSession}]
    BY <1>1 DEF TypeOK
<1>4. \A q \in PinIds : pins'[q] = IF q = p THEN [token |-> t, session |-> s, grant |-> g]
                                   ELSE pins[q]
    BY <1>1 DEF TypeOK
<1>5. /\ PinsOn(t)' = PinsOn(t) \cup {p} /\ p \notin PinsOn(t)
      /\ \A u \in Tokens : u # t => PinsOn(u)' = PinsOn(u)
    BY <1>4, ControlAssumption DEF PinsOn, NoPin
<1>6. Cardinality(PinsOn(t)') = Cardinality(PinsOn(t)) + 1
    <2>1. PinsOn(t) \subseteq PinIds
        BY DEF PinsOn
    <2> QED
        BY <2>1, <1>5, CountFacts
<1> QED
    BY <1>1, <1>2, <1>3, <1>4, <1>5, <1>6 DEF TypeOK

\* releasePinLocked gives back one pin: counts stay exact, and the token only dies
\* when neither a stored pin nor a pin call is left on it.
LEMMA ReleasePinStep ==
    ASSUME IInv, NEW p \in PinIds, pins[p] # NoPin, ReleasePin(p),
           UNCHANGED <<session, registered, calls>>
    PROVE  /\ pins' = [pins EXCEPT ![p] = NoPin] /\ pins' \in [PinIds -> Pin]
           /\ uses' \in [Tokens -> Nat] /\ owners' \in [Tokens -> Sessions \cup {NoSession}]
           /\ tokens' \in [Tokens -> Admission] /\ rev' \in [Grants -> Revision]
           /\ RegistryInv' /\ PinsSound' /\ CallsSound' /\ PinCountsExact'
<1> USE DEF IInv, ServerInv
<1>1. PICK t \in Tokens : pins[p].token = t
    BY DEF PinsSound
<1>2. tokens[t].kind = "admission" /\ Held(t)
    BY <1>1 DEF PinsSound, Held
<1>3. /\ pins' = [pins EXCEPT ![p] = NoPin]
      /\ uses' = [uses EXCEPT ![t] = @ - 1]
      /\ owners' = IF uses[t] = 1 THEN [owners EXCEPT ![t] = NoSession] ELSE owners
      /\ ReleaseLease(t)
    BY <1>1 DEF ReleasePin
<1>4. /\ tokens' \in [Tokens -> Admission] /\ rev' \in [Grants -> Revision]
      /\ RegistryInv'
      /\ \A u \in Tokens : u # t => tokens'[u] = tokens[u]
      /\ \/ /\ tokens[t].pins > 1
            /\ tokens' = [tokens EXCEPT ![t].pins = @ - 1]
         \/ /\ tokens[t].pins = 1
            /\ tokens'[t] = Dead
    BY <1>2, <1>3, ReleaseLeaseStep
<1>5. NoPin \in Pin /\ NoPin.token \notin Tokens
    BY ControlAssumption DEF Pin, NoPin
<1>6. /\ \A q \in PinIds : pins'[q] = IF q = p THEN NoPin ELSE pins[q]
      /\ pins' \in [PinIds -> Pin]
    BY <1>3, <1>5 DEF TypeOK
<1>7. /\ PinsOn(t)' = PinsOn(t) \ {p} /\ p \in PinsOn(t)
      /\ \A u \in Tokens : u # t => PinsOn(u)' = PinsOn(u)
      /\ \A u \in Tokens : CallsOn(u)' = CallsOn(u)
    BY <1>1, <1>5, <1>6 DEF PinsOn, CallsOn
<1>8. /\ Cardinality(PinsOn(t)) \in Nat \ {0} /\ Cardinality(CallsOn(t)) \in Nat
      /\ Cardinality(PinsOn(t)') = Cardinality(PinsOn(t)) - 1
      /\ Cardinality(PinsOn(t)') = 0 <=> PinsOn(t)' = {}
      /\ Cardinality(CallsOn(t)) = 0 <=> CallsOn(t) = {}
    <2>1. PinsOn(t) \subseteq PinIds /\ CallsOn(t) \subseteq Calls /\ PinsOn(t)' \subseteq PinIds
        BY DEF PinsOn, CallsOn
    <2>2. /\ Cardinality(PinsOn(t)) \in Nat
          /\ Cardinality(PinsOn(t)) = 0 <=> PinsOn(t) = {}
          /\ Cardinality(PinsOn(t) \ {p}) = Cardinality(PinsOn(t)) - 1
        BY <2>1, <1>7, CountFacts
    <2>3. Cardinality(CallsOn(t)) \in Nat /\ (Cardinality(CallsOn(t)) = 0 <=> CallsOn(t) = {})
        BY <2>1, CountFacts
    <2>4. Cardinality(PinsOn(t)') = 0 <=> PinsOn(t)' = {}
        BY <2>1, CountFacts
    <2> QED
        BY <2>2, <2>3, <2>4, <1>7
<1>9. /\ tokens[t].pins = Cardinality(PinsOn(t)) + Cardinality(CallsOn(t))
      /\ uses[t] = Cardinality(PinsOn(t))
      /\ owners[t] = SessionOf(tokens[t].grant)
    BY <1>2, <1>7 DEF PinCountsExact
<1>10. uses' \in [Tokens -> Nat] /\ owners' \in [Tokens -> Sessions \cup {NoSession}]
    BY <1>3, <1>8, <1>9 DEF TypeOK
<1>11. /\ \A u \in Tokens : uses'[u] = IF u = t THEN uses[u] - 1 ELSE uses[u]
       /\ \A u \in Tokens : owners'[u] = IF u = t /\ uses[t] = 1 THEN NoSession ELSE owners[u]
    BY <1>3 DEF TypeOK
<1>12. CASE tokens[t].pins > 1
    <2>1. /\ tokens'[t].kind = "admission" /\ tokens'[t].grant = tokens[t].grant
          /\ tokens'[t].pins = tokens[t].pins - 1
        BY <1>2, <1>4, <1>12 DEF TypeOK, Admission
    <2>2. PinsSound'
        BY <2>1, <1>4, <1>6, <1>1 DEF PinsSound, SessionOf
    <2>3. CallsSound'
        BY <2>1, <1>2, <1>4, <1>6, PinIdFacts DEF CallsSound, SessionOf
    <2>4. PinCountsExact'
        <3> SUFFICES ASSUME NEW u \in Tokens
                     PROVE  /\ tokens'[u].kind = "admission" =>
                               tokens'[u].pins = Cardinality(PinsOn(u)') + Cardinality(CallsOn(u)')
                            /\ tokens'[u].kind = "operation" => tokens'[u].pins = 1
                            /\ uses'[u] = Cardinality(PinsOn(u)')
                            /\ owners'[u] = IF PinsOn(u)' = {} THEN NoSession
                                            ELSE SessionOf(tokens'[u].grant)
            BY DEF PinCountsExact, SessionOf
        <3>1. CASE u = t
            BY <3>1, <2>1, <1>7, <1>8, <1>9, <1>11
        <3>2. CASE u # t
            BY <3>2, <1>4, <1>7, <1>11 DEF PinCountsExact
        <3> QED
            BY <3>1, <3>2
    <2> QED
        BY <2>2, <2>3, <2>4, <1>3, <1>4, <1>6, <1>10
<1>13. CASE tokens[t].pins = 1
    <2>1. /\ tokens'[t].kind = "dead" /\ CallsOn(t) = {} /\ PinsOn(t)' = {} /\ uses[t] = 1
        BY <1>4, <1>13, <1>8, <1>9 DEF Dead
    <2>2. PinsSound' BY <2>1, <1>6, <1>4 DEF PinsOn, PinsSound, SessionOf
    <2>3. CallsSound' BY <2>1, <1>4, <1>6, <1>2, PinIdFacts DEF CallsOn, CallsSound, SessionOf
    <2>4. PinCountsExact'
        <3> SUFFICES ASSUME NEW u \in Tokens
                     PROVE  /\ tokens'[u].kind = "admission" =>
                               tokens'[u].pins = Cardinality(PinsOn(u)') + Cardinality(CallsOn(u)')
                            /\ tokens'[u].kind = "operation" => tokens'[u].pins = 1
                            /\ uses'[u] = Cardinality(PinsOn(u)')
                            /\ owners'[u] = IF PinsOn(u)' = {} THEN NoSession
                                            ELSE SessionOf(tokens'[u].grant)
            BY DEF PinCountsExact, SessionOf
        <3>1. CASE u = t
            BY <3>1, <2>1, <1>7, <1>8, <1>9, <1>11
        <3>2. CASE u # t
            BY <3>2, <1>4, <1>7, <1>11 DEF PinCountsExact
        <3> QED
            BY <3>1, <3>2
    <2> QED
        BY <2>2, <2>3, <2>4, <1>3, <1>4, <1>6, <1>10
<1> QED
    BY <1>4, <1>12, <1>13

-----------------------------------------------------------------------------
(* Every action preserves the inductive invariant.                         *)

\* The empty registry and server satisfy the inductive invariant.
LEMMA InitInv == Init => IInv
<1> SUFFICES ASSUME Init PROVE IInv
    OBVIOUS
<1> USE DEF Init
<1>1. TypeOK
    <2>1. NoPin \in Pin /\ Idle \in Call /\ Absent \in Revision /\ Unused \in Admission
        BY DEF NoPin, Pin, Idle, Call, Absent, Revision, Unused, Admission
    <2> QED
        BY <2>1 DEF TypeOK
<1>2. \A t \in Tokens : PinsOn(t) = {} /\ CallsOn(t) = {}
    BY ControlAssumption DEF PinsOn, CallsOn, NoPin, Idle
<1>3. \A g : TokensOf("admission", g) = {} /\ TokensOf("operation", g) = {}
    BY DEF TokensOf, Unused
<1>4. Cardinality({}) = 0
    BY FS_EmptySet
<1>5. RevisionsSound
    BY GrantFacts DEF RevisionsSound, RevisionSound, Absent
<1>6. TokensSound
    BY DEF TokensSound, Held, Unused
<1>7. LeaseCountsExact
    BY <1>3, <1>4 DEF LeaseCountsExact, Absent
<1>8. PinsSound
    BY DEF PinsSound
<1>9. CallsSound
    BY PinIdFacts DEF CallsSound, Idle
<1>10. ReleasesSound /\ ClosingSound
    BY ControlAssumption DEF ReleasesSound, ClosingSound
<1>11. PinCountsExact
    BY <1>2, <1>4 DEF PinCountsExact, Unused
<1> QED
    BY <1>1, <1>5, <1>6, <1>7, <1>8, <1>9, <1>10, <1>11 DEF IInv, RegistryInv, ServerInv

\* Opening, renewing and beginning to close a session, time and shutdown.
LEMMA SessionStepInv == IInv /\ (SessionStep \/ Tick \/ Close) => IInv'
<1> SUFFICES ASSUME IInv, SessionStep \/ Tick \/ Close PROVE IInv'
    OBVIOUS
<1> USE DEF IInv, ServerInv
<1>1. CASE \E s \in Sessions : OpenSession(s)
    <2>1. PICK s \in Sessions : OpenSession(s)
        BY <1>1
    <2>2. /\ session[s] = "new" /\ session' = [session EXCEPT ![s] = "open"]
          /\ ttl' = [ttl EXCEPT ![s] = TTL] /\ closing = NoSession
          /\ UNCHANGED <<highWater, closed, closing, pins, uses, owners, calls, rev, tokens,
                         registered, revoked, released>>
        BY <2>1 DEF OpenSession, MuFree, registryVars
    <2>3. TypeOK'
        BY <2>2, ControlAssumption DEF TypeOK
    <2>4. RevisionsSound'
        BY <2>2, GrantFacts DEF RegistryInv, RevisionsSound, RevisionSound, TypeOK
    <2>5. TokensSound'
        BY <2>2, GrantFacts DEF RegistryInv, TokensSound, Held, TypeOK
    <2>6. LeaseCountsExact'
        BY <2>2 DEF RegistryInv, LeaseCountsExact, TokensOf
    <2>7. PinsSound'
        BY <2>2 DEF PinsSound, SessionOf
    <2>8. CallsSound'
        BY <2>2 DEF CallsSound, TypeOK, SessionOf
    <2>9. ReleasesSound' /\ ClosingSound'
        BY <2>2, ControlAssumption DEF ReleasesSound, ClosingSound
    <2>10. PinCountsExact'
        BY <2>2 DEF PinCountsExact, PinsOn, CallsOn, SessionOf
    <2> QED
        BY <2>3, <2>4, <2>5, <2>6, <2>7, <2>8, <2>9, <2>10 DEF RegistryInv
<1>2. CASE (\E s \in Sessions : Heartbeat(s)) \/ Tick
    BY <1>2, ControlAssumption, SameRegistry, SamePins DEF Heartbeat, Tick, registryVars, TypeOK,
       ReleasesSound, ClosingSound
<1>3. CASE Close \/ \E s \in Sessions : BeginClose(s)
    BY <1>3, ControlAssumption, SameRegistry, SamePins DEF Close, BeginClose, registryVars,
       TypeOK, ClosingSound, ReleasesSound
<1> QED
    BY <1>1, <1>2, <1>3 DEF SessionStep, CloseSession, ExpireSession

\* closeSessionLocked, step by step.
LEMMA CloseStepInv == IInv /\ CloseStep => IInv'
<1> SUFFICES ASSUME IInv, CloseStep PROVE IInv'
    OBVIOUS
<1> USE DEF IInv, ServerInv
<1>1. CASE \E p \in PinIds : CloseReleasePin(p)
    BY <1>1, ReleasePinStep, PinIdFacts DEF CloseReleasePin, NoPin, TypeOK, ReleasesSound,
       ClosingSound
<1>2. CASE CloseRevoke
    <2>1. PICK s \in Sessions : closing = s
        BY <1>2 DEF CloseRevoke, TypeOK
    <2>2. /\ session[s] = "open" /\ session' = [session EXCEPT ![s] = "closed"]
          /\ ttl' = [ttl EXCEPT ![s] = 0] /\ closing' = NoSession
          /\ RevokeResourceSession(s)
          /\ \A p \in PinIds : pins[p].session # s
          /\ UNCHANGED <<highWater, closed, pins, uses, owners, calls, released>>
        BY <1>2, <2>1 DEF CloseRevoke, ClosingSound
    <2>3. /\ tokens' \in [Tokens -> Admission] /\ rev' \in [Grants -> Revision]
          /\ registered' \subseteq Grants /\ revoked' \subseteq Grants
          /\ RegistryInv'
        BY <2>2, RevokeStep
    <2>4. \A t \in Tokens : \/ tokens'[t] = tokens[t]
                            \/ /\ tokens'[t] = Dead /\ tokens[t].kind = "admission"
                               /\ SessionOf(tokens[t].grant) = s
        BY <2>2 DEF RevokeResourceSession, AdmissionsOf
    <2>5. \A t \in Tokens : tokens[t].kind = "admission" =>
             session[SessionOf(tokens[t].grant)] = "open" /\ SessionOf(tokens[t].grant) \in Sessions
        BY GrantFacts DEF RegistryInv, TokensSound, Held
    <2>6. TypeOK'
        BY <2>2, <2>3 DEF TypeOK
    <2>7. PinsSound'
        BY <2>2, <2>4 DEF PinsSound, SessionOf
    <2>8. CallsSound'
        BY <2>2, <2>4 DEF CallsSound, SessionOf, Dead, TypeOK
    <2>9. ReleasesSound' /\ ClosingSound'
        BY <2>2, ControlAssumption DEF ReleasesSound, ClosingSound
    <2>10. PinCountsExact'
        <3>1. \A t \in Tokens : PinsOn(t)' = PinsOn(t) /\ CallsOn(t)' = CallsOn(t)
            BY <2>2 DEF PinsOn, CallsOn
        <3>2. \A t \in Tokens : tokens'[t] # tokens[t] => PinsOn(t) = {} /\ tokens'[t].kind = "dead"
            BY <2>2, <2>4, ControlAssumption DEF PinsOn, PinsSound, Dead, NoPin
        <3> QED
            BY <2>2, <3>1, <3>2 DEF PinCountsExact, SessionOf
    <2> QED
        BY <2>3, <2>6, <2>7, <2>8, <2>9, <2>10
<1>3. CASE Close
    BY <1>3, SessionStepInv
<1> QED
    BY <1>1, <1>2, <1>3 DEF CloseStep

\* register, publish and retire.
LEMMA GrantStepInv == IInv /\ GrantStep => IInv'
<1> SUFFICES ASSUME IInv, GrantStep PROVE IInv'
    OBVIOUS
<1> USE DEF IInv, ServerInv
<1>1. PICK s \in Sessions, r \in Registrations :
         \/ \E x \in Snapshots : Register(s, r, x)
         \/ \E s2 \in Sessions : Publish(s2, ResourceGrantID(s, r))
         \/ Retire(ResourceGrantID(s, r))
    BY DEF GrantStep, ResourceGrantID
<1>2. /\ rev' \in [Grants -> Revision] /\ registered' \subseteq Grants /\ revoked' \subseteq Grants
      /\ RegistryInv'
      /\ UNCHANGED <<serverVars, tokens>>
    BY <1>1, GrantStepPreserves
<1>3. UNCHANGED <<session, ttl, highWater, closed, closing, pins, uses, owners, calls, tokens,
                  released>>
    BY <1>2 DEF serverVars
<1>4. TypeOK'
    BY <1>2, <1>3 DEF TypeOK
<1>5. ReleasesSound' /\ ClosingSound'
    BY <1>3 DEF ReleasesSound, ClosingSound
<1> QED
    BY <1>2, <1>3, <1>4, <1>5, SamePins

\* A fresh admission with its first pin p, by admit with or without a sequence.
LEMMA AdmissionStored ==
    ASSUME IInv, NEW s \in Sessions, NEW g \in Grants, NEW t \in Tokens, NEW p \in PinIds,
           pins[p] = NoPin, Admissible(s, g), NewAdmission(g, t), StorePin(p, t, s, g),
           UNCHANGED <<session, registered>>,
           calls' = calls \/ (p \in Calls /\ calls[p] = Idle /\ calls' = [calls EXCEPT ![p] = Done]),
           p \in Calls => calls'[p].phase = "done"
    PROVE  /\ pins' \in [PinIds -> Pin] /\ uses' \in [Tokens -> Nat]
           /\ owners' \in [Tokens -> Sessions \cup {NoSession}] /\ calls' \in [Calls -> Call]
           /\ tokens' \in [Tokens -> Admission] /\ rev' \in [Grants -> Revision]
           /\ RegistryInv' /\ PinsSound' /\ CallsSound' /\ PinCountsExact'
<1> USE DEF IInv, ServerInv
<1>1. tokens' \in [Tokens -> Admission] /\ rev' \in [Grants -> Revision] /\ RegistryInv'
    BY NewAdmissionStep
<1>2. /\ pins' \in [PinIds -> Pin] /\ uses' \in [Tokens -> Nat]
      /\ owners' \in [Tokens -> Sessions \cup {NoSession}]
      /\ \A q \in PinIds : pins'[q] = IF q = p THEN [token |-> t, session |-> s, grant |-> g]
                                      ELSE pins[q]
      /\ PinsOn(t)' = PinsOn(t) \cup {p}
      /\ \A u \in Tokens : u # t => PinsOn(u)' = PinsOn(u)
      /\ Cardinality(PinsOn(t)') = Cardinality(PinsOn(t)) + 1
      /\ \A u \in Tokens : uses'[u] = IF u = t THEN uses[u] + 1 ELSE uses[u]
      /\ \A u \in Tokens : owners'[u] = IF u = t THEN s ELSE owners[u]
    BY StorePinSets
<1>3. /\ tokens[t].kind = "unused"
      /\ \A u \in Tokens : u # t => tokens'[u] = tokens[u]
      /\ tokens'[t].kind = "admission" /\ tokens'[t].grant = g /\ tokens'[t].pins = 1
      /\ SessionOf(g) = s
    BY DEF NewAdmission, Admissible, TypeOK
<1>4. calls' \in [Calls -> Call] BY DEF Done, Call, TypeOK
<1>5. /\ \A c \in Calls : calls'[c] = calls[c] \/ (calls[c].phase = "idle" /\ calls'[c].phase = "done")
      /\ \A c \in Calls : calls[c].phase = "held" => calls[c].token # t
      /\ \A c \in Calls : calls[c].phase = "checked" => calls[c].token # t
    BY <1>3 DEF Idle, Done, TypeOK, CallsSound
<1>6. /\ \A u \in Tokens : CallsOn(u)' = CallsOn(u)
      /\ CallsOn(t) = {}
    BY <1>5 DEF CallsOn
<1>7. PinsOn(t) = {}
    BY <1>3, ControlAssumption DEF PinsOn, PinsSound, NoPin
<1>8. PinsSound'
    BY <1>2, <1>3, <1>7 DEF PinsSound, SessionOf, PinsOn
<1>9. CallsSound' BY PinIdFacts, <1>2, <1>3, <1>5 DEF CallsSound, SessionOf
<1>10. PinCountsExact'
    <2> SUFFICES ASSUME NEW u \in Tokens
                 PROVE  /\ tokens'[u].kind = "admission" =>
                           tokens'[u].pins = Cardinality(PinsOn(u)') + Cardinality(CallsOn(u)')
                        /\ tokens'[u].kind = "operation" => tokens'[u].pins = 1
                        /\ uses'[u] = Cardinality(PinsOn(u)')
                        /\ owners'[u] = IF PinsOn(u)' = {} THEN NoSession
                                        ELSE SessionOf(tokens'[u].grant)
        BY DEF PinCountsExact, SessionOf
    <2>1. CASE u = t
        <3>1. Cardinality(PinsOn(t)) = 0 /\ Cardinality(CallsOn(t)') = 0 /\ PinsOn(t)' # {}
            BY <1>2, <1>6, <1>7, FS_EmptySet
        <3>2. uses[t] = 0
            BY <3>1 DEF PinCountsExact
        <3> QED
            BY <2>1, <3>1, <3>2, <1>2, <1>3
    <2>2. CASE u # t
        BY <2>2, <1>2, <1>3, <1>6 DEF PinCountsExact
    <2> QED
        BY <2>1, <2>2
<1> QED
    BY <1>1, <1>2, <1>4, <1>8, <1>9, <1>10

\* The admit handler, with and without a sequence number, accepted or refused.
LEMMA AdmitStepInv == IInv /\ AdmitStep => IInv'
<1> SUFFICES ASSUME IInv, AdmitStep PROVE IInv'
    OBVIOUS
<1> USE DEF IInv, ServerInv
<1>1. PICK s \in Sessions, g \in Grants, t \in Tokens :
         \/ \E n \in 1..MaxSeq : Admit(s, n, g, t)
         \/ \E c \in Calls : AdmitUnsequenced(c, s, g, t)
    BY DEF AdmitStep
<1>2. CASE \E n \in 1..MaxSeq : Admit(s, n, g, t)
    <2>1. PICK n \in 1..MaxSeq : Admit(s, n, g, t)
        BY <1>2
    <2>2. /\ pins[AdmissionPin(s, n)] = NoPin /\ n > highWater[s]
          /\ highWater' = [highWater EXCEPT ![s] = n]
          /\ UNCHANGED <<session, ttl, closed, closing, calls, registered, revoked, released>>
        BY <2>1 DEF Admit
    <2>3. highWater' \in [Sessions -> Nat] /\ ClosingSound'
        BY <2>2 DEF TypeOK, ClosingSound
    <2>4. AdmissionPin(s, n) \in PinIds \ Calls
        BY PinIdFacts
    <2>5. CASE Admissible(s, g)
        <3>1. NewAdmission(g, t) /\ StorePin(AdmissionPin(s, n), t, s, g)
            BY <2>1, <2>5 DEF Admit
        <3>2. /\ pins' \in [PinIds -> Pin] /\ uses' \in [Tokens -> Nat]
              /\ owners' \in [Tokens -> Sessions \cup {NoSession}] /\ calls' \in [Calls -> Call]
              /\ tokens' \in [Tokens -> Admission] /\ rev' \in [Grants -> Revision]
              /\ RegistryInv' /\ PinsSound' /\ CallsSound' /\ PinCountsExact'
            BY <3>1, <2>2, <2>4, <2>5, AdmissionStored
        <3>3. TypeOK'
            BY <3>2, <2>2, <2>3 DEF TypeOK
        <3>4. ReleasesSound'
            <4> SUFFICES ASSUME NEW s2 \in Sessions, NEW n2 \in 1..MaxSeq,
                                AdmissionPin(s2, n2) \in released'
                         PROVE  n2 <= highWater'[s2] /\ pins'[AdmissionPin(s2, n2)] = NoPin
                BY DEF ReleasesSound
            <4>1. n2 <= highWater[s2] /\ pins[AdmissionPin(s2, n2)] = NoPin
                BY <2>2 DEF ReleasesSound
            <4>2. AdmissionPin(s2, n2) # AdmissionPin(s, n) /\ AdmissionPin(s2, n2) \in PinIds
                BY <4>1, <2>2, PinIdFacts DEF TypeOK
            <4>3. pins'[AdmissionPin(s2, n2)] = pins[AdmissionPin(s2, n2)]
                BY <4>2, <3>1 DEF StorePin, TypeOK
            <4>4. n2 <= highWater'[s2]
                BY <4>1, <2>2, ControlAssumption DEF TypeOK
            <4> QED
                BY <4>1, <4>3, <4>4
        <3> QED
            BY <3>2, <3>3, <3>4, <2>3
    <2>6. CASE ~Admissible(s, g)
        BY <2>1, <2>6, <2>2, <2>3, ControlAssumption, SameRegistry, SamePins DEF Admit, TypeOK,
           ReleasesSound
    <2> QED
        BY <2>5, <2>6
<1>3. CASE \E c \in Calls : AdmitUnsequenced(c, s, g, t)
    <2>1. PICK c \in Calls : AdmitUnsequenced(c, s, g, t)
        BY <1>3
    <2>2. /\ calls[c] = Idle /\ Admissible(s, g) /\ NewAdmission(g, t) /\ StorePin(c, t, s, g)
          /\ calls' = [calls EXCEPT ![c] = Done]
          /\ UNCHANGED <<session, ttl, highWater, closed, closing, registered, revoked, released>>
        BY <2>1 DEF AdmitUnsequenced
    <2>3. c \in PinIds /\ pins[c] = NoPin /\ calls'[c].phase = "done"
        BY <2>2, PinIdFacts DEF CallsSound, Idle, Done, TypeOK
    <2>4. /\ pins' \in [PinIds -> Pin] /\ uses' \in [Tokens -> Nat]
          /\ owners' \in [Tokens -> Sessions \cup {NoSession}] /\ calls' \in [Calls -> Call]
          /\ tokens' \in [Tokens -> Admission] /\ rev' \in [Grants -> Revision]
          /\ RegistryInv' /\ PinsSound' /\ CallsSound' /\ PinCountsExact'
        BY <2>2, <2>3, AdmissionStored
    <2>5. TypeOK'
        BY <2>2, <2>4 DEF TypeOK
    <2>6. ReleasesSound' /\ ClosingSound'
        BY <2>2, PinIdFacts DEF ReleasesSound, ClosingSound, StorePin, TypeOK
    <2> QED
        BY <2>4, <2>5, <2>6
<1> QED
    BY <1>1, <1>2, <1>3

\* The pin handler's three critical sections.
LEMMA PinStepInv == IInv /\ PinStep => IInv'
<1> SUFFICES ASSUME IInv, PinStep PROVE IInv'
    OBVIOUS
<1> USE DEF IInv, ServerInv
<1>0. Done \in Call /\ Done.phase = "done"
    BY DEF Done, Call
<1>1. PICK c \in Calls :
         (\E t \in Tokens : PinCheck(c, t)) \/ PinAcquire(c) \/ PinKeep(c) \/ PinAbort(c)
    BY DEF PinStep
<1>2. CASE \E t \in Tokens : PinCheck(c, t)
    <2>1. PICK t \in Tokens : PinCheck(c, t)
        BY <1>2
    <2> DEFINE new == [phase |-> "checked", token |-> t, owner |-> owners[t]]
    <2>2. /\ calls[c] = Idle /\ owners[t] \in Sessions
          /\ calls' = [calls EXCEPT ![c] = new]
          /\ UNCHANGED <<session, ttl, highWater, closed, closing, pins, uses, owners, rev, tokens,
                         registered, revoked, released>>
        BY <2>1 DEF PinCheck, Live, registryVars
    <2>3. PinsOn(t) # {} /\ owners[t] = SessionOf(tokens[t].grant)
        BY <2>2, ControlAssumption DEF PinCountsExact
    <2>4. tokens[t].kind = "admission"
        BY <2>3, ControlAssumption DEF PinsOn, PinsSound, NoPin
    <2>5. new \in Call
        BY <2>2 DEF Call
    <2>6. \A d \in Calls : calls'[d] = IF d = c THEN new ELSE calls[d]
        BY <2>2 DEF TypeOK
    <2>7. TypeOK'
        BY <2>2, <2>5 DEF TypeOK
    <2>8. CallsSound'
        BY <2>2, <2>3, <2>4, <2>6 DEF CallsSound, SessionOf, Idle
    <2>9. \A u \in Tokens : CallsOn(u)' = CallsOn(u) /\ PinsOn(u)' = PinsOn(u)
        BY <2>2, <2>6 DEF CallsOn, PinsOn, Idle
    <2>10. PinCountsExact'
        BY <2>2, <2>9 DEF PinCountsExact, SessionOf
    <2>11. PinsSound' /\ ReleasesSound' /\ ClosingSound'
        BY <2>2 DEF PinsSound, ReleasesSound, ClosingSound, SessionOf
    <2> QED
        BY <2>2, <2>7, <2>8, <2>10, <2>11, SameRegistry
<1>3. CASE PinAcquire(c)
    <2>1. PICK t \in Tokens : calls[c].token = t
        BY <1>3 DEF PinAcquire, CallsSound
    <2>2. /\ calls[c].phase = "checked"
          /\ UNCHANGED <<session, ttl, highWater, closed, closing, pins, uses, owners, rev,
                         registered, revoked, released>>
        BY <1>3 DEF PinAcquire
    <2>3. PinsSound /\ \A u \in Tokens : PinsOn(u)' = PinsOn(u)
        BY <2>2 DEF PinsOn
    <2>4. ReleasesSound' /\ ClosingSound'
        BY <2>2 DEF ReleasesSound, ClosingSound
    <2>5. CASE Held(t) /\ Live(SessionOf(tokens[t].grant))
        <3>1. /\ tokens' = [tokens EXCEPT ![t].pins = @ + 1]
              /\ calls' = [calls EXCEPT ![c] = [@ EXCEPT !.phase = "held"]]
            BY <1>3, <2>1, <2>5 DEF PinAcquire
        <3>2. tokens[t] \in Admission /\ calls[c] \in Call /\ tokens[t].kind = "admission"
            BY <2>1, <2>2, <2>5 DEF TypeOK, CallsSound, Held
        <3>3. /\ tokens' \in [Tokens -> Admission]
              /\ \A u \in Tokens : /\ tokens'[u].kind = tokens[u].kind
                                   /\ tokens'[u].grant = tokens[u].grant
                                   /\ tokens'[u].pins =
                                         IF u = t THEN tokens[u].pins + 1 ELSE tokens[u].pins
            BY <3>1, <3>2 DEF TypeOK, Admission
        <3>4. /\ calls' \in [Calls -> Call]
              /\ \A d \in Calls : /\ calls'[d].phase = IF d = c THEN "held" ELSE calls[d].phase
                                  /\ calls'[d].token = calls[d].token
                                  /\ calls'[d].owner = calls[d].owner
            BY <3>1, <3>2 DEF TypeOK, Call
        <3>5. TypeOK'
            BY <3>3, <3>4, <2>2 DEF TypeOK
        <3>6. \A kind, g : TokensOf(kind, g)' = TokensOf(kind, g)
            BY <3>3 DEF TokensOf
        <3>7. RegistryInv'
            BY <3>3, <2>2, <3>2, <3>6 DEF RegistryInv, TokensSound, Held, SessionOf, TypeOK,
               Admission, LeaseCountsExact, RevisionsSound
        <3>8. PinsSound'
            BY <3>3, <2>2 DEF PinsSound, SessionOf
        <3>9. CallsSound'
            BY <3>2, <3>3, <3>4, <2>1, <2>2 DEF CallsSound, SessionOf
        <3>10. /\ CallsOn(t)' = CallsOn(t) \cup {c} /\ c \notin CallsOn(t)
               /\ \A u \in Tokens : u # t => CallsOn(u)' = CallsOn(u)
            BY <3>4, <2>1, <2>2 DEF CallsOn
        <3>11. /\ Cardinality(CallsOn(t)') = Cardinality(CallsOn(t)) + 1
               /\ Cardinality(CallsOn(t)) \in Nat /\ Cardinality(PinsOn(t)) \in Nat
            BY CountFacts, <3>10 DEF CallsOn, PinsOn
        <3>12. PinCountsExact'
            <4> SUFFICES ASSUME NEW u \in Tokens
                         PROVE  /\ tokens'[u].kind = "admission" => tokens'[u].pins =
                                      Cardinality(PinsOn(u)') + Cardinality(CallsOn(u)')
                                /\ tokens'[u].kind = "operation" => tokens'[u].pins = 1
                                /\ uses'[u] = Cardinality(PinsOn(u)')
                                /\ owners'[u] = IF PinsOn(u)' = {} THEN NoSession
                                                ELSE SessionOf(tokens'[u].grant)
                BY DEF PinCountsExact, SessionOf
            <4>1. CASE u = t
                BY <4>1, <3>2, <3>3, <3>10, <3>11, <2>2, <2>3 DEF PinCountsExact
            <4>2. CASE u # t
                BY <4>2, <3>3, <3>10, <2>2, <2>3 DEF PinCountsExact
            <4> QED
                BY <4>1, <4>2
        <3> QED
            BY <3>5, <3>7, <3>8, <3>9, <3>12, <2>4
    <2>6. CASE ~(Held(t) /\ Live(SessionOf(tokens[t].grant)))
        <3>1. tokens' = tokens /\ calls' = [calls EXCEPT ![c] = Done]
            BY <1>3, <2>1, <2>6 DEF PinAcquire
        <3>2. \A d \in Calls : calls'[d] = IF d = c THEN Done ELSE calls[d]
            BY <3>1 DEF TypeOK
        <3>3. TypeOK'
            BY <3>1, <2>2, <1>0 DEF TypeOK
        <3>4. \A u \in Tokens : CallsOn(u)' = CallsOn(u)
            BY <3>2, <2>2, <1>0 DEF CallsOn
        <3>5. PinsSound' /\ CallsSound'
            BY <3>1, <3>2, <2>2, <1>0 DEF PinsSound, CallsSound, SessionOf
        <3>6. PinCountsExact'
            BY <3>1, <3>4, <2>2, <2>3 DEF PinCountsExact, SessionOf
        <3> QED
            BY <3>1, <3>3, <3>5, <3>6, <2>2, <2>4, SameRegistry
    <2> QED
        BY <2>5, <2>6
<1>4. CASE PinKeep(c)
    <2>1. PICK t \in Tokens, s \in Sessions : calls[c].token = t /\ calls[c].owner = s
        BY <1>4 DEF PinKeep, CallsSound
    <2>2. /\ calls[c].phase = "held" /\ session[s] = "open"
          /\ StorePin(c, t, s, NoGrant) /\ calls' = [calls EXCEPT ![c] = Done]
          /\ UNCHANGED <<session, ttl, highWater, closed, closing, rev, tokens, registered,
                         revoked, released>>
        BY <1>4, <2>1 DEF PinKeep, Serving, Live, registryVars
    <2>3. /\ tokens[t].kind = "admission" /\ SessionOf(tokens[t].grant) = s
          /\ pins[c] = NoPin /\ c \in PinIds
        BY <2>1, <2>2, PinIdFacts DEF CallsSound
    <2>4. /\ pins' \in [PinIds -> Pin] /\ uses' \in [Tokens -> Nat]
          /\ owners' \in [Tokens -> Sessions \cup {NoSession}]
          /\ \A q \in PinIds : pins'[q] = IF q = c THEN [token |-> t, session |-> s, grant |-> NoGrant]
                                          ELSE pins[q]
          /\ PinsOn(t)' = PinsOn(t) \cup {c}
          /\ \A u \in Tokens : u # t => PinsOn(u)' = PinsOn(u)
          /\ Cardinality(PinsOn(t)') = Cardinality(PinsOn(t)) + 1
          /\ \A u \in Tokens : uses'[u] = IF u = t THEN uses[u] + 1 ELSE uses[u]
          /\ \A u \in Tokens : owners'[u] = IF u = t THEN s ELSE owners[u]
        BY <2>2, <2>3, StorePinSets
    <2>5. \A d \in Calls : calls'[d] = IF d = c THEN Done ELSE calls[d]
        BY <2>2 DEF TypeOK
    <2>6. TypeOK'
        BY <2>2, <2>4, <1>0 DEF TypeOK
    <2>7. PinsSound'
        BY <2>2, <2>3, <2>4 DEF PinsSound, SessionOf
    <2>8. CallsSound'
        BY <2>2, <2>4, <2>5, <1>0, PinIdFacts DEF CallsSound, SessionOf
    <2>9. ReleasesSound' /\ ClosingSound'
        BY <2>2, <2>4, PinIdFacts DEF ReleasesSound, ClosingSound
    <2>10. /\ CallsOn(t)' = CallsOn(t) \ {c} /\ c \in CallsOn(t)
           /\ \A u \in Tokens : u # t => CallsOn(u)' = CallsOn(u)
        BY <2>1, <2>2, <2>5, <1>0 DEF CallsOn
    <2>11. /\ Cardinality(CallsOn(t)') = Cardinality(CallsOn(t)) - 1
           /\ Cardinality(CallsOn(t)) \in Nat /\ Cardinality(PinsOn(t)) \in Nat
        <3>1. CallsOn(t) \subseteq Calls /\ PinsOn(t) \subseteq PinIds
            BY DEF CallsOn, PinsOn
        <3>2. Cardinality(PinsOn(t)) \in Nat
            BY <3>1, CountFacts
        <3>3. Cardinality(CallsOn(t)) \in Nat
            BY <3>1, CountFacts
        <3>4. Cardinality(CallsOn(t) \ {c}) = Cardinality(CallsOn(t)) - 1
            BY <3>1, <2>10, CountFacts
        <3> QED
            BY <3>2, <3>3, <3>4, <2>10
    <2>12. PinCountsExact'
        <3> SUFFICES ASSUME NEW u \in Tokens
                     PROVE  /\ tokens'[u].kind = "admission" => tokens'[u].pins =
                                  Cardinality(PinsOn(u)') + Cardinality(CallsOn(u)')
                            /\ tokens'[u].kind = "operation" => tokens'[u].pins = 1
                            /\ uses'[u] = Cardinality(PinsOn(u)')
                            /\ owners'[u] = IF PinsOn(u)' = {} THEN NoSession
                                            ELSE SessionOf(tokens'[u].grant)
            BY DEF PinCountsExact, SessionOf
        <3>1. CASE u = t
            <4>1. PinsOn(t)' # {}
                BY <2>4
            <4> QED
                BY <4>1, <3>1, <2>2, <2>3, <2>4, <2>11 DEF PinCountsExact
        <3>2. CASE u # t
            BY <3>2, <2>2, <2>4, <2>10 DEF PinCountsExact
        <3> QED
            BY <3>1, <3>2
    <2> QED
        BY <2>2, <2>6, <2>7, <2>8, <2>9, <2>12, SameRegistry
<1>5. CASE PinAbort(c)
    <2>1. PICK t \in Tokens : calls[c].token = t
        BY <1>5 DEF PinAbort, CallsSound
    <2>2. /\ calls[c].phase = "held" /\ session[calls[c].owner] = "closed"
          /\ ReleaseLease(t) /\ calls' = [calls EXCEPT ![c] = Done]
          /\ UNCHANGED <<session, ttl, highWater, closed, closing, pins, uses, owners, registered,
                         revoked, released>>
        BY <1>5, <2>1 DEF PinAbort
    <2>3. tokens[t].kind = "dead"
        BY <2>1, <2>2 DEF CallsSound, RegistryInv, TokensSound
    <2>4. tokens' = tokens /\ rev' = rev
        BY <2>2, <2>3 DEF ReleaseLease, ReleaseLeaseTokens, ReleaseLeaseRevisions, Held
    <2>5. \A d \in Calls : calls'[d] = IF d = c THEN Done ELSE calls[d]
        BY <2>2 DEF TypeOK
    <2>6. TypeOK'
        BY <2>2, <2>4, <1>0 DEF TypeOK
    <2>7. PinsSound' /\ CallsSound'
        BY <2>2, <2>4, <2>5, <1>0 DEF PinsSound, CallsSound, SessionOf
    <2>8. ReleasesSound' /\ ClosingSound'
        BY <2>2 DEF ReleasesSound, ClosingSound
    <2>9. \A u \in Tokens : /\ u # t => CallsOn(u)' = CallsOn(u)
                            /\ PinsOn(u)' = PinsOn(u)
        BY <2>1, <2>2, <2>5, <1>0 DEF CallsOn, PinsOn
    <2>10. PinCountsExact'
        BY <2>2, <2>3, <2>4, <2>9 DEF PinCountsExact, SessionOf
    <2> QED
        BY <2>2, <2>4, <2>6, <2>7, <2>8, <2>10, SameRegistry
<1> QED
    BY <1>1, <1>2, <1>3, <1>4, <1>5

\* The release handler, for an admission's pin and for an extra one.
LEMMA ReleaseStepInv == IInv /\ ReleaseStep => IInv'
<1> SUFFICES ASSUME IInv, ReleaseStep PROVE IInv'
    OBVIOUS
<1> USE DEF IInv, ServerInv
<1>1. PICK p \in PinIds :
         /\ ReleasePin(p)
         /\ UNCHANGED <<session, ttl, closed, closing, calls, registered, revoked>>
         /\ \/ /\ highWater' = highWater /\ released' = released
            \/ \E s \in Sessions, n \in 1..MaxSeq :
                  /\ p = AdmissionPin(s, n)
                  /\ released' = released \cup {p}
                  /\ highWater' = [highWater EXCEPT ![s] = IF n > @ THEN n ELSE @]
    BY PinIdFacts DEF ReleaseAdmission, ReleaseExtraPin, ReleaseStep
<1>2. /\ \A q \in PinIds : pins'[q] = IF q = p THEN NoPin ELSE pins[q]
      /\ pins' \in [PinIds -> Pin]
      /\ uses' \in [Tokens -> Nat] /\ owners' \in [Tokens -> Sessions \cup {NoSession}]
      /\ tokens' \in [Tokens -> Admission] /\ rev' \in [Grants -> Revision]
      /\ RegistryInv' /\ PinsSound' /\ CallsSound' /\ PinCountsExact'
    BY <1>1, SameRegistry, SamePins, ReleasePinStep DEF ReleasePin, TypeOK
<1>3. /\ highWater' \in [Sessions -> Nat] /\ released' \subseteq Sessions \X (1..MaxSeq)
      /\ ReleasesSound'
    <2>1. CASE highWater' = highWater /\ released' = released
        BY <2>1, <1>2, PinIdFacts DEF ReleasesSound, TypeOK
    <2>2. CASE \E s \in Sessions, n \in 1..MaxSeq :
                  /\ p = AdmissionPin(s, n)
                  /\ released' = released \cup {p}
                  /\ highWater' = [highWater EXCEPT ![s] = IF n > @ THEN n ELSE @]
        <3>1. PICK s \in Sessions, n \in 1..MaxSeq :
                  /\ p = AdmissionPin(s, n)
                  /\ released' = released \cup {p}
                  /\ highWater' = [highWater EXCEPT ![s] = IF n > @ THEN n ELSE @]
            BY <2>2
        <3>2. highWater' \in [Sessions -> Nat] /\ \A s2 \in Sessions : highWater'[s2] >= highWater[s2]
            BY <3>1, ControlAssumption DEF TypeOK
        <3>3. highWater'[s] >= n
            BY <3>1, ControlAssumption DEF TypeOK
        <3>4. released' \subseteq Sessions \X (1..MaxSeq)
            BY <3>1 DEF TypeOK, AdmissionPin
        <3>5. ReleasesSound' BY <3>1, PinIdFacts, <3>2, <3>3, <1>2 DEF ReleasesSound, TypeOK
        <3> QED
            BY <3>2, <3>4, <3>5
    <2> QED
        BY <2>1, <2>2, <1>1
<1>4. TypeOK' /\ ClosingSound'
    BY <1>1, <1>2, <1>3 DEF TypeOK, ClosingSound
<1> QED
    BY <1>2, <1>3, <1>4

\* A resource request takes its operation token and gives it back.
LEMMA ResourceStepInv == IInv /\ ResourceStep => IInv'
<1> SUFFICES ASSUME IInv, ResourceStep PROVE IInv'
    OBVIOUS
<1> USE DEF IInv, ServerInv
<1>1. PICK t \in Tokens :
         (\E g \in Grants, x \in Resources : AcquireResource(g, x, t)) \/ FinishResource(t)
    BY DEF ResourceStep
<1>2. UNCHANGED <<session, ttl, highWater, closed, closing, pins, uses, owners, calls,
                  registered, revoked, released>>
    BY <1>1 DEF AcquireResource, FinishResource, serverVars
<1>3. /\ tokens' \in [Tokens -> Admission] /\ rev' \in [Grants -> Revision]
      /\ RegistryInv'
      /\ \A u \in Tokens : u # t => tokens'[u] = tokens[u]
      /\ tokens[t].kind \in {"unused", "operation"}
      /\ tokens'[t].kind \in {"operation", "dead"}
      /\ tokens'[t].kind = "operation" => tokens'[t].pins = 1
    <2>1. CASE \E g \in Grants, x \in Resources : AcquireResource(g, x, t)
        <3>1. PICK g \in Grants, x \in Resources : AcquireResource(g, x, t)
            BY <2>1
        <3>2. /\ tokens' = [tokens EXCEPT ![t] = [kind |-> "operation", grant |-> g, pins |-> 1]]
              /\ tokens[t].kind = "unused"
            BY <3>1 DEF AcquireResource
        <3> QED
            BY <3>1, <3>2, AcquireResourceStep DEF TypeOK
    <2>2. CASE FinishResource(t)
        BY <2>2, <1>2, ReleaseLeaseStep DEF FinishResource, Held, PinCountsExact, Dead
    <2> QED
        BY <2>1, <2>2, <1>1
<1>4. TypeOK'
    BY <1>2, <1>3 DEF TypeOK
<1>5. PinsSound'
    BY <1>2, <1>3 DEF PinsSound, SessionOf
<1>6. CallsSound'
    BY <1>2, <1>3 DEF CallsSound, SessionOf
<1>7. ReleasesSound' /\ ClosingSound'
    BY <1>2 DEF ReleasesSound, ClosingSound
<1>8. PinCountsExact'
    <2>1. \A u \in Tokens : PinsOn(u)' = PinsOn(u) /\ CallsOn(u)' = CallsOn(u)
        BY <1>2 DEF PinsOn, CallsOn
    <2>2. PinsOn(t) = {}
        BY <1>3, ControlAssumption DEF PinsOn, PinsSound, NoPin
    <2> QED
        BY <2>1, <2>2, <1>2, <1>3 DEF PinCountsExact, SessionOf
<1> QED
    BY <1>3, <1>4, <1>5, <1>6, <1>7, <1>8

\* A stuttering step changes nothing.
LEMMA StutterInv == IInv /\ UNCHANGED vars => IInv'
<1> SUFFICES ASSUME IInv, UNCHANGED vars PROVE IInv'
    OBVIOUS
<1> USE DEF IInv, ServerInv, vars
<1>1. TypeOK' /\ ReleasesSound' /\ ClosingSound'
    BY DEF TypeOK, ReleasesSound, ClosingSound
<1> QED
    BY <1>1, SameRegistry, SamePins

-----------------------------------------------------------------------------
(* Theorems.                                                               *)

\* The inductive invariant holds in every reachable state.
THEOREM Inductive == Spec => []IInv
<1>1. IInv /\ [Next]_vars => IInv'
    BY SessionStepInv, CloseStepInv, GrantStepInv, AdmitStepInv, PinStepInv, ReleaseStepInv,
       ResourceStepInv, StutterInv DEF Next
<1> QED
    BY <1>1, InitInv, PTL DEF Spec

\* Type correctness of the registry and its server.
THEOREM TypeCorrect == Spec => []TypeOK
<1>1. IInv => TypeOK
    BY DEF IInv
<1> QED
    BY <1>1, Inductive, PTL

\* ExecutionLease, releasePinLocked and RevokeResourceSession keep every reference
\* count exact, for any number of sessions, tokens and pin calls.
THEOREM ReferenceCounting == Spec => []CountsExact
<1>1. IInv => CountsExact
    BY DEF IInv, RegistryInv, ServerInv, CountsExact
<1> QED
    BY <1>1, Inductive, PTL

\* Objects of a deployment stay protected while any token of it is held.
THEOREM Protection == Spec => []AdmittedWorkProtected
<1>1. IInv => AdmittedWorkProtected
    <2> SUFFICES ASSUME IInv, NEW t \in Tokens, Held(t)
                 PROVE  rev[tokens[t].grant].state # "absent"
        BY DEF AdmittedWorkProtected
    <2>1. PICK g \in Grants : tokens[t].grant = g
        BY DEF IInv, RegistryInv, TokensSound
    <2>2. t \in TokensOf("admission", g) \/ t \in TokensOf("operation", g)
        BY <2>1 DEF Held, TokensOf
    <2>3. TokensOf("admission", g) \subseteq Tokens /\ TokensOf("operation", g) \subseteq Tokens
        BY DEF TokensOf
    <2>4. Cardinality(TokensOf("admission", g)) = 0 <=> TokensOf("admission", g) = {}
        BY <2>3, CountFacts
    <2>5. Cardinality(TokensOf("operation", g)) = 0 <=> TokensOf("operation", g) = {}
        BY <2>3, CountFacts
    <2>6. rev[g].leases # 0 \/ rev[g].operations # 0
        BY <2>2, <2>4, <2>5 DEF IInv, RegistryInv, LeaseCountsExact
    <2> QED
        BY <2>1, <2>6 DEF IInv, RegistryInv, RevisionsSound, RevisionSound, Absent
<1> QED
    BY <1>1, Inductive, PTL

\* No revision outlives what it is kept for.
THEOREM Collection == Spec => []NoStrandedRevision
<1>1. IInv => NoStrandedRevision
    <2> SUFFICES ASSUME IInv, NEW g \in Grants
                 PROVE  /\ rev[g].state = "draining" => TokensOf("admission", g) # {}
                        /\ rev[g].state = "revoked" =>
                              TokensOf("admission", g) = {} /\ TokensOf("operation", g) # {}
        BY DEF NoStrandedRevision
    <2>3. TokensOf("admission", g) \subseteq Tokens /\ TokensOf("operation", g) \subseteq Tokens
        BY DEF TokensOf
    <2>4. Cardinality(TokensOf("admission", g)) = 0 <=> TokensOf("admission", g) = {}
        BY <2>3, CountFacts
    <2>5. Cardinality(TokensOf("operation", g)) = 0 <=> TokensOf("operation", g) = {}
        BY <2>3, CountFacts
    <2> QED
        BY <2>4, <2>5 DEF IInv, RegistryInv, LeaseCountsExact, RevisionsSound, RevisionSound
<1> QED
    BY <1>1, Inductive, PTL

\* A closed session keeps no authority, whatever was in flight when it closed.
THEOREM Revocation == Spec => []ClosedSessionHoldsNothing
<1>1. IInv => ClosedSessionHoldsNothing
    <2> SUFFICES ASSUME IInv, NEW s \in Sessions, session[s] = "closed"
                 PROVE  /\ \A t \in Tokens :
                              /\ tokens[t].kind = "admission" => SessionOf(tokens[t].grant) # s
                              /\ owners[t] # s
                        /\ \A p \in PinIds : pins[p].session # s
                        /\ \A g \in Grants : SessionOf(g) = s => rev[g].state \in {"absent", "revoked"}
        BY DEF ClosedSessionHoldsNothing
    <2>1. \A t \in Tokens : tokens[t].kind = "admission" => SessionOf(tokens[t].grant) # s
        BY DEF IInv, RegistryInv, TokensSound
    <2>2. \A p \in PinIds : pins[p].session # s
        BY <2>1, ControlAssumption DEF IInv, ServerInv, PinsSound, NoPin
    <2>3. \A t \in Tokens : owners[t] # s
        <3> SUFFICES ASSUME NEW t \in Tokens, owners[t] = s PROVE FALSE
            OBVIOUS
        <3>1. PinsOn(t) # {} /\ SessionOf(tokens[t].grant) = s
            BY ControlAssumption DEF IInv, ServerInv, PinCountsExact
        <3>2. tokens[t].kind = "admission"
            BY <3>1, ControlAssumption DEF IInv, ServerInv, PinsSound, PinsOn, NoPin
        <3> QED
            BY <3>1, <3>2, <2>1
    <2>4. \A g \in Grants : SessionOf(g) = s => rev[g].state \in {"absent", "revoked"}
        BY DEF IInv, RegistryInv, RevisionsSound, RevisionSound
    <2> QED
        BY <2>1, <2>2, <2>3, <2>4
<1> QED
    BY <1>1, Inductive, PTL

\* A canceled admission is never admitted late.
THEOREM Cancellation == Spec => []CanceledStaysCanceled
<1>1. IInv => CanceledStaysCanceled
    BY DEF IInv, ServerInv, ReleasesSound, CanceledStaysCanceled, TypeOK, AdmissionPin
<1> QED
    BY <1>1, Inductive, PTL

-----------------------------------------------------------------------------
(***************************************************************************)
(* The execution registry and its server implement GrantLifecycle, for     *)
(* every number of sessions, grants, tokens and calls.  Each step of the   *)
(* registry is one step of the grant it is about, or changes nothing a     *)
(* grant promises.                                                         *)
(***************************************************************************)

\* What the refinement mapping shows of a grant.
Content(g) == rev[g].snapshot
Work(g) == TokensOf("admission", g)
Ops(g) == TokensOf("operation", g)
Issued == {t \in Tokens : tokens[t].kind # "unused"}

\* Something still needs the content of grant g.
Needed(g) == Status(g) \in {"prepared", "published", "draining"} \/ Work(g) # {} \/ Ops(g) # {}

\* The step says nothing new of grant g.
SameGrant(g) == Status(g)' = Status(g) /\ Content(g)' = Content(g)
                    /\ Work(g)' = Work(g) /\ Ops(g)' = Ops(g)

-----------------------------------------------------------------------------
(* The grants as the invariant shows them.                                 *)

\* What the inductive invariant says of one grant.
LEMMA GrantState ==
    ASSUME IInv, NEW g \in Grants
    PROVE  /\ rev[g] \in Revision /\ SessionOf(g) \in Sessions
           /\ session[SessionOf(g)] \in {"new", "open", "closed"}
           /\ RevisionSound(rev[g], session[SessionOf(g)])
           /\ rev[g].leases = Cardinality(Work(g)) /\ rev[g].operations = Cardinality(Ops(g))
           /\ rev[g].leases = 0 <=> Work(g) = {}
           /\ rev[g].operations = 0 <=> Ops(g) = {}
           /\ rev[g].state # "absent" /\ session[SessionOf(g)] = "open" => g \in registered
BY GrantFacts, CountFacts DEF IInv, TypeOK, RegistryInv, RevisionsSound, LeaseCountsExact, Work,
   Ops, TokensOf

\* Content that is needed belongs to a revision; content nobody needs is not kept.
ContentExact ==
    \A g \in Grants : IF Needed(g) THEN rev[g].state # "absent" ELSE Content(g) = NoSnapshot

\* The invariant keeps a grant's content exactly while it is needed.
LEMMA ContentKept == IInv => ContentExact
BY GrantState DEF ContentExact, Needed, RevisionSound, Status, Revision, GrantStates, Absent,
   Content

\* A revision that stays keeps its content, so content is settled.
LEMMA Settled ==
    ASSUME ContentExact', \A g \in Grants : rev'[g].state # "absent" => Content(g)' = Content(g)
    PROVE  Life!Settle
BY DEF ContentExact, Life!Settle, Life!Kept, Needed, Content, Work, Ops

\* A step that changes no grant and issues no token is a stuttering step.
LEMMA Stutters ==
    ASSUME \A g \in Grants : SameGrant(g), Issued' = Issued
    PROVE  UNCHANGED Life!vars
BY DEF Life!vars, SameGrant, Content, Work, Ops, Issued

-----------------------------------------------------------------------------
(* Releases.                                                               *)

\* A collected revision of an open session: what it was, gone when only operations are
\* left, or dropped.
LEMMA CollectedStatus ==
    ASSUME NEW rv \in Revision
    PROVE  LET new == CollectRevision(rv) IN
           /\ new.state # "absent" => new.snapshot = rv.snapshot
           /\ new.state = IF rv.accepting \/ rv.state = "prepared" \/ rv.leases > 0 THEN rv.state
                          ELSE IF rv.operations > 0 THEN "revoked" ELSE "absent"
BY DEF CollectRevision, Revision, Absent

\* The last pin of an admission finishes it, the end of an operation completes it, and a
\* pin of several changes nothing of the grant.
LEMMA ReleaseLeaseMaps ==
    ASSUME IInv, IInv', ContentExact', NEW t \in Tokens, Held(t), ReleaseLease(t),
           UNCHANGED <<session, registered, revoked>>
    PROVE  [Life!Next]_Life!vars
<1>1. PICK g \in Grants, k \in {"admission", "operation"} :
         tokens[t].grant = g /\ tokens[t].kind = k
    BY DEF IInv, RegistryInv, TokensSound, Held
<1>2. /\ rev \in [Grants -> Revision] /\ tokens \in [Tokens -> Admission]
      /\ rev[g] \in Revision /\ tokens[t] \in Admission /\ tokens[t].pins > 0
      /\ tokens[t].pins \in Nat
    BY DEF IInv, TypeOK, RegistryInv, TokensSound, Admission
<1>3. CASE tokens[t].pins > 1
  <2>1. tokens' = [tokens EXCEPT ![t].pins = @ - 1] /\ rev' = rev
    BY <1>3 DEF ReleaseLease, ReleaseLeaseTokens, ReleaseLeaseRevisions
  <2>2. \A u \in Tokens : tokens'[u].kind = tokens[u].kind /\ tokens'[u].grant = tokens[u].grant
    BY <1>2, <2>1 DEF Admission
  <2>3. /\ \A kind, h : TokensOf(kind, h)' = TokensOf(kind, h)
        /\ Issued' = Issued
    BY <2>2 DEF TokensOf, Issued
  <2>4. \A h \in Grants : SameGrant(h)
    BY <2>1, <2>3 DEF SameGrant, Status, Content, Work, Ops
  <2> QED
    BY <2>3, <2>4, Stutters
<1>4. CASE tokens[t].pins = 1
  <2> DEFINE rv == EndLease(tokens[t], rev[g])
             new == CollectRevision(rv)
  <2>1. /\ tokens' = [tokens EXCEPT ![t] = Dead]
        /\ rev' = [rev EXCEPT ![g] = CollectRevision(rv)]
    BY <1>1, <1>2, <1>4 DEF ReleaseLease, ReleaseLeaseTokens, ReleaseLeaseRevisions
  <2>2. /\ rev'[g] = new /\ \A h \in Grants : h # g => rev'[h] = rev[h]
        /\ tokens'[t] = Dead /\ \A u \in Tokens : u # t => tokens'[u] = tokens[u]
    BY <1>2, <2>1
  <2>3. /\ \A kind \in {"admission", "operation"}, h \in Grants :
              TokensOf(kind, h)' = IF kind = k /\ h = g THEN TokensOf(kind, h) \ {t}
                                   ELSE TokensOf(kind, h)
        /\ t \in TokensOf(k, g) /\ t \in Tokens
    BY <1>1, <2>2 DEF TokensOf, Dead
  <2>4. Issued' = Issued
    BY <1>1, <2>2 DEF Issued, Dead
  <2>5. /\ RevisionSound(rev[g], session[SessionOf(g)])
        /\ session[SessionOf(g)] \in {"new", "open", "closed"}
        /\ rev[g].leases = Cardinality(Work(g)) /\ rev[g].operations = Cardinality(Ops(g))
        /\ rev[g].leases = 0 <=> Work(g) = {}
        /\ rev[g].operations = 0 <=> Ops(g) = {}
        /\ rev[g].state # "absent" /\ session[SessionOf(g)] = "open" => g \in registered
    BY GrantState
  <2>6. TokensOf(k, g) = IF k = "admission" THEN Work(g) ELSE Ops(g)
    BY DEF Work, Ops
  <2>7. \A h \in Grants : h # g => SameGrant(h)
    BY <2>2, <2>3 DEF SameGrant, Status, Content, Work, Ops
  <2>8. /\ rv \in Revision /\ rv.state = rev[g].state /\ rv.accepting = rev[g].accepting
        /\ rv.snapshot = rev[g].snapshot
        /\ rv.leases = IF k = "admission" THEN rev[g].leases - 1 ELSE rev[g].leases
        /\ rv.operations = IF k = "operation" THEN rev[g].operations - 1 ELSE rev[g].operations
    <3>1. /\ k = "admission" => rev[g].leases # 0
          /\ k = "operation" => rev[g].operations # 0
      BY <2>3, <2>5, <2>6
    <3> QED
      BY <1>1, <1>2, <3>1 DEF EndLease, Revision
  <2> HIDE DEF rv
  <2>9. /\ new.state # "absent" => new.snapshot = rev[g].snapshot
        /\ new.state = IF rv.accepting \/ rv.state = "prepared" \/ rv.leases > 0 THEN rv.state
                       ELSE IF rv.operations > 0 THEN "revoked" ELSE "absent"
    BY <2>8, CollectedStatus
  <2> HIDE DEF new
  <2>13. rev[g].state \in {"prepared", "published", "draining", "revoked"}
    BY <1>2, <2>3, <2>5, <2>6 DEF RevisionSound, Absent, Revision, GrantStates
  <2>14. g \in registered' \/ session[SessionOf(g)] = "closed"
    BY <2>5, <2>13 DEF RevisionSound
  <2>10. Life!Settle BY <2>2, <2>9, Settled DEF Content
  <2>11. CASE k = "admission"
    <3>1. /\ Work(g)' = Work(g) \ {t} /\ t \in Work(g) /\ Ops(g)' = Ops(g)
      BY <2>3, <2>11 DEF Work, Ops
    <3>2. rv.leases = 0 <=> Work(g) = {t}
      <4>1. Work(g) \subseteq Tokens /\ Cardinality(Work(g) \ {t}) = rev[g].leases - 1
        BY ZenonT(60), <2>5, <3>1, CountFacts DEF Work, TokensOf
      <4>2. Cardinality(Work(g) \ {t}) = 0 <=> Work(g) \ {t} = {}
        BY <4>1, CountFacts
      <4> QED
        BY <2>8, <2>11, <3>1, <4>1, <4>2
    <3>3. Status(g)' = IF Status(g) = "draining" /\ Work(g) = {t} THEN "gone" ELSE Status(g)
      <4>1. rv.leases \in Nat /\ rev[g].leases # 0
        BY <2>5, <2>8, <3>1 DEF Revision
      <4>2. session[SessionOf(g)] = "open" /\ rev[g].state \in {"published", "draining"}
        BY <2>5, <2>13, <4>1 DEF RevisionSound
      <4>3. Status(g) = rev[g].state /\ g \in registered'
        BY <2>14, <4>2 DEF Status
      <4>4. CASE rev[g].state = "published"
          BY <2>2, <2>5, <2>8, <2>9, <4>4, <4>2, <4>3 DEF RevisionSound, Status
      <4>5. CASE rev[g].state = "draining"
        <5>1. rev'[g].state = IF rv.leases > 0 THEN "draining"
                              ELSE IF rv.operations > 0 THEN "revoked" ELSE "absent"
          BY <2>2, <2>5, <2>8, <2>9, <4>5 DEF RevisionSound
        <5>2. Status(g)' = IF rv.leases > 0 THEN "draining" ELSE "gone"
          BY <4>2, <4>3, <5>1 DEF Status
        <5> QED
          BY <3>2, <4>1, <4>3, <4>5, <5>2
      <4> QED
        BY <4>2, <4>4, <4>5
    <3>4. Life!Finish(g, t)
      BY <2>4, <2>7, <2>10, <3>1, <3>3
      DEF Life!Finish, SameGrant, Work, Ops, Issued
    <3> QED
      BY <3>4 DEF Life!Next
  <2>12. CASE k = "operation"
    <3>1. /\ Ops(g)' = Ops(g) \ {t} /\ t \in Ops(g) /\ Work(g)' = Work(g)
      BY <2>3, <2>12 DEF Work, Ops
    <3>2. Status(g)' = Status(g)
      BY <1>2, <2>2, <2>5, <2>8, <2>9, <2>12, <2>13, <2>14 DEF Status, RevisionSound
    <3>3. Life!Complete(g, t)
      BY <2>4, <2>7, <2>10, <3>1, <3>2
      DEF Life!Complete, SameGrant, Work, Ops, Issued
    <3> QED
      BY <3>3 DEF Life!Next
  <2> QED
    BY <2>11, <2>12
<1> QED
    BY <1>2, <1>3, <1>4

\* releasePinLocked: a pin that is not stored changes nothing.
LEMMA ReleasePinMaps ==
    ASSUME IInv, IInv', ContentExact', NEW p \in PinIds, ReleasePin(p),
           UNCHANGED <<session, registered, revoked>>
    PROVE  [Life!Next]_Life!vars
<1>1. CASE pins[p] = NoPin
    BY <1>1, Stutters DEF ReleasePin, Issued, SameGrant, Status, Content, Work, Ops, TokensOf
<1>2. CASE pins[p] # NoPin
    BY <1>2, ReleaseLeaseMaps DEF IInv, ServerInv, PinsSound, Held, ReleasePin
<1> QED
    BY <1>1, <1>2

-----------------------------------------------------------------------------
(* Sessions and grants.                                                    *)

\* A step of the server that closes no session and leaves the registry alone.
LEMMA ServerStutters ==
    ASSUME UNCHANGED <<tokens, rev, registered, revoked>>,
           \A s \in Sessions : session'[s] = "closed" <=> session[s] = "closed"
    PROVE  UNCHANGED Life!vars
BY GrantFacts, Stutters DEF Issued, SameGrant, Status, Content, Work, Ops, TokensOf

\* RevokeResourceSession ends every grant of the session and leaves operations running.
LEMMA RevokeMaps ==
    ASSUME IInv, IInv', ContentExact', CloseRevoke
    PROVE  Life!Next
<1> DEFINE s == closing
           mine == {g \in Grants : SessionOf(g) = s}
           Swept(g) == [rev[g] EXCEPT !.state = "revoked", !.accepting = FALSE,
                                      !.leases = @ - Cardinality(AdmissionsOf({g}))]
<1>1. s \in Sessions
    BY DEF CloseRevoke, IInv, TypeOK
<1>2. /\ \A t \in Tokens : tokens'[t] = IF t \in AdmissionsOf(mine) THEN Dead ELSE tokens[t]
      /\ \A g \in Grants : rev'[g] =
            IF g \notin mine \/ rev[g].state = "absent" THEN rev[g] ELSE CollectRevision(Swept(g))
      /\ registered' = registered \ mine /\ revoked' = revoked \ mine
      /\ session' = [session EXCEPT ![s] = "closed"]
    BY DEF CloseRevoke, RevokeResourceSession
<1>3. \A g \in Grants : session'[SessionOf(g)] = IF g \in mine THEN "closed" ELSE session[SessionOf(g)]
    BY <1>2, GrantFacts DEF IInv, TypeOK
<1>4. \A g \in Grants :
         /\ Work(g)' = IF g \in mine THEN {} ELSE Work(g)
         /\ Ops(g)' = Ops(g)
  <2>0. \A t \in Tokens : tokens'[t] = IF t \in AdmissionsOf(mine) THEN Dead ELSE tokens[t]
    BY <1>2
  <2>1. \A g \in Grants :
           /\ TokensOf("admission", g)' = IF g \in mine THEN {} ELSE TokensOf("admission", g)
           /\ TokensOf("operation", g)' = TokensOf("operation", g)
    BY <2>0 DEF TokensOf, AdmissionsOf, Dead
  <2> QED
    BY <2>1 DEF Work, Ops
<1>5. Issued' = Issued
  <2>1. \A t \in AdmissionsOf(mine) : tokens[t].kind = "admission"
    BY DEF AdmissionsOf
  <2>2. \A t \in Tokens : tokens'[t].kind # "unused" <=> tokens[t].kind # "unused"
    <3>1. \A t \in Tokens : tokens'[t] = IF t \in AdmissionsOf(mine) THEN Dead ELSE tokens[t]
      BY <1>2
    <3>2. Dead.kind = "dead"
      BY DEF Dead
    <3> HIDE DEF mine
    <3> QED
      BY <2>1, <3>1, <3>2
  <2> QED
    BY <2>2 DEF Issued
<1>6. \A g \in Grants : rev'[g].state # "absent" => Content(g)' = Content(g)
  <2> SUFFICES ASSUME NEW g \in Grants, rev'[g].state # "absent" PROVE Content(g)' = Content(g)
    OBVIOUS
  <2>1. CASE g \notin mine \/ rev[g].state = "absent"
    BY <1>2, <2>1 DEF Content
  <2>2. CASE g \in mine /\ rev[g].state # "absent"
    <3>1. /\ rev'[g] = CollectRevision(Swept(g)) /\ Swept(g).snapshot = rev[g].snapshot
          /\ rev[g] \in Revision
      <4>1. rev'[g] = CollectRevision(Swept(g))
        BY <1>2, <2>2
      <4>2. PICK rv \in Revision : rv = rev[g]
        BY DEF IInv, TypeOK
      <4>3. Swept(g).snapshot = rv.snapshot
        BY <4>2 DEF Revision
      <4> HIDE DEF Swept
      <4> QED
        BY <4>1, <4>2, <4>3
    <3> HIDE DEF Swept
    <3>2. /\ CollectRevision(Swept(g)).snapshot \in {Swept(g).snapshot, Absent.snapshot}
          /\ (CollectRevision(Swept(g)) = Absent
                \/ CollectRevision(Swept(g)).snapshot = Swept(g).snapshot)
        BY <3>1 DEF CollectRevision, Swept, Revision
    <3>3. Absent.state = "absent"
      BY DEF Absent
    <3> QED
      BY <3>1, <3>2, <3>3 DEF Content
  <2> QED
    BY <2>1, <2>2
<1>7. \A g \in Grants : Status(g)' = IF g \in mine THEN "gone" ELSE Status(g)
    BY <1>2, <1>3 DEF Status
<1>8. Life!Settle
    BY <1>6, Settled
<1>9. mine \in SUBSET Grants
    OBVIOUS
<1> HIDE DEF mine
<1>10. Life!Revoke(mine)
    BY <1>4, <1>5, <1>7, <1>8 DEF Life!Revoke, Work, Ops, Issued
<1> QED
    BY <1>9, <1>10 DEF Life!Next

\* Registration, publication and retirement of a grant.
LEMMA GrantMaps ==
    ASSUME IInv, IInv', ContentExact', NEW s \in Sessions, NEW r \in Registrations,
           \/ \E x \in Snapshots : Register(s, r, x)
           \/ \E s2 \in Sessions : Publish(s2, ResourceGrantID(s, r))
           \/ Retire(ResourceGrantID(s, r))
    PROVE  [Life!Next]_Life!vars
<1>0. PICK g \in Grants : g = ResourceGrantID(s, r) /\ SessionOf(g) = s
    BY GrantFacts
<1>1. UNCHANGED <<serverVars, tokens>> /\ session' = session
    BY DEF Register, Publish, Retire, serverVars
<1>2. \A h \in Grants : Work(h)' = Work(h) /\ Ops(h)' = Ops(h)
    BY <1>1 DEF Work, Ops, TokensOf
<1>3. Issued' = Issued
    BY <1>1 DEF Issued
<1>4. /\ rev \in [Grants -> Revision] /\ rev[g] \in Revision
      /\ session[s] \in {"new", "open", "closed"}
      /\ RevisionSound(rev[g], session[s])
      /\ rev[g].leases = 0 <=> Work(g) = {}
      /\ rev[g].state # "absent" /\ session[s] = "open" => g \in registered
    BY <1>0, GrantState DEF IInv, TypeOK
<1>5. ASSUME NEW x \in Snapshots, Register(s, r, x) PROVE Life!Next
  <2>1. /\ rev' = [rev EXCEPT ![g] = Prepared(x)] /\ registered' = registered \cup {g}
        /\ g \notin registered /\ g \notin revoked /\ revoked' = revoked /\ session[s] = "open"
    BY <1>0, <1>5 DEF Register, Serving, Live
  <2>2. Prepared(x).state = "prepared" /\ Prepared(x).snapshot = x
    BY DEF Prepared, Absent
  <2>3. /\ rev'[g] = Prepared(x) /\ \A h \in Grants : h # g => rev'[h] = rev[h]
    BY <1>4, <2>1
  <2>4. rev[g].state = "absent" /\ Status(g) = "absent"
    BY <1>0, <1>4, <2>1 DEF Status
  <2>5. Status(g)' = "prepared" /\ Content(g)' = x
    BY <1>0, <1>1, <2>1, <2>2, <2>3 DEF Status, Content
  <2>6. \A h \in Grants : h # g => Status(h)' = Status(h) /\ Content(h)' = Content(h)
    BY <1>1, <2>1, <2>3 DEF Status, Content
  <2>7. Life!Prepare(g, x)
    BY <1>2, <1>3, <2>4, <2>5, <2>6 DEF Life!Prepare, Content, Work, Ops, Issued
  <2> QED
    BY <2>7 DEF Life!Next
<1>6. ASSUME NEW s2 \in Sessions, Publish(s2, g) PROVE [Life!Next]_Life!vars
  <2>1. /\ rev' = [rev EXCEPT ![g].state = "published", ![g].accepting = TRUE]
        /\ rev[g].state \in {"prepared", "published"} /\ session[s] = "open"
        /\ UNCHANGED <<registered, revoked>>
    BY <1>0, <1>6 DEF Publish, Serving, Live
  <2>2. /\ rev'[g].state = "published" /\ rev'[g].snapshot = rev[g].snapshot
        /\ \A h \in Grants : h # g => rev'[h] = rev[h]
    BY <1>4, <2>1 DEF Revision
  <2>3. /\ Status(g)' = "published" /\ Status(g) = rev[g].state /\ Content(g)' = Content(g)
        /\ \A h \in Grants : h # g => Status(h)' = Status(h) /\ Content(h)' = Content(h)
    <3>1. Status(g)' = "published" /\ Status(g) = rev[g].state /\ Content(g)' = Content(g)
      BY <1>0, <1>1, <2>1, <2>2 DEF Status, Content
    <3>2. \A h \in Grants : h # g => Status(h)' = Status(h) /\ Content(h)' = Content(h)
      <4>1. UNCHANGED <<session, registered, revoked>>
        BY <1>1, <2>1
      <4>2. \A h \in Grants : h # g => rev'[h] = rev[h]
        BY <2>2
      <4> QED
        BY <4>1, <4>2 DEF Status, Content
    <3> QED
      BY <3>1, <3>2
  <2>4. CASE rev[g].state = "prepared"
      BY <1>2, <1>3, <2>3, <2>4 DEF Life!Publish, Content, Work, Ops, Issued, Life!Next
  <2>5. CASE rev[g].state = "published" BY <1>2, <2>3, <2>5, <1>3, Stutters DEF SameGrant
  <2> QED
    BY <2>1, <2>4, <2>5
<1>7. ASSUME Retire(g) PROVE Life!Next
  <2> DEFINE rv == [rev[g] EXCEPT !.state = "draining", !.accepting = FALSE]
  <2>1. /\ rev' = IF rev[g].state = "absent" THEN rev ELSE [rev EXCEPT ![g] = CollectRevision(rv)]
        /\ revoked' = revoked \cup {g} /\ registered' = registered /\ session[s] = "open"
    BY <1>0, <1>7 DEF Retire, Live
  <2>2. /\ rv \in Revision /\ rv.state = "draining" /\ ~rv.accepting
        /\ rv.leases = rev[g].leases /\ rv.snapshot = rev[g].snapshot /\ rv.leases \in Nat
    BY <1>4 DEF Revision, GrantStates
  <2> HIDE DEF rv
  <2>3. /\ CollectRevision(rv).state # "absent" => CollectRevision(rv).snapshot = rev[g].snapshot
        /\ rev[g].leases > 0 => CollectRevision(rv).state = "draining"
        /\ rev[g].leases = 0 => CollectRevision(rv).state \in {"revoked", "absent"}
    BY <2>2, CollectedStatus
  <2>4. /\ rev[g].state = "absent" => rev'[g] = rev[g]
        /\ rev[g].state # "absent" => rev'[g] = CollectRevision(rv)
        /\ \A h \in Grants : h # g => rev'[h] = rev[h]
    BY <1>4, <2>1
  <2>5. rev[g].state = "absent" => rev[g].leases = 0
    BY <1>4 DEF RevisionSound, Absent
  <2>6. Status(g)' = IF Work(g) = {} THEN "gone" ELSE "draining"
    <3>1. CASE Work(g) = {}
      BY <1>0, <1>1, <1>4, <2>1, <2>3, <2>4, <3>1 DEF Status
    <3>2. CASE Work(g) # {}
      <4>1. rev[g].leases > 0 /\ rev[g].state # "absent"
        BY <1>4, <2>2, <2>5, <3>2
      <4> QED
        BY <1>0, <1>1, <2>1, <2>3, <2>4, <3>2, <4>1 DEF Status
    <3> QED
      BY <3>1, <3>2
  <2>7. \A h \in Grants : h # g => Status(h)' = Status(h)
    BY <1>1, <2>1, <2>4 DEF Status
  <2>8. Life!Settle BY <2>3, <2>4, Settled DEF Content
  <2>9. Life!Retire(g)
    BY <1>2, <1>3, <2>6, <2>7, <2>8 DEF Life!Retire, Work, Ops, Issued
  <2> QED
    BY <2>9 DEF Life!Next
<1> QED
    BY <1>0, <1>5, <1>6, <1>7

-----------------------------------------------------------------------------
(* Admissions and resource requests.                                       *)

\* An admission is fresh work of a published grant.
LEMMA AdmissionMaps ==
    ASSUME IInv, NEW s \in Sessions, NEW g \in Grants, NEW t \in Tokens,
           Admissible(s, g), NewAdmission(g, t), UNCHANGED <<session, registered, revoked>>
    PROVE  Life!Next
<1>1. /\ tokens' = [tokens EXCEPT ![t] = [kind |-> "admission", grant |-> g, pins |-> 1]]
      /\ rev' = [rev EXCEPT ![g].leases = @ + 1]
      /\ tokens[t].kind = "unused" /\ rev[g].accepting
      /\ session[SessionOf(g)] = "open"
    BY DEF NewAdmission, Admissible, Live
<1>2. rev \in [Grants -> Revision] /\ tokens \in [Tokens -> Admission] /\ rev[g] \in Revision
    BY DEF IInv, TypeOK
<1>3. rev[g].state = "published"
    BY <1>1, GrantState DEF RevisionSound
<1>4. /\ Work(g)' = Work(g) \cup {t}
      /\ \A h \in Grants : h # g => Work(h)' = Work(h)
      /\ \A h \in Grants : Ops(h)' = Ops(h)
      /\ Issued' = Issued \cup {t} /\ t \notin Issued
    BY <1>1, <1>2 DEF Work, Ops, TokensOf, Issued
<1>5. \A h \in Grants : rev'[h].state = rev[h].state /\ rev'[h].snapshot = rev[h].snapshot
    BY <1>1, <1>2 DEF Revision
<1>6. \A h \in Grants : Status(h)' = Status(h) /\ Content(h)' = Content(h)
    BY <1>5 DEF Status, Content
<1>7. Status(g) = "published"
    BY <1>1, <1>3 DEF Status
<1>8. Life!Admit(g, t)
    BY <1>4, <1>6, <1>7 DEF Life!Admit, Content, Work, Ops, Issued
<1> QED
    BY <1>8 DEF Life!Next

\* A resource request is accepted under a grant that is published or still has work.
LEMMA AcquireMaps ==
    ASSUME IInv, NEW g \in Grants, NEW x \in Resources, NEW t \in Tokens, AcquireResource(g, x, t)
    PROVE  Life!Next
<1>1. /\ tokens' = [tokens EXCEPT ![t] = [kind |-> "operation", grant |-> g, pins |-> 1]]
      /\ rev' = [rev EXCEPT ![g].operations = @ + 1]
      /\ tokens[t].kind = "unused" /\ rev[g].state \in {"published", "draining"}
      /\ session[SessionOf(g)] = "open" /\ UNCHANGED <<session, registered, revoked>>
    BY DEF AcquireResource, Live, serverVars
<1>2. rev \in [Grants -> Revision] /\ tokens \in [Tokens -> Admission] /\ rev[g] \in Revision
    BY DEF IInv, TypeOK
<1>3. /\ Ops(g)' = Ops(g) \cup {t}
      /\ \A h \in Grants : h # g => Ops(h)' = Ops(h)
      /\ \A h \in Grants : Work(h)' = Work(h)
      /\ Issued' = Issued \cup {t} /\ t \notin Issued
    BY <1>1, <1>2 DEF Work, Ops, TokensOf, Issued
<1>4. \A h \in Grants : rev'[h].state = rev[h].state /\ rev'[h].snapshot = rev[h].snapshot
    BY <1>1, <1>2 DEF Revision
<1>5. \A h \in Grants : Status(h)' = Status(h) /\ Content(h)' = Content(h)
    BY <1>1, <1>4 DEF Status, Content
<1>6. Status(g) \in {"published", "draining"}
    BY <1>1 DEF Status
<1>7. Life!Accept(g, t)
    BY <1>3, <1>5, <1>6 DEF Life!Accept, Content, Work, Ops, Issued
<1> QED
    BY <1>7 DEF Life!Next

-----------------------------------------------------------------------------
(* The refinement.                                                         *)

\* The server starts with no grant, no work and no token handed out.
LEMMA InitMaps == Init => Life!Init
<1> SUFFICES ASSUME Init PROVE Life!Init
    OBVIOUS
<1>1. \A g \in Grants : SessionOf(g) \in Sessions
    BY GrantFacts
<1>2. \A g \in Grants : Status(g) = "absent" /\ Content(g) = NoSnapshot
    BY <1>1 DEF Init, Status, Content, Absent
<1>3. Issued = {} /\ \A g \in Grants : Work(g) = {} /\ Ops(g) = {}
    BY DEF Init, Issued, Work, Ops, TokensOf, Unused
<1> QED
    BY <1>2, <1>3 DEF Life!Init, Content, Work, Ops, Issued

\* Steps of sessions, the clock and the pin handler change no grant.
LEMMA ServerMaps ==
    ASSUME IInv, SessionStep \/ Tick \/ Close \/ PinStep
    PROVE  UNCHANGED Life!vars
<1>1. ASSUME NEW s \in Sessions, OpenSession(s) \/ Heartbeat(s) \/ CloseSession(s) \/ ExpireSession(s)
      PROVE  UNCHANGED Life!vars
    BY <1>1, ServerStutters DEF OpenSession, Heartbeat, CloseSession, ExpireSession, BeginClose,
       registryVars, IInv, TypeOK
<1>2. CASE Tick \/ Close
    BY <1>2, ServerStutters DEF Tick, Close, registryVars
<1>3. ASSUME NEW c \in Calls, (\E t \in Tokens : PinCheck(c, t)) \/ PinKeep(c)
      PROVE  UNCHANGED Life!vars
    BY <1>3, ServerStutters DEF PinCheck, PinKeep, registryVars
<1>4. ASSUME NEW c \in Calls, PinAcquire(c) PROVE UNCHANGED Life!vars
  <2>1. /\ \/ tokens' = tokens
           \/ tokens' = [tokens EXCEPT ![calls[c].token].pins = @ + 1]
        /\ UNCHANGED <<session, rev, registered, revoked>>
    BY <1>4 DEF PinAcquire
  <2>2. tokens \in [Tokens -> Admission]
    BY DEF IInv, TypeOK
  <2>3. \A u \in Tokens : tokens'[u].kind = tokens[u].kind /\ tokens'[u].grant = tokens[u].grant
    BY <2>1, <2>2 DEF Admission
  <2>4. Issued' = Issued /\ \A g \in Grants : Work(g)' = Work(g) /\ Ops(g)' = Ops(g)
    BY <2>3 DEF Issued, Work, Ops, TokensOf
  <2>5. \A g \in Grants : SameGrant(g)
    BY <2>1, <2>4 DEF SameGrant, Status, Content
  <2> QED
    BY <2>4, <2>5, Stutters
<1>5. ASSUME NEW c \in Calls, PinAbort(c) PROVE UNCHANGED Life!vars
  <2>1. /\ calls[c].phase = "held" /\ session[calls[c].owner] = "closed"
        /\ ReleaseLease(calls[c].token) /\ UNCHANGED <<session, registered, revoked>>
    BY <1>5 DEF PinAbort
  <2>2. /\ calls[c].token \in Tokens /\ tokens[calls[c].token].kind \in {"admission", "dead"}
        /\ tokens[calls[c].token].kind = "admission" =>
               calls[c].owner = SessionOf(tokens[calls[c].token].grant)
    BY <2>1 DEF IInv, ServerInv, CallsSound
  <2>3. ~Held(calls[c].token)
    BY <2>1, <2>2 DEF IInv, RegistryInv, TokensSound, Held
  <2>4. UNCHANGED <<tokens, rev>>
    BY <2>1, <2>3 DEF ReleaseLease, ReleaseLeaseTokens, ReleaseLeaseRevisions
  <2> QED
    BY <2>1, <2>4, ServerStutters
<1> QED
    BY <1>1, <1>2, <1>3, <1>4, <1>5 DEF SessionStep, PinStep

\* Every step of the server is a step of the grants' life cycle or changes none of them.
LEMMA StepMaps ==
    ASSUME IInv, IInv', ContentExact', [Next]_vars
    PROVE  [Life!Next]_Life!vars
<1>1. CASE SessionStep \/ Tick \/ Close \/ PinStep
    BY <1>1, ServerMaps
<1>2. ASSUME NEW p \in PinIds, CloseReleasePin(p) PROVE [Life!Next]_Life!vars
    BY <1>2, ReleasePinMaps DEF CloseReleasePin
<1>3. CASE CloseRevoke
    BY <1>3, RevokeMaps
<1>4. CASE GrantStep
    BY <1>4, GrantMaps DEF GrantStep, ResourceGrantID
<1>5. CASE AdmitStep BY <1>5, AdmissionMaps, ServerStutters DEF AdmitStep, Admit, AdmitUnsequenced
<1>6. CASE ReleaseStep
    BY PinIdFacts, <1>6, ReleasePinMaps DEF ReleaseAdmission, ReleaseExtraPin, ReleaseStep
<1>7. CASE ResourceStep
    BY ReleaseLeaseMaps, <1>7, AcquireMaps DEF FinishResource, Held, serverVars, ResourceStep
<1>8. CASE UNCHANGED vars
    BY <1>8, ServerStutters DEF vars
<1> QED
    BY <1>1, <1>2, <1>3, <1>4, <1>5, <1>6, <1>7, <1>8 DEF Next, CloseStep

\* The registry and its server implement GrantLifecycle: authority is never revived,
\* content stays frozen, tokens are never reissued and draining grants serve only work
\* already admitted, for any number of sessions, grants and pin calls.
THEOREM Refinement == Spec => ImplementsGrantLifecycle
<1>1. IInv => ContentExact
    BY ContentKept
<1>2. IInv /\ IInv' /\ ContentExact' /\ [Next]_vars => [Life!Next]_Life!vars
    BY StepMaps
<1>3. Init => Life!Init
    BY InitMaps
<1>4. Spec => Life!Init /\ [][Life!Next]_Life!vars
    BY <1>1, <1>2, <1>3, Inductive, PTL DEF Spec
<1> QED
    BY <1>4 DEF ImplementsGrantLifecycle, Life!Spec
=============================================================================
