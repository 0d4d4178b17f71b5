---------------------------- MODULE SigningKeys ----------------------------
(***************************************************************************)
(* The signing keys a verifier caches, and the verdicts it bases on them.  *)
(* The identity provider rotates its keys, also under the same key id,     *)
(* while verifications in flight share one cached set, one fetch at a time *)
(* and a cooldown on forced reloads.  A token refused as invalid ends a    *)
(* browser session, so a set too old to judge a token only defers.         *)
(*                                                                         *)
(* Readings of the process clock are only compared, so a key set carries   *)
(* the threads whose verification began before its fetch and the ones      *)
(* whose load began before it was kept.  The claim iat has whole seconds.  *)
(* A key is a number, the newest last.                                     *)
(***************************************************************************)
EXTENDS Integers, FiniteSets, Functions

CONSTANTS Verifications,     \* threads that verify tokens
          MaxSigned,         \* tokens the provider signs
          MaxRotations, MaxSeconds

ASSUME SigningKeysAssumption == {MaxSigned, MaxRotations, MaxSeconds} \subseteq Nat

VARIABLES published, retired, rotations, signed,  \* the provider: key id -> key, and its past
          second,                                 \* the clock, in whole seconds
          cachedKeys,                             \* v.keys, with keysLoadedAt and keysFetchedAt
          fresh,                                  \* loaded less than five minutes ago
          cooling, forcedKeysErr,                 \* forcedKeysAt is less than 30 seconds ago
          incoming,                               \* the key set of the fetch under way
          keysMu, verification

providerKeys == <<published, retired, rotations, signed>>
keyCache == <<cachedKeys, incoming, fresh, cooling, forcedKeysErr>>
signingVars == <<providerKeys, second, keyCache, keysMu, verification>>

Kids == {"a", "b"}
NewestKey == rotations + 1
NoKeys == [keys |-> <<>>, keptAfter |-> {}, fetchedAfter |-> {}, fetchedSecond |-> 0]
Verifying(t, op) == verification[t].op = op
InFlight == {t \in Verifications : verification[t].op \in {"load", "wait", "discover", "fetch",
                                                            "fetched"}}
Turns(t, r) == verification' = [verification EXCEPT ![t] = r]

---------------------------------------------------------------------------
(* The provider publishes a key before it signs with it.                   *)

RotateKeys(kid, keep) ==
    LET kept == IF keep THEN DOMAIN published \ {kid} ELSE {}
    IN  /\ rotations < MaxRotations /\ rotations' = rotations + 1
        /\ published' = [k \in kept \cup {kid} |->
                            IF k = kid THEN NewestKey + 1 ELSE published[k]]
        /\ retired' = retired \cup ({published[k] : k \in DOMAIN published}
                                    \ {published[k] : k \in kept})
        /\ UNCHANGED <<signed, second, keyCache, keysMu, verification>>

(* A signed token arrives in a request of thread t; iat and kid may miss.  *)
IssueToken(t, kid, named, dated) ==
    /\ Verifying(t, "idle") /\ kid \in DOMAIN published
    /\ signed < MaxSigned /\ signed' = signed + 1
    /\ Turns(t, [op |-> "token", kid |-> IF named THEN kid ELSE "", key |-> published[kid],
                 iat |-> IF dated THEN second ELSE 0])
    /\ UNCHANGED <<published, retired, rotations, second, keyCache, keysMu>>

---------------------------------------------------------------------------
(* verifySignature: once with the cached keys, once after a forced reload. *)

SelectSigningKey(keys, kid) ==
    CASE kid # "" /\ kid \in DOMAIN keys -> keys[kid]
      [] kid = "" /\ Cardinality(DOMAIN keys) = 1 -> CHOOSE k \in Range(keys) : TRUE
      [] OTHER -> 0

VerifySignatureWithKey(key, token) == key = token.key

CanReject(set, t, iat) ==
    t \in set.fetchedAfter \/ (iat # 0 /\ iat < set.fetchedSecond)

VerifySignature(t) ==
    LET r == verification[t]
    IN  /\ Verifying(t, "token")
        /\ Turns(t, [op |-> "load", force |-> FALSE, kid |-> r.kid, key |-> r.key, iat |-> r.iat])
        /\ cachedKeys' = [cachedKeys EXCEPT !.fetchedAfter = @ \ {t}]
        /\ incoming' = [incoming EXCEPT !.fetchedAfter = @ \ {t}]
        /\ UNCHANGED <<providerKeys, second, fresh, cooling, forcedKeysErr, keysMu>>

\* Mutant: a key that is not among the cached ones is refused without a reload.
JudgedAtOnce(t, r, set) ==
    IF VerifySignatureWithKey(SelectSigningKey(set.keys, r.kid), r) THEN "verified" ELSE "invalid"
(* What follows from the keys a load returned.                             *)
Judged(t, r, set) ==
    IF VerifySignatureWithKey(SelectSigningKey(set.keys, r.kid), r) THEN "verified"
    ELSE IF ~r.force THEN "load"
    ELSE IF CanReject(set, t, r.iat) THEN "invalid" ELSE "stale"
Judges(t, set) ==
    LET r == verification[t]
        next == Judged(t, r, set)
    IN  Turns(t, [r EXCEPT !.op = next, !.force = (next = "load") \/ @])

---------------------------------------------------------------------------
(* loadKeys.                                                               *)

LoadKeys(t) ==
    /\ Verifying(t, "load")
    /\ Turns(t, [verification[t] EXCEPT !.op = "wait"])
    /\ cachedKeys' = [cachedKeys EXCEPT !.keptAfter = @ \ {t}]
    /\ UNCHANGED <<providerKeys, second, incoming, fresh, cooling, forcedKeysErr, keysMu>>

GiveUpWaiting(t) ==
    /\ Verifying(t, "wait") /\ keysMu # {} /\ Turns(t, [verification[t] EXCEPT !.op = "error"])
    /\ UNCHANGED <<providerKeys, second, keyCache, keysMu>>

LockKeys(t) ==
    LET r == verification[t]
        usable == /\ cachedKeys.keys # <<>>
                  /\ (~r.force /\ fresh) \/ t \in cachedKeys.keptAfter
    IN  /\ Verifying(t, "wait") /\ keysMu = {}
        /\ \/ /\ r.force /\ cooling
              /\ IF forcedKeysErr THEN Turns(t, [r EXCEPT !.op = "error"]) ELSE Judges(t, cachedKeys)
              /\ UNCHANGED <<keyCache, keysMu>>
           \/ /\ ~(r.force /\ cooling) /\ usable
              /\ cooling' = (r.force \/ cooling) /\ forcedKeysErr' = (forcedKeysErr /\ ~r.force)
              /\ Judges(t, cachedKeys) /\ UNCHANGED <<cachedKeys, incoming, fresh, keysMu>>
           \/ /\ ~(r.force /\ cooling) /\ ~usable
              /\ cooling' = (r.force \/ cooling) /\ keysMu' = {t}
              /\ Turns(t, [r EXCEPT !.op = "discover"])
              /\ UNCHANGED <<cachedKeys, incoming, fresh, forcedKeysErr>>
        /\ UNCHANGED <<providerKeys, second>>

(* Discovery, unless its document is cached; then the request for the keys.*)
DiscoveryForContext(t) ==
    /\ Verifying(t, "discover") /\ Turns(t, [verification[t] EXCEPT !.op = "fetch"])
    /\ incoming' = [NoKeys EXCEPT !.fetchedAfter = InFlight, !.fetchedSecond = second]
    /\ UNCHANGED <<providerKeys, second, cachedKeys, fresh, cooling, forcedKeysErr, keysMu>>

ServeKeys(t) ==
    /\ Verifying(t, "fetch") /\ Turns(t, [verification[t] EXCEPT !.op = "fetched"])
    /\ incoming' = [incoming EXCEPT !.keys = published]
    /\ UNCHANGED <<providerKeys, second, cachedKeys, fresh, cooling, forcedKeysErr, keysMu>>

FetchFails(t) ==
    LET r == verification[t]
    IN  /\ r.op \in {"discover", "fetch", "fetched"}
        /\ Turns(t, [r EXCEPT !.op = "error"]) /\ keysMu' = {} /\ incoming' = NoKeys
        /\ forcedKeysErr' = (r.force \/ forcedKeysErr)
        /\ UNCHANGED <<providerKeys, second, cachedKeys, fresh, cooling>>

KeepKeys(t) ==
    /\ Verifying(t, "fetched") /\ Judges(t, incoming) /\ keysMu' = {} /\ incoming' = NoKeys
    /\ cachedKeys' = [incoming EXCEPT !.keptAfter = {u \in InFlight : ~Verifying(u, "load")}]
    /\ fresh' = TRUE /\ cooling' = TRUE /\ forcedKeysErr' = FALSE
    /\ UNCHANGED <<providerKeys, second>>

(* Time: a second passes, the cooldown or the five minutes are over.       *)
SecondPasses ==
    /\ second < MaxSeconds /\ second' = second + 1
    /\ UNCHANGED <<providerKeys, keyCache, keysMu, verification>>
CooldownEnds ==
    /\ cooling /\ cooling' = FALSE
    /\ UNCHANGED <<providerKeys, second, cachedKeys, incoming, fresh, forcedKeysErr, keysMu,
                   verification>>
KeysAge ==
    /\ fresh /\ fresh' = FALSE
    /\ UNCHANGED <<providerKeys, second, cachedKeys, incoming, cooling, forcedKeysErr, keysMu,
                   verification>>

(* The request is answered and its thread takes another.                   *)
AnswerVerdict(t) ==
    /\ verification[t].op \in {"verified", "invalid", "stale", "error"}
    /\ Turns(t, [op |-> "idle"])
    /\ UNCHANGED <<providerKeys, second, keyCache, keysMu>>

---------------------------------------------------------------------------

SigningInit ==
    /\ published = [k \in {"a"} |-> 1] /\ retired = {} /\ rotations = 0 /\ signed = 0
    /\ second = 1
    /\ cachedKeys = NoKeys /\ incoming = NoKeys /\ fresh = FALSE /\ cooling = FALSE /\ forcedKeysErr = FALSE
    /\ keysMu = {} /\ verification = [t \in Verifications |-> [op |-> "idle"]]

SigningNext ==
    \/ \E kid \in Kids, keep \in BOOLEAN : RotateKeys(kid, keep)
    \/ SecondPasses \/ CooldownEnds \/ KeysAge
    \/ \E t \in Verifications :
          \/ \E kid \in Kids, named, dated \in BOOLEAN : IssueToken(t, kid, named, dated)
          \/ VerifySignature(t) \/ LoadKeys(t) \/ GiveUpWaiting(t) \/ LockKeys(t)
          \/ DiscoveryForContext(t) \/ ServeKeys(t) \/ FetchFails(t) \/ KeepKeys(t)
          \/ AnswerVerdict(t)

---------------------------------------------------------------------------
(* A token that names its key is refused as invalid only if the provider   *)
(* no longer publishes the key it was signed with: a rotation during the   *)
(* cooldown, or between the fetch another verification made and this       *)
(* token, defers the verdict (errSigningKeysStale) and never ends a        *)
(* session with good credentials.                                          *)
RefusedMeansRetired ==
    \A t \in Verifications :
        Verifying(t, "invalid") /\ verification[t].kid # "" => verification[t].key \in retired
=============================================================================
