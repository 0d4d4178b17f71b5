------------------------------ MODULE MCAccess -------------------------------
(***************************************************************************)
(* Who may do what, and for how long: accounts, the OAuth server, and the  *)
(* roots and leases dispatched work runs under.  They meet in repository   *)
(* rows only, which each module has its own view of, so one run explores   *)
(* them one at a time: the part, and with it what exists at first, is      *)
(* chosen initially.                                                       *)
(***************************************************************************)
EXTENDS Accounts, OAuthServer, Dispatch, TLC

VARIABLE part

AccessSymmetry == Permutations(Threads) \cup Permutations(DispatchRequests)

AccountParts == {"signin", "session", "members", "pats"}
OAuthParts == {"clients", "grants", "partner"}
DispatchParts == {"gateway", "calls", "switch"}

AccessInit ==
    /\ part \in AccountParts \cup OAuthParts \cup DispatchParts
    /\ AccountsInit /\ Seeded(IF part = "signin" THEN <<>> ELSE <<"a", "b">>, part = "pats")
    /\ OAuthSeeded(IF part = "grants" THEN {1} ELSE {})
    /\ CASE part = "calls" -> \E g \in DispatchRequests : DispatchServing(g, 3, 0)
         [] part = "switch" -> \E g \in DispatchRequests : DispatchServing(g, 2, 1)
         [] OTHER -> DispatchInit(0)

accessVars == <<part, accountsVars, oauthVars, dispatchVars>>

AccessNext ==
    /\ UNCHANGED part
    /\ \/ /\ \/ part = "signin" /\ SigninNext
             \/ part = "session" /\ SessionNext
             \/ part = "members" /\ MembersNext
             \/ part = "pats" /\ PatsNext
          /\ UNCHANGED <<oauthVars, dispatchVars>>
       \/ /\ \/ part = "clients" /\ ClientsNext
             \/ part = "grants" /\ GrantsNext
             \/ part = "partner" /\ PartnerNext
          /\ UNCHANGED <<accountsVars, dispatchVars>>
       \/ /\ part \in DispatchParts /\ DispatchNext
          /\ UNCHANGED <<accountsVars, oauthVars>>

AccessSpec == AccessInit /\ [][AccessNext]_accessVars

(* The two repositories of accounts, sessions, organizations and OAuth     *)
(* data, in memory and PostgreSQL, cannot be told apart by the services:   *)
(* after any sequence of requests, of concurrent ones too, every call has  *)
(* had the same outcome on both and every query answers the same on both,  *)
(* though one keeps indexes by hand and the other relies on unique         *)
(* indexes, foreign keys and conditional updates.  One outcome differs: a  *)
(* provision overtaken by another of the same account is an error of       *)
(* PostgreSQL's unique index about the connection the store answers.       *)
AccessBackendsAgree ==
    /\ part \in AccountParts => IdentityBackendsAgree
    /\ part \in OAuthParts => OAuthBackendsAgree
=============================================================================
