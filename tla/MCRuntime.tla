------------------------------ MODULE MCRuntime ------------------------------
(***************************************************************************)
(* A small instance of RuntimePublication for TLC: three Workers, of which *)
(* c cannot initialize.                                                    *)
(***************************************************************************)
EXTENDS RuntimePublication, TLC

CONSTANTS a, b, c

MCPublications ==
    {[kind |-> "write", goal |-> {b, c}, target |-> NoRevision],
     [kind |-> "prepare", goal |-> {a, b, c}, target |-> a],
     [kind |-> "restore", goal |-> {a, b}, target |-> NoRevision],
     [kind |-> "restore", goal |-> {}, target |-> NoRevision],
     [kind |-> "check", goal |-> {a}, target |-> a]}

\* Two operations with one fault, or one operation with two.
MCBudgets == {[ops |-> 2, faults |-> 1], [ops |-> 1, faults |-> 2]}
=============================================================================
