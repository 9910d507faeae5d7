------------------------- MODULE MCFurnaceMutation -------------------------
(* Instances of FurnaceMutation for TLC.  OneSignalled bounds the signals  *)
(* of a behaviour to one process (which may get a second one).             *)
(* WritesAfter leaves one kind of signal, that whose handler claims a      *)
(* registered journal, and no write while the handler restores it.         *)
EXTENDS FurnaceMutation, Naturals, FiniteSets

CONSTANTS p1, p2

OneSignalled == Cardinality({p \in Procs : handler[p] # "none"}) <= 1

WritesAfter ==
  \A p \in Procs :
    /\ handler[p] # "none" => claim[p] = "handler" /\ p \in journal
    /\ handler[p] = "restoring" => engine[p] # "rewritten"
=============================================================================
