-------------------------- MODULE MCApplications --------------------------
(***************************************************************************)
(* Applications for TLC.  Contexts, commits, retirements, mishaps and bad  *)
(* blobs share one budget, so that each of them is seen at its own bound   *)
(* with few of the others; the third context costs two, and one turn is    *)
(* open at a time.                                                         *)
(***************************************************************************)
EXTENDS Applications, TLC

CONSTANT Budget

Spent ==
    Len(owner) + Cardinality({c \in Context : c > 2}) + Len(commits) + mishaps
      + Cardinality({a \in Apps : ~mem.apps[a].live})
      + Cardinality({h \in DOMAIN blobs : blobs[h] # h})

WithinBudget ==
    /\ Spent <= Budget
    /\ Cardinality({a \in Apps : mem.apps[a].turn # NoTurn}) <= 1

OwnerSymmetry == Permutations(Owners)
=============================================================================
