---------------------------- MODULE MCAuthority ----------------------------
(***************************************************************************)
(* Authority for TLC.  Tokens, mounts and the witness share nothing but    *)
(* the chain; a behaviour is about one of them.                            *)
(***************************************************************************)
EXTENDS Authority, TLC

Action(kind, path) == [kind |-> kind, path |-> path]
File(object, action) == [object |-> object, action |-> action]

\* A directory and one of its files; two files of the directory, one outside.
MCGrants == {File("fs.read", Action("tree", <<1>>)), File("fs.read", Action("path", <<1, 2>>))}
MCRequests == {File("fs.read", Action("path", <<1, 2>>)), File("fs.read", Action("path", <<1, 3>>))}
MCRules == {[effect |-> "allow", principal |-> "*", object |-> "fs.read",
             action |-> Action("tree", <<1>>)]}
MCMountable == {[path |-> <<1>>, mode |-> "ro"], [path |-> <<1, 2>>, mode |-> "rw"]}

OneTopic ==
    Cardinality({b \in {1, 2, 3} : \/ b = 1 /\ tokens # {}
                                   \/ b = 2 /\ mem.mounts # {}
                                   \/ b = 3 /\ signed # {}}) <= 1

\* Enough records for a revocation and a restart, or for two revocations; only
\* a lone token expires.
FewRecords ==
    /\ mem.mounts # {} => Len(mem.audit) <= 3
    /\ tokens # {} => Len(mem.audit) <= 2
    /\ Cardinality(tokens) > 1 => clock = 0 /\ \A t \in tokens : t.expires = MaxTime

CaveatSymmetry == Permutations(Caveats)
=============================================================================
