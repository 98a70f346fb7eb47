----------------------------- MODULE MCK8sAccess -----------------------------
(* The Kubernetes path for TLC: a custom resource "crds" whose definition a  *)
(* reload changes, and pods of the core table.                             *)
EXTENDS K8sAccess, TLC

MCSymmetry == Permutations(Calls)

Act(v, r, n, o) == [verb |-> v, resource |-> r, group |-> "", ns |-> n, name |-> o]

MCActions == {Act("get", "crds", "n", "o"), Act("logs", "crds", "n", "o"),
              Act("delete", "crds", "n", "o")}

Def(g, scoped) == [group |-> g, namespaced |-> scoped]

Pods == [pods |-> Def("", TRUE)]

Table(g, scoped) == Pods @@ [crds |-> Def(g, scoped)]

\* Deletes need a human, or are denied outside of a namespace.
Effects ==
    [k \in Verbs \X {"n", "-"} |->
        CASE k[1] # "delete"               -> "allow"
          [] k = <<"delete", "n">>         -> "approval"
          [] k = <<"delete", "-">>         -> "deny"]

Policy(t, visible, user, bound) ==
    [table |-> t, effect |-> Effects, visible |-> visible, user |-> user,
     bound |-> bound]

\* The definition of the custom resource moves, or the rights of the caller and of
\* the user do.
MCPolicies == {Policy(Table("g", TRUE), TRUE, TRUE, TRUE),
               Policy(Table("h", FALSE), TRUE, TRUE, TRUE),
               Policy(Pods, FALSE, FALSE, TRUE),
               Policy(Table("g", TRUE), TRUE, TRUE, FALSE)}
=============================================================================
