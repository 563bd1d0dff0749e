---------------------------- MODULE MCKubeService ----------------------------
(* Small clusters for KubeService. *)
EXTENDS KubeService

CONSTANTS s1, s2, s3

NoObject == [group |-> "", kind |-> "", namespace |-> "", name |-> ""]

(* The object of --namespace. *)
ns == [group |-> "", kind |-> "Namespace", namespace |-> "", name |-> "e2e"]

(* Two kinds called Ingress, of two API groups, both named web; a ConfigMap. *)
ingressA == [group |-> "networking.k8s.io", kind |-> "Ingress", namespace |-> "e2e", name |-> "web"]
ingressB == [group |-> "config.example.com", kind |-> "Ingress", namespace |-> "e2e", name |-> "web"]
config   == [group |-> "", kind |-> "ConfigMap", namespace |-> "e2e", name |-> "app"]

BothCases == {s1, s2}
(* s3 is a case of a dry run that another kube2e process makes. *)
WithDryCase == {s1, s2, s3}
DryCase == {s3}
OneCase == {s1}
CleanObjects == {ns, ingressA, config}
FaultObjects == {ingressA, ingressB}
OneObject == {config}
EnsureClean == [s \in WithDryCase |-> {ingressA, config}]
EnsureClashing1 == [s \in OneCase |-> {ingressA, ingressB}]
EnsureOne == [s \in OneCase |-> {config}]
DeleteOne == [s \in OneCase |-> {config}]
EnsureOne2 == [s \in BothCases |-> {config}]
DeleteNone2 == [s \in BothCases |-> {}]
DeleteNone == [s \in WithDryCase |-> {}]
=============================================================================
