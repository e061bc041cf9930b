--------------------------- MODULE MCClusterExporter ---------------------------
(* Instances of ClusterExporter: a Pod and a Deployment, each watched by its   *)
(* own controller, that can use the same tag, a digest reference to what the   *)
(* tag points to, or a string that is no reference.  Every cfg picks from      *)
(* these definitions what its question needs.                                  *)
EXTENDS ClusterExporter, TLC

CONSTANTS pod, deploy, podKind, deployKind, tag1, ref1, d1, d2, bad

\* Workloads and controllers.
TwoKinds == {podKind, deployKind}
PodAndDeploy == {pod, deploy}
KindOfBoth == (pod :> podKind) @@ (deploy :> deployKind)
OnePod == {pod}
KindOfPod == pod :> podKind

\* References and digests.
OneTag == {tag1}
TagAndRef == {tag1, ref1}
NoDigestRefs == [r \in {} |-> d1]
DigestOfRef1 == ref1 :> d1
OneDigest == {d1}
TwoDigests == {d1, d2}
DigestSymmetry == Permutations(TwoDigests)

\* The images a workload can have.
TagOnly == {{tag1}}
TagOrNothing == {{tag1}, {}}
TagOrRef == {{tag1}, {ref1}}
TagWithBad == {{tag1, bad}, {ref1}}

\* Credentials.
AnyoneCanPull == Objects \X Refs

===============================================================================
