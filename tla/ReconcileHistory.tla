--------------------------- MODULE ReconcileHistory ---------------------------
(* ClusterExporter with what its reconciles saw remembered: a history variable *)
(* that no step reads, for the property that relates a reconcile to the        *)
(* changes of the cluster before and after it.                                 *)
EXTENDS ClusterExporter

VARIABLE acted  \* object -> the images that its last successful read saw

allVars == <<vars, acted>>

HistoryInit ==
  /\ Init
  /\ acted = [o \in Objects |-> Absent]

ReadBy(k) == worker[k].pc = "read" /\ worker'[k].pc = "next"

HistoryNext ==
  /\ Next
  /\ acted' = [o \in Objects |->
                 IF worker[KindOf[o]].obj = o /\ ReadBy(KindOf[o]) THEN workloads[o]
                 ELSE acted[o]]

HistorySpec == HistoryInit /\ [][HistoryNext]_allVars

-------------------------------------------------------------------------------

\* A change of a workload is acted on at once, or retried within the back-off:
\* its images are never left for the next periodic requeue, even if the change
\* comes while the worker deals with what the object was before
\* (reconciler.go: every error before the loop over the images is returned).
ChangesActedOn ==
  \A o \in Live : acted[o] # workloads[o] =>
    \/ o \in notify
    \/ o \in DOMAIN queue /\ queue[o] <= MaxBackoff
    \/ worker[KindOf[o]].obj = o /\ worker[KindOf[o]].pc = "read"

===============================================================================
