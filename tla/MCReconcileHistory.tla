-------------------------- MODULE MCReconcileHistory --------------------------
(* ReconcileHistory on the instances of MCClusterExporter.                     *)
EXTENDS ReconcileHistory, MCClusterExporter

===============================================================================
