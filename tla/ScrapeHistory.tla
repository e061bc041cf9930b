----------------------------- MODULE ScrapeHistory -----------------------------
(* ClusterExporter with what happened since the epoch of each scrape           *)
(* remembered: history variables that no step reads, for the properties that   *)
(* relate an eviction to the cluster and the cache while the scrape ran.       *)
EXTENDS ClusterExporter

VARIABLES
  steady,  \* scrape -> objects that have not changed since its epoch
  written  \* scrape -> references put into the cache since its epoch

historyVars == <<steady, written>>
allVars == <<vars, historyVars>>

HistoryInit ==
  /\ Init
  /\ steady = [s \in Scrapes |-> {}]
  /\ written = [s \in Scrapes |-> {}]

Begins(s) == scrape[s].pc = "idle" /\ scrape'[s].pc = "list"

Ends(s) == scrape'[s].pc = "idle"

StoredRefs ==
  {ref \in Refs : \E k \in Kinds :
     /\ worker[k].pc = "store" /\ worker'[k].pc = "next" /\ worker[k].ref = ref
     /\ Put(ref, worker[k].digest)}

HistoryNext ==
  /\ Next
  /\ steady' = [s \in Scrapes |->
                  IF Begins(s) THEN Live
                  ELSE IF Ends(s) THEN {}
                  ELSE {o \in steady[s] : workloads'[o] = workloads[o]}]
  /\ written' = [s \in Scrapes |->
                   IF Begins(s) \/ Ends(s) THEN {} ELSE written[s] \cup StoredRefs]

HistorySpec == HistoryInit /\ [][HistoryNext]_allVars

-------------------------------------------------------------------------------

\* A scrape never drops a tag that a workload uses all the while it runs,
\* whichever kind was listed when and whatever other scrapes, fetches and
\* deletions went on (metrics.go: "All lists succeeded so activeRefs is
\* complete").
SteadyTagsKept ==
  [][\A s \in Scrapes : FinishScrape(s) =>
       \A o \in steady[s] : \A tag \in workloads[o] \cap Tags :
         Cached(tag) => Cached(tag)' /\ DigestFor(tag)' = DigestFor(tag)]_allVars

\* A scrape never drops the entry of a reference that a reconcile stored while
\* it ran, used or not (cache.go: "reconcilers running concurrently with Collect
\* don't have their writes immediately dropped").
ConcurrentWritesKept ==
  [][\A s \in Scrapes : FinishScrape(s) =>
       \A ref \in written[s] \cap DOMAIN digestMap :
         ref \in DOMAIN digestMap' /\ digestMap'[ref] \in DOMAIN imageMap']_allVars

===============================================================================
