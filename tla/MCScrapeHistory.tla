---------------------------- MODULE MCScrapeHistory ----------------------------
(* ScrapeHistory on the instances of MCClusterExporter.                        *)
EXTENDS ScrapeHistory, MCClusterExporter

===============================================================================
