---------------------------- MODULE MCIngestStore ----------------------------
(***************************************************************************)
(* Instances of IngestStore for TLC: a link whose bytes change, a link     *)
(* that serves the bytes of another one, and a link without external id.   *)
(***************************************************************************)
EXTENDS IngestStore, TLC

CONSTANTS e1, e2

MCFaultKinds == {"fetch", "storage", "database", "crash", "purge"}

Budget(fetch, storage, database, crash, purge) ==
  [k \in MCFaultKinds |->
     CASE k = "fetch"    -> fetch
       [] k = "storage"  -> storage
       [] k = "database" -> database
       [] k = "crash"    -> crash
       [] k = "purge"    -> purge]

EveryFault == Budget(1, 1, 1, 1, 1)

MCExternalId ==
  [l \in Links |-> CASE l = "l1" -> e1 [] l = "l2" -> e2 [] OTHER -> NoId]
\* l1 changes its bytes, l2 serves what l1 may serve, l3 has no id.
MCServes ==
  [l \in Links |-> CASE l = "l1" -> {"c1", "c2"} [] l = "l2" -> {"c2"}
                     [] OTHER -> {"c3"}]
=============================================================================
