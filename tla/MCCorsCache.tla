----------------------------- MODULE MCCorsCache -----------------------------
(* Instances of CorsCache for TLC. *)
EXTENDS CorsCache, TLC

Symmetric ==
    Permutations(Setters) \cup Permutations(Refreshers) \cup Permutations(Readers)
        \cup Permutations(Merchants)

-----------------------------------------------------------------------------
(* Statements that do not hold; the README says how each comes to fail.    *)

(* Once setCorsOrigins has returned, the entry of its merchant is the      *)
(* table's, or gone.                                                       *)
EntryFollowsTable ==
    \A m \in Merchants :
        cache[m] # Miss /\ (\A c \in Setters : set[c].merchant # m)
            => cache[m].origins = table[m]

(* When no setCorsOrigins call is running, requests are decided by the     *)
(* table.                                                                  *)
DecisionsFollowTable ==
    [][\A r \in Readers :
          /\ \A c \in Setters : set[c].pc = "idle"
          /\ read[r].pc # "answered" /\ read'[r].pc = "answered"
              => read'[r].origins = UnionOf(table)]_vars

=============================================================================
