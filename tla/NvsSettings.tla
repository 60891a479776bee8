---------------------------- MODULE NvsSettings ----------------------------
(***************************************************************************)
(* The settings store of src/src/common/flash_nvs.c: the value of key k    *)
(* and index i is the entry "ot/k/i" of Zephyr's settings, written to      *)
(* flash by the call itself.                                               *)
(***************************************************************************)
EXTENDS Integers, FiniteSets

CONSTANTS
  NvsKey, NvsValue,
  NvsIndices   \* bound: indices an Add may reach, from 0

VARIABLES
  nsVal,     \* the entries: a function on pairs of a key and an index
  nsHoles,   \* history: keys with a value deleted by its index
  nsRead     \* the last Get: the entry asked for and what it returned

nsVars == <<nsVal, nsHoles, nsRead>>

NvsInit ==
  /\ nsVal = [e \in {} |-> 0] /\ nsHoles = {} /\ nsRead = << >>

\* The index of the next value: as many as there are (subtree_cb_count_values).
NvsCount(k) == Cardinality({e \in DOMAIN nsVal : e[1] = k})

With(k, i, v) ==
  [e \in DOMAIN nsVal \cup {<<k, i>>} |-> IF e = <<k, i>> THEN v ELSE nsVal[e]]

\* Mutant: the index is that of the last value.
NvsAddOnLast(k, v) ==
  /\ nsVal' = With(k, IF NvsCount(k) = 0 THEN 0 ELSE NvsCount(k) - 1, v)
  /\ UNCHANGED <<nsHoles, nsRead>>

\* otPlatSettingsAdd: OT_ERROR_NO_BUFS, and nothing changed, if the flash is full.
NvsAdd(k, v) ==
  /\ NvsCount(k) \in NvsIndices
  /\ nsVal' = With(k, NvsCount(k), v)
  /\ UNCHANGED <<nsHoles, nsRead>>

NvsSet(k, v) ==
  /\ nsVal' = With(k, 0, v)
  /\ UNCHANGED <<nsHoles, nsRead>>

Keep(K) == nsVal' = [e \in K |-> nsVal[e]]

\* otPlatSettingsDelete: settings_delete of one entry...
NvsDelete(k, i) ==
  /\ Keep(DOMAIN nsVal \ {<<k, i>>})
  /\ nsHoles' = IF <<k, i>> \in DOMAIN nsVal THEN nsHoles \cup {k} ELSE nsHoles
  /\ UNCHANGED nsRead

\* ... or of each of the key, up to the first error (subtree_cb_wipe): the call
\* ends well all the same.
NvsDeleteAll(k) ==
  /\ \E K \in SUBSET {e \in DOMAIN nsVal : e[1] = k} :
       /\ Keep({e \in DOMAIN nsVal : e[1] # k} \cup K)
       /\ nsHoles' = IF K = {} THEN nsHoles \ {k} ELSE nsHoles \cup {k}
  /\ UNCHANGED nsRead

\* otPlatSettingsWipe, likewise.
NvsWipe ==
  /\ \E K \in SUBSET DOMAIN nsVal :
       /\ Keep(K)
       /\ nsHoles' = {e[1] : e \in K}
  /\ UNCHANGED nsRead

\* otPlatSettingsGet: the entry whose name ends in the index's digit.
NvsGet(k, i) ==
  /\ nsRead' = IF <<k, i>> \in DOMAIN nsVal THEN <<k, i, nsVal[<<k, i>>]>> ELSE << >>
  /\ UNCHANGED <<nsVal, nsHoles>>

NvsNext ==
  \/ \E k \in NvsKey, v \in NvsValue : NvsAdd(k, v) \/ NvsSet(k, v)
  \/ \E k \in NvsKey, i \in NvsIndices : NvsDelete(k, i) \/ NvsGet(k, i)
  \/ \E k \in NvsKey : NvsDeleteAll(k)
  \/ NvsWipe

-----------------------------------------------------------------------------
\* An Add replaces no value, as long as no value of the key was deleted by its
\* index: then the values of a key have the indices from 0 up, and their number
\* is the next one.  (After such a delete the number is an index in use.)
AddKeepsValues ==
  [][\A k \in NvsKey, v \in NvsValue :
       NvsAdd(k, v) /\ k \notin nsHoles =>
         \A e \in DOMAIN nsVal : nsVal'[e] = nsVal[e]]_nsVars
=============================================================================
