--------------------------- MODULE SettingsStore ---------------------------
(***************************************************************************)
(* What otPlatSettings promises to OpenThread when settings are saved from *)
(* the idle task: a list of values per key, kept in memory, of which the   *)
(* disk holds a complete earlier version.                                  *)
(***************************************************************************)
EXTENDS Naturals, Sequences, SequencesExt

CONSTANTS Key, Value, NoSnap

VARIABLES mem,    \* the settings OpenThread sees
          snap,   \* the version being saved, or NoSnap
          disk    \* the version a restart finds

svars == <<mem, snap, disk>>

Empty == [k \in Key |-> << >>]

Init == mem = Empty /\ snap = NoSnap /\ disk = Empty

\* The list of key k becomes s.
Put(k, s) == mem' = [mem EXCEPT ![k] = s] /\ UNCHANGED <<snap, disk>>

Add(k, v) == Put(k, Append(mem[k], v))

\* Set replaces the last value of the key only.
Set(k, v) == Put(k, IF mem[k] = << >> THEN <<v>> ELSE Append(Front(mem[k]), v))

Delete(k, i) == i \in DOMAIN mem[k] /\ Put(k, RemoveAt(mem[k], i))

DeleteAll(k) == Put(k, << >>)

Wipe == mem' = Empty /\ UNCHANGED <<snap, disk>>

Snapshot == snap' = mem /\ UNCHANGED <<mem, disk>>

Persist == snap # NoSnap /\ disk' = snap /\ snap' = NoSnap /\ UNCHANGED mem

Restart == mem' = disk /\ snap' = NoSnap /\ UNCHANGED disk

Next ==
  \/ \E k \in Key, v \in Value : Add(k, v) \/ Set(k, v)
  \/ \E k \in Key : DeleteAll(k) \/ \E i \in DOMAIN mem[k] : Delete(k, i)
  \/ Wipe \/ Snapshot \/ Persist \/ Restart

Spec == Init /\ [][Next]_svars
=============================================================================
