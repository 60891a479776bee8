----------------------------- MODULE TlvRecords -----------------------------
(***************************************************************************)
(* The buffer of tag-length-value records that OpenThread's settings are   *)
(* kept in: flash_fsa.c, flash_littlefs.c, flash_nvm.c and                 *)
(* mcxw72_nbu/settings.c each have a copy of the code that searches it,    *)
(* inserts a record (moveData) and takes records out.                      *)
(***************************************************************************)
EXTENDS Integers, Sequences, SequencesExt, FiniteSetsExt

CONSTANTS
  Key,       \* tags
  Value,     \* values: the value n is a string of n bytes
  Header,    \* TLV_HEADER_SIZE
  BufSize    \* OT_SETTINGS_BUFFER_SIZE

Record == [key : Key, val : Value]

Size(v) == Header + v

RecordLen(b) == SumFunction([i \in DOMAIN b |-> Size(b[i].val)])

Has(b, k) == \E i \in DOMAIN b : b[i].key = k

\* The first record with tag k.
First(b, k) == CHOOSE i \in DOMAIN b : b[i].key = k /\ \A j \in 1 .. i - 1 : b[j].key # k

\* The first record after it with another tag, or the end of the buffer: where
\* the scans of Add, Set and Delete stop.
RunEnd(b, k) ==
  Min({j \in First(b, k) .. Len(b) : b[j].key # k} \cup {Len(b) + 1})

-----------------------------------------------------------------------------
(* What the calls of flash_littlefs.c, flash_nvm.c and settings.c make of  *)
(* a buffer b; a call without room, or without a record, leaves it alone.  *)

\* otPlatSettingsAdd: after the other records of the key.
Added(b, k, v) ==
  IF Has(b, k) THEN InsertAt(b, RunEnd(b, k), [key |-> k, val |-> v])
               ELSE Append(b, [key |-> k, val |-> v])

AddFits(b, v) == BufSize - RecordLen(b) >= Size(v)

\* otPlatSettingsSet: in place of the last record of the key.
WithSet(b, k, v) ==
  IF Has(b, k) THEN [b EXCEPT ![RunEnd(b, k) - 1].val = v] ELSE Added(b, k, v)

SetFits(b, k, v) ==
  LET freed == IF Has(b, k) THEN Size(b[RunEnd(b, k) - 1].val) ELSE 0
  IN  BufSize - RecordLen(b) + freed >= Size(v)

\* otPlatSettingsDelete: the record of that index, all if there is none.
Without(b, k, i) ==
  LET from == First(b, k)
      end == RunEnd(b, k)
  IN  IF from + i \in from .. end - 1 THEN RemoveAt(b, from + i)
        ELSE SubSeq(b, 1, from - 1) \o SubSeq(b, end, Len(b))
=============================================================================
