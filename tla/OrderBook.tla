----------------------------- MODULE OrderBook ------------------------------
(***************************************************************************)
(* The OrderBook class of backend/app/ingestion/orderbook.py: what a       *)
(* snapshot and a diff do to the local book.  A book is a function from    *)
(* levels to quantities; a price popped from the dict has quantity 0.      *)
(***************************************************************************)
EXTENDS Exchange, FiniteSets

CONSTANT SnapshotLimit  \* SNAPSHOT_LIMIT: the levels a REST snapshot shows

ASSUME LimitAssumption == SnapshotLimit \in Nat \ {0}

(***************************************************************************)
(* The levels a limited snapshot of book b tells the truth about: down to  *)
(* the SnapshotLimit-th price that is present, and the empty prices behind *)
(* it up to the next one.  Deeper prices are missing from the snapshot.    *)
(***************************************************************************)
Shown(b) == {l \in Levels : Cardinality({k \in 1..l : b[k] # 0}) <= SnapshotLimit}
Snapshot(b) == [l \in Levels |-> IF l \in Shown(b) THEN b[l] ELSE 0]

(***************************************************************************)
(* The tests of apply_diff, in its order: stale first, then the gap.       *)
(***************************************************************************)
IsStaleByOne(d, id) == d.final <= id + 1
IsStale(d, id) == d.final <= id

LeavesGapAfterTwo(d, id) == d.first > id + 2
LeavesGap(d, id) == d.first > id + 1

(* Quantities in a diff are absolute: the levels it names are overwritten, *)
(* and a quantity of 0 removes the price.                                  *)
MergeKeepingZeros(b, d) ==
  [l \in Levels |-> IF l \in Touched(d.first, d.final) /\ BookAt(d.final)[l] # 0
                      THEN BookAt(d.final)[l] ELSE b[l]]
Merge(b, d) ==
  [l \in Levels |-> IF l \in Touched(d.first, d.final)
                      THEN BookAt(d.final)[l] ELSE b[l]]

(***************************************************************************)
(* b is the exchange's book at id, as far as the levels in known go: those *)
(* are exact and no other level is present.                                *)
(***************************************************************************)
IsView(b, id, known) ==
  \A l \in Levels : b[l] = IF l \in known THEN BookAt(id)[l] ELSE 0
=============================================================================
