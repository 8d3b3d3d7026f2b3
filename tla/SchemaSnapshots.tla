---------------------------- MODULE SchemaSnapshots ----------------------------
(***************************************************************************)
(* The per-table snapshot index shared by both pipeline stores             *)
(* (crates/etl/src/store/schema/table.rs).  A snapshot identifier is the   *)
(* pair (commit_lsn, message_lsn) compared lexicographically; only that    *)
(* order matters here, so identifiers are numbered from 1 and an index is  *)
(* the finite set of identifiers it holds.                                 *)
(***************************************************************************)
EXTENDS Naturals, FiniteSets

(* The result of a lookup that finds no snapshot. *)
NoSnapshot == 0

AtOrBefore(snapshots, id) == {s \in snapshots : s <= id}

(* The newest snapshot at or before id. *)
GetAtOrBefore(snapshots, id) ==
    IF AtOrBefore(snapshots, id) = {} THEN NoSnapshot
    ELSE CHOOSE s \in AtOrBefore(snapshots, id) : \A u \in AtOrBefore(snapshots, id) : u <= s

(* Variant: the newest are dropped. *)
InsertEvictingNewest(snapshots, id, max) ==
    LET all == snapshots \cup {id}
    IN  {s \in all : Cardinality({u \in all : u < s}) < max}

(* Insertion keeps at most `max` snapshots by dropping the oldest ones. *)
InsertWithEviction(snapshots, id, max) ==
    LET all == snapshots \cup {id}
    IN  {s \in all : Cardinality({u \in all : u > s}) < max}

(* Everything older than the snapshot active at the retention boundary is *)
(* obsolete; with nothing at or before the boundary nothing is.           *)
Prune(snapshots, retention) ==
    LET active == GetAtOrBefore(snapshots, retention)
    IN  IF active = NoSnapshot THEN snapshots
        ELSE {s \in snapshots : s >= active}

=============================================================================
