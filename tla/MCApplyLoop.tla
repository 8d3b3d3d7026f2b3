---------------------------- MODULE MCApplyLoop ----------------------------
(* Instances of ApplyLoop for TLC.  Commit records start at odd positions  *)
(* and end at even ones, so a keepalive can stop on either side of each.   *)
EXTENDS ApplyLoop

MCCommitLsn == [t \in Tx |-> 2 * t - 1]
MCEndLsn == [t \in Tx |-> 2 * t]
\* The second transaction has rows of a table that another worker owns.
MCOwned == {<<t, r>> \in Tx \X (1 .. Rows) : t # 2}
=============================================================================
