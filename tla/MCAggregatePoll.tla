-------------------------- MODULE MCAggregatePoll --------------------------
(* AggregatePoll on short lists of points.                                 *)
EXTENDS AggregatePoll
=============================================================================
