----------------------------- MODULE MCPollRound -----------------------------
(* PollRound with two devices: one with a ping point and a second request  *)
(* whose answer cannot be stored, and one whose second request has an      *)
(* answer that cannot be decoded.                                          *)
EXTENDS PollRound

SecondOfFirst == {<<1, 2>>}
SecondOfSecond == {<<2, 2>>}
=============================================================================
