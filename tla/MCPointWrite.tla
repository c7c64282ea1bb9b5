---------------------------- MODULE MCPointWrite ----------------------------
(* PointWrite for a register with two priorities, a register and a coil     *)
(* polled in groups, coils and registers that are written once; the values  *)
(* of one are rounded, those of another divide by the register.             *)
EXTENDS PointWrite

AsItIs == [v \in Values |-> v]
Rounded == [v \in Values |-> 2 * (v \div 2)]
Divided == [v \in Values |-> IF v = 0 THEN None ELSE 2 \div v]

Point(kind, once, grouped, shown, threshold, lowest, fallbacks, f, c) ==
  [kind |-> kind, once |-> once, grouped |-> grouped, shown |-> shown,
   cov_threshold |-> threshold, lowest |-> lowest, fallbacks |-> fallbacks,
   max_faults |-> f, max_crashes |-> c]

Points ==
  {Point("register", FALSE, FALSE, AsItIs, 0, 2, {None, 2}, 0, 0),
   Point("register", FALSE, TRUE, AsItIs, 2, 1, {None, 2}, 1, 0),
   Point("coil", TRUE, FALSE, AsItIs, 0, 1, {None, 1}, 2, 0),
   Point("coil", TRUE, TRUE, AsItIs, 0, 1, {None, 1}, 1, 0),
   Point("coils", TRUE, FALSE, AsItIs, 0, 1, {None, 1}, 1, 0),
   Point("register", TRUE, FALSE, Rounded, 0, 1, {None, 2}, 1, 1),
   Point("register", TRUE, FALSE, Divided, 0, 1, {None, 0}, 1, 0)}
=============================================================================
