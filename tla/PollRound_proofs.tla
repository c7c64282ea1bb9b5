-------------------------- MODULE PollRound_proofs --------------------------
(***************************************************************************)
(* Theorems about PollRound, for any devices, numbers of requests and      *)
(* manual polls, and any answers that cannot be decoded.                   *)
(***************************************************************************)
EXTENDS PollRound, WellFoundedInduction, TLAPS

-----------------------------------------------------------------------------
(* Sessions.                                                               *)

LEMMA NoRowsType == NoRows \in PartialFlags
<1>1. NoRows \in [{} -> BOOLEAN]
  BY DEF NoRows
<1> QED BY <1>1 DEF PartialFlags

LEMMA SeeType ==
  ASSUME NEW c \in PartialFlags, NEW f \in [Rows -> BOOLEAN], NEW R \in SUBSET Rows
  PROVE  /\ See(c, f, R) \in PartialFlags
         /\ DOMAIN c \subseteq Rows
         /\ \A r \in R : r \in DOMAIN See(c, f, R) /\ See(c, f, R)[r] \in BOOLEAN
<1>1. PICK Q \in SUBSET Rows : c \in [Q -> BOOLEAN]
  BY DEF PartialFlags
<1>2. DOMAIN c = Q
  BY <1>1
<1>3. See(c, f, R) \in [Q \cup R -> BOOLEAN]
  BY <1>1, <1>2 DEF See
<1>4. Q \cup R \in SUBSET Rows
  BY <1>1
<1>5. See(c, f, R) \in PartialFlags
  BY <1>3, <1>4 DEF PartialFlags
<1> QED BY <1>2, <1>3, <1>5

LEMMA RowsType == Net \in Rows /\ Devices \subseteq Rows /\ Net \notin Devices
BY RoundAssumption DEF Rows

IsVerdict(v) == v.fault \in [Rows -> BOOLEAN] /\ v.cache \in PartialFlags

LEMMA VerdictType ==
  ASSUME NEW f \in [Rows -> BOOLEAN], NEW c \in PartialFlags, NEW end
  PROVE  /\ IsVerdict(Verdict(f, c, end))
         /\ Verdict(f, c, end).end = end
         /\ Verdict(f, c, end).fault = f
BY DEF IsVerdict, Verdict

LEMMA ConnType ==
  ASSUME TypeOK, NEW c \in PartialFlags, NEW d \in Devices
  PROVE  IsVerdict(ConnJudged(c, d)) /\ ConnJudged(c, d).end \in {"gone", "conn"}
<1> DEFINE set == ~Seen(c, fault, Net)
           f == IF set THEN [fault EXCEPT ![Net] = TRUE] ELSE fault
           c0 == IF set THEN NoRows ELSE c
           c1 == See(c0, f, {Net})
<1>1. f \in [Rows -> BOOLEAN]
  BY DEF TypeOK
<1>2. c0 \in PartialFlags
  BY NoRowsType
<1> HIDE DEF set, f, c0
<1>3. c1 \in PartialFlags
  BY <1>1, <1>2, SeeType, RowsType
<1> HIDE DEF c1
<1>4. See(c1, f, {d}) \in PartialFlags
  BY <1>1, <1>3, SeeType, RowsType
<1>5. ConnJudged(c, d) = IF Gone(c1, d) THEN Verdict(f, c1, "gone")
                         ELSE Verdict(f, See(c1, f, {d}), "conn")
  BY DEF ConnJudged, set, f, c0, c1
<1> QED BY <1>1, <1>3, <1>4, <1>5, VerdictType

LEMMA IOType ==
  ASSUME TypeOK, NEW c \in PartialFlags, NEW d \in Devices
  PROVE  /\ IsVerdict(IOJudged(c, d))
         /\ IOJudged(c, d).end \in {"gone", "stale", "io"}
         /\ IOJudged(c, d).end = "stale" => Deleted(d) /\ d \in DOMAIN c
         /\ IOJudged(c, d).end = "io" /\ c = NoRows => ~IOJudged(c, d).fault[Net]
<1> DEFINE set == ~Seen(c, fault, d)
           f == IF set THEN [fault EXCEPT ![d] = TRUE] ELSE fault
           c1 == IF set THEN NoRows ELSE See(c, f, {d})
           f2 == [f EXCEPT ![Net] = FALSE]
           c2 == See(c1, f, {Net, d})
<1>1. f \in [Rows -> BOOLEAN]
  BY DEF TypeOK
<1>2. c1 \in PartialFlags
  BY <1>1, NoRowsType, SeeType, RowsType
<1>3. f2 \in [Rows -> BOOLEAN] /\ ~f2[Net]
  BY <1>1, RowsType
<1> HIDE DEF f, c1
<1>4. c2 \in PartialFlags
  BY <1>1, <1>2, SeeType, RowsType
<1>5. fault \in [Rows -> BOOLEAN]
  BY DEF TypeOK
<1> HIDE DEF set, f2, c2
<1>6. CASE Gone(c, d)
  BY <1>6, <1>5, VerdictType DEF IOJudged, set, f, c1, f2, c2
<1>7. CASE ~Gone(c, d) /\ set /\ Deleted(d)
  <2>1. IOJudged(c, d) = Verdict(fault, c, "stale")
    BY <1>7 DEF IOJudged, set, f, c1, f2, c2
  <2> QED BY <2>1, <1>5, <1>7, VerdictType DEF Gone
<1>8. CASE ~Gone(c, d) /\ ~(set /\ Deleted(d)) /\ Seen(c1, f, Net)
  <2>1. IOJudged(c, d) = Verdict(f2, NoRows, "io")
    BY <1>8 DEF IOJudged, set, f, c1, f2, c2
  <2> QED BY <2>1, <1>3, NoRowsType, VerdictType
<1>9. CASE ~Gone(c, d) /\ ~(set /\ Deleted(d)) /\ ~Seen(c1, f, Net)
  <2>1. IOJudged(c, d) = Verdict(f, c2, "io")
    BY <1>9 DEF IOJudged, set, f, c1, f2, c2
  <2>2. c = NoRows => ~f[Net]
    <3>1. SUFFICES ASSUME c = NoRows PROVE ~f[Net]
      OBVIOUS
    <3>2. Net \notin DOMAIN c1
      BY <3>1, RowsType DEF NoRows, See, c1
    <3>3. Seen(c1, f, Net) = f[Net]
      BY <3>2 DEF Seen, See
    <3> QED BY <3>3, <1>9
  <2> QED BY <2>1, <2>2, <1>1, <1>4, VerdictType
<1> QED BY <1>6, <1>7, <1>8, <1>9

LEMMA OkType ==
  ASSUME TypeOK, NEW c \in PartialFlags, NEW d \in Devices
  PROVE  /\ IsVerdict(OkJudged(c, d))
         /\ OkJudged(c, d).end \in {"gone", "stale", "ok"}
         /\ OkJudged(c, d).end = "stale" => Deleted(d) /\ d \in DOMAIN c
         /\ OkJudged(c, d).end = "ok" /\ c = NoRows => ~OkJudged(c, d).fault[Net]
<1> DEFINE f1 == [fault EXCEPT ![Net] = FALSE]
           f2 == [fault EXCEPT ![d] = FALSE]
           c1 == See(c, fault, {Net, d})
<1>1. /\ fault \in [Rows -> BOOLEAN] /\ f1 \in [Rows -> BOOLEAN]
      /\ f2 \in [Rows -> BOOLEAN] /\ ~f1[Net] /\ f2[Net] = fault[Net]
  BY RowsType DEF TypeOK
<1>2. c1 \in PartialFlags
  BY <1>1, SeeType, RowsType
<1>3. c = NoRows => Seen(c, fault, Net) = fault[Net]
  BY DEF NoRows, Seen, See
<1> HIDE DEF f1, f2, c1
<1>4. CASE Seen(c, fault, Net)
  <2>1. OkJudged(c, d) = Verdict(f1, NoRows, "ok")
    BY <1>4 DEF OkJudged, f1, f2, c1
  <2> QED BY <2>1, <1>1, NoRowsType, VerdictType
<1>5. CASE ~Seen(c, fault, Net) /\ Gone(c, d)
  BY <1>1, <1>5, VerdictType DEF OkJudged, f1, f2, c1
<1>6. CASE ~Seen(c, fault, Net) /\ ~Gone(c, d) /\ ~Seen(c, fault, d)
  <2>1. OkJudged(c, d) = Verdict(fault, c1, "ok")
    BY <1>6 DEF OkJudged, f1, f2, c1
  <2> QED BY <2>1, <1>1, <1>2, <1>3, <1>6, VerdictType
<1>7. CASE ~Seen(c, fault, Net) /\ ~Gone(c, d) /\ Seen(c, fault, d) /\ Deleted(d)
  <2>1. OkJudged(c, d) = Verdict(fault, c, "stale")
    BY <1>7 DEF OkJudged, f1, f2, c1
  <2> QED BY <2>1, <1>1, <1>7, VerdictType DEF Gone
<1>8. CASE ~Seen(c, fault, Net) /\ ~Gone(c, d) /\ Seen(c, fault, d) /\ ~Deleted(d)
  <2>1. OkJudged(c, d) = Verdict(f2, NoRows, "ok")
    BY <1>8 DEF OkJudged, f1, f2, c1
  <2> QED BY <2>1, <1>1, <1>3, <1>8, NoRowsType, VerdictType
<1> QED BY <1>4, <1>5, <1>6, <1>7, <1>8

\* What a request does to the flags, whoever makes it.
LEMMA JudgedType ==
  ASSUME TypeOK, NEW c \in PartialFlags, NEW d \in Devices, NEW k \in 0..Polls
  PROVE  /\ IsVerdict(Judged(c, d, k))
         /\ Judged(c, d, k).end = "stale" =>
              Deleted(d) /\ (k = 0 \/ <<d, k>> \in Unstored)
         /\ k # 0 /\ Judged(c, d, k).end = "io" => ~Judged(c, d, k).fault[Net]
         /\ k # 0 /\ Judged(c, d, k).end = "ok" /\ <<d, k>> \notin Unstored =>
              ~Judged(c, d, k).fault[Net]
<1>1. StoreUpdated(c, d, k) \in PartialFlags
  BY NoRowsType DEF StoreUpdated
<1>2. /\ DOMAIN NoRows = {}
      /\ k # 0 /\ (Outcome(d, k) = "io" \/ <<d, k>> \notin Unstored) =>
           StoreUpdated(c, d, k) = NoRows
  BY DEF StoreUpdated, NoRows
<1>3. Outcome(d, k) \in {"conn", "io", "ok", "exc"}
  BY DEF Outcome, TypeOK
<1>4. CASE Outcome(d, k) = "conn"
  BY <1>4, ConnType DEF Judged
<1>5. CASE Outcome(d, k) = "io"
  <2>1. Judged(c, d, k) = IOJudged(StoreUpdated(c, d, k), d)
    BY <1>5 DEF Judged
  <2> QED BY <2>1, <1>1, <1>2, <1>5, IOType
<1>6. CASE Outcome(d, k) = "ok"
  <2>1. Judged(c, d, k) = OkJudged(StoreUpdated(c, d, k), d)
    BY <1>6 DEF Judged
  <2> QED BY <2>1, <1>1, <1>2, OkType
<1>7. CASE Outcome(d, k) = "exc"
  <2>1. Judged(c, d, k) = Verdict(fault, c, "exc")
    BY <1>7 DEF Judged
  <2>2. fault \in [Rows -> BOOLEAN]
    BY DEF TypeOK
  <2> QED BY <2>1, <2>2, VerdictType
<1> QED BY <1>3, <1>4, <1>5, <1>6, <1>7

-----------------------------------------------------------------------------
(* Where the greenlet is.                                                  *)

Positions ==
  [pc : {"asleep", "ping", "poll", "pause", "dead"}, dev : Devices \cup {None}, req : 0..Polls]

\* A ping is number 0 and of a device with a ping point.
GoodPosition(p) ==
  /\ p \in Positions
  /\ p.pc \in {"ping", "poll", "pause"} => p.dev \in Devices
  /\ p.pc = "ping" => p.req = 0
  /\ p.pc = "poll" => p.req # 0
  /\ p.pc \in {"ping", "pause"} /\ p.req = 0 => p.dev \in HasPing

GoodPlace(p) ==
  /\ GoodPosition(p.at) /\ p.at.pc # "dead"
  /\ p.todo \in SUBSET Devices
  /\ p.cache \in PartialFlags

LEMMA PlaceType ==
  ASSUME NEW p, GoodPosition(p), p.pc # "dead", NEW rest \in SUBSET Devices,
         NEW c \in PartialFlags
  PROVE  GoodPlace(Place(p, rest, c))
BY DEF GoodPlace, Place

LEMMA AsleepType == GoodPosition(Asleep) /\ Asleep.pc # "dead"
BY RoundAssumption DEF GoodPosition, Positions, Asleep, Position

LEMMA RoundEndType ==
  ASSUME NEW c \in PartialFlags, fault' \in [Rows -> BOOLEAN]
  PROVE  GoodPlace(RoundOver) /\ GoodPlace(RoundLeft(c))
<1>1. ASSUME NEW b \in PartialFlags PROVE GoodPlace(RoundLeft(b))
  <2>1. See(b, fault', {Net}) \in PartialFlags
    BY SeeType, RowsType
  <2> QED BY <2>1, AsleepType, PlaceType DEF RoundLeft
<1> QED BY <1>1, NoRowsType DEF RoundOver

LEMMA LowestExists ==
  ASSUME NEW left \in SUBSET Devices, left # {}
  PROVE  /\ (CHOOSE x \in left : \A y \in left : x <= y) \in left
         /\ \A z \in left : (CHOOSE x \in left : \A y \in left : x <= y) <= z
<1>1. left \subseteq Nat
  BY RoundAssumption
<1>2. PICK x \in left : \A y \in left : <<y, x>> \notin OpToRel(<, Nat)
  BY <1>1, NatLessThanWellFounded, WFMin
<1>3. \A y \in left : y < x => <<y, x>> \in OpToRel(<, Nat)
  BY <1>1 DEF OpToRel
<1>4. x \in Nat /\ \A y \in left : y \in Nat /\ ~ (y < x)
  BY <1>1, <1>2, <1>3
<1>5. \A y \in left : x <= y
  BY <1>4
<1> QED BY <1>5

LEMMA TurnType ==
  ASSUME NEW rest \in SUBSET Devices, NEW c \in PartialFlags, fault' \in [Rows -> BOOLEAN]
  PROVE  GoodPlace(Turn(rest, c))
<1> DEFINE empty == {d \in rest : Deleted(d) /\ d \in DOMAIN c /\ d \notin HasPing}
           left == rest \ empty
           d == CHOOSE x \in left : \A y \in left : x <= y
           p == IF d \in HasPing THEN Position("ping", d, 0) ELSE Position("poll", d, 1)
<1>1. left \in SUBSET Devices
  OBVIOUS
<1>2. Turn(rest, c) = IF left = {} THEN RoundOver
                      ELSE IF Gone(c, d) THEN RoundLeft(c)
                      ELSE Place(p, left \ {d}, See(c, fault', {d}))
  BY DEF Turn
<1> HIDE DEF left, p
<1>3. CASE left = {} \/ Gone(c, d)
  BY <1>2, <1>3, RoundEndType
<1>4. CASE left # {} /\ ~Gone(c, d)
  <2>1. d \in left
    BY <1>1, <1>4, LowestExists
  <2> HIDE DEF d
  <2>2. d \in Devices
    BY <1>1, <2>1
  <2>3. GoodPosition(p) /\ p.pc # "dead"
    BY <2>2, RoundAssumption DEF p, GoodPosition, Positions, Position
  <2>4. See(c, fault', {d}) \in PartialFlags
    BY <2>2, SeeType, RowsType
  <2> QED BY <1>1, <1>2, <1>4, <2>3, <2>4, PlaceType
<1> QED BY <1>3, <1>4

LEMMA OnwardType ==
  ASSUME TypeOK, fault' \in [Rows -> BOOLEAN],
         NEW d \in Devices, NEW k \in 0..Polls, NEW c \in PartialFlags
  PROVE  GoodPlace(Onward(d, k, c))
<1>1. todo \in SUBSET Devices
  BY DEF TypeOK
<1> DEFINE left == k < Polls /\ (Gone(c, d) \/ (k # 0 /\ Deleted(d)))
<1>2. CASE left
  BY <1>2, RoundEndType DEF Onward
<1>3. CASE ~left /\ (k = Polls \/ Deleted(d))
  <2>1. Onward(d, k, c) = Turn(todo, c)
    BY <1>3 DEF Onward
  <2> QED BY <2>1, <1>1, TurnType
<1>4. CASE ~left /\ k # Polls /\ ~Deleted(d)
  <2>1. Onward(d, k, c) = Place(Position("poll", d, k + 1), todo, See(c, fault', {d}))
    BY <1>4 DEF Onward
  <2>2. GoodPosition(Position("poll", d, k + 1)) /\ Position("poll", d, k + 1).pc # "dead"
    BY <1>4, RoundAssumption DEF GoodPosition, Positions, Position
  <2>3. See(c, fault', {d}) \in PartialFlags
    BY SeeType, RowsType
  <2> QED BY <1>1, <2>1, <2>2, <2>3, PlaceType
<1> QED BY <1>2, <1>3, <1>4

-----------------------------------------------------------------------------
(* The inductive invariant: types, the position, and the theorem's claim.  *)

PollInv == TypeOK /\ GoodPosition(at) /\ OnlyUnrefreshedKills

LEMMA GoToType ==
  ASSUME TypeOK, NEW place, GoodPlace(place), GoTo(place)
  PROVE  /\ at' \in Positions /\ GoodPosition(at') /\ at'.pc # "dead"
         /\ todo' \in SUBSET Devices
         /\ cache' \in [Pollers -> PartialFlags]
BY DEF TypeOK, GoodPlace, GoodPosition, GoTo

LEMMA HearsType ==
  ASSUME PollInv, NEW o, Hears(o)
  PROVE  /\ at.dev \in Devices /\ at.req \in 0..Polls /\ cache[Poller] \in PartialFlags
         /\ fault' \in [Rows -> BOOLEAN] /\ open' \in BOOLEAN
         /\ Loaded \in PartialFlags
         /\ o = "stale" =>
              Deleted(at.dev) /\ (at.dev \in HasPing \/ <<at.dev, Polls>> \in Unstored)
         /\ o = "io" /\ at.pc = "poll" => ~fault'[Net]
         /\ o = "ok" /\ at.pc = "poll" /\ <<at.dev, at.req>> \notin Unstored =>
              ~fault'[Net]
<1>1. at.dev \in Devices /\ at.req \in 0..Polls /\ cache[Poller] \in PartialFlags
  BY DEF PollInv, TypeOK, GoodPosition, Hears, Pollers, Positions
<1>2. TypeOK
  BY DEF PollInv
<1>3. /\ IsVerdict(Judged(cache[Poller], at.dev, at.req))
      /\ Judged(cache[Poller], at.dev, at.req).end = "stale" =>
           Deleted(at.dev) /\ (at.req = 0 \/ <<at.dev, at.req>> \in Unstored)
      /\ at.req # 0 /\ Judged(cache[Poller], at.dev, at.req).end = "io" =>
           ~Judged(cache[Poller], at.dev, at.req).fault[Net]
      /\ /\ at.req # 0 /\ Judged(cache[Poller], at.dev, at.req).end = "ok"
         /\ <<at.dev, at.req>> \notin Unstored
         => ~Judged(cache[Poller], at.dev, at.req).fault[Net]
  BY <1>1, <1>2, JudgedType
<1>4. /\ fault' = Judged(cache[Poller], at.dev, at.req).fault
      /\ Judged(cache[Poller], at.dev, at.req).end = o
      /\ open' \in BOOLEAN /\ at.pc \in {"ping", "poll"}
  BY DEF Hears
<1>5. /\ at.pc = "poll" => at.req # 0
      /\ at.pc = "ping" /\ at.req = 0 => at.dev \in HasPing
  BY DEF PollInv, GoodPosition
<1>6. fault' \in [Rows -> BOOLEAN] /\ Loaded \in PartialFlags
  BY <1>3, <1>4 DEF IsVerdict, Loaded
<1>7. o = "stale" =>
        Deleted(at.dev) /\ (at.dev \in HasPing \/ <<at.dev, Polls>> \in Unstored)
  <2>1. at.pc = "ping" => at.req = 0
    BY DEF PollInv, GoodPosition
  <2>2. <<at.dev, at.req>> \in Unstored => at.req = Polls
    BY RoundAssumption
  <2> QED BY <1>3, <1>4, <1>5, <2>1, <2>2
<1>8. /\ o = "io" /\ at.pc = "poll" => ~fault'[Net]
      /\ o = "ok" /\ at.pc = "poll" /\ <<at.dev, at.req>> \notin Unstored =>
           ~fault'[Net]
  BY <1>3, <1>4, <1>5
<1> QED BY <1>1, <1>4, <1>6, <1>7, <1>8

LEMMA PollInit == Init => PollInv
<1> SUFFICES ASSUME Init PROVE PollInv
  OBVIOUS
<1>1. at \in Positions /\ cache \in [Pollers -> PartialFlags]
  BY NoRowsType, AsleepType DEF Init, GoodPosition
<1>3. changes \in 0..MaxChanges
  BY RoundAssumption DEF Init
<1>4. asks \in [Manual -> (Devices \X (1..Polls)) \cup {None}]
  BY DEF Init
<1>5. status \in [Devices -> {"absent", "enabled", "disabled", "deleted"}]
  BY DEF Init
<1>6. TypeOK
  BY <1>1, <1>3, <1>4, <1>5 DEF Init, TypeOK, Positions
<1>2. GoodPosition(at) /\ at.pc # "dead"
  BY AsleepType DEF Init
<1> QED BY <1>6, <1>2 DEF PollInv, OnlyUnrefreshedKills

\* A greenlet that goes to a good place keeps the invariant.
LEMMA MoveKeeps ==
  ASSUME PollInv, NEW place, GoodPlace(place), GoTo(place),
         fault' \in [Rows -> BOOLEAN], open' \in BOOLEAN,
         UNCHANGED <<envVars, status, asks>>
  PROVE  PollInv'
<1>1. TypeOK
  BY DEF PollInv
<1>2. /\ at' \in Positions /\ GoodPosition(at') /\ at'.pc # "dead"
      /\ todo' \in SUBSET Devices
      /\ cache' \in [Pollers -> PartialFlags]
  BY <1>1, GoToType
<1>3. TypeOK'
  BY <1>1, <1>2 DEF TypeOK, envVars, Positions
<1> QED BY <1>2, <1>3 DEF PollInv, OnlyUnrefreshedKills

LEMMA GreenletKeeps == PollInv /\ GreenletStep => PollInv'
<1> SUFFICES ASSUME PollInv, GreenletStep PROVE PollInv'
  OBVIOUS
<1> USE DEF PollInv
<1>1. /\ cache[Poller] \in PartialFlags /\ todo \in SUBSET Devices
      /\ fault \in [Rows -> BOOLEAN] /\ open \in BOOLEAN
  BY DEF TypeOK, Pollers
<1>2. CASE RoundStart
  <2> DEFINE list == {d \in Devices : status[d] = "enabled"}
  <2>1. See(cache[Poller], fault, list \cup {Net}) \in PartialFlags
    BY <1>1, SeeType, RowsType
  <2>2. fault' \in [Rows -> BOOLEAN] /\ open' \in BOOLEAN
    BY <1>1, <1>2 DEF RoundStart
  <2>3. GoodPlace(Turn(list, See(cache[Poller], fault, list \cup {Net})))
    BY <2>1, <2>2, TurnType
  <2> QED BY <1>2, <2>2, <2>3, MoveKeeps DEF RoundStart
<1>3. CASE PauseOver
  <2>1. fault' \in [Rows -> BOOLEAN] /\ open' \in BOOLEAN
    BY <1>1, <1>3 DEF PauseOver
  <2>2. at.dev \in Devices /\ at.req \in 0..Polls
    BY <1>3 DEF PauseOver, GoodPosition, Positions
  <2>3. GoodPlace(Onward(at.dev, at.req, cache[Poller]))
    BY <1>1, <2>1, <2>2, OnwardType
  <2> QED BY <1>3, <2>1, <2>3, MoveKeeps DEF PauseOver
<1>4. CASE HearsOk
  <2> DEFINE p == [at EXCEPT !.pc = "pause"]
  <2>1. fault' \in [Rows -> BOOLEAN] /\ open' \in BOOLEAN /\ Loaded \in PartialFlags
    BY <1>4, HearsType DEF HearsOk
  <2>2. GoodPosition(p) /\ p.pc # "dead"
    <3>1. at.pc \in {"ping", "poll"}
      BY <1>4 DEF HearsOk, Hears
    <3> QED BY <3>1 DEF GoodPosition, Positions
  <2>3. See(Loaded, fault', {Net}) \in PartialFlags
    BY <2>1, SeeType, RowsType
  <2> HIDE DEF p
  <2>4. GoodPlace(Place(p, todo, See(Loaded, fault', {Net})))
    BY <1>1, <2>2, <2>3, PlaceType
  <2> QED BY <1>4, <2>1, <2>4, MoveKeeps DEF HearsOk, Hears, p
<1>5. CASE HearsIOError
  <2>1. /\ fault' \in [Rows -> BOOLEAN] /\ open' \in BOOLEAN /\ Loaded \in PartialFlags
        /\ at.dev \in Devices /\ at.req \in 0..Polls
    BY <1>5, HearsType DEF HearsIOError
  <2>2. GoodPlace(Turn(todo, Loaded)) /\ GoodPlace(Onward(at.dev, at.req, Loaded))
    BY <1>1, <2>1, TurnType, OnwardType
  <2> QED BY <1>5, <2>1, <2>2, MoveKeeps DEF HearsIOError, Hears
<1>6. CASE HearsNothing
  <2>1. fault' \in [Rows -> BOOLEAN] /\ open' \in BOOLEAN /\ Loaded \in PartialFlags
    BY <1>6, HearsType DEF HearsNothing
  <2>2. GoodPlace(Turn(todo, Loaded)) /\ GoodPlace(RoundOver)
    BY <1>1, <2>1, TurnType, RoundEndType
  <2> QED BY <1>6, <2>1, <2>2, MoveKeeps DEF HearsNothing, Hears
<1>7. CASE HearsGone
  <2>1. /\ fault' \in [Rows -> BOOLEAN] /\ open' \in BOOLEAN /\ Loaded \in PartialFlags
        /\ at.dev \in Devices /\ at.req \in 0..Polls
    BY <1>7, HearsType DEF HearsGone
  <2>2. GoodPlace(Onward(at.dev, at.req, Loaded))
    BY <1>1, <2>1, OnwardType
  <2> QED BY <1>7, <2>1, <2>2, MoveKeeps DEF HearsGone, Hears
<1>8. CASE HearsGarbage
  <2>1. fault' \in [Rows -> BOOLEAN] /\ open' \in BOOLEAN /\ Loaded \in PartialFlags
    BY <1>8, HearsType DEF HearsGarbage
  <2>2. GoodPlace(RoundLeft(Loaded))
    BY <2>1, RoundEndType
  <2> QED BY <1>8, <2>1, <2>2, MoveKeeps DEF HearsGarbage, Hears
<1>9. CASE HearsStale
  <2>1. /\ fault' \in [Rows -> BOOLEAN] /\ open' \in BOOLEAN /\ Loaded \in PartialFlags
        /\ at.dev \in Devices /\ Deleted(at.dev)
        /\ at.dev \in HasPing \/ <<at.dev, Polls>> \in Unstored
    BY <1>9, HearsType DEF HearsStale
  <2>2. UNCHANGED <<envVars, status, asks>>
    BY <1>9 DEF HearsStale, Hears
  <2>3. at' = Position("dead", None, 0) /\ todo' = {} /\ cache' = [cache EXCEPT ![Poller] = Loaded]
    BY <1>9 DEF HearsStale, GoTo, Place
  <2>4. at' \in Positions /\ GoodPosition(at')
    BY <2>3, RoundAssumption DEF Positions, GoodPosition, Position
  <2>5. TypeOK'
    BY <2>1, <2>2, <2>3, <2>4 DEF TypeOK, envVars, Positions
  <2>6. OnlyUnrefreshedKills'
    BY <2>1, <2>2 DEF OnlyUnrefreshedKills, Deleted
  <2> QED BY <2>4, <2>5, <2>6
<1> QED BY <1>2, <1>3, <1>4, <1>5, <1>6, <1>7, <1>8, <1>9 DEF GreenletStep

\* Manual polls and changes leave the greenlet where it is, and a deleted
\* device deleted.
LEMMA OthersKeep ==
  ASSUME PollInv, TypeOK', at' = at, \A d \in Devices : Deleted(d) => Deleted(d)'
  PROVE  PollInv'
BY RoundAssumption DEF PollInv, OnlyUnrefreshedKills

LEMMA PollNext == PollInv /\ [Next]_vars => PollInv'
<1> SUFFICES ASSUME PollInv, [Next]_vars PROVE PollInv'
  OBVIOUS
<1>1. TypeOK
  BY DEF PollInv
<1>2. CASE GreenletStep
  BY <1>2, GreenletKeeps
<1>3. ASSUME NEW m \in Manual, NEW d \in Devices, NEW k \in 1..Polls, ManualPoll(m, d, k)
      PROVE  PollInv'
  <2>1. See(NoRows, fault, {Net, d}) \in PartialFlags
    BY <1>1, NoRowsType, SeeType, RowsType DEF TypeOK
  <2>2. TypeOK'
    BY <1>1, <1>3, <2>1 DEF TypeOK, ManualPoll, envVars
  <2> QED BY <1>3, <2>2, OthersKeep DEF ManualPoll, Deleted
<1>4. ASSUME NEW m \in Manual, ManualEnd(m)
      PROVE  PollInv'
  <2>1. asks[m] \in Devices \X (1..Polls)
    BY <1>1, <1>4 DEF TypeOK, ManualEnd
  <2>2. /\ asks[m][1] \in Devices /\ asks[m][2] \in 0..Polls
        /\ cache[m] \in PartialFlags
    BY <1>1, <2>1, RoundAssumption DEF TypeOK, Pollers
  <2>3. fault' \in [Rows -> BOOLEAN] /\ open' \in BOOLEAN
    <3>1. IsVerdict(Judged(cache[m], asks[m][1], asks[m][2]))
      BY <1>1, <2>2, JudgedType
    <3> QED BY <1>4, <3>1 DEF ManualEnd, IsVerdict
  <2>4. TypeOK'
    BY <1>1, <1>4, <2>3, NoRowsType DEF TypeOK, ManualEnd, envVars
  <2> QED BY <1>4, <2>4, OthersKeep DEF ManualEnd, Deleted
<1>5. CASE LinkChanges
  <2>1. TypeOK'
    BY <1>1, <1>5, RoundAssumption DEF TypeOK, LinkChanges, Change
  <2> QED BY <1>5, <2>1, OthersKeep DEF LinkChanges, Deleted
<1>6. ASSUME NEW d \in Devices, DeviceChanges(d)
      PROVE  PollInv'
  <2>1. TypeOK'
    BY <1>1, <1>6, RoundAssumption DEF TypeOK, DeviceChanges, Change
  <2> QED BY <1>6, <2>1, OthersKeep DEF DeviceChanges, Deleted
<1>7. ASSUME NEW d \in Devices, NEW s \in {"enabled", "disabled", "deleted"}, SetDevice(d, s)
      PROVE  PollInv'
  <2>1. PICK b \in BOOLEAN : fault' = [fault EXCEPT ![d] = b]
    BY <1>7 DEF SetDevice
  <2>2. TypeOK'
    BY <1>1, <1>7, <2>1, RowsType, RoundAssumption DEF TypeOK, SetDevice, Change
  <2>3. at' = at /\ \A e \in Devices : Deleted(e) => Deleted(e)'
    BY <1>1, <1>7 DEF SetDevice, Deleted, TypeOK
  <2> QED BY <2>2, <2>3, OthersKeep
<1>8. CASE UNCHANGED vars
  <2>1. TypeOK'
    BY <1>1, <1>8 DEF TypeOK, vars, envVars
  <2> QED BY <1>8, <2>1, OthersKeep DEF vars, Deleted
<1> QED BY <1>2, <1>3, <1>4, <1>5, <1>6, <1>7, <1>8 DEF Next

-----------------------------------------------------------------------------
(* The order of a round.                                                   *)

\* The devices that follow come after the greenlet's, and none follows
\* outside a round.
OrderInv ==
  /\ PollInv
  /\ InRound => \A d \in todo : at.dev < d
  /\ ~InRound => todo = {}

\* The turn of the next device of rest that has something to poll, or the end
\* of the round.
NextTurn(place, rest) ==
  \/ /\ place.at = Asleep /\ place.todo = {}
     /\ rest = {} \/ \E d \in rest : Deleted(d)
  \/ /\ place.at.pc \in {"ping", "poll"} /\ place.at.dev \in rest
     /\ place.todo \subseteq rest
     /\ \A d \in rest \ place.todo : d = place.at.dev \/ Deleted(d)
     /\ \A d \in place.todo : place.at.dev < d

LEMMA TurnIsNext ==
  ASSUME NEW rest \in SUBSET Devices, NEW c
  PROVE  NextTurn(Turn(rest, c), rest)
<1> DEFINE empty == {d \in rest : Deleted(d) /\ d \in DOMAIN c /\ d \notin HasPing}
           left == rest \ empty
           d == CHOOSE x \in left : \A y \in left : x <= y
           p == IF d \in HasPing THEN Position("ping", d, 0) ELSE Position("poll", d, 1)
<1>1. /\ left \in SUBSET Devices /\ left \subseteq rest
      /\ \A e \in rest \ left : Deleted(e)
  OBVIOUS
<1>2. Turn(rest, c) = IF left = {} THEN RoundOver
                      ELSE IF Gone(c, d) THEN RoundLeft(c)
                      ELSE Place(p, left \ {d}, See(c, fault', {d}))
  BY DEF Turn
<1>3. p.pc \in {"ping", "poll"} /\ p.dev = d
  BY DEF Position
<1>4. left # {} => d \in left /\ \A e \in left : d <= e
  BY <1>1, LowestExists
<1> HIDE DEF left, d, p
<1>5. CASE left = {}
  BY <1>1, <1>2, <1>5 DEF RoundOver, RoundLeft, Place, NextTurn
<1>6. CASE left # {} /\ Gone(c, d)
  <2>1. Turn(rest, c) = RoundLeft(c)
    BY <1>2, <1>6
  <2>2. d \in rest /\ Deleted(d)
    BY <1>1, <1>4, <1>6 DEF Gone
  <2> QED BY <2>1, <2>2 DEF RoundLeft, Place, NextTurn
<1>7. CASE left # {} /\ ~Gone(c, d)
  <2>1. /\ Turn(rest, c).at = p
        /\ Turn(rest, c).todo = left \ {d}
    BY <1>2, <1>7 DEF Place
  <2>2. d \in Nat /\ \A e \in left : e \in Nat /\ d <= e
    BY <1>1, <1>4, <1>7, RoundAssumption
  <2>3. \A e \in left \ {d} : d < e
    BY <2>2
  <2> QED BY <1>1, <1>3, <1>4, <1>7, <2>1, <2>3 DEF NextTurn
<1> QED BY <1>5, <1>6, <1>7

\* The next request of the same device, the next device, or the end.
LEMMA OnwardIsNext ==
  ASSUME NEW d, NEW k, NEW c, todo \in SUBSET Devices
  PROVE  LET place == Onward(d, k, c)
         IN  \/ place.at = Asleep /\ place.todo = {} /\ Deleted(d)
             \/ place.at = Position("poll", d, k + 1) /\ place.todo = todo
             \/ NextTurn(place, todo)
<1> DEFINE left == k < Polls /\ (Gone(c, d) \/ (k # 0 /\ Deleted(d)))
<1>1. CASE left
  <2>1. Onward(d, k, c) = RoundLeft(c)
    BY <1>1 DEF Onward
  <2> QED BY <1>1, <2>1 DEF RoundLeft, Place, Gone
<1>2. CASE ~left /\ (k = Polls \/ Deleted(d))
  <2>1. Onward(d, k, c) = Turn(todo, c)
    BY <1>2 DEF Onward
  <2> QED BY <2>1, TurnIsNext
<1>3. CASE ~left /\ k # Polls /\ ~Deleted(d)
  BY <1>3 DEF Onward, Place
<1> QED BY <1>1, <1>2, <1>3

\* What RoundInOrder says of a step.
StepInOrder ==
  InRound =>
    /\ \A d \in todo \ todo' :
         at'.dev = d \/ Deleted(d) \/ (at'.dev = None /\ Cut)
    /\ at'.dev \notin {at.dev, None} => at'.dev \in todo /\ at.dev < at'.dev
    /\ at'.dev = at.dev /\ at' # at =>
         at'.req > at.req \/ (at'.req = at.req /\ at'.pc = "pause")

LEMMA NextTurnInOrder ==
  ASSUME OrderInv, InRound, NEW place, NextTurn(place, todo), GoTo(place)
  PROVE  StepInOrder /\ (InRound => \A d \in todo : at.dev < d)'
         /\ (~InRound => todo = {})'
<1>1. at' = place.at /\ todo' = place.todo
  BY DEF GoTo
<1>2. /\ at.dev \in Devices /\ todo \in SUBSET Devices /\ Devices \subseteq Nat
      /\ None \notin Devices /\ \A d \in todo : at.dev < d
  BY RoundAssumption DEF OrderInv, PollInv, TypeOK, GoodPosition, InRound
<1>3. CASE place.at = Asleep /\ place.todo = {}
  <2>1. at'.dev = None /\ at'.pc = "asleep"
    BY <1>1, <1>3 DEF Asleep, Position
  <2>2. todo = {} \/ \E d \in todo : Deleted(d)
    BY <1>3, <2>1, <1>1 DEF NextTurn
  <2>3. \A d \in todo : Cut
    BY <2>2 DEF Cut
  <2> QED BY <1>1, <1>2, <1>3, <2>1, <2>3 DEF StepInOrder, InRound
<1>4. CASE ~(place.at = Asleep /\ place.todo = {})
  <2>1. /\ at'.pc \in {"ping", "poll"} /\ at'.dev \in todo
        /\ \A d \in todo \ todo' : d = at'.dev \/ Deleted(d)
        /\ \A d \in todo' : at'.dev < d
    BY <1>1, <1>4 DEF NextTurn
  <2>2. at.dev < at'.dev /\ at.dev \in Nat
    BY <1>2, <2>1
  <2>3. at'.dev # at.dev
    BY <2>2
  <2> QED BY <2>1, <2>2, <2>3 DEF StepInOrder, InRound
<1> QED BY <1>3, <1>4

\* The same device, later: the devices that follow stay.
LEMMA SameDeviceInOrder ==
  ASSUME OrderInv, InRound, todo' = todo, at'.dev = at.dev,
         at'.pc \in {"ping", "poll", "pause"},
         at'.req > at.req \/ (at'.req = at.req /\ at'.pc = "pause")
  PROVE  StepInOrder /\ (InRound => \A d \in todo : at.dev < d)'
         /\ (~InRound => todo = {})'
BY DEF StepInOrder, OrderInv, InRound

\* The round ends before its last device.
LEMMA CutInOrder ==
  ASSUME OrderInv, InRound, Cut, todo' = {}, at'.dev = None,
         at'.pc \in {"asleep", "dead"}
  PROVE  StepInOrder /\ (InRound => \A d \in todo : at.dev < d)'
         /\ (~InRound => todo = {})'
<1>1. at.dev # None
  BY RoundAssumption DEF OrderInv, PollInv, GoodPosition, InRound
<1> QED BY <1>1 DEF StepInOrder, InRound

\* Onward from the greenlet's own device and request.
LEMMA OnwardInOrder ==
  ASSUME OrderInv, InRound, NEW c, GoTo(Onward(at.dev, at.req, c))
  PROVE  StepInOrder /\ (InRound => \A d \in todo : at.dev < d)'
         /\ (~InRound => todo = {})'
<1> DEFINE place == Onward(at.dev, at.req, c)
<1>1. at' = place.at /\ todo' = place.todo
  BY DEF GoTo
<1>2. todo \in SUBSET Devices /\ at.req \in Nat
  BY RoundAssumption DEF OrderInv, PollInv, TypeOK, GoodPosition, Positions
<1>3. \/ place.at = Asleep /\ place.todo = {} /\ Deleted(at.dev)
      \/ place.at = Position("poll", at.dev, at.req + 1) /\ place.todo = todo
      \/ NextTurn(place, todo)
  BY <1>2, OnwardIsNext
<1>4. CASE place.at = Asleep /\ place.todo = {} /\ Deleted(at.dev)
  <2>1. Cut
    BY <1>4 DEF Cut
  <2> QED BY <1>1, <1>4, <2>1, CutInOrder DEF Asleep, Position
<1>5. CASE place.at = Position("poll", at.dev, at.req + 1) /\ place.todo = todo
  BY <1>1, <1>2, <1>5, SameDeviceInOrder DEF Position
<1>6. CASE NextTurn(place, todo)
  BY <1>6, NextTurnInOrder
<1> QED BY <1>3, <1>4, <1>5, <1>6

LEMMA GreenletInOrder ==
  ASSUME OrderInv, GreenletStep
  PROVE  StepInOrder /\ (InRound => \A d \in todo : at.dev < d)'
         /\ (~InRound => todo = {})'
<1>1. PollInv /\ todo \in SUBSET Devices /\ at.req \in Nat
  BY RoundAssumption DEF OrderInv, PollInv, TypeOK, GoodPosition, Positions
<1>2. CASE RoundStart
  <2> DEFINE list == {d \in Devices : status[d] = "enabled"}
             place == Turn(list, See(cache[Poller], fault, list \cup {Net}))
  <2>1. ~InRound
    BY <1>2 DEF RoundStart, InRound
  <2>2. NextTurn(place, list)
    BY TurnIsNext
  <2>3. at' = place.at /\ todo' = place.todo
    BY <1>2 DEF RoundStart, GoTo
  <2> HIDE DEF place
  <2> QED BY <2>1, <2>2, <2>3 DEF NextTurn, StepInOrder, InRound, Asleep, Position
<1>3. CASE PauseOver
  BY <1>3, OnwardInOrder DEF PauseOver, InRound
<1>4. ASSUME NEW o, Hears(o) PROVE InRound /\ at.pc \in {"ping", "poll"}
  BY <1>4 DEF Hears, InRound
<1>5. CASE HearsOk
  <2>1. at' = [at EXCEPT !.pc = "pause"] /\ todo' = todo
    BY <1>5 DEF HearsOk, GoTo, Place
  <2>2. at'.pc = "pause" /\ at'.dev = at.dev /\ at'.req = at.req
    BY <1>1, <2>1 DEF PollInv, TypeOK
  <2> QED BY <1>4, <1>5, <2>1, <2>2, SameDeviceInOrder DEF HearsOk
<1>6. CASE HearsIOError
  <2>1. InRound
    BY <1>4, <1>6 DEF HearsIOError
  <2>2. NextTurn(Turn(todo, Loaded), todo)
    BY <1>1, TurnIsNext
  <2> QED BY <1>6, <2>1, <2>2, NextTurnInOrder, OnwardInOrder DEF HearsIOError
<1>7. CASE HearsNothing
  <2>1. InRound /\ Cut
    BY <1>4, <1>7 DEF HearsNothing, Cut
  <2>2. NextTurn(Turn(todo, Loaded), todo)
    BY <1>1, TurnIsNext
  <2>3. CASE GoTo(Turn(todo, Loaded))
    BY <2>1, <2>2, <2>3, NextTurnInOrder
  <2>4. CASE GoTo(RoundOver)
    BY <2>1, <2>4, CutInOrder DEF GoTo, RoundOver, RoundLeft, Place, Asleep, Position
  <2> QED BY <1>7, <2>3, <2>4 DEF HearsNothing
<1>8. CASE HearsGone
  BY <1>4, <1>8, OnwardInOrder DEF HearsGone
<1>9. CASE HearsGarbage
  <2>1. InRound /\ Cut
    BY <1>4, <1>9 DEF HearsGarbage, Cut
  <2> QED BY <1>9, <2>1, CutInOrder DEF HearsGarbage, GoTo, RoundLeft, Place, Asleep, Position
<1>10. CASE HearsStale
  <2>1. InRound /\ Hears("stale")
    BY <1>4, <1>10 DEF HearsStale
  <2>2. Deleted(at.dev)
    BY <1>1, <2>1, HearsType
  <2>3. Cut
    BY <2>2 DEF Cut
  <2> QED BY <1>10, <2>1, <2>3, CutInOrder DEF HearsStale, GoTo, Place, Position
<1> QED BY <1>2, <1>3, <1>5, <1>6, <1>7, <1>8, <1>9, <1>10 DEF GreenletStep

LEMMA OrderInit == Init => OrderInv
BY PollInit DEF Init, OrderInv, InRound, Asleep, Position

LEMMA OrderNext == OrderInv /\ [Next]_vars => OrderInv' /\ [StepInOrder]_vars
<1> SUFFICES ASSUME OrderInv, [Next]_vars PROVE OrderInv' /\ [StepInOrder]_vars
  OBVIOUS
<1>1. PollInv'
  BY PollNext DEF OrderInv
<1>2. CASE GreenletStep
  BY <1>1, <1>2, GreenletInOrder DEF OrderInv
<1>3. CASE ~GreenletStep
  <2>1. at' = at /\ todo' = todo
    BY <1>3 DEF Next, ManualPoll, ManualEnd, LinkChanges, DeviceChanges, SetDevice, vars
  <2>2. at.dev = at.dev /\ (InRound => at.dev # None)
    BY RoundAssumption DEF OrderInv, PollInv, GoodPosition, InRound
  <2> QED BY <1>1, <2>1 DEF OrderInv, StepInOrder, InRound
<1> QED BY <1>2, <1>3

-----------------------------------------------------------------------------
\* The types hold, and a greenlet is never where no device or request is.
THEOREM TypeCorrect == Spec => []TypeOK
<1>1. PollInv => TypeOK
  BY DEF PollInv
<1> QED BY PollInit, PollNext, <1>1, PTL DEF Spec

\* Only the deletion of a device with a ping point, or with an answer that
\* cannot be stored, ends the greenlet of a network (modbus_polling.py:240-248,
\* poll.py:147-151), however many devices, manual polls and answers that cannot
\* be decoded there are.
THEOREM OnlyUnrefreshed == Spec => []OnlyUnrefreshedKills
<1>1. PollInv => OnlyUnrefreshedKills
  BY DEF PollInv
<1> QED BY PollInit, PollNext, <1>1, PTL DEF Spec

\* An I/O error or a stored answer of a request for a point leaves the
\* network's flag cleared, whatever the session had loaded before
\* (modbus_polling.py:244-245, model_point_store.py:80).
THEOREM ContactClears == Spec => ContactClearsNetwork
<1>1. PollInv /\ [Next]_vars
        => [/\ at.pc = "poll"
            /\ HearsIOError \/ (HearsOk /\ <<at.dev, at.req>> \notin Unstored)
            => ~fault'[Net]]_vars
  BY HearsType DEF HearsOk, HearsIOError
<1> QED BY PollInit, PollNext, <1>1, PTL DEF Spec, ContactClearsNetwork

\* The requests of a round follow each other in order, none is made twice, and
\* a device is passed over only when it was deleted or the round is given up
\* (modbus_polling.py:86-105), whatever answers, manual polls and edits come in
\* between. The devices that follow always come after the greenlet's own.
THEOREM InOrder == Spec => RoundInOrder
<1>1. OrderInv /\ [Next]_vars
        => [InRound =>
              /\ \A d \in todo \ todo' :
                   at'.dev = d \/ Deleted(d) \/ (at'.dev = None /\ Cut)
              /\ at'.dev \notin {at.dev, None} => at'.dev \in todo /\ at.dev < at'.dev
              /\ at'.dev = at.dev /\ at' # at =>
                   at'.req > at.req \/ (at'.req = at.req /\ at'.pc = "pause")]_vars
  BY OrderNext DEF StepInOrder
<1>2. OrderInv /\ [Next]_vars => OrderInv'
  BY OrderNext
<1> QED BY OrderInit, <1>1, <1>2, PTL DEF Spec, RoundInOrder
=============================================================================
