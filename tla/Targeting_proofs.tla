---- MODULE Targeting_proofs ----
(* Theorems about the Targeting route, for every route, map, line and bound.  *)
(*                                                                            *)
(* The invariant Inv says of the state's world that its order, its Delay, its *)
(* approach, its timers and its presses fit the step the route stands at. A   *)
(* frame is followed through its parts: the actions in flight                 *)
(* (ActionsUpdated), each kind of step (Passed, Walked), the loop over the    *)
(* steps (StepsConsumed, by induction up to the route's length), what the     *)
(* frame does around the loops (RouteUpdates, FrameUpdates) and the count of  *)
(* a Delay's frames (FrameCounted). Counted is what a frame guarantees; every *)
(* other step stops the route or leaves its progress Aside. The action        *)
(* properties follow from the two, but for BlocksStayTogether: it is a fact   *)
(* about the lists a move makes (SwapKeepsBlocks, MovedStepKeeps), which the  *)
(* map's own sequence carries over to the route (EntriesReplaced).            *)
EXTENDS Targeting, FiniteSetTheorems, SequenceTheorems, WellFoundedInduction, TLAPS

\* Every set of natural numbers but the empty one has a least member.
LEMMA LeastNatural ==
  ASSUME NEW T, T \subseteq Nat, T # {}
  PROVE  \E x \in T : \A y \in T : x <= y
  <1> DEFINE R == OpToRel(<, Nat)
  <1>1. IsWellFoundedOn(R, Nat)
    BY NatLessThanWellFounded
  <1>2. \A x, y \in Nat : <<y, x>> \in R <=> y < x
    BY DEF OpToRel
  <1> HIDE DEF R
  <1>3. PICK x \in T : \A y \in T : ~(<<y, x>> \in R)
    BY <1>1, WFMin
  <1>4. \A y \in T : ~(y < x)
    BY <1>2, <1>3, Zenon
  <1> QED
    BY <1>4

\* Induction up to a bound, with the numbers that have the property as a set.
LEMMA UpTo ==
  ASSUME NEW N \in Nat, NEW T, 0 \in T, \A n \in 1 .. N : n - 1 \in T => n \in T
  PROVE  \A n \in 0 .. N : n \in T
<1> SUFFICES ASSUME (0 .. N) \ T # {} PROVE FALSE
  OBVIOUS
<1> DEFINE U == (0 .. N) \ T
<1>0. U \subseteq Nat
  OBVIOUS
<1> HIDE DEF U
<1>1. PICK least \in U : \A n \in U : least <= n
  BY <1>0, LeastNatural DEF U
<1> USE DEF U
<1>2. least # 0 /\ least - 1 \in 0 .. N /\ least \in 1 .. N
  BY <1>1
<1>3. least - 1 \in T
  BY <1>1, <1>2
<1> QED BY <1>1, <1>2, <1>3

----
(* InOrder.                                                                     *)

\* The function in InOrder: its value at n lists what it has met up to n.
Lists(f, S, N) ==
    f = [n \in 0 .. N |-> IF n = 0 THEN <<>>
                          ELSE IF n \in S THEN Append(f[n - 1], n) ELSE f[n - 1]]

LEMMA ListsExists == ASSUME NEW S, NEW N \in Nat PROVE \E f : Lists(f, S, N)
<1> DEFINE T == {n \in 0 .. N : \E f : Lists(f, S, n)}
<1>1. 0 \in T
  <2> DEFINE f == [n \in 0 .. 0 |-> <<>>]
  <2>1. Lists(f, S, 0)
    BY DEF Lists
  <2> QED BY <2>1
<1>2. ASSUME NEW n \in 1 .. N, n - 1 \in T PROVE n \in T
  <2>1. PICK f : Lists(f, S, n - 1)
    BY <1>2
  <2> DEFINE g == [k \in 0 .. n |-> IF k \in 0 .. n - 1 THEN f[k]
                                    ELSE IF n \in S THEN Append(f[n - 1], n) ELSE f[n - 1]]
  <2>2. g = [k \in 0 .. n |-> IF k = 0 THEN <<>>
                          ELSE IF k \in S THEN Append(g[k - 1], k) ELSE g[k - 1]]
    <3>1. ASSUME NEW k \in 0 .. n PROVE g[k] = IF k = 0 THEN <<>>
                          ELSE IF k \in S THEN Append(g[k - 1], k) ELSE g[k - 1]
      <4>1. CASE k = n
        BY <4>1
      <4>2. CASE k \in 0 .. n - 1
        <5>1. g[k] = f[k] /\ (k # 0 => g[k - 1] = f[k - 1])
          BY <4>2
        <5>2. f[k] = IF k = 0 THEN <<>> ELSE IF k \in S THEN Append(f[k - 1], k) ELSE f[k - 1]
          BY <2>1, <4>2 DEF Lists
        <5> HIDE DEF g
        <5> QED BY <5>1, <5>2
      <4> QED BY <4>1, <4>2
    <3> QED BY <3>1
  <2>3. Lists(g, S, n)
    BY <2>2 DEF Lists
  <2> QED BY <2>3
<1>3. N \in T
  <2> HIDE DEF T
  <2> QED BY <1>1, <1>2, UpTo
<1> QED BY <1>3

\* The same, one number at a time.
Listing(f, S, N) ==
    /\ f[0] = <<>>
    /\ \A n \in 1 .. N : f[n] = IF n \in S THEN Append(f[n - 1], n) ELSE f[n - 1]

LEMMA InOrderLists ==
  ASSUME NEW S, NEW N \in Nat
  PROVE  \E f : InOrder(S, N) = f[N] /\ Listing(f, S, N)
<1> DEFINE f == CHOOSE f : Lists(f, S, N)
<1>1. Lists(f, S, N)
  BY ListsExists
<1>2. InOrder(S, N) = f[N]
  BY Zenon DEF InOrder, Lists
<1> HIDE DEF f
<1>3. f[0] = <<>>
  BY <1>1 DEF Lists
<1>4. \A n \in 1 .. N : f[n] = IF n \in S THEN Append(f[n - 1], n) ELSE f[n - 1]
  <2> TAKE n \in 1 .. N
  <2>1. n \in 0 .. N /\ n # 0
    OBVIOUS
  <2> QED BY <1>1, <2>1, Zenon DEF Lists
<1>5. Listing(f, S, N)
  BY <1>3, <1>4, Zenon DEF Listing
<1> QED BY <1>2, <1>5

\* InOrder lists the numbers of S, each at the place its rank gives it.
LEMMA InOrderSorts ==
  ASSUME NEW S, NEW N \in Nat
  PROVE  /\ InOrder(S, N) \in Seq(S \cap (1 .. N))
         /\ \A i \in S \cap (1 .. N) :
               LET rank == Cardinality({j \in S : j \in 1 .. i})
               IN  rank \in DOMAIN InOrder(S, N) /\ InOrder(S, N)[rank] = i
<1>a. PICK f : InOrder(S, N) = f[N] /\ Listing(f, S, N)
  BY InOrderLists
<1>1. /\ InOrder(S, N) = f[N]
      /\ f[0] = <<>>
      /\ \A n \in 1 .. N : f[n] = IF n \in S THEN Append(f[n - 1], n) ELSE f[n - 1]
  BY <1>a, Zenon DEF Listing
<1> DEFINE Upto(n) == {j \in S : j \in 1 .. n}
           T == {n \in 0 .. N :
                    /\ f[n] \in Seq(Upto(n))
                    /\ Len(f[n]) = Cardinality(Upto(n))
                    /\ \A i \in Upto(n) : /\ Cardinality(Upto(i)) \in 1 .. Len(f[n])
                                           /\ f[n][Cardinality(Upto(i))] = i}
<1>2. 0 \in T
  <2>1. Upto(0) = {}
    OBVIOUS
  <2>2. Cardinality(Upto(0)) = 0
    BY <2>1, FS_EmptySet
  <2>3. \A X : <<>> \in Seq(X) /\ Len(<<>>) = 0
    OBVIOUS
  <2> HIDE DEF Upto
  <2>4. 0 \in 0 .. N
    OBVIOUS
  <2>5. \A i \in Upto(0) : FALSE
    BY <2>1
  <2>6. f[0] \in Seq(Upto(0)) /\ Len(f[0]) = Cardinality(Upto(0))
    BY <1>1, <2>2, <2>3
  <2> QED BY <2>4, <2>5, <2>6, Zenon
<1>3. ASSUME NEW n \in 1 .. N, n - 1 \in T PROVE n \in T
  <2>1. f[n] = IF n \in S THEN Append(f[n - 1], n) ELSE f[n - 1]
    BY <1>1
  <2>2. Upto(n) = IF n \in S THEN Upto(n - 1) \cup {n} ELSE Upto(n - 1)
    OBVIOUS
  <2>3. n \notin Upto(n - 1)
    OBVIOUS
  <2>4. IsFiniteSet(Upto(n - 1))
    <3>1. IsFiniteSet(1 .. n - 1)
      BY FS_Interval
    <3>2. Upto(n - 1) \subseteq 1 .. n - 1
      OBVIOUS
    <3> QED BY <3>1, <3>2, FS_Subset
  <2>5. Cardinality(Upto(n - 1) \cup {n}) = Cardinality(Upto(n - 1)) + 1
    BY <2>3, <2>4, FS_AddElement
  <2>6. Cardinality(Upto(n - 1)) \in Nat
    BY <2>4, FS_CardinalityType
  <2>7. /\ f[n - 1] \in Seq(Upto(n - 1))
        /\ Len(f[n - 1]) = Cardinality(Upto(n - 1))
        /\ \A i \in Upto(n - 1) : /\ Cardinality(Upto(i)) \in 1 .. Len(f[n - 1])
                                   /\ f[n - 1][Cardinality(Upto(i))] = i
    BY <1>3
  <2> HIDE DEF Upto
  <2>8. CASE n \notin S
    BY <2>1, <2>2, <2>7, <2>8
  <2>9. CASE n \in S
    <3>1. f[n] = Append(f[n - 1], n) /\ Upto(n) = Upto(n - 1) \cup {n}
      BY <2>1, <2>2, <2>9
    <3>2. f[n - 1] \in Seq(Upto(n))
      BY <2>7, <3>1
    <3>3. f[n] \in Seq(Upto(n)) /\ Len(f[n]) = Len(f[n - 1]) + 1
      BY <3>1, <3>2
    <3>4. Len(f[n]) = Cardinality(Upto(n))
      BY <2>5, <2>7, <3>1, <3>3
    <3>5. ASSUME NEW i \in Upto(n)
          PROVE  Cardinality(Upto(i)) \in 1 .. Len(f[n]) /\ f[n][Cardinality(Upto(i))] = i
      <4>1. CASE i = n
        <5>1. Cardinality(Upto(i)) = Len(f[n - 1]) + 1
          BY <3>3, <3>4, <4>1
        <5>2. Append(f[n - 1], n)[Len(f[n - 1]) + 1] = n
          BY <3>2
        <5>3. Len(f[n - 1]) \in Nat
          BY <3>2
        <5> QED BY <3>1, <3>3, <4>1, <5>1, <5>2, <5>3
      <4>2. CASE i \in Upto(n - 1)
        BY <2>7, <3>1, <3>2, <3>3, <4>2
      <4> QED BY <3>1, <4>1, <4>2
    <3> QED BY <3>3, <3>4, <3>5
  <2> QED BY <2>8, <2>9
<1>4. N \in T
  <2> HIDE DEF T
  <2> QED BY <1>2, <1>3, UpTo
<1>5. Upto(N) = S \cap (1 .. N)
  OBVIOUS
<1> QED BY <1>1, <1>4, <1>5

LEMMA InOrderEmpty == ASSUME NEW N \in Nat PROVE InOrder({}, N) = <<>>
<1>1. InOrder({}, N) \in Seq({} \cap (1 .. N))
  BY InOrderSorts
<1> QED BY <1>1

\* A number above all the others comes last.
LEMMA InOrderAppend ==
  ASSUME NEW S, NEW N \in Nat, NEW m \in 1 .. N, S \subseteq 1 .. m - 1
  PROVE  InOrder(S \cup {m}, N) = Append(InOrder(S, N), m)
<1> DEFINE U == S \cup {m}
<1>0. /\ m \in U /\ m \notin S
      /\ \A n \in 1 .. N : n # m => (n \in U <=> n \in S)
      /\ \A n \in 1 .. N : n > m => n \notin S
  OBVIOUS
<1> HIDE DEF U
<1>a. PICK f : InOrder(S, N) = f[N] /\ Listing(f, S, N)
  BY InOrderLists
<1>1. /\ InOrder(S, N) = f[N]
      /\ f[0] = <<>>
      /\ \A n \in 1 .. N : f[n] = IF n \in S THEN Append(f[n - 1], n) ELSE f[n - 1]
  BY <1>a, Zenon DEF Listing
<1>b. PICK g : InOrder(U, N) = g[N] /\ Listing(g, U, N)
  BY InOrderLists
<1>2. /\ InOrder(U, N) = g[N]
      /\ g[0] = <<>>
      /\ \A n \in 1 .. N : g[n] = IF n \in U THEN Append(g[n - 1], n) ELSE g[n - 1]
  BY <1>b, Zenon DEF Listing
<1> DEFINE T == {n \in 0 .. N : /\ n < m => g[n] = f[n]
                                /\ ~(n < m) => g[n] = Append(f[n], m)}
<1>3. 0 \in T
  BY <1>1, <1>2
<1>4. ASSUME NEW n \in 1 .. N, n - 1 \in T PROVE n \in T
  <2>1. /\ n - 1 < m => g[n - 1] = f[n - 1]
        /\ ~(n - 1 < m) => g[n - 1] = Append(f[n - 1], m)
    BY <1>4, Zenon
  <2>2. f[n] = IF n \in S THEN Append(f[n - 1], n) ELSE f[n - 1]
    BY <1>1
  <2>3. g[n] = IF n \in U THEN Append(g[n - 1], n) ELSE g[n - 1]
    BY <1>2
  <2>4. CASE n < m
    BY <1>0, <2>1, <2>2, <2>3, <2>4
  <2>5. CASE n = m
    <3>1. n \in U /\ n \notin S /\ n - 1 < m /\ ~(n < m) /\ n \in 0 .. N
      BY <1>0, <2>5
    <3>2. g[n] = Append(f[n], m)
      BY <2>1, <2>2, <2>3, <2>5, <3>1, Zenon
    <3> QED BY <3>1, <3>2, Zenon
  <2>6. CASE n > m
    <3>1. n \notin U /\ n \notin S /\ ~(n - 1 < m) /\ ~(n < m) /\ n \in 0 .. N
      BY <1>0, <2>6
    <3>2. g[n] = Append(f[n], m)
      BY <2>1, <2>2, <2>3, <3>1, Zenon
    <3> QED BY <3>1, <3>2, Zenon
  <2> QED BY <2>4, <2>5, <2>6
<1>5. N \in T
  <2> HIDE DEF T
  <2> QED BY <1>3, <1>4, UpTo
<1>6. ~(N < m)
  OBVIOUS
<1>7. g[N] = Append(f[N], m)
  BY <1>5, <1>6, Zenon
<1> QED BY <1>1, <1>2, <1>7, Zenon DEF U

----
(* Worlds.                                                                      *)

WalkType == {"on", "stopped", "returned"}

RouteType == [active : BOOLEAN, at : Index, waiting : BOOLEAN, startDelay : Nat,
              delayAt : Index, delayLeft : Nat, approach : [index : Index, delta : Int],
              menuTas : BOOLEAN]
TimerType == [running : BOOLEAN, moved : BOOLEAN, frames : Counter, best : Counter]
SplitType == [running : BOOLEAN, origin : Index, frames : Counter]
PadType == [leftStick : {-1, 0, 1}, held : SUBSET Button, stick : BOOLEAN,
            buffered : SUBSET Button]
GhostType == [entry : Index, done : Seq(Nat), disturbed : BOOLEAN, served : Nat, due : Nat,
              leg : Index \X Index, adjusted : BOOLEAN, unearned : BOOLEAN]

WorldType == [route : RouteType, actions : Seq(ActiveAction), timer : TimerType,
              split : SplitType, pad : PadType, helper : HelperStates,
              skips : BOOLEAN, ghost : GhostType, walk : WalkType]

Fields == {"route", "actions", "timer", "split", "pad", "helper", "skips", "ghost", "walk"}
SameBut(v, w, S) == \A f \in Fields \ S : v[f] = w[f]

LEMMA ApproachForgotten ==
  ASSUME NEW w \in WorldType
  PROVE  /\ ResetTargetApproach(w) \in WorldType
         /\ ResetTargetApproach(w).route = [w.route EXCEPT !.approach = NoApproach]
         /\ SameBut(ResetTargetApproach(w), w, {"route"})
<1>1. NoApproach \in [index : Index, delta : Int]
  BY TargetingAssumption DEF NoApproach, Index
<1> QED BY <1>1 DEF ResetTargetApproach, WorldType, RouteType, SameBut, Fields

LEMMA StickReleased ==
  ASSUME NEW w \in WorldType
  PROVE  /\ LeftStickOff(w) \in WorldType
         /\ LeftStickOff(w).pad = [w.pad EXCEPT !.leftStick = 0]
         /\ SameBut(LeftStickOff(w), w, {"pad"})
  BY DEF LeftStickOff, WorldType, PadType, SameBut, Fields

LEMMA StandStillWorld ==
  ASSUME NEW w \in WorldType
  PROVE  /\ StandStill(w) \in WorldType
         /\ StandStill(w).route = [w.route EXCEPT !.approach = NoApproach]
         /\ StandStill(w).pad = [w.pad EXCEPT !.leftStick = 0]
         /\ SameBut(StandStill(w), w, {"route", "pad"})
  BY ApproachForgotten, StickReleased DEF StandStill, SameBut, Fields

LEMMA ReturnWorld ==
  ASSUME NEW w \in WorldType
  PROVE  Return(w) \in WorldType /\ Return(w).walk = "returned" /\ SameBut(Return(w), w, {"walk"})
  BY DEF Return, WorldType, WalkType, SameBut, Fields

LEMMA StoppedRouteType ==
    /\ StoppedRoute \in RouteType
    /\ ~StoppedRoute.active /\ StoppedRoute.at = 0 /\ StoppedRoute.delayAt = 0
    /\ StoppedRoute.approach = NoApproach /\ NoApproach.index = 0 /\ ~StoppedRoute.menuTas
    /\ StoppedRoute.startDelay = 0 /\ ~StoppedRoute.waiting
<1>1. 0 \in Index /\ NoApproach \in [index : Index, delta : Int]
  BY TargetingAssumption DEF NoApproach, Index
<1> QED BY <1>1 DEF StoppedRoute, RouteType, NoApproach

LEMMA NoGhostType ==
    /\ NoGhost \in GhostType
    /\ NoGhost.entry = 0 /\ NoGhost.done = <<>> /\ NoGhost.leg = <<0, 0>>
    /\ NoGhost.served = 0 /\ NoGhost.due = 0 /\ ~NoGhost.disturbed
    /\ ~NoGhost.adjusted /\ ~NoGhost.unearned
<1>1. 0 \in Index /\ <<0, 0>> \in Index \X Index
  BY TargetingAssumption DEF Index
<1> QED BY <1>1 DEF NoGhost, GhostType

LEMMA IdleHelperType == IdleHelper \in HelperStates /\ IdleHelper.state = "Idle"
  BY DEF IdleHelper, HelperStates

\* What two ghosts share but for the edits of the Actions in flight.
SameRun(g, h) ==
    /\ g.entry = h.entry /\ g.done = h.done /\ g.disturbed = h.disturbed
    /\ g.served = h.served /\ g.due = h.due /\ g.leg = h.leg
    /\ g.unearned = h.unearned

LEMMA AdjustmentKnown ==
  ASSUME NEW g \in GhostType, NEW adjusted \in BOOLEAN
  PROVE  LET h == [g EXCEPT !.adjusted = adjusted]
         IN  h \in GhostType /\ h.adjusted = adjusted /\ SameRun(h, g)
  BY DEF GhostType, SameRun

LEMMA ClearedWorld ==
  ASSUME NEW w \in WorldType
  PROVE  /\ ClearActiveActions(w) \in WorldType
         /\ ClearActiveActions(w).actions = <<>>
         /\ ClearActiveActions(w).pad.leftStick = w.pad.leftStick
         /\ ClearActiveActions(w).pad.buffered = {}
         /\ ~ClearActiveActions(w).ghost.adjusted
         /\ SameRun(ClearActiveActions(w).ghost, w.ghost)
         /\ SameBut(ClearActiveActions(w), w, {"actions", "pad", "ghost"})
<1> DEFINE p == [w.pad EXCEPT !.held = {}, !.stick = FALSE, !.buffered = {}]
           none == <<>>
           g == [w.ghost EXCEPT !.adjusted = FALSE]
<1>1. ClearActiveActions(w) = [[[w EXCEPT !.actions = none] EXCEPT !.pad = p] EXCEPT !.ghost = g]
  BY DEF ClearActiveActions, WorldType, PadType
<1>2. p \in PadType /\ p.leftStick = w.pad.leftStick /\ p.buffered = {}
  BY DEF WorldType, PadType
<1>3. none \in Seq(ActiveAction)
  OBVIOUS
<1>4. g \in GhostType /\ ~g.adjusted /\ SameRun(g, w.ghost)
  BY AdjustmentKnown DEF WorldType
<1> HIDE DEF p, none, g
<1>5. /\ ClearActiveActions(w) \in WorldType
      /\ ClearActiveActions(w).actions = none /\ ClearActiveActions(w).pad = p
      /\ ClearActiveActions(w).ghost = g
      /\ SameBut(ClearActiveActions(w), w, {"actions", "pad", "ghost"})
  BY <1>1, <1>2, <1>3, <1>4 DEF WorldType, SameBut, Fields
<1> QED BY <1>2, <1>4, <1>5 DEF none

\* The route is over, its steps performed.
LEMMA CompleteWorld ==
  ASSUME NEW w \in WorldType
  PROVE  LET v == MarkRouteMovementComplete(w)
         IN  /\ v \in WorldType
             /\ ~v.route.active /\ v.route.at = 0 /\ v.route.delayAt = 0
             /\ v.route.approach.index = 0 /\ v.route.startDelay = 0 /\ ~v.route.waiting
             /\ v.timer.running = w.timer.running /\ v.timer.moved
             /\ ~v.split.running /\ v.split.origin = w.split.origin
             /\ v.pad.leftStick = 0 /\ v.pad.buffered = w.pad.buffered
             /\ SameBut(v, w, {"route", "timer", "split", "pad"})
<1> DEFINE r == [StoppedRoute EXCEPT !.menuTas = w.route.menuTas]
           t == [w.timer EXCEPT !.moved = TRUE]
           s == [w.split EXCEPT !.running = FALSE]
           u == [w EXCEPT !.route = r, !.timer = t, !.split = s]
<1>1. MarkRouteMovementComplete(w) = LeftStickOff(u)
  BY DEF MarkRouteMovementComplete, WorldType, TimerType, SplitType
<1>2. /\ r \in RouteType
      /\ ~r.active /\ r.at = 0 /\ r.delayAt = 0 /\ r.approach.index = 0
      /\ r.startDelay = 0 /\ ~r.waiting
  <2>1. w.route.menuTas \in BOOLEAN
    BY DEF WorldType, RouteType
  <2> QED BY <2>1, StoppedRouteType DEF RouteType
<1>3. t \in TimerType /\ t.moved /\ t.running = w.timer.running
  BY DEF WorldType, TimerType
<1>4. s \in SplitType /\ ~s.running /\ s.origin = w.split.origin
  BY DEF WorldType, SplitType
<1> HIDE DEF r, t, s
<1>5. /\ u \in WorldType /\ u.route = r /\ u.timer = t /\ u.split = s
      /\ SameBut(u, w, {"route", "timer", "split"})
  BY <1>2, <1>3, <1>4 DEF WorldType, SameBut, Fields
<1> HIDE DEF u
<1>6. /\ LeftStickOff(u) \in WorldType
      /\ LeftStickOff(u).pad = [u.pad EXCEPT !.leftStick = 0]
      /\ SameBut(LeftStickOff(u), u, {"pad"})
  BY <1>5, StickReleased
<1>7. u.pad \in PadType
  BY <1>5 DEF WorldType
<1> QED BY <1>1, <1>2, <1>3, <1>4, <1>5, <1>6, <1>7 DEF SameBut, Fields, PadType

LEMMA StoppedWorld ==
  ASSUME NEW w \in WorldType
  PROVE  LET v == StopRoute(w)
         IN  /\ v \in WorldType
             /\ v.route = StoppedRoute /\ v.actions = <<>> /\ v.helper = IdleHelper
             /\ ~v.timer.running /\ ~v.timer.moved /\ ~v.split.running /\ v.split.origin = 0
             /\ v.pad.leftStick = 0 /\ v.pad.buffered = {}
             /\ v.ghost.entry = 0 /\ v.ghost.done = <<>> /\ v.ghost.leg = <<0, 0>>
             /\ v.ghost.served = 0 /\ v.ghost.due = 0 /\ ~v.ghost.disturbed
             /\ ~v.ghost.adjusted /\ v.ghost.unearned = w.ghost.unearned
             /\ v.timer.frames = w.timer.frames /\ v.split.frames = w.split.frames
             /\ v.skips = w.skips /\ v.walk = w.walk
<1> DEFINE t == [[w.timer EXCEPT !.running = FALSE] EXCEPT !.moved = FALSE]
           s == [[w.split EXCEPT !.running = FALSE] EXCEPT !.origin = 0]
           g == [NoGhost EXCEPT !.unearned = w.ghost.unearned]
           u == [w EXCEPT !.helper = IdleHelper, !.route = StoppedRoute, !.timer = t,
                          !.split = s, !.ghost = g]
<1>1. StopRoute(w) = LeftStickOff(ClearActiveActions(u))
  BY DEF StopRoute, WorldType, TimerType, SplitType
<1>2. t \in TimerType /\ ~t.moved /\ ~t.running /\ t.frames = w.timer.frames
  BY DEF WorldType, TimerType
<1>3. s \in SplitType /\ ~s.running /\ s.origin = 0 /\ s.frames = w.split.frames
  <2>1. 0 \in Index /\ w.split \in SplitType
    BY TargetingAssumption DEF Index, WorldType
  <2> QED BY <2>1 DEF SplitType
<1>4. /\ g \in GhostType /\ g.entry = 0 /\ g.done = <<>> /\ g.leg = <<0, 0>>
      /\ g.served = 0 /\ g.due = 0 /\ ~g.disturbed /\ ~g.adjusted
      /\ g.unearned = w.ghost.unearned
  <2>1. w.ghost.unearned \in BOOLEAN
    BY DEF WorldType, GhostType
  <2> QED BY <2>1, NoGhostType DEF GhostType
<1> HIDE DEF t, s, g
<1>5. /\ u \in WorldType /\ u.route = StoppedRoute /\ u.timer = t /\ u.split = s
      /\ u.helper = IdleHelper /\ u.ghost = g
      /\ SameBut(u, w, {"route", "timer", "split", "helper", "ghost"})
  BY <1>2, <1>3, <1>4, StoppedRouteType, IdleHelperType DEF WorldType, SameBut, Fields
<1> HIDE DEF u
<1> DEFINE c == ClearActiveActions(u)
<1>6. /\ c \in WorldType /\ c.actions = <<>> /\ c.pad.buffered = {}
      /\ ~c.ghost.adjusted /\ SameRun(c.ghost, u.ghost)
      /\ SameBut(c, u, {"actions", "pad", "ghost"})
  BY <1>5, ClearedWorld
<1>7. c.pad \in PadType
  BY <1>6 DEF WorldType
<1> HIDE DEF c
<1>8. /\ LeftStickOff(c) \in WorldType
      /\ LeftStickOff(c).pad = [c.pad EXCEPT !.leftStick = 0]
      /\ SameBut(LeftStickOff(c), c, {"pad"})
  BY <1>6, StickReleased
<1>9. StopRoute(w) = LeftStickOff(c)
  BY <1>1 DEF c
<1> QED BY <1>2, <1>3, <1>4, <1>5, <1>6, <1>7, <1>8, <1>9 DEF SameBut, Fields, PadType, SameRun

\* The script timer stops only for a route that is over with nothing in flight.
LEMMA CompletedTimer ==
  ASSUME NEW w \in WorldType
  PROVE  LET v == TryCompleteScriptTimer(w)
         IN  /\ v \in WorldType
             /\ v.timer.moved = w.timer.moved
             /\ SameBut(v, w, {"timer"})
             /\ \/ v.timer.running = w.timer.running
                \/ /\ w.timer.moved /\ ~v.timer.running
                   /\ w.actions = <<>> /\ w.helper.state = "Idle"
<1>1. CASE ~w.timer.running \/ ~w.timer.moved \/ StillBusy(w)
  BY <1>1 DEF TryCompleteScriptTimer, SameBut
<1>2. CASE ~(~w.timer.running \/ ~w.timer.moved \/ StillBusy(w))
  <2> DEFINE best == IF w.timer.best = 0 \/ (0 < w.timer.frames /\ w.timer.frames < w.timer.best)
                     THEN w.timer.frames ELSE w.timer.best
             t == [[w.timer EXCEPT !.running = FALSE] EXCEPT !.best = best]
  <2>1. TryCompleteScriptTimer(w) = [w EXCEPT !.timer = t]
    BY <1>2 DEF TryCompleteScriptTimer, WorldType, TimerType
  <2>2. t \in TimerType /\ ~t.running /\ t.moved = w.timer.moved
    BY DEF WorldType, TimerType
  <2> HIDE DEF t
  <2>3. w.actions = <<>> /\ w.helper.state = "Idle"
    BY <1>2 DEF StillBusy, PlaybackPending
  <2> QED BY <1>2, <2>1, <2>2, <2>3 DEF WorldType, SameBut, Fields
<1> QED BY <1>1, <1>2

----
(* The order of a map's steps.                                                  *)

LEMMA OnMapIndices ==
  ASSUME TargetsOK, NEW map
  PROVE  OnMap(Targets, map) \subseteq 1 .. Len(Targets) /\ OnMap(Targets, map) \subseteq Index
         /\ OnMap(Targets, map) \subseteq Nat \ {0} /\ Len(Targets) \in Nat
  BY TargetingAssumption DEF TargetsOK, OnMap, Index

LEMMA FirstIsLeast ==
  ASSUME NEW S, S \subseteq Nat
  PROVE  /\ S = {} => FirstOf(S) = 0
         /\ S # {} => FirstOf(S) \in S /\ \A i \in S : FirstOf(S) <= i
<1>1. CASE S = {}
  BY <1>1 DEF FirstOf
<1>2. CASE S # {}
  <2>1. \E x \in S : \A y \in S : x <= y
    BY <1>2, LeastNatural
  <2>2. FirstOf(S) = CHOOSE x \in S : \A y \in S : x <= y
    BY <1>2 DEF FirstOf, Min
  <2> QED BY <1>2, <2>1, <2>2
<1> QED BY <1>1, <1>2

\* The map's step behind i, or 0 and there is none.
LEMMA NextIsNext ==
  ASSUME TargetsOK, NEW map, NEW i \in Nat
  PROVE  LET next == FindNextTargetForMap(i, map)
         IN  /\ next \in Index
             /\ next # 0 => next \in OnMap(Targets, map) /\ i < next
             /\ \A j \in OnMap(Targets, map) : i < j => next # 0 /\ next <= j
<1> DEFINE S == {j \in OnMap(Targets, map) : j > i}
<1>1. S \subseteq Nat /\ S \subseteq Index /\ 0 \notin S
  BY OnMapIndices
<1>2. FindNextTargetForMap(i, map) = FirstOf(S)
  BY DEF FindNextTargetForMap
<1>3. \A j \in S : j \in OnMap(Targets, map) /\ i < j
  BY OnMapIndices
<1>4. \A j \in OnMap(Targets, map) : i < j => j \in S
  BY OnMapIndices
<1>5. 0 \in Index
  BY TargetingAssumption DEF Index
<1> HIDE DEF S
<1>6. CASE S = {}
  BY <1>1, <1>2, <1>4, <1>5, <1>6, FirstIsLeast
<1>7. CASE S # {}
  BY <1>1, <1>2, <1>3, <1>4, <1>7, FirstIsLeast
<1> QED BY <1>6, <1>7

LEMMA FirstIsFirst ==
  ASSUME TargetsOK, NEW map
  PROVE  LET first == FindFirstTargetForMap(map)
         IN  first \in Index /\ (first # 0 => first \in OnMap(Targets, map))
<1>1. OnMap(Targets, map) \subseteq Nat /\ OnMap(Targets, map) \subseteq Index /\ 0 \in Index
  BY OnMapIndices, TargetingAssumption DEF Index
<1>2. FindFirstTargetForMap(map) = FirstOf(OnMap(Targets, map))
  BY DEF FindFirstTargetForMap
<1> QED BY <1>1, <1>2, FirstIsLeast

LEMMA NothingBetween == ASSUME TargetsOK, NEW low \in Nat PROVE StepsBetween(low, low) = <<>>
<1>1. {i \in OnMap(Targets, mapId) : low <= i /\ i < low} = {}
  BY OnMapIndices
<1> QED BY <1>1, InOrderEmpty, OnMapIndices DEF StepsBetween

LEMMA OneMoreStep ==
  ASSUME TargetsOK, NEW low \in Nat, NEW i \in OnMap(Targets, mapId), low <= i,
         NEW high \in Nat, i < high,
         \A j \in OnMap(Targets, mapId) : i < j => high <= j
  PROVE  StepsBetween(low, high) = Append(StepsBetween(low, i), i)
<1> DEFINE S == {j \in OnMap(Targets, mapId) : low <= j /\ j < i}
           U == {j \in OnMap(Targets, mapId) : low <= j /\ j < high}
<1>1. OnMap(Targets, mapId) \subseteq 1 .. Len(Targets) /\ Len(Targets) \in Nat
  BY OnMapIndices
<1>2. U = S \cup {i}
  BY <1>1
<1>3. S \subseteq 1 .. i - 1 /\ i \in 1 .. Len(Targets)
  BY <1>1
<1>4. StepsBetween(low, high) = InOrder(U, Len(Targets))
      /\ StepsBetween(low, i) = InOrder(S, Len(Targets))
  BY DEF StepsBetween
<1> DEFINE N == Len(Targets)
<1> HIDE DEF S, U, N
<1>5. N \in Nat /\ i \in 1 .. N
  BY <1>1, <1>3 DEF N
<1>6. InOrder(S \cup {i}, N) = Append(InOrder(S, N), i)
  BY <1>3, <1>5, InOrderAppend
<1> QED BY <1>2, <1>4, <1>6 DEF N

----
(* One step of the route.                                                       *)

LEMMA AfterStepWorld ==
  ASSUME TargetsOK, NEW w \in WorldType, NEW i \in OnMap(Targets, mapId)
  PROVE  LET v == AfterStep(w, i)
             next == FindNextTargetForMap(i, mapId)
         IN  /\ v \in WorldType
             /\ v.actions = w.actions /\ v.helper = w.helper /\ v.skips = w.skips
             /\ v.pad.buffered = w.pad.buffered
             /\ v.ghost = [w.ghost EXCEPT !.done = Append(w.ghost.done, i)]
             /\ v.timer.running = w.timer.running /\ v.split.origin = w.split.origin
             /\ next # 0 => /\ v.route = [w.route EXCEPT !.at = next]
                           /\ v.walk = w.walk /\ v.timer = w.timer /\ v.split = w.split
                           /\ v.pad = w.pad
             /\ next = 0 => /\ ~v.route.active /\ v.route.at = 0 /\ v.route.delayAt = 0
                           /\ v.route.approach.index = 0 /\ v.route.startDelay = 0
                           /\ ~v.route.waiting
                           /\ v.timer.moved /\ ~v.split.running
                           /\ v.pad.leftStick = 0 /\ v.walk = "returned"
<1> DEFINE next == FindNextTargetForMap(i, mapId)
           r == [w.route EXCEPT !.at = next]
           g == [w.ghost EXCEPT !.done = Append(w.ghost.done, i)]
           u == [[w EXCEPT !.route = r] EXCEPT !.ghost = g]
<1>1. AfterStep(w, i) = IF next = 0 THEN Return(MarkRouteMovementComplete(u)) ELSE u
  BY DEF AfterStep, WorldType, RouteType, GhostType
<1>2. i \in Nat /\ next \in Index
  BY OnMapIndices, NextIsNext
<1> HIDE DEF next
<1>3. r \in RouteType
  BY <1>2 DEF WorldType, RouteType
<1>4. g \in GhostType
  <2> DEFINE d == Append(w.ghost.done, i)
  <2>1. w.ghost \in GhostType
    BY DEF WorldType
  <2>2. d \in Seq(Nat)
    BY <1>2, <2>1 DEF GhostType
  <2> HIDE DEF d
  <2>3. [w.ghost EXCEPT !.done = d] \in GhostType
    BY <2>1, <2>2 DEF GhostType
  <2> QED BY <2>3 DEF d
<1> HIDE DEF r, g
<1>5. u \in WorldType /\ u.route = r /\ u.ghost = g /\ SameBut(u, w, {"route", "ghost"})
  BY <1>3, <1>4 DEF WorldType, SameBut, Fields
<1> HIDE DEF u
<1>6. CASE next # 0
  BY <1>1, <1>5, <1>6 DEF SameBut, Fields, r, g, next
<1>7. CASE next = 0
  <2> DEFINE v == MarkRouteMovementComplete(u)
  <2>1. /\ v \in WorldType
        /\ ~v.route.active /\ v.route.at = 0 /\ v.route.delayAt = 0
        /\ v.route.approach.index = 0 /\ v.route.startDelay = 0 /\ ~v.route.waiting
        /\ v.timer.running = u.timer.running /\ v.timer.moved
        /\ ~v.split.running /\ v.split.origin = u.split.origin
        /\ v.pad.leftStick = 0 /\ v.pad.buffered = u.pad.buffered
        /\ SameBut(v, u, {"route", "timer", "split", "pad"})
    BY <1>5, CompleteWorld
  <2>2. AfterStep(w, i) = Return(v)
    BY <1>1, <1>7
  <2> HIDE DEF v
  <2>3. Return(v) \in WorldType /\ Return(v).walk = "returned" /\ SameBut(Return(v), v, {"walk"})
    BY <2>1, ReturnWorld
  <2> QED BY <1>5, <1>7, <2>1, <2>2, <2>3 DEF SameBut, Fields, g, next
<1> QED BY <1>6, <1>7

----
(* What holds of a world between two steps of the route.                        *)

\* What an action owes it asked for; unless the window has changed it, what it
\* owes is pressed by its step and not credited yet.
OwesItsOwn(a) ==
    /\ a.index \in DOMAIN Targets /\ a.holdLeft > 0
    /\ a.owed # {} => a.started /\ a.requested
AsAsked(a) ==
    /\ a.owed \subseteq Targets[a.index].buttons
    /\ a.owed # {} => BufferedButtons(Targets[a.index]) /\ ~a.accepted

PressesOK(w) ==
    /\ \A k \in DOMAIN w.actions :
          OwesItsOwn(w.actions[k]) /\ w.actions[k].owed \subseteq w.pad.buffered
    /\ w.actions = <<>> => w.pad.buffered = {}
    /\ ~w.ghost.adjusted =>
          /\ \A k \in DOMAIN w.actions : AsAsked(w.actions[k])
          /\ w.pad.buffered = UNION {w.actions[k].owed : k \in DOMAIN w.actions}
    /\ ~w.ghost.unearned

OrderOK(w) ==
    w.route.active =>
        /\ w.route.at = 0 \/ w.route.at \in OnMap(Targets, mapId)
        /\ w.ghost.entry <= w.route.at
        /\ w.ghost.done = StepsBetween(w.ghost.entry, w.route.at)

\* A Delay that was entered is the step the route stands at; so is the step it
\* approaches.
DelayOK(w) ==
    w.route.delayAt # 0 =>
        /\ w.route.active /\ w.route.at = w.route.delayAt
        /\ w.route.at \in DOMAIN Targets /\ Targets[w.route.at].type = "Delay"
ApproachOK(w) ==
    w.route.approach.index # 0 =>
        /\ w.route.active /\ w.route.at = w.route.approach.index
        /\ IsMovementTarget(Targets[w.route.at])
        /\ Targets[w.route.at].type = "Position" => w.route.approach.delta # 0

\* A timer that waits for what is left of a route has every step behind it.
AllPerformed(w) ==
    ~w.route.active /\ w.ghost.done = StepsBetween(w.ghost.entry, MaxTargets + 1)
TimerOK(w) ==
    IF w.route.active THEN w.timer.running /\ ~w.timer.moved
    ELSE /\ w.route.startDelay = 0
         /\ w.timer.running /\ w.timer.moved => w.ghost.disturbed \/ AllPerformed(w)

\* No movement target stands between the split's origin and the step at, unless
\* the split began before the steps of the map were changed.
Neighbours(w, at) ==
    w.split.running /\ w.ghost.entry <= w.split.origin =>
        \A j \in OnMap(Targets, mapId) :
            w.split.origin < j /\ j < at => ~IsMovementTarget(Targets[j])
SplitOK(w) ==
    w.route.active /\ w.split.origin # 0 =>
        w.split.origin < w.route.at /\ Neighbours(w, w.route.at)

LegOK(w) ==
    \/ w.ghost.leg = <<0, 0>>
    \/ w.ghost.leg[1] < w.ghost.entry
    \/ w.ghost.leg[2] = FindNextMovementTargetForMap(w.ghost.leg[1], mapId)

Sound(w) ==
    /\ w \in WorldType
    /\ PressesOK(w) /\ OrderOK(w) /\ DelayOK(w) /\ ApproachOK(w) /\ TimerOK(w) /\ LegOK(w)

----
(* The loop over the steps, begun in w and now in v, the first i steps visited. *)

\* The loop found no frame left of the Delay i, or the Delay asks for none.
DueServed(w, i) == IF w.route.delayAt = i THEN w.route.delayLeft = 0 ELSE Targets[i].frames = 0

\* The loop passes no step behind it, and a Delay only if it found it served.
DelaysServed(w, v) ==
    \A d \in DOMAIN Targets :
        d \in ToSet(v.ghost.done) \ ToSet(w.ghost.done) =>
            w.route.at <= d /\ (Targets[d].type = "Delay" => DueServed(w, d))

\* A Delay the route stands at has lost a frame if the loop came to it.
Countdown(w, v) ==
    v.route.delayAt # 0 =>
        /\ v.ghost.served = w.ghost.served /\ w.route.at <= v.route.at
        /\ IF v.route.delayAt = w.route.delayAt
           THEN /\ \/ v.route.delayLeft = w.route.delayLeft
                   \/ v.route.delayLeft + 1 = w.route.delayLeft
                /\ v.ghost.due = w.ghost.due
           ELSE v.route.delayLeft + 1 = v.ghost.due

Ended(v) ==
    v.timer.moved => /\ AllPerformed(v)
                     /\ ~v.timer.running => v.actions = <<>> /\ v.helper.state = "Idle"

Related(w, v) ==
    /\ DelaysServed(w, v) /\ Countdown(w, v)
    /\ v.route.approach.index # 0 => v.route.approach = w.route.approach
    /\ Targets[w.route.at].type = "ShopTas" /\ v.pad.leftStick # 0
          => v.route.at = w.route.at

\* Still in the loop: at a later step than at first, unless none was passed.
SameStand(w, v) ==
    /\ v.route.at = w.route.at
    /\ v.route.delayAt = w.route.delayAt /\ v.route.delayLeft = w.route.delayLeft
    /\ Targets[v.route.at].type = "Position" => v.route.approach = w.route.approach
Underway(w, v) ==
    /\ v.route.active /\ v.route.at # 0 /\ SplitOK(v)
    /\ v.route.menuTas = w.route.menuTas /\ v.route.waiting = w.route.waiting
    /\ v.route.startDelay = w.route.startDelay /\ v.ghost.served = w.ghost.served
    /\ SameStand(w, v) \/ (w.route.at < v.route.at /\ v.route.delayAt = 0)

\* Where the loop stopped the route walks, if the loop was to visit Targets.
Stopped(v, kinds) ==
    /\ kinds = TargetType =>
          /\ IsMovementTarget(Targets[v.route.at])
          /\ Targets[v.route.at].type = "Position" => ~Reached(v, v.route.at)
    /\ \/ Targets[v.route.at].type \notin kinds
       \/ IsMovementTarget(Targets[v.route.at])

Walked(w, v, kinds, i) ==
    /\ Sound(v) /\ Related(w, v)
    /\ v.walk = "on" => Underway(w, v) /\ i < v.route.at
    /\ v.walk = "stopped" => Underway(w, v) /\ Stopped(v, kinds)
    /\ v.walk = "returned" => v.pad.leftStick = 0 /\ SplitOK(v) /\ Ended(v)

----
(* Small worlds, for the steps below.                                           *)

LEMMA TargetTyped ==
  ASSUME TargetsOK, NEW i \in DOMAIN Targets
  PROVE  /\ Targets[i] \in TargetData /\ Targets[i].type \in TargetType
         /\ Targets[i].frames \in Nat /\ Targets[i].hold \in Nat \ {0}
         /\ Targets[i].position \in Int /\ Targets[i].buttons \in SUBSET Button
         /\ Targets[i].enabled \in BOOLEAN /\ Targets[i].intermediate \in BOOLEAN
         /\ Targets[i].stick \in BOOLEAN /\ Targets[i].buffered \in BOOLEAN
<1>1. Targets[i] \in TargetData
  BY DEF TargetsOK
<1>2. Place \subseteq Int
  BY TargetingAssumption
<1> QED BY <1>1, <1>2 DEF TargetData

\* The actions and what is buffered alone decide whether the presses are paired.
LEMMA PressesCarry ==
  ASSUME NEW w, NEW v, PressesOK(w), v.actions = w.actions,
         v.pad.buffered = w.pad.buffered, v.ghost.adjusted = w.ghost.adjusted,
         v.ghost.unearned = w.ghost.unearned
  PROVE  PressesOK(v)
  BY DEF PressesOK

LEMMA NoPresses ==
  ASSUME NEW v, v.actions = <<>>, v.pad.buffered = {}, ~v.ghost.unearned
  PROVE  PressesOK(v)
<1>1. DOMAIN v.actions = {}
  OBVIOUS
<1> QED BY <1>1 DEF PressesOK

\* A stopped route is sound whatever it was before, and so the loop ends well.
LEMMA StopWalked ==
  ASSUME TargetsOK, NEW w \in WorldType, NEW v, Sound(v), NEW kinds, NEW i
  PROVE  Walked(w, Return(StopRoute(v)), kinds, i)
<1> DEFINE u == StopRoute(v)
<1>1. v \in WorldType /\ ~v.ghost.unearned
  BY DEF Sound, PressesOK
<1>2. /\ u \in WorldType
      /\ u.route = StoppedRoute /\ u.actions = <<>>
      /\ ~u.timer.running /\ ~u.timer.moved
      /\ u.pad.leftStick = 0 /\ u.pad.buffered = {}
      /\ u.ghost.done = <<>> /\ u.ghost.leg = <<0, 0>>
      /\ u.ghost.unearned = v.ghost.unearned
  BY <1>1, StoppedWorld
<1> HIDE DEF u
<1> DEFINE x == Return(u)
<1>3. /\ x \in WorldType /\ x.walk = "returned"
      /\ x.route = StoppedRoute /\ x.actions = <<>>
      /\ ~x.timer.running /\ ~x.timer.moved
      /\ x.pad.leftStick = 0 /\ x.pad.buffered = {}
      /\ x.ghost.done = <<>> /\ x.ghost.leg = <<0, 0>>
      /\ ~x.ghost.unearned
  BY <1>1, <1>2, ReturnWorld DEF SameBut, Fields
<1> HIDE DEF x
<1>4. PressesOK(x)
  BY <1>3, NoPresses
<1>5. Sound(x) /\ SplitOK(x)
  BY <1>3, <1>4, StoppedRouteType DEF Sound, OrderOK, DelayOK, ApproachOK, TimerOK, LegOK, SplitOK
<1>6. ToSet(x.ghost.done) = {}
  BY <1>3 DEF ToSet
<1>7. Related(w, x)
  BY <1>3, <1>6, StoppedRouteType DEF Related, DelaysServed, Countdown
<1> QED BY <1>3, <1>5, <1>7 DEF Walked, Ended, x, u

LEMMA AppendedSet ==
  ASSUME NEW s \in Seq(Nat), NEW i \in Nat
  PROVE  ToSet(Append(s, i)) = ToSet(s) \cup {i}
<1> DEFINE t == Append(s, i)
           n == Len(s)
<1>1. /\ n \in Nat /\ DOMAIN s = 1 .. n /\ DOMAIN t = 1 .. n + 1
      /\ t[n + 1] = i /\ \A k \in 1 .. n : t[k] = s[k]
  OBVIOUS
<1> HIDE DEF t, n
<1>2. ASSUME NEW x \in ToSet(t) PROVE x \in ToSet(s) \cup {i}
  <2>1. PICK k \in 1 .. n + 1 : x = t[k]
    BY <1>1 DEF ToSet
  <2>2. CASE k = n + 1
    BY <1>1, <2>1, <2>2
  <2>3. CASE k \in 1 .. n
    BY <1>1, <2>1, <2>3 DEF ToSet
  <2> QED BY <1>1, <2>2, <2>3
<1>3. ASSUME NEW x \in ToSet(s) PROVE x \in ToSet(t)
  <2>1. PICK k \in 1 .. n : x = s[k]
    BY <1>1 DEF ToSet
  <2>2. k \in 1 .. n + 1 /\ x = t[k]
    BY <1>1, <2>1
  <2> QED BY <1>1, <2>2 DEF ToSet
<1>4. i \in ToSet(t)
  <2>1. n + 1 \in 1 .. n + 1
    BY <1>1
  <2> QED BY <1>1, <2>1 DEF ToSet
<1> QED BY <1>2, <1>3, <1>4 DEF t

\* The step i may be passed: what is due at it is done.
Ready(w, u, i) ==
    /\ Sound(u) /\ DelaysServed(w, u)
    /\ u.walk = "on" /\ u.route.active /\ u.route.at = i /\ w.route.at <= i
    /\ u.route.delayAt = 0 /\ u.route.approach.index = 0
    /\ Targets[w.route.at].type = "ShopTas" => u.pad.leftStick = 0
    /\ u.split.origin # 0 => u.split.origin <= i /\ Neighbours(u, i + 1)
    /\ Targets[i].type = "Delay" => DueServed(w, i)

\* The step i was passed: the route goes on, or it is complete.
Passed(w, u, v, i) ==
    /\ Sound(v) /\ Related(w, v) /\ SplitOK(v)
    /\ u.pad.leftStick = 0 => v.pad.leftStick = 0
    /\ \/ /\ v.walk = "on" /\ v.route.active /\ v.route.at # 0
          /\ w.route.at < v.route.at /\ i < v.route.at
          /\ v.route.menuTas = u.route.menuTas /\ v.route.waiting = u.route.waiting
          /\ v.route.startDelay = u.route.startDelay /\ v.route.delayAt = 0
          /\ v.ghost.served = u.ghost.served
          /\ ~v.timer.moved
       \/ v.walk = "returned" /\ v.pad.leftStick = 0 /\ v.timer.moved /\ AllPerformed(v)
          /\ v.timer.running

LEMMA StepPassed ==
  ASSUME TargetsOK, NEW w \in WorldType, NEW u, NEW i \in OnMap(Targets, mapId), Ready(w, u, i)
  PROVE  Passed(w, u, AfterStep(u, i), i)
<1> DEFINE v == AfterStep(u, i)
           next == FindNextTargetForMap(i, mapId)
<1>1. u \in WorldType
  BY DEF Ready, Sound
<1>2. /\ v \in WorldType
      /\ v.actions = u.actions /\ v.helper = u.helper /\ v.skips = u.skips
      /\ v.pad.buffered = u.pad.buffered
      /\ v.ghost = [u.ghost EXCEPT !.done = Append(u.ghost.done, i)]
      /\ v.timer.running = u.timer.running /\ v.split.origin = u.split.origin
      /\ next # 0 => /\ v.route = [u.route EXCEPT !.at = next]
                    /\ v.walk = u.walk /\ v.timer = u.timer /\ v.split = u.split
                    /\ v.pad = u.pad
      /\ next = 0 => /\ ~v.route.active /\ v.route.at = 0 /\ v.route.delayAt = 0
                    /\ v.route.approach.index = 0 /\ v.route.startDelay = 0
                    /\ ~v.route.waiting
                    /\ v.timer.moved /\ ~v.split.running
                    /\ v.pad.leftStick = 0 /\ v.walk = "returned"
  BY <1>1, AfterStepWorld
<1>3. /\ i \in Nat /\ i # 0 /\ i \in DOMAIN Targets
      /\ next \in Index
      /\ next # 0 => next \in OnMap(Targets, mapId) /\ i < next
      /\ \A j \in OnMap(Targets, mapId) : i < j => next # 0 /\ next <= j
  BY OnMapIndices, NextIsNext DEF OnMap
<1>4. /\ u.route \in RouteType /\ u.ghost \in GhostType /\ u.split \in SplitType
      /\ w.route \in RouteType
  BY <1>1 DEF WorldType
<1>5. /\ u.walk = "on" /\ u.route.active /\ u.route.at = i /\ w.route.at <= i
      /\ u.route.delayAt = 0 /\ u.route.approach.index = 0
      /\ u.timer.running /\ ~u.timer.moved
      /\ u.ghost.entry <= i /\ u.ghost.done = StepsBetween(u.ghost.entry, i)
  BY <1>3 DEF Ready, Sound, OrderOK, TimerOK
<1> HIDE DEF v, next
<1>6. /\ v.ghost.entry = u.ghost.entry /\ v.ghost.leg = u.ghost.leg
      /\ v.ghost.served = u.ghost.served /\ v.ghost.unearned = u.ghost.unearned
      /\ v.ghost.adjusted = u.ghost.adjusted
      /\ v.ghost.done = Append(u.ghost.done, i)
  BY <1>2, <1>4 DEF GhostType
<1>7. PressesOK(v)
  <2>1. PressesOK(u)
    BY DEF Ready, Sound
  <2> QED BY <1>2, <1>6, <2>1, PressesCarry
<1>8. LegOK(v)
  <2>1. LegOK(u)
    BY DEF Ready, Sound
  <2> QED BY <1>6, <2>1 DEF LegOK
<1>9. DelaysServed(w, v)
  <2>1. u.ghost.done \in Seq(Nat)
    BY <1>4 DEF GhostType
  <2>2. ToSet(v.ghost.done) = ToSet(u.ghost.done) \cup {i}
    BY <1>3, <1>6, <2>1, AppendedSet
  <2>3. /\ DelaysServed(w, u)
        /\ Targets[i].type = "Delay" => DueServed(w, i)
    BY DEF Ready
  <2> QED BY <1>5, <2>2, <2>3 DEF DelaysServed
<1>10. u.ghost.entry \in Nat /\ MaxTargets \in Nat
  BY <1>4, TargetingAssumption DEF GhostType, Index
<1>11. CASE next # 0
  <2>1. /\ v.route.at = next /\ v.route.active /\ v.route.delayAt = 0
        /\ v.route.approach.index = 0 /\ v.route.menuTas = u.route.menuTas
        /\ v.route.waiting = u.route.waiting /\ v.route.startDelay = u.route.startDelay
    BY <1>2, <1>3, <1>4, <1>5, <1>11 DEF RouteType
  <2>2. next \in Nat /\ next \in OnMap(Targets, mapId) /\ i < next
    BY <1>3, <1>11, OnMapIndices
  <2>3. v.ghost.done = StepsBetween(v.ghost.entry, next)
    <3>1. \A j \in OnMap(Targets, mapId) : i < j => next <= j
      BY <1>3
    <3>2. StepsBetween(u.ghost.entry, next) = Append(StepsBetween(u.ghost.entry, i), i)
      BY <1>5, <1>10, <2>2, <3>1, OneMoreStep
    <3> QED BY <1>5, <1>6, <3>2, Zenon
  <2>4. OrderOK(v)
    BY <1>5, <1>6, <1>10, <2>1, <2>2, <2>3, <1>3 DEF OrderOK
  <2>5. DelayOK(v) /\ ApproachOK(v) /\ TimerOK(v)
    BY <1>2, <1>5, <1>11, <2>1 DEF DelayOK, ApproachOK, TimerOK
  <2>6. SplitOK(v)
    <3>1. u.split.origin # 0 => u.split.origin <= i /\ Neighbours(u, i + 1)
      BY DEF Ready
    <3>2. v.split = u.split /\ u.split.origin \in Nat
      BY <1>2, <1>4, <1>11 DEF SplitType, Index
    <3>3. ASSUME u.split.origin # 0 PROVE u.split.origin < next /\ Neighbours(v, next)
      <4>1. ASSUME v.split.running, v.ghost.entry <= v.split.origin,
                   NEW j \in OnMap(Targets, mapId), v.split.origin < j, j < next
            PROVE  ~IsMovementTarget(Targets[j])
        <5>1. j \in Nat /\ j < i + 1
          BY <1>3, <4>1, OnMapIndices
        <5> QED BY <1>6, <3>1, <3>2, <3>3, <4>1, <5>1 DEF Neighbours
      <4> QED BY <1>3, <2>2, <3>1, <3>2, <3>3, <4>1 DEF Neighbours
    <3> QED BY <2>1, <3>2, <3>3 DEF SplitOK
  <2>7. Related(w, v)
    BY <1>2, <1>9, <1>11, <2>1 DEF Related, Countdown, Ready
  <2>8. Sound(v) /\ Related(w, v) /\ SplitOK(v)
    BY <1>2, <1>7, <1>8, <2>4, <2>5, <2>6, <2>7 DEF Sound
  <2>9. u.pad.leftStick = 0 => v.pad.leftStick = 0
    BY <1>2, <1>11
  <2>10. v.walk = "on" /\ v.ghost.served = u.ghost.served /\ ~v.timer.moved
    BY <1>2, <1>5, <1>6, <1>11
  <2>11. v.route.at # 0 /\ w.route.at < v.route.at /\ i < v.route.at
    BY <1>3, <1>4, <1>5, <2>1, <2>2 DEF RouteType, Index
  <2> QED
    BY <2>1, <2>8, <2>9, <2>10, <2>11 DEF Passed, v
<1>12. CASE next = 0
  <2>1. OrderOK(v) /\ DelayOK(v) /\ ApproachOK(v) /\ SplitOK(v)
    BY <1>2, <1>12 DEF OrderOK, DelayOK, ApproachOK, SplitOK
  <2>2. v.ghost.done = StepsBetween(v.ghost.entry, MaxTargets + 1)
    <3>1. \A j \in OnMap(Targets, mapId) : i < j => MaxTargets + 1 <= j
      BY <1>3, <1>12
    <3>2. i < MaxTargets + 1 /\ MaxTargets + 1 \in Nat
      BY <1>3, <1>10, OnMapIndices DEF Index
    <3>3. StepsBetween(u.ghost.entry, MaxTargets + 1) = Append(StepsBetween(u.ghost.entry, i), i)
      BY <1>5, <1>10, <3>1, <3>2, OneMoreStep
    <3> QED BY <1>5, <1>6, <3>3, Zenon
  <2>3. Related(w, v)
    BY <1>2, <1>9, <1>12 DEF Related, Countdown
  <2>4. AllPerformed(v) /\ TimerOK(v)
    BY <1>2, <1>12, <2>2 DEF AllPerformed, TimerOK
  <2> QED
    BY <1>2, <1>5, <1>7, <1>8, <1>12, <2>1, <2>3, <2>4 DEF Passed, Sound, v
<1> QED BY <1>11, <1>12

\* The loop is at the step i, in v.
AtStep(w, v, i) ==
    /\ w \in WorldType /\ DelayOK(w)
    /\ Sound(v) /\ Related(w, v) /\ Underway(w, v) /\ v.walk = "on" /\ v.route.at = i

LEMMA AtStepFacts ==
  ASSUME TargetsOK, NEW w, NEW v, NEW i, AtStep(w, v, i)
  PROVE  /\ i \in OnMap(Targets, mapId) /\ i \in DOMAIN Targets /\ i \in Nat \ {0}
         /\ w.route.at <= i /\ v.route.active /\ v.timer.running /\ ~v.timer.moved
         /\ v.route \in RouteType /\ v.pad \in PadType /\ v.ghost \in GhostType
         /\ v.timer \in TimerType /\ v.split \in SplitType
         /\ Targets[i].type # "Delay" => v.route.delayAt = 0
         /\ ~IsMovementTarget(Targets[i]) => v.route.approach.index = 0
         /\ Targets[i].type # "ShopTas" /\ Targets[w.route.at].type = "ShopTas"
               => v.pad.leftStick = 0
<1>1. /\ v \in WorldType /\ OrderOK(v) /\ DelayOK(v) /\ ApproachOK(v) /\ TimerOK(v)
      /\ v.route.at = i /\ v.route.active /\ i # 0 /\ Related(w, v)
      /\ v.route.at = w.route.at \/ w.route.at < i
  BY DEF AtStep, Sound, Underway, SameStand
<1>2. i \in OnMap(Targets, mapId) /\ i \in DOMAIN Targets /\ i \in Nat \ {0}
  BY <1>1, OnMapIndices DEF OrderOK, OnMap
<1>3. w.route.at \in Nat
  BY DEF AtStep, WorldType, RouteType, Index
<1>4. w.route.at <= i
  BY <1>1, <1>2, <1>3
<1>5. /\ v.route \in RouteType /\ v.pad \in PadType /\ v.ghost \in GhostType
      /\ v.timer \in TimerType /\ v.split \in SplitType
  BY <1>1 DEF WorldType
<1> QED BY <1>1, <1>2, <1>4, <1>5 DEF DelayOK, ApproachOK, TimerOK, Related

\* Passing a step that no split ends at.
LEMMA SplitPasses ==
  ASSUME TargetsOK, NEW w, NEW v, NEW i, AtStep(w, v, i), ~IsMovementTarget(Targets[i])
  PROVE  v.split.origin # 0 => v.split.origin <= i /\ Neighbours(v, i + 1)
<1> SUFFICES ASSUME v.split.origin # 0 PROVE v.split.origin <= i /\ Neighbours(v, i + 1)
  OBVIOUS
<1>1. v.split.origin < i /\ Neighbours(v, i) /\ i \in Nat /\ v.split.origin \in Nat
  BY AtStepFacts DEF AtStep, Underway, SplitOK, SplitType, Index
<1>2. ASSUME v.split.running, v.ghost.entry <= v.split.origin,
             NEW j \in OnMap(Targets, mapId), v.split.origin < j, j < i + 1
      PROVE  ~IsMovementTarget(Targets[j])
  <2>1. j \in Nat /\ (j = i \/ j < i)
    BY <1>1, <1>2, OnMapIndices
  <2> QED BY <1>1, <1>2, <2>1 DEF Neighbours
<1> QED BY <1>1, <1>2 DEF Neighbours

\* A step the loop does not visit stops it.
LEMMA WalkStops ==
  ASSUME TargetsOK, NEW w, NEW v, NEW i, AtStep(w, v, i), NEW kinds, Stopped(v, kinds)
  PROVE  Walked(w, [v EXCEPT !.walk = "stopped"], kinds, i)
<1> DEFINE x == [v EXCEPT !.walk = "stopped"]
<1>1. x \in WorldType /\ x.walk = "stopped" /\ SameBut(x, v, {"walk"})
  BY DEF AtStep, Sound, WorldType, WalkType, SameBut, Fields
<1> HIDE DEF x
<1>2. /\ x.route = v.route /\ x.actions = v.actions /\ x.timer = v.timer /\ x.split = v.split
      /\ x.pad = v.pad /\ x.helper = v.helper /\ x.ghost = v.ghost
  BY <1>1 DEF SameBut, Fields
<1>3. PressesOK(x)
  BY <1>2, PressesCarry DEF AtStep, Sound
<1>4. Sound(x)
  BY <1>1, <1>2, <1>3, AtStepFacts
  DEF AtStep, Sound, OrderOK, DelayOK, ApproachOK, TimerOK, LegOK
<1>5. Related(w, x)
  BY <1>2 DEF AtStep, Related, DelaysServed, Countdown
<1>6. Underway(w, x)
  BY <1>2 DEF AtStep, Underway, SameStand, SplitOK, Neighbours
<1>7. Stopped(x, kinds)
  BY <1>2 DEF Stopped, Reached, Delta
<1> QED BY <1>1, <1>4, <1>5, <1>6, <1>7 DEF Walked, x

\* At a step that has to wait the leader stands still.
LEMMA WalkWaits ==
  ASSUME TargetsOK, NEW w, NEW v, NEW i, AtStep(w, v, i), NEW kinds
  PROVE  Walked(w, Return(StandStill(v)), kinds, i)
<1> DEFINE u == StandStill(v)
           x == Return(u)
<1>1. /\ u \in WorldType
      /\ u.route = [v.route EXCEPT !.approach = NoApproach]
      /\ u.pad = [v.pad EXCEPT !.leftStick = 0]
      /\ SameBut(u, v, {"route", "pad"})
  BY StandStillWorld DEF AtStep, Sound
<1> HIDE DEF u
<1>2. x \in WorldType /\ x.walk = "returned" /\ SameBut(x, u, {"walk"})
  BY <1>1, ReturnWorld
<1> HIDE DEF x
<1>3. /\ x.route = [v.route EXCEPT !.approach = NoApproach]
      /\ x.pad = [v.pad EXCEPT !.leftStick = 0]
      /\ x.actions = v.actions /\ x.timer = v.timer /\ x.split = v.split
      /\ x.helper = v.helper /\ x.ghost = v.ghost
  BY <1>1, <1>2 DEF SameBut, Fields
<1>4. v.route \in RouteType /\ v.pad \in PadType /\ v.route.active /\ ~v.timer.moved
  BY AtStepFacts
<1>5. /\ x.route.active = v.route.active /\ x.route.at = v.route.at
      /\ x.route.delayAt = v.route.delayAt /\ x.route.delayLeft = v.route.delayLeft
      /\ x.route.approach.index = 0
      /\ x.pad.leftStick = 0 /\ x.pad.buffered = v.pad.buffered
  BY <1>3, <1>4, StoppedRouteType DEF RouteType, PadType
<1>6. PressesOK(x)
  BY <1>3, <1>5, PressesCarry DEF AtStep, Sound
<1>7. Sound(x)
  BY <1>2, <1>3, <1>4, <1>5, <1>6
  DEF AtStep, Sound, OrderOK, DelayOK, ApproachOK, TimerOK, LegOK
<1>8. Related(w, x)
  BY <1>3, <1>5 DEF AtStep, Related, DelaysServed, Countdown
<1>9. SplitOK(x)
  BY <1>3, <1>5 DEF AtStep, Underway, SplitOK, Neighbours
<1> QED BY <1>2, <1>3, <1>4, <1>5, <1>7, <1>8, <1>9 DEF Walked, Ended, x, u

----
(* Each kind of step.                                                           *)

\* What a step changes before it is passed leaves the route where it is.
SameStep(u, v) ==
    /\ u.walk = v.walk /\ u.timer = v.timer
    /\ u.route.active = v.route.active /\ u.route.at = v.route.at
    /\ u.route.waiting = v.route.waiting /\ u.route.startDelay = v.route.startDelay
    /\ u.ghost.entry = v.ghost.entry /\ u.ghost.done = v.ghost.done
    /\ u.ghost.served = v.ghost.served

LEMMA StepIsReady ==
  ASSUME TargetsOK, NEW w, NEW v, NEW i, AtStep(w, v, i), NEW u \in WorldType,
         SameStep(u, v), PressesOK(u), LegOK(u), u.route.delayAt = 0, u.route.approach.index = 0,
         Targets[w.route.at].type = "ShopTas" => u.pad.leftStick = 0,
         u.split.origin # 0 => u.split.origin <= i /\ Neighbours(u, i + 1),
         Targets[i].type = "Delay" => DueServed(w, i)
  PROVE  Ready(w, u, i)
<1>1. Sound(v) /\ DelaysServed(w, v) /\ v.walk = "on" /\ v.route.at = i
  BY DEF AtStep, Related
<1>2. w.route.at <= i /\ v.route.active
  BY AtStepFacts
<1>3. OrderOK(u) /\ TimerOK(u) /\ DelaysServed(w, u)
  BY <1>1, <1>2 DEF SameStep, Sound, OrderOK, TimerOK, DelaysServed
<1>4. DelayOK(u) /\ ApproachOK(u)
  BY DEF DelayOK, ApproachOK
<1> QED BY <1>1, <1>2, <1>3, <1>4 DEF Ready, Sound, SameStep

LEMMA PassedWalks ==
  ASSUME TargetsOK, NEW w, NEW v, NEW i, AtStep(w, v, i), NEW u, SameStep(u, v),
         Ready(w, u, i), u.route.menuTas = v.route.menuTas, NEW kinds
  PROVE  Walked(w, AfterStep(u, i), kinds, i)
<1> DEFINE x == AfterStep(u, i)
<1>1. w \in WorldType /\ i \in OnMap(Targets, mapId) /\ Underway(w, v)
  BY AtStepFacts DEF AtStep
<1>2. Passed(w, u, x, i)
  BY <1>1, StepPassed
<1> HIDE DEF x
<1>3. Sound(x) /\ Related(w, x) /\ SplitOK(x)
  BY <1>2 DEF Passed
<1>4. ASSUME x.walk = "on" PROVE Underway(w, x) /\ i < x.route.at
  BY <1>1, <1>2, <1>3, <1>4 DEF Passed, Underway, SameStep
<1>5. x.walk # "stopped"
  BY <1>2 DEF Passed
<1>6. ASSUME x.walk = "returned" PROVE x.pad.leftStick = 0 /\ Ended(x)
  BY <1>2, <1>6 DEF Passed, Ended
<1>7. Walked(w, x, kinds, i)
  BY <1>3, <1>4, <1>5, <1>6 DEF Walked
<1> QED BY <1>7 DEF x

\* Actions, toggles.
LEMMA ActionWalks ==
  ASSUME TargetsOK, NEW w, NEW v, NEW i, AtStep(w, v, i), NEW kinds, Targets[i].type = "Action"
  PROVE  Walked(w, AfterStep(QueueAction(v, i), i), kinds, i)
<1> DEFINE a == [index |-> i, delayLeft |-> Targets[i].frames,
                 holdLeft |-> AtLeast(1, Targets[i].hold), started |-> FALSE,
                 requested |-> FALSE, accepted |-> FALSE, owed |-> {}]
           q == Append(v.actions, a)
           u == [v EXCEPT !.actions = q]
<1>1. /\ i \in DOMAIN Targets /\ i \in Nat /\ v \in WorldType /\ PressesOK(v) /\ LegOK(v)
      /\ v.route.delayAt = 0 /\ v.route.approach.index = 0
      /\ Targets[w.route.at].type = "ShopTas" => v.pad.leftStick = 0
  BY AtStepFacts DEF AtStep, Sound, IsMovementTarget, IsMenuTasStep, MenuTasTypes
<1>2. /\ a \in ActiveAction /\ a.index = i /\ a.owed = {} /\ a.holdLeft > 0
      /\ a.owed \subseteq v.pad.buffered /\ a.owed \subseteq Targets[i].buttons
  BY <1>1, TargetTyped DEF ActiveAction, AtLeast
<1>3. QueueAction(v, i) = u
  BY DEF QueueAction
<1> HIDE DEF a
<1>4. /\ v.actions \in Seq(ActiveAction) /\ q \in Seq(ActiveAction)
      /\ DOMAIN q = 1 .. Len(v.actions) + 1 /\ DOMAIN v.actions = 1 .. Len(v.actions)
      /\ Len(v.actions) \in Nat
      /\ q[Len(v.actions) + 1] = a /\ \A k \in 1 .. Len(v.actions) : q[k] = v.actions[k]
  BY <1>1, <1>2 DEF WorldType
<1> HIDE DEF q
<1>5. u \in WorldType /\ u.actions = q /\ SameBut(u, v, {"actions"})
  BY <1>1, <1>4 DEF WorldType, SameBut, Fields
<1> HIDE DEF u
<1>6. /\ u.route = v.route /\ u.timer = v.timer /\ u.split = v.split /\ u.pad = v.pad
      /\ u.ghost = v.ghost /\ u.walk = v.walk
  BY <1>5 DEF SameBut, Fields
<1>7. PressesOK(u)
  <2>1. ASSUME NEW k \in DOMAIN q
        PROVE  /\ OwesItsOwn(q[k]) /\ q[k].owed \subseteq v.pad.buffered
               /\ ~v.ghost.adjusted => AsAsked(q[k])
    <3>1. CASE k = Len(v.actions) + 1
      BY <1>1, <1>2, <1>4, <3>1 DEF OwesItsOwn, AsAsked
    <3>2. CASE k \in DOMAIN v.actions
      BY <1>1, <1>4, <3>2 DEF PressesOK
    <3> QED BY <1>4, <3>1, <3>2
  <2>2. UNION {q[k].owed : k \in DOMAIN q} = UNION {v.actions[k].owed : k \in DOMAIN v.actions}
    <3>1. ASSUME NEW b, NEW k \in DOMAIN q, b \in q[k].owed
          PROVE  \E n \in DOMAIN v.actions : b \in v.actions[n].owed
      <4>1. k # Len(v.actions) + 1
        BY <1>2, <1>4, <3>1
      <4>2. k \in DOMAIN v.actions /\ q[k] = v.actions[k]
        BY <1>4, <4>1
      <4> QED BY <3>1, <4>2
    <3>2. ASSUME NEW b, NEW k \in DOMAIN v.actions, b \in v.actions[k].owed
          PROVE  \E n \in DOMAIN q : b \in q[n].owed
      <4>1. k \in DOMAIN q /\ q[k] = v.actions[k]
        BY <1>4
      <4> QED BY <3>2, <4>1
    <3> QED BY <3>1, <3>2
  <2>3. /\ ~v.ghost.adjusted =>
              v.pad.buffered = UNION {v.actions[k].owed : k \in DOMAIN v.actions}
        /\ ~v.ghost.unearned
    BY <1>1 DEF PressesOK
  <2>4. /\ ~u.ghost.adjusted => u.pad.buffered = UNION {q[k].owed : k \in DOMAIN q}
        /\ ~u.ghost.unearned
    BY <1>6, <2>2, <2>3
  <2>5. q # <<>>
    BY <1>4
  <2>6. u.pad = v.pad /\ u.ghost = v.ghost /\ u.actions = q
    BY <1>5, <1>6
  <2> QED BY <2>1, <2>4, <2>5, <2>6, Zenon DEF PressesOK
<1>8. u.split.origin # 0 => u.split.origin <= i /\ Neighbours(u, i + 1)
  <2>1. ~IsMovementTarget(Targets[i])
    BY DEF IsMovementTarget, IsMenuTasStep, MenuTasTypes
  <2> QED BY <1>6, <2>1, SplitPasses DEF Neighbours
<1>9. SameStep(u, v) /\ LegOK(u)
  BY <1>1, <1>6 DEF SameStep, LegOK
<1>10. Ready(w, u, i)
  BY <1>1, <1>5, <1>6, <1>7, <1>8, <1>9, StepIsReady
<1>11. u.route.menuTas = v.route.menuTas
  BY <1>6
<1> QED BY <1>3, <1>9, <1>10, <1>11, PassedWalks

LEMMA ToggleWalks ==
  ASSUME TargetsOK, NEW w, NEW v, NEW i, AtStep(w, v, i), NEW kinds, Targets[i].type = "Toggle"
  PROVE  Walked(w, ConsumeToggle(v, i), kinds, i)
<1> DEFINE u == [v EXCEPT !.skips = Targets[i].enabled]
<1>1. /\ i \in DOMAIN Targets /\ v \in WorldType /\ PressesOK(v) /\ LegOK(v)
      /\ v.route.delayAt = 0 /\ v.route.approach.index = 0
      /\ Targets[w.route.at].type = "ShopTas" => v.pad.leftStick = 0
  BY AtStepFacts DEF AtStep, Sound, IsMovementTarget, IsMenuTasStep, MenuTasTypes
<1>2. u \in WorldType /\ SameBut(u, v, {"skips"})
  BY <1>1, TargetTyped DEF WorldType, SameBut, Fields
<1>3. ConsumeToggle(v, i) = AfterStep(u, i)
  BY DEF ConsumeToggle
<1> HIDE DEF u
<1>4. /\ u.route = v.route /\ u.timer = v.timer /\ u.split = v.split /\ u.pad = v.pad
      /\ u.ghost = v.ghost /\ u.walk = v.walk /\ u.actions = v.actions
  BY <1>2 DEF SameBut, Fields
<1>5. u.split.origin # 0 => u.split.origin <= i /\ Neighbours(u, i + 1)
  <2>1. ~IsMovementTarget(Targets[i])
    BY DEF IsMovementTarget, IsMenuTasStep, MenuTasTypes
  <2> QED BY <1>4, <2>1, SplitPasses DEF Neighbours
<1>6. SameStep(u, v) /\ LegOK(u)
  BY <1>1, <1>4 DEF SameStep, LegOK
<1>7. PressesOK(u)
  BY <1>1, <1>4, PressesCarry
<1>8. Ready(w, u, i)
  BY <1>1, <1>2, <1>4, <1>5, <1>6, <1>7, StepIsReady
<1>9. u.route.menuTas = v.route.menuTas
  BY <1>4
<1> QED BY <1>3, <1>6, <1>8, <1>9, PassedWalks

\* A Delay holds the route until its frames are over.
LEMMA DelayWalks ==
  ASSUME TargetsOK, NEW w, NEW v, NEW i, AtStep(w, v, i), NEW kinds, Targets[i].type = "Delay"
  PROVE  Walked(w, ConsumeDelay(v, i), kinds, i)
<1> DEFINE frames == Targets[i].frames
           begun == [[v.route EXCEPT !.delayAt = i] EXCEPT !.delayLeft = frames]
           noted == [v.ghost EXCEPT !.due = frames]
           entered == IF v.route.delayAt = i THEN v
                      ELSE [[v EXCEPT !.route = begun] EXCEPT !.ghost = noted]
           still == StandStill(entered)
           left == IF v.route.delayAt = i THEN v.route.delayLeft ELSE frames
<1>1. /\ i \in DOMAIN Targets /\ i \in Nat \ {0} /\ i \in Index
      /\ v \in WorldType /\ v.route \in RouteType
      /\ PressesOK(v) /\ LegOK(v) /\ OrderOK(v) /\ TimerOK(v)
      /\ v.route.active /\ v.route.at = i /\ ~v.timer.moved
      /\ v.pad \in PadType
  BY AtStepFacts DEF AtStep, Sound, RouteType
<1>2. frames \in Nat
  BY <1>1, TargetTyped
<1>3. begun \in RouteType /\ begun.delayAt = i /\ begun.delayLeft = frames
      /\ begun.active = v.route.active /\ begun.at = v.route.at
      /\ begun.waiting = v.route.waiting /\ begun.startDelay = v.route.startDelay
      /\ begun.menuTas = v.route.menuTas
  BY <1>1, <1>2 DEF RouteType
<1>3a. /\ noted \in GhostType /\ noted.due = frames
       /\ noted.entry = v.ghost.entry /\ noted.done = v.ghost.done
       /\ noted.served = v.ghost.served /\ noted.leg = v.ghost.leg
       /\ noted.adjusted = v.ghost.adjusted /\ noted.unearned = v.ghost.unearned
  <2>1. v.ghost \in GhostType
    BY <1>1 DEF WorldType
  <2> QED BY <1>2, <2>1 DEF GhostType
<1>4. /\ v.route.delayAt \in Nat /\ v.route.delayLeft \in Nat /\ left \in Nat
  BY <1>1, <1>2 DEF RouteType, Index
<1>5. ConsumeDelay(v, i)
        = IF still.route.delayLeft > 0
          THEN Return([still EXCEPT !.route.delayLeft = still.route.delayLeft - 1])
          ELSE AfterStep([still EXCEPT !.route.delayAt = 0], i)
  <2>1. entered = IF v.route.delayAt = i THEN v
                  ELSE [v EXCEPT !.route.delayAt = i, !.route.delayLeft = frames,
                                 !.ghost.due = frames]
    BY <1>1 DEF WorldType, RouteType, GhostType
  <2> QED BY <2>1 DEF ConsumeDelay
<1> HIDE DEF begun, noted
<1>6. /\ entered \in WorldType
      /\ entered.route.active /\ entered.route.at = i
      /\ entered.route.delayAt = i /\ entered.route.delayLeft = left
      /\ entered.route.waiting = v.route.waiting
      /\ entered.route.startDelay = v.route.startDelay
      /\ entered.route.menuTas = v.route.menuTas
      /\ entered.ghost = IF v.route.delayAt = i THEN v.ghost ELSE noted
      /\ SameBut(entered, v, {"route", "ghost"})
  <2>1. CASE v.route.delayAt = i
    BY <1>1, <2>1 DEF SameBut
  <2>2. CASE v.route.delayAt # i
    BY <1>1, <1>3, <1>3a, <2>2 DEF WorldType, SameBut, Fields
  <2> QED BY <2>1, <2>2
<1> HIDE DEF entered, left
<1>7. /\ still \in WorldType
      /\ still.route = [entered.route EXCEPT !.approach = NoApproach]
      /\ still.pad = [entered.pad EXCEPT !.leftStick = 0]
      /\ SameBut(still, entered, {"route", "pad"})
  BY <1>6, StandStillWorld
<1> HIDE DEF still
<1>8. entered.route \in RouteType /\ entered.pad \in PadType /\ still.route \in RouteType
  BY <1>6, <1>7 DEF WorldType
<1>9. /\ still.route.active /\ still.route.at = i
      /\ still.route.delayAt = i /\ still.route.delayLeft = left
      /\ still.route.approach.index = 0
      /\ still.route.waiting = v.route.waiting
      /\ still.route.startDelay = v.route.startDelay
      /\ still.route.menuTas = v.route.menuTas
      /\ still.pad.leftStick = 0 /\ still.pad.buffered = v.pad.buffered
      /\ still.actions = v.actions /\ still.timer = v.timer /\ still.split = v.split
      /\ still.helper = v.helper /\ still.walk = v.walk
      /\ still.ghost = IF v.route.delayAt = i THEN v.ghost ELSE noted
  BY <1>6, <1>7, <1>8, StoppedRouteType DEF RouteType, PadType, SameBut, Fields
<1>9a. /\ still.ghost.entry = v.ghost.entry /\ still.ghost.done = v.ghost.done
       /\ still.ghost.served = v.ghost.served /\ still.ghost.leg = v.ghost.leg
       /\ still.ghost.adjusted = v.ghost.adjusted /\ still.ghost.unearned = v.ghost.unearned
       /\ IF v.route.delayAt = i THEN still.ghost.due = v.ghost.due
                                 ELSE still.ghost.due = frames
  BY <1>9, <1>3a
<1>10. v.route.delayAt = i => w.route.delayAt = i /\ w.route.delayLeft = left
  BY <1>1, <1>4 DEF AtStep, Underway, SameStand, left
<1>11. v.route.delayAt # i => w.route.delayAt # i /\ left = frames
  BY <1>1, <1>4 DEF AtStep, Underway, SameStand, left, DelayOK
<1>12. DelaysServed(w, v) /\ v.ghost.served = w.ghost.served /\ SplitOK(v)
  BY DEF AtStep, Related, Underway
<1>12a. v.route.delayAt = i => v.ghost.due = w.ghost.due
  BY <1>1, <1>10 DEF AtStep, Related, Countdown
<1>13. CASE left > 0
  <2> DEFINE r == [still.route EXCEPT !.delayLeft = left - 1]
             u == [still EXCEPT !.route = r]
             x == Return(u)
  <2>1. ConsumeDelay(v, i) = x
    BY <1>5, <1>7, <1>9, <1>13 DEF WorldType, RouteType
  <2>2. /\ r \in RouteType /\ r.active /\ r.at = i /\ r.delayAt = i /\ r.delayLeft = left - 1
        /\ r.approach.index = 0
    BY <1>4, <1>8, <1>9, <1>13 DEF RouteType
  <2> HIDE DEF r
  <2>3. u \in WorldType /\ u.route = r /\ SameBut(u, still, {"route"})
    BY <1>7, <2>2 DEF WorldType, SameBut, Fields
  <2> HIDE DEF u
  <2>4. x \in WorldType /\ x.walk = "returned" /\ SameBut(x, u, {"walk"})
    BY <2>3, ReturnWorld
  <2> HIDE DEF x
  <2>5. /\ x.route = r /\ x.pad.leftStick = 0 /\ x.pad.buffered = v.pad.buffered
        /\ x.actions = v.actions /\ x.timer = v.timer /\ x.split = v.split
        /\ x.helper = v.helper /\ x.ghost = still.ghost
    BY <1>9, <2>3, <2>4 DEF SameBut, Fields
  <2>6. PressesOK(x)
    BY <1>1, <1>9a, <2>5, PressesCarry
  <2>7. Sound(x)
    BY <1>1, <1>9a, <2>2, <2>4, <2>5, <2>6
    DEF Sound, OrderOK, DelayOK, ApproachOK, TimerOK, LegOK
  <2>8. DelaysServed(w, x)
    BY <1>12, <1>9a, <2>5 DEF DelaysServed
  <2>9. Countdown(w, x)
    <3>1. r.delayLeft + 1 = left /\ w.route.at <= i
      BY <1>4, <2>2, AtStepFacts
    <3>2. CASE v.route.delayAt = i
      BY <1>10, <1>12, <1>9a, <1>12a, <2>2, <2>5, <3>1, <3>2 DEF Countdown
    <3>3. CASE v.route.delayAt # i
      BY <1>11, <1>12, <1>9a, <2>2, <2>5, <3>1, <3>3 DEF Countdown
    <3> QED BY <3>2, <3>3
  <2>10. Related(w, x)
    BY <2>2, <2>5, <2>8, <2>9 DEF Related
  <2>11. SplitOK(x)
    BY <1>1, <1>12, <1>9a, <2>2, <2>5 DEF SplitOK, Neighbours
  <2> QED BY <1>1, <2>1, <2>4, <2>5, <2>7, <2>10, <2>11 DEF Walked, Ended
<1>14. CASE left = 0
  <2> DEFINE r == [still.route EXCEPT !.delayAt = 0]
             u == [still EXCEPT !.route = r]
  <2>1. ConsumeDelay(v, i) = AfterStep(u, i)
    BY <1>5, <1>7, <1>9, <1>14 DEF WorldType, RouteType
  <2>2. /\ r \in RouteType /\ r.active = v.route.active /\ r.at = v.route.at
        /\ r.delayAt = 0 /\ r.approach.index = 0
        /\ r.waiting = v.route.waiting /\ r.startDelay = v.route.startDelay
        /\ r.menuTas = v.route.menuTas
    BY <1>1, <1>8, <1>9, TargetingAssumption DEF RouteType, Index
  <2> HIDE DEF r
  <2>3. u \in WorldType /\ u.route = r /\ SameBut(u, still, {"route"})
    BY <1>7, <2>2 DEF WorldType, SameBut, Fields
  <2> HIDE DEF u
  <2>4. /\ u.pad.leftStick = 0 /\ u.pad.buffered = v.pad.buffered
        /\ u.actions = v.actions /\ u.timer = v.timer /\ u.split = v.split
        /\ u.helper = v.helper /\ u.ghost = still.ghost /\ u.walk = v.walk
    BY <1>9, <2>3 DEF SameBut, Fields
  <2>5. PressesOK(u)
    BY <1>1, <1>9a, <2>4, PressesCarry
  <2>6. SameStep(u, v) /\ LegOK(u)
    BY <1>1, <1>9a, <2>2, <2>3, <2>4 DEF SameStep, LegOK
  <2>7. u.split.origin # 0 => u.split.origin <= i /\ Neighbours(u, i + 1)
    <3>1. ~IsMovementTarget(Targets[i])
      BY DEF IsMovementTarget, IsMenuTasStep, MenuTasTypes
    <3> QED BY <1>9a, <2>4, <3>1, SplitPasses DEF Neighbours
  <2>8. DueServed(w, i)
    BY <1>10, <1>11, <1>14 DEF DueServed
  <2>9. Ready(w, u, i)
    BY <2>2, <2>3, <2>4, <2>5, <2>6, <2>7, <2>8, StepIsReady
  <2> QED BY <2>1, <2>2, <2>3, <2>6, <2>9, PassedWalks
<1> QED BY <1>4, <1>13, <1>14

\* Arming the Menu Tool's replay.
LEMMA ArmedWorld ==
  ASSUME NEW x \in WorldType, NEW i, Targets[i].type \in {"ShopTas"} \cup MenuTasTypes,
         NEW outcome \in Outcomes
  PROVE  /\ ArmPlayback(x, i, outcome) \in WorldType
         /\ SameBut(ArmPlayback(x, i, outcome), x, {"helper"})
<1> DEFINE kind == KindOf(Targets[i].type)
           h == [kind |-> kind, state |-> IF outcome = "armed" THEN "ArmedPlayback" ELSE "Playing"]
<1>1. kind \in {"Shop", "Menu", "Travel"}
  BY DEF KindOf, MenuTasTypes
<1> HIDE DEF kind
<1>2. h \in HelperStates
  BY <1>1 DEF HelperStates
<1>3. ArmPlayback(x, i, outcome) = IF outcome = "missing" THEN x ELSE [x EXCEPT !.helper = h]
  BY DEF ArmPlayback, kind
<1> HIDE DEF h
<1> QED BY <1>2, <1>3 DEF WorldType, SameBut, Fields

LEMMA ArmedWalks ==
  ASSUME TargetsOK, NEW w, NEW v, NEW i, AtStep(w, v, i), NEW kinds, NEW outcome \in Outcomes,
         Targets[i].type \in {"ShopTas"} \cup MenuTasTypes, ~IsMovementTarget(Targets[i])
  PROVE  Walked(w, AfterStep(ArmPlayback(StandStill(v), i, outcome), i), kinds, i)
<1> DEFINE still == StandStill(v)
           u == ArmPlayback(still, i, outcome)
<1>1. /\ v \in WorldType /\ PressesOK(v) /\ LegOK(v) /\ v.route \in RouteType
      /\ v.route.delayAt = 0 /\ v.route.active /\ v.route.at = i /\ v.pad \in PadType
  BY AtStepFacts DEF AtStep, Sound, MenuTasTypes
<1>2. /\ still \in WorldType
      /\ still.route = [v.route EXCEPT !.approach = NoApproach]
      /\ still.pad = [v.pad EXCEPT !.leftStick = 0]
      /\ SameBut(still, v, {"route", "pad"})
  BY <1>1, StandStillWorld
<1> HIDE DEF still
<1>3. u \in WorldType /\ SameBut(u, still, {"helper"})
  BY <1>2, ArmedWorld
<1> HIDE DEF u
<1>4. /\ u.route = [v.route EXCEPT !.approach = NoApproach]
      /\ u.pad = [v.pad EXCEPT !.leftStick = 0]
      /\ u.actions = v.actions /\ u.timer = v.timer /\ u.split = v.split
      /\ u.ghost = v.ghost /\ u.walk = v.walk
  BY <1>2, <1>3 DEF SameBut, Fields
<1>5. /\ u.route.active = v.route.active /\ u.route.at = v.route.at
      /\ u.route.waiting = v.route.waiting /\ u.route.startDelay = v.route.startDelay
      /\ u.route.menuTas = v.route.menuTas /\ u.route.delayAt = 0
      /\ u.route.approach.index = 0
      /\ u.pad.leftStick = 0 /\ u.pad.buffered = v.pad.buffered
  BY <1>1, <1>4, StoppedRouteType DEF RouteType, PadType
<1>6. PressesOK(u)
  BY <1>1, <1>4, <1>5, PressesCarry
<1>7. SameStep(u, v) /\ LegOK(u)
  BY <1>1, <1>4, <1>5 DEF SameStep, LegOK
<1>8. u.split.origin # 0 => u.split.origin <= i /\ Neighbours(u, i + 1)
  BY <1>4, SplitPasses DEF Neighbours
<1>9. Targets[i].type # "Delay"
  BY DEF MenuTasTypes
<1>10. Ready(w, u, i)
  BY <1>3, <1>5, <1>6, <1>7, <1>8, <1>9, StepIsReady
<1>11. Walked(w, AfterStep(u, i), kinds, i)
  BY <1>5, <1>7, <1>10, PassedWalks
<1> QED BY <1>11 DEF u, still

LEMMA ShopTasWalks ==
  ASSUME TargetsOK, NEW w, NEW v, NEW i, AtStep(w, v, i), NEW kinds, NEW outcome \in Outcomes,
         Targets[i].type = "ShopTas"
  PROVE  Walked(w, ConsumeShopTas(v, i, outcome), kinds, i)
<1>1. ~IsMovementTarget(Targets[i])
  BY DEF IsMovementTarget, IsMenuTasStep, MenuTasTypes
<1>2. CASE PlaybackPending(v)
  BY <1>2, WalkWaits DEF ConsumeShopTas
<1>3. CASE ~PlaybackPending(v)
  BY <1>1, <1>3, ArmedWalks DEF ConsumeShopTas
<1> QED BY <1>2, <1>3

LEMMA IntermediateWalks ==
  ASSUME TargetsOK, NEW w, NEW v, NEW i, AtStep(w, v, i), NEW kinds, NEW outcome \in Outcomes,
         IsMenuTasStep(Targets[i]), Targets[i].intermediate
  PROVE  Walked(w, ConsumeIntermediateMenuTas(v, i, outcome), kinds, i)
<1>1. ~IsMovementTarget(Targets[i]) /\ Targets[i].type \in MenuTasTypes
  BY DEF IsMovementTarget, IsMenuTasStep, MenuTasTypes
<1>2. CASE PlaybackPending(v)
  BY <1>2, WalkWaits DEF ConsumeIntermediateMenuTas
<1>3. CASE ~PlaybackPending(v) /\ outcome = "armed"
  BY <1>1, <1>3, ArmedWalks DEF ConsumeIntermediateMenuTas
<1>4. CASE ~PlaybackPending(v) /\ outcome # "armed"
  <2>1. v \in WorldType /\ w \in WorldType /\ Sound(v)
    BY DEF AtStep, Sound
  <2> QED BY <1>4, <2>1, StopWalked DEF ConsumeIntermediateMenuTas
<1> QED BY <1>2, <1>3, <1>4

\* The split ends at the movement target i, and the next begins there.
LEMMA SplitTaken ==
  ASSUME TargetsOK, NEW x \in WorldType, NEW i \in OnMap(Targets, mapId), x.route.active,
         x.route.at = i, SplitOK(x), LegOK(x), IsMovementTarget(Targets[i])
  PROVE  LET v == CompleteTargetSplit(x, i)
         IN  /\ v \in WorldType /\ SameBut(v, x, {"split", "ghost"})
             /\ v.ghost.entry = x.ghost.entry /\ v.ghost.done = x.ghost.done
             /\ v.ghost.served = x.ghost.served /\ v.ghost.adjusted = x.ghost.adjusted
             /\ v.ghost.unearned = x.ghost.unearned /\ LegOK(v)
             /\ v.split.origin # 0 => v.split.origin <= i /\ Neighbours(v, i + 1)
<1> DEFINE more == FindNextMovementTargetForMap(i, mapId) # 0
           begin == [running |-> more, origin |-> i, frames |-> 0]
           leg == <<x.split.origin, i>>
           g == [x.ghost EXCEPT !.leg = leg]
           v == CompleteTargetSplit(x, i)
<1>1. v = IF x.split.origin = 0 THEN [x EXCEPT !.split = begin]
          ELSE IF ~x.split.running THEN x
          ELSE [[x EXCEPT !.split = begin] EXCEPT !.ghost = g]
  BY DEF CompleteTargetSplit, WorldType, GhostType
<1>2. /\ i \in Nat \ {0} /\ i \in Index /\ OnMap(Targets, mapId) \subseteq Nat
      /\ x.split \in SplitType /\ x.ghost \in GhostType
      /\ x.split.origin \in Nat /\ x.split.origin \in Index
  BY OnMapIndices DEF WorldType, SplitType, Index
<1>3. begin \in SplitType /\ begin.origin = i
  <2>1. more \in BOOLEAN /\ 0 \in Counter
    BY TargetingAssumption DEF Counter
  <2> HIDE DEF more
  <2> QED BY <1>2, <2>1 DEF SplitType
<1>4. /\ g \in GhostType /\ g.entry = x.ghost.entry /\ g.done = x.ghost.done
      /\ g.served = x.ghost.served /\ g.adjusted = x.ghost.adjusted
      /\ g.unearned = x.ghost.unearned
      /\ g.leg[1] = x.split.origin /\ g.leg[2] = i
  BY <1>2 DEF GhostType
<1> HIDE DEF v, begin, g
<1>5. \A j \in OnMap(Targets, mapId) : ~(i < j /\ j < i + 1)
  BY <1>2
<1>6. CASE x.split.origin = 0
  <2>1. v \in WorldType /\ v.split = begin /\ SameBut(v, x, {"split"})
    BY <1>1, <1>3, <1>6 DEF WorldType, SameBut, Fields
  <2>2. v.ghost = x.ghost
    BY <2>1 DEF SameBut, Fields
  <2> QED BY <1>2, <1>3, <1>5, <2>1, <2>2 DEF SameBut, LegOK, Neighbours, v
<1>7. CASE x.split.origin # 0 /\ ~x.split.running
  <2>1. v = x
    BY <1>1, <1>7
  <2> QED BY <1>2, <1>7, <2>1 DEF SameBut, SplitOK, Neighbours, v
<1>8. CASE x.split.origin # 0 /\ x.split.running
  <2>1. v \in WorldType /\ v.split = begin /\ v.ghost = g /\ SameBut(v, x, {"split", "ghost"})
    BY <1>1, <1>3, <1>4, <1>8 DEF WorldType, SameBut, Fields
  <2>2. ASSUME x.ghost.entry <= x.split.origin
        PROVE  i = FindNextMovementTargetForMap(x.split.origin, mapId)
    <3> DEFINE S == {j \in OnMap(Targets, mapId) : j > x.split.origin /\ IsMovementTarget(Targets[j])}
    <3>1. x.split.origin < i
      BY <1>8 DEF SplitOK
    <3>2. i \in S /\ S \subseteq Nat
      BY <1>2, <3>1
    <3>3. ASSUME NEW j \in S PROVE i <= j
      BY <1>2, <1>8, <2>2 DEF SplitOK, Neighbours
    <3>4. FindNextMovementTargetForMap(x.split.origin, mapId) = FirstOf(S)
      BY DEF FindNextMovementTargetForMap
    <3> HIDE DEF S
    <3>5. FirstOf(S) \in S /\ FirstOf(S) <= i
      BY <3>2, FirstIsLeast
    <3> DEFINE first == FirstOf(S)
    <3>6. first \in Nat /\ i \in Nat /\ first <= i /\ i <= first
      BY <1>2, <3>2, <3>3, <3>5
    <3> HIDE DEF first
    <3>7. first = i
      BY <3>6
    <3> QED BY <3>4, <3>7 DEF first
  <2>3. LegOK(v)
    <3>1. x.ghost.entry \in Nat
      BY <1>2 DEF GhostType, Index
    <3> QED BY <1>2, <1>4, <2>1, <2>2, <3>1 DEF LegOK
  <2> QED BY <1>2, <1>3, <1>4, <1>5, <2>1, <2>3 DEF Neighbours, v
<1> QED BY <1>6, <1>7, <1>8

\* A Target ends the loop until it is reached.
LEMMA PositionWalks ==
  ASSUME TargetsOK, NEW w, NEW v, NEW i, AtStep(w, v, i), NEW kinds,
         Targets[i].type = "Position"
  PROVE  Walked(w, ReachPosition(v, i), kinds, i)
<1>1. /\ v \in WorldType /\ PressesOK(v) /\ LegOK(v) /\ SplitOK(v) /\ v.route \in RouteType
      /\ v.route.delayAt = 0 /\ v.route.active /\ v.route.at = i /\ v.pad \in PadType
      /\ v.ghost \in GhostType
      /\ i \in OnMap(Targets, mapId) /\ IsMovementTarget(Targets[i])
      /\ Targets[w.route.at].type = "ShopTas" => v.pad.leftStick = 0
  BY AtStepFacts DEF AtStep, Sound, Underway, IsMovementTarget
<1>2. CASE ~Reached(v, i)
  <2>1. Stopped(v, kinds)
    BY <1>1, <1>2 DEF Stopped
  <2> QED BY <1>2, <2>1, WalkStops DEF ReachPosition
<1>3. CASE Reached(v, i)
  <2> DEFINE c == CompleteTargetSplit(v, i)
             u == ResetTargetApproach(c)
             x == AfterStep(u, i)
  <2>1. /\ c \in WorldType /\ SameBut(c, v, {"split", "ghost"})
        /\ c.ghost.entry = v.ghost.entry /\ c.ghost.done = v.ghost.done
        /\ c.ghost.served = v.ghost.served /\ c.ghost.adjusted = v.ghost.adjusted
        /\ c.ghost.unearned = v.ghost.unearned /\ LegOK(c)
        /\ c.split.origin # 0 => c.split.origin <= i /\ Neighbours(c, i + 1)
    BY <1>1, SplitTaken
  <2>2. ReachPosition(v, i) = IF x.walk = "returned" THEN TryCompleteScriptTimer(x) ELSE x
    BY <1>3 DEF ReachPosition
  <2> HIDE DEF c
  <2>3. /\ u \in WorldType
        /\ u.route = [c.route EXCEPT !.approach = NoApproach]
        /\ SameBut(u, c, {"route"})
    BY <2>1, ApproachForgotten
  <2> HIDE DEF u
  <2>4. /\ u.route = [v.route EXCEPT !.approach = NoApproach] /\ u.pad = v.pad
        /\ u.actions = v.actions /\ u.timer = v.timer /\ u.walk = v.walk
        /\ u.split = c.split /\ u.ghost = c.ghost
    BY <2>1, <2>3 DEF SameBut, Fields
  <2>5. /\ u.route.active = v.route.active /\ u.route.at = v.route.at
        /\ u.route.waiting = v.route.waiting /\ u.route.startDelay = v.route.startDelay
        /\ u.route.menuTas = v.route.menuTas /\ u.route.delayAt = 0
        /\ u.route.approach.index = 0
    BY <1>1, <2>4, StoppedRouteType DEF RouteType
  <2>6. PressesOK(u)
    BY <1>1, <2>1, <2>4, PressesCarry
  <2>7. SameStep(u, v) /\ LegOK(u)
    BY <2>1, <2>4, <2>5 DEF SameStep, LegOK
  <2>8. u.split.origin # 0 => u.split.origin <= i /\ Neighbours(u, i + 1)
    BY <2>1, <2>4 DEF Neighbours
  <2>9. Targets[i].type # "Delay"
    OBVIOUS
  <2>10. Ready(w, u, i)
    BY <1>1, <2>3, <2>4, <2>5, <2>6, <2>7, <2>8, <2>9, StepIsReady
  <2>11. Walked(w, x, kinds, i)
    BY <2>5, <2>7, <2>10, PassedWalks
  <2>12. Passed(w, u, x, i)
    BY <1>1, <2>10, StepPassed DEF AtStep
  <2> HIDE DEF x
  <2>13. CASE x.walk # "returned"
    BY <2>2, <2>11, <2>13
  <2>14. CASE x.walk = "returned"
    <3> DEFINE y == TryCompleteScriptTimer(x)
    <3>1. /\ x \in WorldType /\ Sound(x) /\ Related(w, x) /\ SplitOK(x)
          /\ x.pad.leftStick = 0 /\ x.timer.moved /\ AllPerformed(x)
      BY <2>12, <2>14 DEF Passed, Sound
    <3>2. /\ y \in WorldType /\ y.timer.moved = x.timer.moved
          /\ SameBut(y, x, {"timer"})
          /\ \/ y.timer.running = x.timer.running
             \/ /\ x.timer.moved /\ ~y.timer.running
                /\ x.actions = <<>> /\ x.helper.state = "Idle"
      BY <3>1, CompletedTimer
    <3> HIDE DEF y
    <3>3. /\ y.route = x.route /\ y.actions = x.actions /\ y.split = x.split
          /\ y.pad = x.pad /\ y.helper = x.helper /\ y.ghost = x.ghost /\ y.walk = x.walk
      BY <3>2 DEF SameBut, Fields
    <3>4. PressesOK(y)
      BY <3>1, <3>3, PressesCarry DEF Sound
    <3>5. ~y.route.active /\ AllPerformed(y)
      BY <3>1, <3>3 DEF AllPerformed
    <3>6. Sound(y)
      BY <3>1, <3>2, <3>3, <3>4, <3>5
      DEF Sound, OrderOK, DelayOK, ApproachOK, TimerOK, LegOK
    <3>7. Related(w, y)
      BY <3>1, <3>3 DEF Related, DelaysServed, Countdown
    <3>8. SplitOK(y)
      BY <3>5 DEF SplitOK
    <3>9. Ended(y)
      <4>1. ~y.timer.running => y.actions = <<>> /\ y.helper.state = "Idle"
        BY <2>12, <2>14, <3>2, <3>3 DEF Passed
      <4> QED BY <3>5, <4>1 DEF Ended
    <3> QED BY <2>2, <2>14, <3>1, <3>3, <3>6, <3>7, <3>8, <3>9 DEF Walked, y
  <2> QED BY <2>13, <2>14
<1> QED BY <1>2, <1>3

\* So does a marker, whose replay then holds the route.
LEMMA MarkerWalks ==
  ASSUME TargetsOK, NEW w, NEW v, NEW i, AtStep(w, v, i), NEW kinds, NEW outcome \in Outcomes,
         NEW walking \in BOOLEAN, IsMenuTasStep(Targets[i]), ~Targets[i].intermediate
  PROVE  Walked(w, ReachMenuTasMarker(v, i, walking, outcome), kinds, i)
<1> DEFINE still == StandStill(v)
           c == CompleteTargetSplit(still, i)
           a == ArmPlayback(c, i, outcome)
           u == [a EXCEPT !.route.menuTas = TRUE]
           x == AfterStep(u, i)
<1>1. /\ v \in WorldType /\ PressesOK(v) /\ LegOK(v) /\ SplitOK(v) /\ v.route \in RouteType
      /\ v.route.active /\ v.route.at = i /\ v.pad \in PadType
      /\ i \in OnMap(Targets, mapId) /\ IsMovementTarget(Targets[i])
      /\ Targets[i].type \in MenuTasTypes /\ w \in WorldType
      /\ Sound(v) /\ Related(w, v) /\ Underway(w, v) /\ DelayOK(w) /\ v.walk = "on"
  BY AtStepFacts DEF AtStep, Sound, Underway, IsMovementTarget, IsMenuTasStep
<1>2. Targets[i].type \notin {"Delay", "Position", "ShopTas"}
  BY <1>1 DEF MenuTasTypes
<1>3. v.route.delayAt = 0
  BY <1>2, AtStepFacts
<1>4. /\ still \in WorldType
      /\ still.route = [v.route EXCEPT !.approach = NoApproach]
      /\ still.pad = [v.pad EXCEPT !.leftStick = 0]
      /\ SameBut(still, v, {"route", "pad"})
  BY <1>1, StandStillWorld
<1>5. ReachMenuTasMarker(v, i, walking, outcome)
        = IF ~walking \/ ~Reached(still, i) THEN [still EXCEPT !.walk = "stopped"]
          ELSE IF outcome = "armed" THEN Return(x)
          ELSE Return(StopRoute(c))
  BY DEF ReachMenuTasMarker
<1> HIDE DEF still
<1>6. /\ still.route.active /\ still.route.at = i
      /\ still.route.waiting = v.route.waiting /\ still.route.startDelay = v.route.startDelay
      /\ still.route.menuTas = v.route.menuTas
      /\ still.route.delayAt = v.route.delayAt /\ still.route.delayLeft = v.route.delayLeft
      /\ still.route.approach.index = 0
      /\ still.pad.leftStick = 0 /\ still.pad.buffered = v.pad.buffered
      /\ still.actions = v.actions /\ still.timer = v.timer /\ still.split = v.split
      /\ still.helper = v.helper /\ still.ghost = v.ghost /\ still.walk = v.walk
  BY <1>1, <1>4, StoppedRouteType DEF RouteType, PadType, SameBut, Fields
<1>7. PressesOK(still)
  BY <1>1, <1>6, PressesCarry
<1>8. Sound(still) /\ SplitOK(still) /\ LegOK(still)
  BY <1>1, <1>4, <1>6, <1>7
  DEF Sound, OrderOK, DelayOK, ApproachOK, TimerOK, LegOK, SplitOK, Neighbours
<1>9. AtStep(w, still, i)
  <2>1. Related(w, still)
    BY <1>1, <1>6 DEF Related, DelaysServed, Countdown
  <2>2. Underway(w, still)
    BY <1>1, <1>2, <1>6, <1>8 DEF Underway, SameStand
  <2> QED BY <1>1, <1>6, <1>8, <2>1, <2>2 DEF AtStep
<1>10. CASE ~walking \/ ~Reached(still, i)
  <2>1. Stopped(still, kinds)
    BY <1>1, <1>2, <1>6 DEF Stopped
  <2> QED BY <1>5, <1>9, <1>10, <2>1, WalkStops
<1>11. /\ c \in WorldType /\ SameBut(c, still, {"split", "ghost"})
       /\ c.ghost.entry = still.ghost.entry /\ c.ghost.done = still.ghost.done
       /\ c.ghost.served = still.ghost.served /\ c.ghost.adjusted = still.ghost.adjusted
       /\ c.ghost.unearned = still.ghost.unearned /\ LegOK(c)
       /\ c.split.origin # 0 => c.split.origin <= i /\ Neighbours(c, i + 1)
  BY <1>1, <1>4, <1>6, <1>8, SplitTaken
<1> HIDE DEF c
<1>12. /\ c.route = still.route /\ c.pad = still.pad /\ c.actions = still.actions
       /\ c.timer = still.timer /\ c.helper = still.helper /\ c.walk = still.walk
  BY <1>11 DEF SameBut, Fields
<1>13. PressesOK(c)
  BY <1>7, <1>11, <1>12, PressesCarry
<1>14. Sound(c)
  BY <1>6, <1>8, <1>11, <1>12, <1>13 DEF Sound, OrderOK, DelayOK, ApproachOK, TimerOK
<1>15. a \in WorldType /\ SameBut(a, c, {"helper"})
  BY <1>1, <1>11, ArmedWorld
<1> HIDE DEF a
<1> DEFINE yes == TRUE
           r == [a.route EXCEPT !.menuTas = yes]
<1>16. /\ r \in RouteType /\ r.active = still.route.active /\ r.at = still.route.at
       /\ r.waiting = still.route.waiting /\ r.startDelay = still.route.startDelay
       /\ r.delayAt = still.route.delayAt /\ r.approach = still.route.approach
  <2>1. yes \in BOOLEAN
    OBVIOUS
  <2>2. a.route \in RouteType /\ a.route = still.route
    BY <1>12, <1>15 DEF WorldType, SameBut, Fields
  <2> HIDE DEF yes
  <2> QED BY <2>1, <2>2 DEF RouteType
<1>17. u = [a EXCEPT !.route = r]
  BY <1>15 DEF WorldType, RouteType
<1> HIDE DEF u, r, yes
<1>18. u \in WorldType /\ u.route = r /\ SameBut(u, a, {"route"})
  BY <1>15, <1>16, <1>17 DEF WorldType, SameBut, Fields
<1>19. /\ u.pad = still.pad /\ u.actions = still.actions /\ u.timer = still.timer
       /\ u.split = c.split /\ u.ghost = c.ghost /\ u.walk = still.walk
  BY <1>12, <1>15, <1>18 DEF SameBut, Fields
<1>20. PressesOK(u)
  BY <1>7, <1>11, <1>19, PressesCarry
<1>21. SameStep(u, still) /\ LegOK(u)
  BY <1>11, <1>16, <1>18, <1>19 DEF SameStep, LegOK
<1>22. u.split.origin # 0 => u.split.origin <= i /\ Neighbours(u, i + 1)
  BY <1>11, <1>19 DEF Neighbours
<1>23. u.route.delayAt = 0 /\ u.route.approach.index = 0 /\ u.pad.leftStick = 0
  BY <1>3, <1>6, <1>16, <1>18, <1>19
<1>24. Ready(w, u, i)
  BY <1>2, <1>9, <1>18, <1>20, <1>21, <1>22, <1>23, StepIsReady
<1>25. Passed(w, u, x, i)
  BY <1>1, <1>24, StepPassed
<1> HIDE DEF x
<1>26. Walked(w, Return(x), kinds, i)
  <2> DEFINE y == Return(x)
  <2>1. /\ x \in WorldType /\ Sound(x) /\ Related(w, x) /\ SplitOK(x) /\ x.pad.leftStick = 0
        /\ x.timer.moved => AllPerformed(x) /\ x.timer.running
    BY <1>23, <1>25 DEF Passed, Sound
  <2>2. y \in WorldType /\ y.walk = "returned" /\ SameBut(y, x, {"walk"})
    BY <2>1, ReturnWorld
  <2> HIDE DEF y
  <2>3. /\ y.route = x.route /\ y.actions = x.actions /\ y.split = x.split
        /\ y.pad = x.pad /\ y.helper = x.helper /\ y.ghost = x.ghost /\ y.timer = x.timer
    BY <2>2 DEF SameBut, Fields
  <2>4. PressesOK(y)
    BY <2>1, <2>3, PressesCarry DEF Sound
  <2>5. Sound(y)
    BY <2>1, <2>2, <2>3, <2>4
    DEF Sound, OrderOK, DelayOK, ApproachOK, TimerOK, AllPerformed, LegOK
  <2>6. Related(w, y)
    BY <2>1, <2>3 DEF Related, DelaysServed, Countdown
  <2>7. SplitOK(y) /\ Ended(y)
    BY <2>1, <2>3 DEF SplitOK, Neighbours, Ended, AllPerformed
  <2> QED BY <2>1, <2>2, <2>3, <2>5, <2>6, <2>7 DEF Walked, y
<1>27. Walked(w, Return(StopRoute(c)), kinds, i)
  BY <1>1, <1>14, StopWalked
<1> QED BY <1>5, <1>10, <1>26, <1>27

----
(* The loop.                                                                    *)

LEMMA VisitWalks ==
  ASSUME TargetsOK, NEW w \in WorldType, DelayOK(w), NEW v, NEW kinds, NEW outcome \in Outcomes,
         NEW i \in Nat \ {0}, Walked(w, v, kinds, i - 1)
  PROVE  Walked(w, VisitStep(v, i, kinds, outcome), kinds, i)
<1> DEFINE target == Targets[i]
           x == VisitStep(v, i, kinds, outcome)
<1>1. v \in WorldType
  BY DEF Walked, Sound
<1>2. v.route.at \in Nat
  BY <1>1 DEF WorldType, RouteType, Index
<1>3. CASE v.walk # "on" \/ v.route.at # i
  <2>1. VisitStep(v, i, kinds, outcome) = v
    BY <1>3 DEF VisitStep
  <2> QED BY <1>2, <1>3, <2>1 DEF Walked
<1>4. CASE v.walk = "on" /\ v.route.at = i
  <2>1. AtStep(w, v, i)
    BY <1>4 DEF Walked, AtStep
  <2>2. i \in DOMAIN Targets
    BY <2>1, AtStepFacts
  <2>3. target.type \in TargetType
    BY <2>2, TargetTyped
  <2>4. CASE target.type \notin kinds
    <3>1. Stopped(v, kinds)
      BY <1>4, <2>3, <2>4 DEF Stopped
    <3>2. VisitStep(v, i, kinds, outcome) = [v EXCEPT !.walk = "stopped"]
      BY <1>4, <2>4 DEF VisitStep
    <3> QED BY <2>1, <3>1, <3>2, WalkStops
  <2>5. CASE target.type \in kinds
    <3>1. CASE target.type = "Delay"
      <4>1. VisitStep(v, i, kinds, outcome) = ConsumeDelay(v, i)
        BY <1>4, <2>5, <3>1 DEF VisitStep, IsMenuTasStep, MenuTasTypes
      <4> QED BY <2>1, <3>1, <4>1, DelayWalks
    <3>2. CASE target.type = "Action"
      <4>1. VisitStep(v, i, kinds, outcome) = AfterStep(QueueAction(v, i), i)
        BY <1>4, <2>5, <3>2 DEF VisitStep, IsMenuTasStep, MenuTasTypes
      <4> QED BY <2>1, <3>2, <4>1, ActionWalks
    <3>3. CASE target.type = "Toggle"
      <4>1. VisitStep(v, i, kinds, outcome) = ConsumeToggle(v, i)
        BY <1>4, <2>5, <3>3 DEF VisitStep, IsMenuTasStep, MenuTasTypes
      <4> QED BY <2>1, <3>3, <4>1, ToggleWalks
    <3>4. CASE target.type = "ShopTas"
      <4>1. VisitStep(v, i, kinds, outcome) = ConsumeShopTas(v, i, outcome)
        BY <1>4, <2>5, <3>4 DEF VisitStep, IsMenuTasStep, MenuTasTypes
      <4> QED BY <2>1, <3>4, <4>1, ShopTasWalks
    <3>5. CASE target.type = "Position"
      <4>1. VisitStep(v, i, kinds, outcome) = ReachPosition(v, i)
        BY <1>4, <2>5, <3>5 DEF VisitStep, IsMenuTasStep, MenuTasTypes
      <4> QED BY <2>1, <3>5, <4>1, PositionWalks
    <3>6. CASE target.type \in MenuTasTypes
      <4>1. VisitStep(v, i, kinds, outcome)
              = IF target.intermediate THEN ConsumeIntermediateMenuTas(v, i, outcome)
                ELSE ReachMenuTasMarker(v, i, "Position" \in kinds, outcome)
        BY <1>4, <2>5, <3>6 DEF VisitStep, IsMenuTasStep, MenuTasTypes
      <4>2. IsMenuTasStep(Targets[i])
        BY <3>6 DEF IsMenuTasStep
      <4>3. CASE target.intermediate
        BY <2>1, <4>1, <4>2, <4>3, IntermediateWalks
      <4>4. CASE ~target.intermediate
        <5> DEFINE walking == "Position" \in kinds
        <5>1. walking \in BOOLEAN
          OBVIOUS
        <5>2. x = ReachMenuTasMarker(v, i, walking, outcome)
          BY <4>1, <4>4
        <5> HIDE DEF walking, x
        <5>3. Walked(w, ReachMenuTasMarker(v, i, walking, outcome), kinds, i)
          BY <2>1, <4>2, <4>4, <5>1, MarkerWalks
        <5> QED BY <5>2, <5>3 DEF x
      <4> QED BY <4>3, <4>4
    <3> QED BY <2>3, <3>1, <3>2, <3>3, <3>4, <3>5, <3>6 DEF TargetType, SpecialTypes
  <2> QED BY <2>4, <2>5
<1> QED BY <1>3, <1>4

\* The function in ConsumeSteps.
Visits(f, w, kinds, outcome, N) ==
    f = [n \in 0 .. N |-> IF n = 0 THEN w ELSE VisitStep(f[n - 1], n, kinds, outcome)]

LEMMA VisitsExists ==
  ASSUME NEW w, NEW kinds, NEW outcome, NEW N \in Nat
  PROVE  \E f : Visits(f, w, kinds, outcome, N)
<1> DEFINE T == {n \in 0 .. N : \E f : Visits(f, w, kinds, outcome, n)}
<1>1. 0 \in T
  <2> DEFINE f == [n \in 0 .. 0 |-> w]
  <2>1. Visits(f, w, kinds, outcome, 0)
    BY DEF Visits
  <2> QED BY <2>1
<1>2. ASSUME NEW n \in 1 .. N, n - 1 \in T PROVE n \in T
  <2>1. PICK f : Visits(f, w, kinds, outcome, n - 1)
    BY <1>2
  <2> DEFINE g == [k \in 0 .. n |-> IF k \in 0 .. n - 1 THEN f[k]
                                    ELSE VisitStep(f[n - 1], n, kinds, outcome)]
  <2>2. g = [k \in 0 .. n |-> IF k = 0 THEN w ELSE VisitStep(g[k - 1], k, kinds, outcome)]
    <3>1. ASSUME NEW k \in 0 .. n
          PROVE  g[k] = IF k = 0 THEN w ELSE VisitStep(g[k - 1], k, kinds, outcome)
      <4>1. CASE k = n
        BY <4>1
      <4>2. CASE k \in 0 .. n - 1
        <5>1. g[k] = f[k] /\ (k # 0 => g[k - 1] = f[k - 1])
          BY <4>2
        <5>2. f[k] = IF k = 0 THEN w ELSE VisitStep(f[k - 1], k, kinds, outcome)
          BY <2>1, <4>2 DEF Visits
        <5> HIDE DEF g
        <5> QED BY <5>1, <5>2
      <4> QED BY <4>1, <4>2
    <3> QED BY <3>1
  <2>3. Visits(g, w, kinds, outcome, n)
    BY <2>2 DEF Visits
  <2> QED BY <2>3
<1>3. N \in T
  <2> HIDE DEF T
  <2> QED BY <1>1, <1>2, UpTo
<1> QED BY <1>3

\* What the loop leaves of a sound world.
Consumed(w, v, kinds) ==
    /\ Sound(v) /\ Related(w, v)
    /\ \/ v.walk = "stopped" /\ Underway(w, v) /\ Stopped(v, kinds)
       \/ v.walk = "returned" /\ v.pad.leftStick = 0 /\ SplitOK(v) /\ Ended(v)

LEMMA StepsConsumed ==
  ASSUME TargetsOK, NEW w, Sound(w), SplitOK(w), w.walk = "on", w.route.active, w.route.at # 0,
         NEW kinds, NEW outcome \in Outcomes
  PROVE  Consumed(w, ConsumeSteps(w, kinds, outcome), kinds)
<1> DEFINE N == Len(Targets)
           f == CHOOSE f : Visits(f, w, kinds, outcome, N)
<1>0. N \in Nat /\ w \in WorldType /\ DelayOK(w)
  BY OnMapIndices DEF Sound
<1>1. Visits(f, w, kinds, outcome, N)
  <2> HIDE DEF N
  <2> QED BY <1>0, VisitsExists
<1>2. ConsumeSteps(w, kinds, outcome) = f[N]
  BY Zenon DEF ConsumeSteps, Visits
<1> HIDE DEF f, N
<1>3. f[0] = w
  BY <1>0, <1>1 DEF Visits
<1>4. \A n \in 1 .. N : f[n] = VisitStep(f[n - 1], n, kinds, outcome)
  <2> TAKE n \in 1 .. N
  <2>1. n \in 0 .. N /\ n # 0
    BY <1>0
  <2> QED BY <1>1, <2>1, Zenon DEF Visits
<1> DEFINE T == {n \in 0 .. N : Walked(w, f[n], kinds, n)}
<1>5. 0 \in T
  <2>1. w.route.at \in Nat
    BY <1>0 DEF WorldType, RouteType, Index
  <2>2. Underway(w, w)
    BY DEF Underway, SameStand
  <2>3. Related(w, w)
    BY <2>1 DEF Related, DelaysServed, Countdown
  <2> QED BY <1>0, <1>3, <2>1, <2>2, <2>3 DEF Walked
<1>6. ASSUME NEW n \in 1 .. N, n - 1 \in T PROVE n \in T
  <2>1. Walked(w, f[n - 1], kinds, n - 1) /\ n \in Nat \ {0} /\ n \in 0 .. N
    BY <1>0, <1>6
  <2>2. Walked(w, VisitStep(f[n - 1], n, kinds, outcome), kinds, n)
    BY <1>0, <2>1, VisitWalks
  <2> QED BY <1>4, <2>1, <2>2
<1>7. N \in T
  <2> HIDE DEF T
  <2> QED BY <1>0, <1>5, <1>6, UpTo
<1> DEFINE v == f[N]
<1>8. Walked(w, v, kinds, N)
  BY <1>7
<1> HIDE DEF v
<1>9. v \in WorldType /\ v.walk \in WalkType
  BY <1>8 DEF Walked, Sound, WorldType
<1>10. v.walk # "on"
  <2> SUFFICES ASSUME v.walk = "on" PROVE FALSE
    OBVIOUS
  <2>1. N < v.route.at /\ v.route.at \in OnMap(Targets, mapId)
    BY <1>8 DEF Walked, Underway, Sound, OrderOK
  <2> QED BY <1>0, <2>1, OnMapIndices DEF N
<1>11. Consumed(w, v, kinds)
  BY <1>8, <1>9, <1>10 DEF Walked, Consumed, WalkType
<1> QED BY <1>2, <1>11 DEF v

----
(* The actions in flight.                                                       *)

\* What an action in flight comes to in a frame.
Ran(a, r) ==
    /\ r.run \in ActiveAction /\ r.run.index = a.index
    /\ r.held \in SUBSET Button /\ r.asked \in SUBSET Button /\ r.stick \in BOOLEAN
    /\ r.run.owed = a.owed \cup r.asked
    /\ r.run.owed # {} => r.run.started /\ r.run.requested
    /\ r.run.accepted /\ ~a.accepted => a.owed \cap Targets[a.index].buttons = {}
    /\ AsAsked(a) => AsAsked(r.run) /\ (r.run.owed # {} => r.run.holdLeft > 0)

LEMMA ActionRuns ==
  ASSUME TargetsOK, NEW a \in ActiveAction, OwesItsOwn(a), NEW controlFree \in BOOLEAN,
         NEW pending, a.owed \subseteq pending
  PROVE  Ran(a, RunAction(a, controlFree, pending))
<1> DEFINE target == Targets[a.index]
           yes == TRUE
           buffered == BufferedButtons(target)
           n == a.holdLeft - 1
           begun == [a EXCEPT !.started = yes]
           Idle(run, held, asked, stick) == [run |-> run, held |-> held, asked |-> asked, stick |-> stick]
           ticked == [a EXCEPT !.delayLeft = a.delayLeft - 1]
           stuck == [begun EXCEPT !.holdLeft = n]
           requested == [[begun EXCEPT !.requested = yes] EXCEPT !.owed = target.buttons]
           taken == [begun EXCEPT !.accepted = yes]
           credited == [taken EXCEPT !.holdLeft = n]
           goesOn == [credited EXCEPT !.holdLeft = n - 1]
           r == RunAction(a, controlFree, pending)
<1>1. /\ a.index \in DOMAIN Targets /\ a.holdLeft > 0
      /\ a.owed # {} => a.started /\ a.requested
  BY DEF OwesItsOwn
<1>2. target.buttons \in SUBSET Button /\ target.stick \in BOOLEAN /\ target.buffered \in BOOLEAN
  BY <1>1, TargetTyped
<1>3. buffered \in BOOLEAN /\ (buffered <=> ~target.stick /\ target.buffered)
  BY DEF BufferedButtons
<1>4. /\ a.index \in Nat /\ a.delayLeft \in Nat /\ a.holdLeft \in Int /\ a.started \in BOOLEAN
      /\ a.requested \in BOOLEAN /\ a.accepted \in BOOLEAN /\ a.owed \in SUBSET Button
      /\ n \in Int /\ n - 1 \in Int
  BY DEF ActiveAction
<1>5. AsAsked(a) => /\ a.owed \subseteq target.buttons
                   /\ (a.owed # {} => buffered /\ ~a.accepted)
  BY DEF AsAsked
<1>6. /\ begun \in ActiveAction /\ begun.index = a.index /\ begun.owed = a.owed
      /\ begun.started /\ begun.requested = a.requested /\ begun.accepted = a.accepted
      /\ begun.holdLeft = a.holdLeft
  <2>1. yes \in BOOLEAN /\ yes
    OBVIOUS
  <2> HIDE DEF yes
  <2> QED BY <2>1 DEF ActiveAction
<1>7. /\ stuck \in ActiveAction /\ stuck.index = a.index /\ stuck.owed = a.owed
      /\ stuck.started /\ stuck.requested = a.requested /\ stuck.accepted = a.accepted
  <2> HIDE DEF begun, n
  <2> QED BY <1>4, <1>6 DEF ActiveAction
<1>8. /\ credited \in ActiveAction /\ credited.index = a.index /\ credited.owed = a.owed
      /\ credited.started /\ credited.requested = a.requested /\ credited.holdLeft = n
  <2>1. yes \in BOOLEAN
    OBVIOUS
  <2> HIDE DEF begun, n, yes
  <2>2. /\ taken \in ActiveAction /\ taken.index = a.index /\ taken.owed = a.owed
        /\ taken.started /\ taken.requested = a.requested
    BY <1>6, <2>1 DEF ActiveAction
  <2> HIDE DEF taken
  <2> QED BY <1>4, <2>2 DEF ActiveAction
<1>9. /\ goesOn \in ActiveAction /\ goesOn.index = a.index /\ goesOn.owed = a.owed
      /\ goesOn.started /\ goesOn.requested = a.requested
  <2> HIDE DEF credited, n
  <2> QED BY <1>4, <1>8 DEF ActiveAction
<1>10. /\ [begun EXCEPT !.holdLeft = @ - 1] = stuck
       /\ [begun EXCEPT !.accepted = TRUE, !.holdLeft = @ - 1] = credited
       /\ [credited EXCEPT !.holdLeft = @ - 1] = goesOn
  BY DEF ActiveAction
<1> HIDE DEF r, n, stuck, credited, goesOn
<1>11. CASE ~a.started /\ ~controlFree /\ ~buffered
  <2>1. r = Idle(a, {}, {}, FALSE)
    BY <1>11 DEF r, RunAction
  <2> QED BY <1>1, <1>4, <1>5, <2>1 DEF Ran, r
<1>12. CASE ~(~a.started /\ ~controlFree /\ ~buffered) /\ ~a.started /\ a.delayLeft > 0
  <2>1. r = Idle(ticked, {}, {}, FALSE)
    BY <1>12 DEF r, RunAction
  <2>2. /\ ticked \in ActiveAction /\ ticked.index = a.index /\ ticked.owed = {} /\ a.owed = {}
        /\ ticked.accepted = a.accepted
    BY <1>1, <1>4, <1>12 DEF ActiveAction
  <2> HIDE DEF ticked
  <2> QED BY <2>1, <2>2 DEF Ran, AsAsked, r
<1>13. CASE ~(~a.started /\ ~controlFree /\ ~buffered) /\ ~(~a.started /\ a.delayLeft > 0)
            /\ target.stick
  <2>1. r = Idle(stuck, {}, {}, yes)
    BY <1>10, <1>13 DEF r, RunAction
  <2>2. AsAsked(a) => stuck.owed = {}
    BY <1>3, <1>7, <1>13 DEF AsAsked
  <2>3. AsAsked(a) => AsAsked(stuck)
    BY <1>7, <2>2 DEF AsAsked
  <2> QED BY <1>1, <1>4, <1>7, <2>1, <2>2, <2>3 DEF Ran, r
<1>14. CASE ~(~a.started /\ ~controlFree /\ ~buffered) /\ ~(~a.started /\ a.delayLeft > 0)
            /\ ~target.stick /\ target.buffered /\ ~a.accepted
  <2>1. buffered
    BY <1>3, <1>14
  <2>2. CASE ~a.requested
    <3>1. r = Idle(requested, {}, target.buttons, FALSE)
      BY <1>14, <2>2 DEF r, RunAction
    <3>2. /\ requested \in ActiveAction /\ requested.index = a.index
          /\ requested.owed = target.buttons /\ a.owed = {}
          /\ requested.holdLeft = a.holdLeft /\ requested.started /\ requested.requested
          /\ ~requested.accepted
      <4>1. yes \in BOOLEAN /\ yes
        OBVIOUS
      <4> HIDE DEF begun, yes
      <4> QED BY <1>1, <1>2, <1>4, <1>6, <1>14, <2>2, <4>1 DEF ActiveAction
    <3> HIDE DEF requested
    <3>3. AsAsked(requested)
      BY <2>1, <3>2 DEF AsAsked
    <3> QED BY <1>1, <1>2, <3>1, <3>2, <3>3 DEF Ran, r
  <2>3. CASE a.requested /\ pending \cap target.buttons # {}
    <3>1. r = Idle(begun, {}, {}, FALSE)
      BY <1>14, <2>3 DEF r, RunAction
    <3> HIDE DEF begun
    <3>2. begun.requested /\ ~begun.accepted
      BY <1>4, <1>6, <1>14, <2>3, Zenon
    <3>3. AsAsked(a) => AsAsked(begun)
      BY <1>5, <1>6, <3>2 DEF AsAsked
    <3> QED BY <1>1, <1>4, <1>6, <2>3, <3>1, <3>2, <3>3 DEF Ran, r
  <2>4. CASE a.requested /\ pending \cap target.buttons = {}
    <3>1. a.owed \cap target.buttons = {} /\ (AsAsked(a) => a.owed = {})
      BY <2>4 DEF AsAsked
    <3>1a. credited.requested /\ goesOn.requested
      BY <1>4, <1>8, <1>9, <2>4, Zenon
    <3>2. /\ AsAsked(a) => AsAsked(credited) /\ credited.owed = {}
          /\ AsAsked(a) => AsAsked(goesOn) /\ goesOn.owed = {}
      BY <1>8, <1>9, <3>1 DEF AsAsked
    <3>3. CASE credited.holdLeft = 0
      <4>1. r = Idle(credited, {}, {}, FALSE)
        BY <1>10, <1>14, <2>4, <3>3 DEF r, RunAction
      <4> QED BY <1>4, <1>8, <3>1, <3>1a, <3>2, <4>1 DEF Ran, r
    <3>4. CASE credited.holdLeft # 0
      <4>1. r = Idle(goesOn, target.buttons, {}, FALSE)
        BY <1>10, <1>14, <2>4, <3>4 DEF r, RunAction
      <4> QED BY <1>2, <1>4, <1>9, <3>1, <3>1a, <3>2, <4>1 DEF Ran, r
    <3> QED BY <3>3, <3>4
  <2> QED BY <2>2, <2>3, <2>4
<1>15. CASE ~(~a.started /\ ~controlFree /\ ~buffered) /\ ~(~a.started /\ a.delayLeft > 0)
            /\ ~target.stick /\ ~(target.buffered /\ ~a.accepted)
  <2>1. r = Idle(stuck, target.buttons, {}, FALSE)
    BY <1>10, <1>15 DEF r, RunAction
  <2>2. AsAsked(a) => stuck.owed = {}
    BY <1>3, <1>7, <1>15 DEF AsAsked
  <2>3. AsAsked(a) => AsAsked(stuck)
    BY <1>7, <2>2 DEF AsAsked
  <2> QED BY <1>1, <1>2, <1>4, <1>7, <2>1, <2>2, <2>3 DEF Ran, r
<1> QED BY <1>11, <1>12, <1>13, <1>14, <1>15

LEMMA ActionsUpdated ==
  ASSUME TargetsOK, NEW w \in WorldType, PressesOK(w), NEW controlFree \in BOOLEAN
  PROVE  LET v == UpdateActiveAction(w, controlFree)
         IN  /\ v \in WorldType /\ PressesOK(v)
             /\ SameBut(v, w, {"actions", "pad", "ghost"})
             /\ v.pad.leftStick = w.pad.leftStick
             /\ SameRun(v.ghost, w.ghost)
<1> DEFINE acts == w.actions
           buffered == w.pad.buffered
           N == Len(acts)
           ran == [k \in DOMAIN acts |-> RunAction(acts[k], controlFree, buffered)]
           K == {k \in DOMAIN ran : ran[k].run.holdLeft > 0}
           kept == InOrder(K, Len(ran))
           left == [n \in DOMAIN kept |-> ran[kept[n]].run]
           asked == UNION {ran[k].asked : k \in DOMAIN ran}
           held == UNION {ran[k].held : k \in DOMAIN ran}
           stick == \E k \in DOMAIN ran : ran[k].stick
           waiting == IF left = <<>> THEN {} ELSE buffered \cup asked
           changed == w.ghost.adjusted /\ left # <<>>
           untaken == \E k \in DOMAIN ran :
                        /\ ran[k].run.accepted /\ ~acts[k].accepted
                        /\ acts[k].owed \cap Targets[acts[k].index].buttons # {}
           early == w.ghost.unearned \/ untaken
           p == [[[w.pad EXCEPT !.held = held] EXCEPT !.stick = stick] EXCEPT !.buffered = waiting]
           g == [[w.ghost EXCEPT !.adjusted = changed] EXCEPT !.unearned = early]
           v == [w EXCEPT !.actions = left, !.pad = p, !.ghost = g]
<1>1. UpdateActiveAction(w, controlFree) = v
  <2>1. UpdateActiveAction(w, controlFree)
          = [w EXCEPT !.actions = left, !.pad.held = held, !.pad.stick = stick,
                      !.pad.buffered = IF left = <<>> THEN {} ELSE @ \cup asked,
                      !.ghost.adjusted = @ /\ left # <<>>,
                      !.ghost.unearned = @ \/ untaken]
    BY Zenon DEF UpdateActiveAction
  <2>2. stick \in BOOLEAN /\ untaken \in BOOLEAN
    OBVIOUS
  <2> HIDE DEF left, held, stick, asked, untaken
  <2>3. /\ w.pad \in PadType /\ w.ghost \in GhostType
        /\ w.ghost.unearned \in BOOLEAN /\ w.ghost.adjusted \in BOOLEAN
    BY DEF WorldType, GhostType
  <2> QED BY <2>1, <2>2, <2>3 DEF WorldType, PadType, GhostType
<1>2. /\ acts \in Seq(ActiveAction) /\ N \in Nat /\ DOMAIN acts = 1 .. N
      /\ \A k \in 1 .. N : acts[k] \in ActiveAction
      /\ w.pad \in PadType /\ w.ghost \in GhostType /\ buffered \in SUBSET Button
  BY DEF WorldType, PadType
<1>3. /\ \A k \in 1 .. N : OwesItsOwn(acts[k]) /\ acts[k].owed \subseteq buffered
      /\ ~w.ghost.adjusted => /\ \A k \in 1 .. N : AsAsked(acts[k])
                             /\ buffered = UNION {acts[k].owed : k \in 1 .. N}
      /\ ~w.ghost.unearned
  BY <1>2 DEF PressesOK
<1>4. DOMAIN ran = 1 .. N /\ Len(ran) = N
  BY <1>2
<1> HIDE DEF acts, buffered
<1>5. ASSUME NEW k \in 1 .. N PROVE Ran(acts[k], ran[k])
  <2>1. acts[k] \in ActiveAction /\ OwesItsOwn(acts[k]) /\ acts[k].owed \subseteq buffered
    BY <1>2, <1>3
  <2>2. ran[k] = RunAction(acts[k], controlFree, buffered)
    BY <1>2
  <2> QED BY <2>1, <2>2, ActionRuns
<1> HIDE DEF ran, N
<1>6. K \subseteq 1 .. N
  BY <1>4
<1> HIDE DEF K
<1>7. /\ kept \in Seq(K \cap (1 .. N))
      /\ \A k \in K \cap (1 .. N) : \E n \in DOMAIN kept : kept[n] = k
  <2>1. kept = InOrder(K, N)
    BY <1>4
  <2> HIDE DEF kept
  <2>2. kept \in Seq(K \cap (1 .. N))
    BY <1>2, <2>1, InOrderSorts
  <2>3. ASSUME NEW k \in K \cap (1 .. N) PROVE \E n \in DOMAIN kept : kept[n] = k
    <3> DEFINE rank == Cardinality({j \in K : j \in 1 .. k})
    <3>1. rank \in DOMAIN InOrder(K, N) /\ InOrder(K, N)[rank] = k
      BY <1>2, InOrderSorts
    <3> QED BY <2>1, <3>1
  <2> QED BY <2>2, <2>3
<1> HIDE DEF kept
<1>8. /\ Len(kept) \in Nat /\ DOMAIN kept = 1 .. Len(kept)
      /\ \A n \in DOMAIN kept : kept[n] \in K /\ kept[n] \in 1 .. N
      /\ \A k \in K : \E n \in DOMAIN kept : kept[n] = k
  BY <1>6, <1>7
<1>9. \A k \in 1 .. N : k \in K <=> ran[k].run.holdLeft > 0
  BY <1>4 DEF K
<1>10. left \in Seq(ActiveAction) /\ DOMAIN left = DOMAIN kept
       /\ \A n \in DOMAIN kept : left[n] = ran[kept[n]].run
  <2>1. \A n \in DOMAIN kept : ran[kept[n]].run \in ActiveAction
    BY <1>5, <1>8 DEF Ran
  <2> QED BY <1>8, <2>1
<1>11. left = <<>> <=> DOMAIN kept = {}
  BY <1>8, <1>10
<1> HIDE DEF left
<1>12. \A k \in 1 .. N : OwesItsOwn(acts[k]) /\ Ran(acts[k], ran[k])
  BY <1>3, <1>5
<1>13. \A n \in DOMAIN left : OwesItsOwn(left[n]) /\ left[n].owed \subseteq waiting
  <2> TAKE n \in DOMAIN left
  <2> DEFINE k == kept[n]
  <2>1. k \in 1 .. N /\ k \in K /\ left[n] = ran[k].run
    BY <1>8, <1>10
  <2> HIDE DEF k
  <2>2. waiting = buffered \cup asked
    BY <1>10, <1>11
  <2>3. left[n].owed \subseteq buffered \cup asked
    <3>1. ran[k].asked \subseteq asked
      BY <1>4, <2>1
    <3> HIDE DEF asked
    <3> QED BY <1>3, <1>12, <2>1, <3>1 DEF Ran
  <2> HIDE DEF waiting, asked
  <2> QED BY <1>9, <1>12, <2>1, <2>2, <2>3 DEF Ran, OwesItsOwn
<1>14. ASSUME ~w.ghost.adjusted
       PROVE  /\ \A n \in DOMAIN left : AsAsked(left[n])
              /\ UNION {left[n].owed : n \in DOMAIN left} = buffered \cup asked
  <2>1. ASSUME NEW b, NEW n \in DOMAIN left, b \in left[n].owed PROVE b \in buffered \cup asked
    <3>1. PICK k \in 1 .. N : left[n] = ran[k].run
      BY <1>8, <1>10
    <3>2. b \in acts[k].owed \/ b \in ran[k].asked
      BY <1>12, <2>1, <3>1 DEF Ran
    <3> QED BY <1>3, <1>4, <3>2
  <2>2. ASSUME NEW b \in buffered \cup asked PROVE \E n \in DOMAIN left : b \in left[n].owed
    <3>1. PICK k \in 1 .. N : b \in acts[k].owed \/ b \in ran[k].asked
      BY <1>3, <1>4, <1>14
    <3>2. b \in ran[k].run.owed
      BY <1>12, <3>1 DEF Ran
    <3>3. k \in K
      BY <1>3, <1>9, <1>12, <1>14, <3>2 DEF Ran
    <3>4. PICK n \in DOMAIN kept : kept[n] = k
      BY <1>8, <3>3
    <3> QED BY <1>10, <3>2, <3>4
  <2>3. ASSUME NEW n \in DOMAIN left PROVE AsAsked(left[n])
    <3>1. PICK k \in 1 .. N : left[n] = ran[k].run
      BY <1>8, <1>10
    <3> QED BY <1>3, <1>12, <1>14, <3>1 DEF Ran
  <2> QED BY <2>1, <2>2, <2>3
<1>15. /\ left = <<>> => waiting = {}
       /\ ~changed => waiting = UNION {left[n].owed : n \in DOMAIN left}
       /\ ~changed => \A n \in DOMAIN left : AsAsked(left[n])
  <2>1. CASE left = <<>>
    BY <1>10, <1>11, <2>1
  <2>2. CASE left # <<>>
    BY <1>14, <2>2
  <2> QED BY <2>1, <2>2
<1>16. waiting \in SUBSET Button /\ held \in SUBSET Button /\ stick \in BOOLEAN
  <2>1. asked \in SUBSET Button /\ held \in SUBSET Button
    BY <1>4, <1>12 DEF Ran
  <2> QED BY <1>2, <2>1
<1>17. early = FALSE
  BY <1>3, <1>4, <1>12 DEF Ran, untaken
<1> HIDE DEF waiting, held, stick, untaken, early, changed
<1>18. p \in PadType /\ p.leftStick = w.pad.leftStick /\ p.buffered = waiting
  BY <1>2, <1>16 DEF PadType
<1>19. /\ g \in GhostType /\ ~g.unearned /\ g.adjusted = changed /\ SameRun(g, w.ghost)
  <2> DEFINE h == [w.ghost EXCEPT !.adjusted = changed]
  <2>1. early \in BOOLEAN /\ ~early /\ changed \in BOOLEAN /\ ~w.ghost.unearned
    BY <1>3, <1>17 DEF changed
  <2>2. h \in GhostType /\ h.adjusted = changed /\ SameRun(h, w.ghost)
    BY <1>2, <2>1, AdjustmentKnown
  <2> HIDE DEF h
  <2>3. /\ [h EXCEPT !.unearned = early] \in GhostType
        /\ ~[h EXCEPT !.unearned = early].unearned
        /\ [h EXCEPT !.unearned = early].adjusted = h.adjusted
        /\ [h EXCEPT !.unearned = early].entry = h.entry
        /\ [h EXCEPT !.unearned = early].done = h.done
        /\ [h EXCEPT !.unearned = early].disturbed = h.disturbed
        /\ [h EXCEPT !.unearned = early].served = h.served
        /\ [h EXCEPT !.unearned = early].due = h.due
        /\ [h EXCEPT !.unearned = early].leg = h.leg
    BY <2>1, <2>2 DEF GhostType
  <2>4. g = [h EXCEPT !.unearned = early]
    BY DEF h
  <2> HIDE DEF g
  <2>5. w.ghost.unearned = FALSE /\ g.unearned = FALSE
    <3>1. w.ghost.unearned \in BOOLEAN /\ g.unearned \in BOOLEAN
      BY <1>2, <2>3, <2>4 DEF GhostType
    <3> QED BY <2>1, <2>3, <2>4, <3>1
  <2> QED BY <2>2, <2>3, <2>4, <2>5, Zenon DEF SameRun
<1> HIDE DEF p, g
<1>20. /\ v \in WorldType /\ v.actions = left /\ v.pad = p /\ v.ghost = g
       /\ SameBut(v, w, {"actions", "pad", "ghost"})
  BY <1>10, <1>18, <1>19 DEF WorldType, SameBut, Fields
<1> HIDE DEF v
<1>21. PressesOK(v)
  BY <1>13, <1>15, <1>18, <1>19, <1>20 DEF PressesOK
<1> QED BY <1>1, <1>18, <1>19, <1>20, <1>21

----
(* The frame.                                                                   *)

\* The stick is held by a route that walks.
StickOK(w) ==
    w.pad.leftStick # 0 =>
        /\ w.route.active /\ ~w.route.waiting
        /\ w.route.at \in OnMap(Targets, mapId) /\ IsMovementTarget(Targets[w.route.at])
        /\ w.route.delayAt = 0 /\ w.route.startDelay = 0 /\ ~w.route.menuTas

\* What the frame that leads from w to v may do to the Delay the route stands
\* at, to the script timer and to the approach.
DelaysStood(w, v) ==
    \A d \in DOMAIN Targets :
        /\ d \in ToSet(v.ghost.done) \ ToSet(w.ghost.done)
        /\ Targets[d].type = "Delay"
        => DueServed(w, d)

CountdownHeld(w, v, free) ==
    v.route.delayAt # 0 =>
        /\ v.ghost.served = w.ghost.served
        /\ IF v.route.delayAt = w.route.delayAt
           THEN /\ \/ v.route.delayLeft = w.route.delayLeft
                   \/ free /\ v.route.delayLeft + 1 = w.route.delayLeft
                /\ v.ghost.due = w.ghost.due
           ELSE v.route.delayLeft + 1 = v.ghost.due

TimerEnds(w, v) ==
    w.timer.running /\ ~v.timer.running /\ v.timer.moved =>
        /\ ~v.route.active /\ v.actions = <<>> /\ v.helper.state = "Idle"
        /\ w.ghost.disturbed \/ v.ghost.done = StepsBetween(v.ghost.entry, MaxTargets + 1)

Onward(w, v) ==
    /\ v.route.approach.index # 0 /\ v.route.approach.index = w.route.approach.index
    /\ Targets[v.route.approach.index].type = "Position"
    => w.route.approach.delta * v.route.approach.delta > 0

Updated(w, v, free) ==
    /\ Sound(v) /\ SplitOK(v) /\ StickOK(v)
    /\ DelaysStood(w, v) /\ CountdownHeld(w, v, free) /\ TimerEnds(w, v) /\ Onward(w, v)

\* The world h in which the frame that began in w comes to the route.
Led(w, h) ==
    /\ Sound(h) /\ SplitOK(h) /\ TimerEnds(w, h) /\ h.walk = "on"
    /\ h.ghost.done = w.ghost.done /\ h.ghost.served = w.ghost.served
    /\ h.ghost.due = w.ghost.due
    /\ h.route.delayAt = w.route.delayAt /\ h.route.delayLeft = w.route.delayLeft
    /\ h.route.approach = w.route.approach

LEMMA Squares == ASSUME NEW d \in Int, d # 0 PROVE d * d > 0
<1>1. CASE d > 0
  BY <1>1
<1>2. CASE d < 0
  <2> DEFINE e == -d
  <2>1. e \in Int /\ e > 0 /\ d * d = e * e
    BY <1>2
  <2> HIDE DEF e
  <2>2. e * e > 0
    BY <2>1
  <2> QED BY <2>1, <2>2
<1> QED BY <1>1, <1>2

LEMMA KeepsApproach ==
  ASSUME NEW w, NEW v, Sound(v),
         v.route.approach.index # 0 => v.route.approach = w.route.approach
  PROVE  Onward(w, v)
<1>1. v.route.approach.delta \in Int
  BY DEF Sound, WorldType, RouteType
<1> SUFFICES ASSUME v.route.approach.index # 0,
                    Targets[v.route.approach.index].type = "Position"
             PROVE  w.route.approach.delta * v.route.approach.delta > 0
  BY DEF Onward
<1> DEFINE d == v.route.approach.delta
<1>2. d \in Int /\ d # 0 /\ w.route.approach.delta = d
  BY <1>1 DEF Sound, ApproachOK
<1> HIDE DEF d
<1> QED BY <1>2, Squares DEF d

\* The frame ends where the route waits.
LEMMA WaitUpdates ==
  ASSUME TargetsOK, NEW w, NEW h, Led(w, h), NEW v \in WorldType, NEW free,
         v.route.active = h.route.active, v.route.at = h.route.at,
         v.route.delayAt = h.route.delayAt, v.route.delayLeft = h.route.delayLeft,
         h.route.active \/ v.route.startDelay = h.route.startDelay,
         v.route.approach.index = 0 \/ v.route.approach = h.route.approach,
         v.actions = h.actions, v.timer = h.timer, v.split = h.split, v.helper = h.helper,
         v.ghost = h.ghost, v.pad.leftStick = 0, v.pad.buffered = h.pad.buffered
  PROVE  Updated(w, v, free)
<1>1. PressesOK(v)
  BY PressesCarry DEF Led, Sound
<1>2. Sound(v)
  BY <1>1 DEF Led, Sound, OrderOK, DelayOK, ApproachOK, TimerOK, AllPerformed, LegOK
<1>3. SplitOK(v) /\ StickOK(v)
  BY DEF Led, SplitOK, Neighbours, StickOK
<1>4. DelaysStood(w, v) /\ CountdownHeld(w, v, free) /\ TimerEnds(w, v)
  BY DEF Led, DelaysStood, CountdownHeld, TimerEnds
<1>5. Onward(w, v)
  BY <1>2, KeepsApproach DEF Led
<1> QED BY <1>2, <1>3, <1>4, <1>5 DEF Updated

\* It ends where the loop over the steps does.
LEMMA LoopUpdates ==
  ASSUME TargetsOK, NEW w, NEW h, Led(w, h), h.route.active, NEW v, NEW kinds,
         Consumed(h, v, kinds), NEW free \in BOOLEAN, free \/ h.route.delayAt = 0,
         v.walk = "returned" \/ v.pad.leftStick = 0
  PROVE  Updated(w, v, free)
<1>1. Sound(v) /\ Related(h, v) /\ SplitOK(v) /\ v.pad.leftStick = 0
  BY DEF Consumed, Underway
<1>2. StickOK(v)
  BY <1>1 DEF StickOK
<1>3. DelaysStood(w, v) /\ CountdownHeld(w, v, free)
  BY <1>1 DEF Led, Related, DelaysServed, DelaysStood, DueServed, Countdown, CountdownHeld
<1>4. TimerEnds(w, v)
  <2>1. CASE v.walk = "stopped"
    BY <1>1, <2>1 DEF Consumed, Underway, Sound, TimerOK, TimerEnds
  <2>2. CASE v.walk = "returned"
    BY <2>2 DEF Consumed, Ended, AllPerformed, TimerEnds
  <2> QED BY <2>1, <2>2 DEF Consumed
<1>5. Onward(w, v)
  BY <1>1, KeepsApproach DEF Led, Related
<1> QED BY <1>1, <1>2, <1>3, <1>4, <1>5 DEF Updated

\* The route stopped at c, and then did no more than wait.
LEMMA StopUpdates ==
  ASSUME TargetsOK, NEW w, NEW h, Led(w, h), h.route.active, NEW c, Sound(c), Related(h, c),
         Underway(h, c), c.route.delayAt = 0, NEW v \in WorldType, NEW free,
         v.route.active, v.route.at = c.route.at, v.route.delayAt = 0,
         v.route.approach.index = 0 \/ v.route.approach = c.route.approach,
         v.actions = c.actions, v.timer = c.timer, v.split = c.split, v.helper = c.helper,
         v.ghost = c.ghost, v.pad.leftStick = 0, v.pad.buffered = c.pad.buffered
  PROVE  Updated(w, v, free)
<1>1. PressesOK(v)
  BY PressesCarry DEF Sound
<1>2. Sound(v)
  BY <1>1 DEF Underway, Sound, OrderOK, DelayOK, ApproachOK, TimerOK, LegOK
<1>3. SplitOK(v) /\ StickOK(v)
  BY DEF Underway, SplitOK, Neighbours, StickOK
<1>4. DelaysStood(w, v)
  BY DEF Led, Related, DelaysServed, DelaysStood, DueServed
<1>5. CountdownHeld(w, v, free)
  BY DEF CountdownHeld
<1>6. TimerEnds(w, v)
  BY <1>2 DEF Sound, TimerOK, TimerEnds
<1>7. Onward(w, v)
  BY <1>2, KeepsApproach DEF Led, Related
<1> QED BY <1>2, <1>3, <1>4, <1>5, <1>6, <1>7 DEF Updated

\* A second loop, over all the steps, behind the one over the Delays.
WalkedOn(w, h, v) ==
    /\ Sound(v) /\ DelaysStood(w, v)
    /\ \A free \in BOOLEAN : CountdownHeld(w, v, free)
    /\ v.route.approach.index # 0 => v.route.approach = w.route.approach
    /\ \/ /\ v.walk = "stopped" /\ v.route.active /\ v.route.at # 0 /\ SplitOK(v)
          /\ Stopped(v, TargetType)
          /\ ~v.route.menuTas /\ ~v.route.waiting /\ v.route.startDelay = 0
          /\ v.route.at = h.route.at /\ Targets[v.route.at].type = "Position"
                => v.route.approach = w.route.approach
       \/ v.walk = "returned" /\ v.pad.leftStick = 0 /\ SplitOK(v) /\ Ended(v)

LEMMA SecondLoop ==
  ASSUME TargetsOK, NEW w, NEW h, Led(w, h), h.route.active, h.route.at # 0,
         ~h.route.menuTas, ~h.route.waiting,
         NEW c, Sound(c), Related(h, c), Underway(h, c), Targets[c.route.at].type # "Delay",
         c.route.startDelay = 0, NEW outcome \in Outcomes
  PROVE  WalkedOn(w, h, ConsumeSteps([c EXCEPT !.walk = "on"], TargetType, outcome))
<1> DEFINE u == [c EXCEPT !.walk = "on"]
           v == ConsumeSteps(u, TargetType, outcome)
<1>1. c.route.delayAt = 0
  BY DEF Sound, DelayOK
<1>2. u \in WorldType /\ u.walk = "on" /\ SameBut(u, c, {"walk"})
  BY DEF Sound, WorldType, WalkType, SameBut, Fields
<1> HIDE DEF u
<1>3. /\ u.route = c.route /\ u.actions = c.actions /\ u.timer = c.timer /\ u.split = c.split
      /\ u.pad = c.pad /\ u.helper = c.helper /\ u.ghost = c.ghost
  BY <1>2 DEF SameBut, Fields
<1>4. PressesOK(u)
  BY <1>3, PressesCarry DEF Sound
<1>5. Sound(u) /\ SplitOK(u)
  BY <1>2, <1>3, <1>4
  DEF Sound, OrderOK, DelayOK, ApproachOK, TimerOK, LegOK, Underway, SplitOK, Neighbours
<1>6. u.route.active /\ u.route.at # 0
  BY <1>3 DEF Underway
<1>7. Consumed(u, v, TargetType)
  BY <1>2, <1>5, <1>6, StepsConsumed
<1> HIDE DEF v
<1>8. Sound(v) /\ Related(u, v)
  BY <1>7 DEF Consumed
<1>9. h.route \in RouteType /\ u.route \in RouteType /\ v.route \in RouteType
  BY <1>5, <1>8 DEF Led, Sound, WorldType
<1>10. h.route.at \in Nat /\ u.route.at \in Nat /\ v.route.at \in Nat /\ h.route.at <= u.route.at
  BY <1>3, <1>9 DEF RouteType, Index, Underway, SameStand
<1>11. DelaysStood(w, v)
  <2> SUFFICES ASSUME NEW d \in DOMAIN Targets, d \in ToSet(v.ghost.done), d \notin ToSet(w.ghost.done),
                      Targets[d].type = "Delay"
               PROVE  DueServed(w, d)
    BY DEF DelaysStood
  <2>1. d \in Nat /\ d # 0
    BY DEF TargetsOK
  <2>2. CASE d \in ToSet(c.ghost.done)
    BY <2>2 DEF Led, Related, DelaysServed, DueServed
  <2>3. CASE d \notin ToSet(c.ghost.done)
    <3>1. c.route.at <= d /\ DueServed(u, d)
      BY <1>3, <1>8, <2>3 DEF Related, DelaysServed
    <3>2. Targets[d].frames = 0
      BY <1>1, <1>3, <2>1, <3>1 DEF DueServed
    <3>3. ASSUME w.route.delayAt = d PROVE FALSE
      <4>1. h.route.at = d
        BY <2>1, <3>3 DEF Led, Sound, DelayOK
      <4>2. c.route.at = d
        BY <1>3, <1>10, <2>1, <3>1, <4>1
      <4> QED BY <4>2
    <3> QED BY <3>2, <3>3 DEF DueServed
  <2> QED BY <2>2, <2>3
<1>12. ASSUME NEW free \in BOOLEAN PROVE CountdownHeld(w, v, free)
  <2> SUFFICES ASSUME v.route.delayAt # 0
               PROVE  /\ v.ghost.served = w.ghost.served
                      /\ v.route.delayAt # w.route.delayAt
                      /\ v.route.delayLeft + 1 = v.ghost.due
    BY DEF CountdownHeld
  <2>1. /\ v.ghost.served = w.ghost.served /\ u.route.at <= v.route.at
        /\ v.route.delayLeft + 1 = v.ghost.due
    BY <1>1, <1>3, <1>8 DEF Related, Countdown, Underway, Led
  <2>2. v.route.delayAt = v.route.at /\ Targets[v.route.at].type = "Delay"
    BY <1>8 DEF Sound, DelayOK
  <2>3. ASSUME v.route.delayAt = w.route.delayAt PROVE FALSE
    <3>1. v.route.at = h.route.at
      BY <2>2, <2>3 DEF Led, Sound, DelayOK
    <3>2. u.route.at = v.route.at
      BY <1>10, <2>1, <3>1
    <3> QED BY <1>3, <2>2, <3>2
  <2> QED BY <2>1, <2>3
<1>13. v.route.approach.index # 0 => v.route.approach = w.route.approach
  BY <1>3, <1>8 DEF Related, Led
<1>14. ASSUME v.walk = "stopped"
       PROVE  /\ v.route.active /\ v.route.at # 0 /\ SplitOK(v)
              /\ Stopped(v, TargetType)
              /\ ~v.route.menuTas /\ ~v.route.waiting /\ v.route.startDelay = 0
              /\ v.route.at = h.route.at /\ Targets[v.route.at].type = "Position"
                    => v.route.approach = w.route.approach
  <2>1. Underway(u, v) /\ Stopped(v, TargetType)
    BY <1>7, <1>14 DEF Consumed
  <2>2. ~v.route.menuTas /\ ~v.route.waiting /\ v.route.startDelay = 0
    BY <1>3, <2>1 DEF Underway
  <2>3. ASSUME v.route.at = h.route.at, Targets[v.route.at].type = "Position"
        PROVE  v.route.approach = w.route.approach
    <3>1. SameStand(u, v) /\ u.route.at = h.route.at
      BY <1>10, <2>1, <2>3 DEF Underway, SameStand
    <3>2. SameStand(h, c)
      BY <1>3, <1>10, <3>1 DEF Underway
    <3> QED BY <1>3, <2>3, <3>1, <3>2 DEF SameStand, Led
  <2> QED BY <2>1, <2>2, <2>3 DEF Underway
<1>15. v.walk # "stopped" => v.walk = "returned" /\ v.pad.leftStick = 0 /\ SplitOK(v) /\ Ended(v)
  BY <1>7 DEF Consumed
<1>16. WalkedOn(w, h, v)
  BY <1>8, <1>11, <1>12, <1>13, <1>14, <1>15 DEF WalkedOn
<1> QED BY <1>16 DEF v, u

\* Where the second loop stops the route walks on.
LEMMA SteerUpdates ==
  ASSUME TargetsOK, player \in Int, NEW w, NEW h, Led(w, h), NEW c, WalkedOn(w, h, c),
         c.walk = "stopped", NEW situation, NEW free \in BOOLEAN
  PROVE  Updated(w, SteerTowards(c, situation), free)
<1> DEFINE at == c.route.at
           delta == Delta(at)
           a == [index |-> at, delta |-> delta]
           r == [c.route EXCEPT !.approach = a]
           t == [c EXCEPT !.route = r]
           v == SteerTowards(c, situation)
<1>1. /\ Sound(c) /\ c \in WorldType /\ c.route.active /\ c.route.at # 0 /\ SplitOK(c)
      /\ Stopped(c, TargetType) /\ ~c.route.menuTas /\ ~c.route.waiting
      /\ c.route.startDelay = 0
      /\ at = h.route.at /\ Targets[at].type = "Position" => c.route.approach = w.route.approach
      /\ DelaysStood(w, c) /\ CountdownHeld(w, c, free)
  BY DEF WalkedOn, Sound
<1>2. at \in OnMap(Targets, mapId) /\ at \in DOMAIN Targets /\ at \in Index
  BY <1>1, OnMapIndices DEF Sound, OrderOK, OnMap
<1>3. /\ IsMovementTarget(Targets[at]) /\ Targets[at].type # "Delay"
      /\ Targets[at].type = "Position" => ~Reached(c, at)
  BY <1>1 DEF Stopped, IsMovementTarget, IsMenuTasStep, MenuTasTypes
<1>4. delta \in Int
  <2>1. Targets[at].position \in Int
    BY <1>2, TargetTyped
  <2> QED BY <2>1 DEF Delta
<1>5. Targets[at].type = "Position" => delta # 0
  BY <1>3 DEF Reached
<1>6. c.route.approach \in [index : Index, delta : Int] /\ c.route \in RouteType
  BY <1>1 DEF WorldType, RouteType
<1>7. ASSUME Targets[at].type = "Position", w.route.approach.index = at
      PROVE  w.route.approach.delta * delta > 0
  <2>1. h.route.approach.index = at /\ at # 0
    BY <1>1, <1>7 DEF Led
  <2>2. h.route.at = at
    BY <2>1 DEF Led, Sound, ApproachOK
  <2>3. c.route.approach = w.route.approach
    BY <1>1, <1>7, <2>2
  <2>4. ~(w.route.approach.delta * delta <= 0)
    BY <1>3, <1>7, <2>3 DEF Reached
  <2> DEFINE before == w.route.approach.delta
             product == before * delta
  <2>5. before \in Int
    BY <1>6, <2>3
  <2> HIDE DEF before, delta
  <2>6. product \in Int
    BY <1>4, <2>5
  <2> HIDE DEF product
  <2>7. ~(product <= 0)
    BY <2>4 DEF product, before
  <2>8. product > 0
    BY <2>6, <2>7
  <2> QED BY <2>8 DEF product, before
<1> HIDE DEF delta
<1>8. a \in [index : Index, delta : Int] /\ a.index = at /\ a.delta = delta
  BY <1>2, <1>4
<1> HIDE DEF a
<1>9. /\ r \in RouteType /\ r.approach = a /\ r.active /\ r.at = at /\ ~r.menuTas /\ ~r.waiting
      /\ r.startDelay = 0 /\ r.delayAt = c.route.delayAt /\ r.delayLeft = c.route.delayLeft
  BY <1>1, <1>6, <1>8 DEF RouteType
<1> HIDE DEF r
<1>10. t \in WorldType /\ t.route = r /\ SameBut(t, c, {"route"})
  BY <1>1, <1>9 DEF WorldType, SameBut, Fields
<1>11. t = [c EXCEPT !.route.approach = a]
  BY <1>1, <1>6 DEF WorldType, RouteType, r
<1>12. v = IF situation = "vertical" THEN LeftStickOff(t)
           ELSE [t EXCEPT !.pad.leftStick = Direction(delta)]
  BY <1>11 DEF SteerTowards, a, delta
<1> HIDE DEF t, v
<1>13. v \in WorldType /\ v.pad.buffered = t.pad.buffered /\ SameBut(v, t, {"pad"})
  <2> DEFINE p == [t.pad EXCEPT !.leftStick = Direction(delta)]
  <2>1. t.pad \in PadType
    BY <1>10 DEF WorldType
  <2>2. p \in PadType /\ p.buffered = t.pad.buffered
    BY <2>1 DEF PadType, Direction
  <2>3. [t EXCEPT !.pad.leftStick = Direction(delta)] = [t EXCEPT !.pad = p]
    BY <1>10 DEF WorldType, PadType
  <2> HIDE DEF p
  <2>4. CASE situation = "vertical"
    <3>1. v = LeftStickOff(t)
      BY <1>12, <2>4
    <3>2. v \in WorldType /\ v.pad = [t.pad EXCEPT !.leftStick = 0] /\ SameBut(v, t, {"pad"})
      BY <1>10, <3>1, StickReleased
    <3> QED BY <2>1, <3>2 DEF PadType
  <2>5. CASE situation # "vertical"
    <3>1. v = [t EXCEPT !.pad = p]
      BY <1>12, <2>3, <2>5
    <3> QED BY <1>10, <2>2, <3>1 DEF WorldType, SameBut, Fields
  <2> QED BY <2>4, <2>5
<1>14. /\ v.route = r /\ v.actions = c.actions /\ v.timer = c.timer /\ v.split = c.split
       /\ v.helper = c.helper /\ v.ghost = c.ghost /\ v.pad.buffered = c.pad.buffered
  BY <1>10, <1>13 DEF SameBut, Fields
<1>15. PressesOK(v)
  BY <1>1, <1>14, PressesCarry DEF Sound
<1>16. ApproachOK(v)
  BY <1>3, <1>5, <1>8, <1>9, <1>14 DEF ApproachOK
<1>17. Sound(v)
  BY <1>1, <1>9, <1>13, <1>14, <1>15, <1>16 DEF Sound, OrderOK, DelayOK, TimerOK, LegOK
<1>18. c.route.delayAt = 0
  BY <1>1, <1>3 DEF Sound, DelayOK
<1>19. SplitOK(v) /\ StickOK(v)
  BY <1>1, <1>2, <1>3, <1>9, <1>14, <1>18 DEF SplitOK, Neighbours, StickOK
<1>20. DelaysStood(w, v) /\ CountdownHeld(w, v, free)
  BY <1>1, <1>9, <1>14 DEF DelaysStood, CountdownHeld
<1>21. TimerEnds(w, v)
  BY <1>9, <1>14, <1>17 DEF Sound, TimerOK, TimerEnds
<1>22. Onward(w, v)
  BY <1>7, <1>8, <1>9, <1>14 DEF Onward
<1>23. Updated(w, v, free)
  BY <1>17, <1>19, <1>20, <1>21, <1>22 DEF Updated
<1> QED BY <1>23 DEF v

LEMMA DelaysUpdate ==
  ASSUME TargetsOK, player \in Int, NEW w, NEW h, Led(w, h), h.route.active, h.route.at # 0,
         ~h.route.menuTas, ~h.route.waiting, NEW situation, NEW outcome \in Outcomes,
         NEW free \in BOOLEAN, free
  PROVE  Updated(w, AfterDelays(ConsumeSteps(h, {"Delay"}, outcome), outcome, situation), free)
<1> DEFINE c == ConsumeSteps(h, {"Delay"}, outcome)
           v == AfterDelays(c, outcome, situation)
<1>1. Consumed(h, c, {"Delay"})
  BY StepsConsumed DEF Led
<1> HIDE DEF c
<1>2. Sound(c) /\ Related(h, c) /\ c \in WorldType /\ c.route \in RouteType
  BY <1>1 DEF Consumed, Sound, WorldType
<1>3. CASE c.walk = "returned"
  <2>1. v = c
    BY <1>3 DEF AfterDelays
  <2>2. Updated(w, c, free)
    BY <1>1, <1>2, <1>3, LoopUpdates
  <2> QED BY <2>1, <2>2 DEF c
<1>4. CASE c.walk # "returned"
  <2>1. Underway(h, c) /\ Stopped(c, {"Delay"})
    BY <1>1, <1>4 DEF Consumed
  <2>2. Targets[c.route.at].type # "Delay"
    BY <2>1 DEF Stopped, IsMovementTarget, IsMenuTasStep, MenuTasTypes
  <2>3. c.route.delayAt = 0 /\ c.route.active /\ c.route.startDelay \in Nat
    BY <1>2, <2>1, <2>2 DEF Sound, DelayOK, Underway, RouteType
  <2>4. CASE situation = "nonfinite"
    <3>1. v = LeftStickOff(c)
      BY <1>4, <2>4 DEF AfterDelays
    <3> HIDE DEF v, c
    <3>2. /\ v \in WorldType /\ v.pad = [c.pad EXCEPT !.leftStick = 0]
          /\ SameBut(v, c, {"pad"}) /\ c.pad \in PadType
      BY <1>2, <3>1, StickReleased DEF WorldType
    <3>3. /\ v.route = c.route /\ v.actions = c.actions /\ v.timer = c.timer
          /\ v.split = c.split /\ v.helper = c.helper /\ v.ghost = c.ghost
          /\ v.pad.leftStick = 0 /\ v.pad.buffered = c.pad.buffered
      BY <3>2 DEF SameBut, Fields, PadType
    <3>4. Updated(w, v, free)
      BY <1>2, <2>1, <2>3, <3>2, <3>3, StopUpdates
    <3> QED BY <3>4 DEF v, c
  <2>5. CASE situation # "nonfinite" /\ c.route.startDelay > 0
    <3> DEFINE r == [c.route EXCEPT !.startDelay = c.route.startDelay - 1]
               t == [c EXCEPT !.route = r]
    <3>1. v = StandStill(t)
      BY <1>2, <1>4, <2>5 DEF AfterDelays, WorldType, RouteType
    <3>2. r \in RouteType /\ r.active /\ r.at = c.route.at /\ r.delayAt = 0
      BY <1>2, <2>3, <2>5 DEF RouteType
    <3> HIDE DEF r
    <3>3. t \in WorldType /\ t.route = r /\ SameBut(t, c, {"route"})
      BY <1>2, <3>2 DEF WorldType, SameBut, Fields
    <3> HIDE DEF t, v
    <3>4. /\ v \in WorldType
          /\ v.route = [t.route EXCEPT !.approach = NoApproach]
          /\ v.pad = [t.pad EXCEPT !.leftStick = 0]
          /\ SameBut(v, t, {"route", "pad"}) /\ t.pad \in PadType
      BY <3>1, <3>3, StandStillWorld DEF WorldType
    <3>5. /\ v.route.active /\ v.route.at = c.route.at /\ v.route.delayAt = 0
          /\ v.route.approach.index = 0 /\ v.pad.leftStick = 0
      BY <3>2, <3>3, <3>4, StoppedRouteType DEF RouteType, PadType
    <3>6. /\ v.actions = c.actions /\ v.timer = c.timer /\ v.split = c.split
          /\ v.helper = c.helper /\ v.ghost = c.ghost /\ v.pad.buffered = c.pad.buffered
      BY <3>3, <3>4 DEF SameBut, Fields, PadType
    <3>7. Updated(w, v, free)
      BY <1>2, <2>1, <2>3, <3>4, <3>5, <3>6, StopUpdates
    <3> QED BY <3>7 DEF v, c
  <2>6. CASE situation # "nonfinite" /\ c.route.startDelay = 0
    <3> DEFINE u == ConsumeSteps([c EXCEPT !.walk = "on"], TargetType, outcome)
    <3>1. v = IF u.walk = "returned" THEN u ELSE SteerTowards(u, situation)
      BY <1>4, <2>6 DEF AfterDelays, WalkRoute
    <3>2. WalkedOn(w, h, u)
      BY <1>2, <2>1, <2>2, <2>6, SecondLoop
    <3> HIDE DEF u, v
    <3>3. CASE u.walk = "returned"
      <4>1. /\ Sound(u) /\ SplitOK(u) /\ u.pad.leftStick = 0 /\ Ended(u)
            /\ DelaysStood(w, u) /\ CountdownHeld(w, u, free)
            /\ u.route.approach.index # 0 => u.route.approach = w.route.approach
        BY <1>2, <3>2, <3>3 DEF WalkedOn
      <4>2. StickOK(u)
        BY <4>1 DEF StickOK
      <4>3. TimerEnds(w, u)
        BY <4>1 DEF Ended, AllPerformed, TimerEnds
      <4>4. Onward(w, u)
        BY <4>1, KeepsApproach
      <4>5. Updated(w, u, free)
        BY <4>1, <4>2, <4>3, <4>4 DEF Updated
      <4> QED BY <3>1, <3>3, <4>5 DEF v, c
    <3>4. CASE u.walk # "returned"
      <4>1. u.walk = "stopped"
        BY <3>2, <3>4 DEF WalkedOn
      <4>2. Updated(w, SteerTowards(u, situation), free)
        BY <1>2, <3>2, <4>1, SteerUpdates
      <4> QED BY <3>1, <3>4, <4>2 DEF v, c
    <3> QED BY <3>3, <3>4
  <2>7. situation = "nonfinite" \/ c.route.startDelay > 0 \/ c.route.startDelay = 0
    BY <2>3
  <2> QED BY <2>4, <2>5, <2>6, <2>7
<1> QED BY <1>3, <1>4

\* The route's share of the frame, from the world g.
LEMMA RouteUpdates ==
  ASSUME TargetsOK, player \in Int, NEW w, NEW g, Led(w, g), ~g.route.menuTas,
         NEW situation, NEW outcome \in Outcomes
  PROVE  Updated(w, UpdateRoute(g, outcome, situation), ControlFree(situation))
<1> DEFINE free == ControlFree(situation)
           first == FindFirstTargetForMap(mapId)
           r == [g.route EXCEPT !.at = first]
           h == IF OnCurrentMap(g) THEN g ELSE RepairIndex(g, mapId)
           ready == [h EXCEPT !.route.waiting = FALSE]
           v == UpdateRoute(g, outcome, situation)
<1>0. g \in WorldType /\ g.route \in RouteType /\ g.pad \in PadType /\ g.ghost \in GhostType
      /\ free \in BOOLEAN
  BY DEF Led, Sound, WorldType, ControlFree
<1>1. v = IF ~g.route.active THEN LeftStickOff(g)
          ELSE IF h.route.at = 0 THEN LeftStickOff(h)
          ELSE IF Targets[h.route.at].type = "ShopTas"
               THEN ConsumeSteps(h, TargetType \ {"Position"}, outcome)
          ELSE IF ~free THEN StandStill([h EXCEPT !.route.waiting = TRUE])
          ELSE AfterDelays(ConsumeSteps(ready, {"Delay"}, outcome), outcome, situation)
  BY Zenon DEF UpdateRoute
<1> HIDE DEF free, v, ready
<1>2. CASE ~g.route.active
  <2>1. v = LeftStickOff(g)
    BY <1>1, <1>2
  <2>2. v \in WorldType /\ v.pad = [g.pad EXCEPT !.leftStick = 0] /\ SameBut(v, g, {"pad"})
    BY <1>0, <2>1, StickReleased
  <2>3. /\ v.route = g.route /\ v.actions = g.actions /\ v.timer = g.timer /\ v.split = g.split
        /\ v.helper = g.helper /\ v.ghost = g.ghost
        /\ v.pad.leftStick = 0 /\ v.pad.buffered = g.pad.buffered
    BY <1>0, <2>2 DEF SameBut, Fields, PadType
  <2>4. Updated(w, v, free)
    BY <2>2, <2>3, WaitUpdates
  <2> QED BY <2>4 DEF v, free
<1>3. CASE g.route.active
  <2>1. Led(w, h) /\ h.route.active /\ ~h.route.menuTas
    <3>1. CASE OnCurrentMap(g)
      BY <1>3, <3>1
    <3>2. CASE ~OnCurrentMap(g)
      <4>1. g.route.at = 0
        BY <1>3, <3>2 DEF Led, Sound, OrderOK, OnCurrentMap
      <4>2. first \in Index /\ (first # 0 => first \in OnMap(Targets, mapId)) /\ first \in Nat
        BY FirstIsFirst DEF Index
      <4> HIDE DEF first
      <4>3. /\ r \in RouteType /\ r.at = first /\ r.active = g.route.active
            /\ r.waiting = g.route.waiting /\ r.startDelay = g.route.startDelay
            /\ r.delayAt = g.route.delayAt /\ r.delayLeft = g.route.delayLeft
            /\ r.approach = g.route.approach /\ r.menuTas = g.route.menuTas
        BY <1>0, <4>2 DEF RouteType
      <4> DEFINE none == <<>>
                 kept == FALSE
                 e == [[[g.ghost EXCEPT !.entry = first] EXCEPT !.done = none]
                          EXCEPT !.disturbed = kept]
      <4>4. h = [[g EXCEPT !.route = r] EXCEPT !.ghost = e]
        BY <1>0, <3>2 DEF RepairIndex, WorldType, RouteType, GhostType, first
      <4>5. none \in Seq(Nat) /\ kept \in BOOLEAN
        OBVIOUS
      <4> HIDE DEF none, kept
      <4>6. /\ e \in GhostType /\ e.entry = first /\ e.done = none
            /\ e.served = g.ghost.served /\ e.due = g.ghost.due /\ e.leg = g.ghost.leg
            /\ e.adjusted = g.ghost.adjusted /\ e.unearned = g.ghost.unearned
        BY <1>0, <4>2, <4>5 DEF GhostType
      <4> HIDE DEF r, e, h
      <4>7. /\ h \in WorldType /\ h.route = r /\ h.ghost = e
            /\ SameBut(h, g, {"route", "ghost"})
        BY <1>0, <4>3, <4>4, <4>6 DEF WorldType, SameBut, Fields
      <4>8. /\ h.actions = g.actions /\ h.timer = g.timer /\ h.split = g.split
            /\ h.pad = g.pad /\ h.helper = g.helper /\ h.walk = g.walk
        BY <4>7 DEF SameBut, Fields
      <4>9. PressesOK(h)
        BY <4>6, <4>7, <4>8, PressesCarry DEF Led, Sound
      <4>10. g.ghost.entry \in Nat /\ g.ghost.entry <= 0 /\ g.ghost.done = StepsBetween(g.ghost.entry, 0)
        BY <1>0, <1>3, <4>1 DEF Led, Sound, OrderOK, GhostType, Index
      <4>11. g.ghost.entry = 0
        BY <4>10
      <4>12. g.ghost.done = none
        BY <4>10, <4>11, NothingBetween DEF none
      <4>13. OrderOK(h)
        <5>1. StepsBetween(first, first) = none
          BY <4>2, NothingBetween DEF none
        <5>2. first <= first
          BY <4>2
        <5> QED BY <4>2, <4>3, <4>6, <4>7, <5>1, <5>2 DEF OrderOK
      <4>14. g.route.delayAt = 0 /\ g.route.approach.index = 0
        BY <4>1 DEF Led, Sound, DelayOK, ApproachOK
      <4>15. DelayOK(h) /\ ApproachOK(h)
        BY <4>3, <4>7, <4>14 DEF DelayOK, ApproachOK
      <4>16. TimerOK(h)
        BY <1>3, <4>3, <4>7, <4>8 DEF Led, Sound, TimerOK
      <4>17. g.split.origin = 0
        <5>1. g.split.origin \in Nat
          BY <1>0 DEF WorldType, SplitType, Index
        <5> QED BY <1>3, <4>1, <5>1 DEF Led, SplitOK
      <4>18. SplitOK(h)
        BY <4>8, <4>17 DEF SplitOK
      <4>19. g.ghost.leg = <<0, 0>> \/ g.ghost.leg[1] < g.ghost.entry
             \/ g.ghost.leg[2] = FindNextMovementTargetForMap(g.ghost.leg[1], mapId)
        BY DEF Led, Sound, LegOK
      <4>20. LegOK(h)
        <5>1. g.ghost.leg[1] \in Nat
          BY <1>0 DEF GhostType, Index
        <5> QED BY <4>6, <4>7, <4>11, <4>19, <5>1 DEF LegOK
      <4>21. TimerEnds(w, h)
        BY <1>3, <4>8 DEF Led, Sound, TimerOK, TimerEnds
      <4> QED BY <1>3, <4>3, <4>6, <4>7, <4>8, <4>9, <4>12, <4>13, <4>15, <4>16, <4>18, <4>20, <4>21
          DEF Led, Sound
    <3> QED BY <3>1, <3>2
  <2> HIDE DEF h
  <2>2. h \in WorldType /\ h.route \in RouteType /\ h.pad \in PadType
    BY <2>1 DEF Led, Sound, WorldType
  <2>3. CASE h.route.at = 0
    <3>1. v = LeftStickOff(h)
      BY <1>1, <1>3, <2>3
    <3>2. v \in WorldType /\ v.pad = [h.pad EXCEPT !.leftStick = 0] /\ SameBut(v, h, {"pad"})
      BY <2>2, <3>1, StickReleased
    <3>3. /\ v.route = h.route /\ v.actions = h.actions /\ v.timer = h.timer /\ v.split = h.split
          /\ v.helper = h.helper /\ v.ghost = h.ghost
          /\ v.pad.leftStick = 0 /\ v.pad.buffered = h.pad.buffered
      BY <2>2, <3>2 DEF SameBut, Fields, PadType
    <3>4. Updated(w, v, free)
      BY <2>1, <3>2, <3>3, WaitUpdates
    <3> QED BY <3>4 DEF v, free
  <2>4. CASE h.route.at # 0 /\ Targets[h.route.at].type = "ShopTas"
    <3> DEFINE kinds == TargetType \ {"Position"}
    <3>1. v = ConsumeSteps(h, kinds, outcome)
      BY <1>1, <1>3, <2>4
    <3>2. "ShopTas" \in kinds /\ kinds # TargetType
      BY DEF TargetType, SpecialTypes
    <3> HIDE DEF kinds
    <3>3. Consumed(h, v, kinds)
      BY <2>1, <2>4, <3>1, StepsConsumed DEF Led
    <3>4. h.route.delayAt = 0
      BY <2>1, <2>4 DEF Led, Sound, DelayOK
    <3>5. v.walk = "returned" \/ v.pad.leftStick = 0
      <4> SUFFICES ASSUME v.walk # "returned", v.pad.leftStick # 0 PROVE FALSE
        OBVIOUS
      <4>1. Stopped(v, kinds) /\ Related(h, v)
        BY <3>3 DEF Consumed
      <4>2. v.route.at = h.route.at
        BY <2>4, <4>1 DEF Related
      <4> QED BY <2>4, <3>2, <4>1, <4>2
          DEF Stopped, IsMovementTarget, IsMenuTasStep, MenuTasTypes
    <3>6. Updated(w, v, free)
      BY <1>0, <2>1, <3>3, <3>4, <3>5, LoopUpdates
    <3> QED BY <3>6 DEF v, free
  <2>5. CASE h.route.at # 0 /\ Targets[h.route.at].type # "ShopTas" /\ ~free
    <3> DEFINE yes == TRUE
               q == [h.route EXCEPT !.waiting = yes]
               t == [h EXCEPT !.route = q]
    <3>1. v = StandStill(t)
      BY <1>1, <1>3, <2>2, <2>5 DEF WorldType, RouteType
    <3>2. yes \in BOOLEAN
      OBVIOUS
    <3> HIDE DEF yes
    <3>3. /\ q \in RouteType /\ q.active = h.route.active /\ q.at = h.route.at
          /\ q.delayAt = h.route.delayAt /\ q.delayLeft = h.route.delayLeft
      BY <2>2, <3>2 DEF RouteType
    <3> HIDE DEF q
    <3>4. t \in WorldType /\ t.route = q /\ SameBut(t, h, {"route"})
      BY <2>2, <3>3 DEF WorldType, SameBut, Fields
    <3> HIDE DEF t
    <3>5. /\ v \in WorldType
          /\ v.route = [t.route EXCEPT !.approach = NoApproach]
          /\ v.pad = [t.pad EXCEPT !.leftStick = 0]
          /\ SameBut(v, t, {"route", "pad"}) /\ t.pad \in PadType
      BY <3>1, <3>4, StandStillWorld DEF WorldType
    <3>6. /\ v.route.active = h.route.active /\ v.route.at = h.route.at
          /\ v.route.delayAt = h.route.delayAt /\ v.route.delayLeft = h.route.delayLeft
          /\ v.route.approach.index = 0 /\ v.pad.leftStick = 0
      BY <3>3, <3>4, <3>5, StoppedRouteType DEF RouteType, PadType
    <3>7. /\ v.actions = h.actions /\ v.timer = h.timer /\ v.split = h.split
          /\ v.helper = h.helper /\ v.ghost = h.ghost /\ v.pad.buffered = h.pad.buffered
      BY <3>4, <3>5 DEF SameBut, Fields, PadType
    <3>8. Updated(w, v, free)
      BY <2>1, <3>5, <3>6, <3>7, WaitUpdates
    <3> QED BY <3>8 DEF v, free
  <2>6. CASE h.route.at # 0 /\ Targets[h.route.at].type # "ShopTas" /\ free
    <3> DEFINE no == FALSE
               q == [h.route EXCEPT !.waiting = no]
    <3>1. v = AfterDelays(ConsumeSteps(ready, {"Delay"}, outcome), outcome, situation)
      BY <1>1, <1>3, <2>6
    <3>2. ready = [h EXCEPT !.route = q]
      BY <2>2 DEF ready, WorldType, RouteType
    <3>3. no \in BOOLEAN /\ ~no
      OBVIOUS
    <3> HIDE DEF no
    <3>4. /\ q \in RouteType /\ q.active = h.route.active /\ q.at = h.route.at
          /\ q.delayAt = h.route.delayAt /\ q.delayLeft = h.route.delayLeft
          /\ q.startDelay = h.route.startDelay
          /\ q.approach = h.route.approach /\ q.menuTas = h.route.menuTas /\ ~q.waiting
      BY <2>2, <3>3 DEF RouteType
    <3> HIDE DEF q
    <3>5. ready \in WorldType /\ ready.route = q /\ SameBut(ready, h, {"route"})
      BY <2>2, <3>2, <3>4 DEF WorldType, SameBut, Fields
    <3>6. /\ ready.actions = h.actions /\ ready.timer = h.timer /\ ready.split = h.split
          /\ ready.pad = h.pad /\ ready.helper = h.helper /\ ready.ghost = h.ghost
          /\ ready.walk = h.walk
      BY <3>5 DEF SameBut, Fields
    <3>7. PressesOK(ready)
      BY <2>1, <3>6, PressesCarry DEF Led, Sound
    <3>8. Sound(ready) /\ SplitOK(ready)
      <4>1. OrderOK(ready) /\ LegOK(ready)
        BY <2>1, <3>4, <3>5, <3>6 DEF Led, Sound, OrderOK, LegOK
      <4>2. DelayOK(ready) /\ ApproachOK(ready) /\ TimerOK(ready)
        BY <2>1, <3>4, <3>5, <3>6 DEF Led, Sound, DelayOK, ApproachOK, TimerOK, AllPerformed
      <4>3. SplitOK(ready)
        BY <2>1, <3>4, <3>5, <3>6 DEF Led, SplitOK, Neighbours
      <4> QED BY <3>5, <3>7, <4>1, <4>2, <4>3 DEF Sound
    <3>9. TimerEnds(w, ready)
      BY <2>1, <3>4, <3>5, <3>6 DEF Led, TimerEnds
    <3>10. Led(w, ready)
      BY <2>1, <3>4, <3>5, <3>6, <3>8, <3>9 DEF Led
    <3>11. Updated(w, AfterDelays(ConsumeSteps(ready, {"Delay"}, outcome), outcome, situation), free)
      BY <1>0, <2>1, <2>6, <3>4, <3>5, <3>10, DelaysUpdate
    <3> QED BY <3>1, <3>11 DEF v, free
  <2> QED BY <2>3, <2>4, <2>5, <2>6
<1> QED BY <1>2, <1>3

\* What holds of the state's world, between two handlers.
Steady(w) ==
    /\ w \in WorldType
    /\ PressesOK(w) /\ OrderOK(w) /\ DelayOK(w) /\ ApproachOK(w) /\ TimerOK(w) /\ SplitOK(w)

LEMMA FrameUpdates ==
  ASSUME TargetsOK, player \in Int, Steady(World), NEW situation, NEW outcome \in Outcomes
  PROVE  Updated(World, UpdateFrame(situation, outcome), ControlFree(situation))
<1> DEFINE w == World
           free == ControlFree(situation)
           nowhere == NoGhost.leg
           tm == [w.timer EXCEPT !.frames = IF w.timer.running THEN Tick(w.timer.frames) ELSE w.timer.frames]
           sp == [w.split EXCEPT !.frames = IF w.split.running THEN Tick(w.split.frames) ELSE w.split.frames]
           gh == [w.ghost EXCEPT !.leg = nowhere]
           t == [[[w EXCEPT !.ghost = gh] EXCEPT !.timer = tm] EXCEPT !.split = sp]
           a == UpdateActiveAction(t, free)
           m == MenuTasOver(a)
           g == TryCompleteScriptTimer(m)
           v == UpdateFrame(situation, outcome)
<1>1. timer = w.timer /\ split = w.split /\ w.walk = "on"
  BY DEF World
<1> HIDE DEF w
<1>2. /\ w \in WorldType /\ w.timer \in TimerType /\ w.split \in SplitType
      /\ w.ghost \in GhostType /\ free \in BOOLEAN
      /\ PressesOK(w) /\ OrderOK(w) /\ DelayOK(w) /\ ApproachOK(w) /\ TimerOK(w) /\ SplitOK(w)
  BY DEF Steady, WorldType, ControlFree, w
<1>3. v = IF a.route.menuTas /\ MenuPlaybackPending(a) THEN StandStill(a)
          ELSE UpdateRoute(g, outcome, situation)
  <2>1. [w EXCEPT !.ghost.leg = NoGhost.leg,
                  !.timer.frames = IF timer.running THEN Tick(@) ELSE @,
                  !.split.frames = IF split.running THEN Tick(@) ELSE @] = t
    BY <1>1, <1>2 DEF WorldType, TimerType, SplitType, GhostType
  <2> HIDE DEF t
  <2> QED BY <2>1 DEF UpdateFrame, w
<1>4. MaxFrames \in Nat
  BY TargetingAssumption
<1>5. tm \in TimerType /\ tm.running = w.timer.running /\ tm.moved = w.timer.moved
  <2>1. w.timer.frames \in Counter /\ (\A n \in Counter : Tick(n) \in Counter)
    BY <1>2, <1>4 DEF TimerType, Counter, Tick
  <2> QED BY <1>2, <2>1 DEF TimerType
<1>6. sp \in SplitType /\ sp.running = w.split.running /\ sp.origin = w.split.origin
  <2>1. w.split.frames \in Counter /\ (\A n \in Counter : Tick(n) \in Counter)
    BY <1>2, <1>4 DEF SplitType, Counter, Tick
  <2> QED BY <1>2, <2>1 DEF SplitType
<1>7. nowhere = <<0, 0>> /\ nowhere \in Index \X Index
  BY NoGhostType DEF GhostType
<1> HIDE DEF tm, sp, nowhere
<1>8. /\ gh \in GhostType /\ gh.leg = nowhere /\ gh.entry = w.ghost.entry
      /\ gh.done = w.ghost.done /\ gh.served = w.ghost.served /\ gh.due = w.ghost.due
      /\ gh.disturbed = w.ghost.disturbed
      /\ gh.adjusted = w.ghost.adjusted /\ gh.unearned = w.ghost.unearned
  BY <1>2, <1>7 DEF GhostType
<1> HIDE DEF gh, v
<1>9. /\ t \in WorldType /\ t.timer = tm /\ t.split = sp /\ t.ghost = gh
      /\ SameBut(t, w, {"timer", "split", "ghost"})
  BY <1>2, <1>5, <1>6, <1>8 DEF WorldType, SameBut, Fields
<1> HIDE DEF t
<1>10. /\ t.route = w.route /\ t.actions = w.actions /\ t.pad = w.pad /\ t.helper = w.helper
       /\ t.skips = w.skips /\ t.walk = w.walk
  BY <1>9 DEF SameBut, Fields
<1>11. PressesOK(t)
  BY <1>2, <1>8, <1>9, <1>10, PressesCarry
<1>12. /\ a \in WorldType /\ PressesOK(a)
       /\ SameBut(a, t, {"actions", "pad", "ghost"})
       /\ a.pad.leftStick = t.pad.leftStick
       /\ SameRun(a.ghost, t.ghost)
  BY <1>2, <1>9, <1>11, ActionsUpdated
<1> HIDE DEF a
<1>13. /\ a.route = w.route /\ a.timer = tm /\ a.split = sp /\ a.helper = w.helper
       /\ a.walk = "on" /\ a.pad.leftStick = w.pad.leftStick
       /\ a.ghost.entry = w.ghost.entry /\ a.ghost.done = w.ghost.done
       /\ a.ghost.served = w.ghost.served /\ a.ghost.leg = <<0, 0>>
       /\ a.ghost.due = w.ghost.due /\ a.ghost.disturbed = w.ghost.disturbed
       /\ a.route \in RouteType /\ a.pad \in PadType
  BY <1>1, <1>7, <1>8, <1>9, <1>10, <1>12 DEF SameRun, SameBut, Fields, WorldType
<1>14. Sound(a) /\ SplitOK(a)
  BY <1>2, <1>5, <1>6, <1>12, <1>13
  DEF Sound, OrderOK, DelayOK, ApproachOK, TimerOK, AllPerformed, LegOK, SplitOK, Neighbours
<1>15. CASE a.route.menuTas /\ MenuPlaybackPending(a)
  <2>1. v = StandStill(a)
    BY <1>3, <1>15
  <2>2. /\ v \in WorldType
        /\ v.route = [a.route EXCEPT !.approach = NoApproach]
        /\ v.pad = [a.pad EXCEPT !.leftStick = 0]
        /\ SameBut(v, a, {"route", "pad"})
    BY <1>12, <2>1, StandStillWorld
  <2>3. /\ v.route.active = a.route.active /\ v.route.at = a.route.at
        /\ v.route.delayAt = a.route.delayAt /\ v.route.delayLeft = a.route.delayLeft
        /\ v.route.startDelay = a.route.startDelay
        /\ v.route.approach.index = 0 /\ v.pad.leftStick = 0
        /\ v.pad.buffered = a.pad.buffered
    BY <1>13, <2>2, StoppedRouteType DEF RouteType, PadType
  <2>4. /\ v.actions = a.actions /\ v.timer = a.timer /\ v.split = a.split
        /\ v.helper = a.helper /\ v.ghost = a.ghost
    BY <2>2 DEF SameBut, Fields
  <2>5. TimerEnds(w, a)
    BY <1>5, <1>13 DEF TimerEnds
  <2>6. Led(w, a)
    BY <1>13, <1>14, <2>5 DEF Led
  <2>7. Updated(w, v, free)
    BY <2>2, <2>3, <2>4, <2>6, WaitUpdates
  <2> QED BY <2>7 DEF v, w
<1>16. CASE ~(a.route.menuTas /\ MenuPlaybackPending(a))
  <2> DEFINE no == FALSE
             r == [a.route EXCEPT !.menuTas = no]
  <2>1. m = [a EXCEPT !.route = r]
    BY <1>12, <1>13 DEF MenuTasOver, WorldType, RouteType
  <2>2. no \in BOOLEAN /\ ~no
    OBVIOUS
  <2> HIDE DEF no
  <2>3. /\ r \in RouteType /\ r.active = a.route.active /\ r.at = a.route.at
        /\ r.startDelay = a.route.startDelay /\ ~r.menuTas
        /\ r.delayAt = a.route.delayAt /\ r.delayLeft = a.route.delayLeft
        /\ r.approach = a.route.approach
    BY <1>13, <2>2 DEF RouteType
  <2> HIDE DEF r, m
  <2>4. m \in WorldType /\ m.route = r /\ SameBut(m, a, {"route"})
    BY <1>12, <2>1, <2>3 DEF WorldType, SameBut, Fields
  <2>5. /\ g \in WorldType /\ g.timer.moved = m.timer.moved /\ SameBut(g, m, {"timer"})
        /\ \/ g.timer.running = m.timer.running
           \/ /\ m.timer.moved /\ ~g.timer.running
              /\ m.actions = <<>> /\ m.helper.state = "Idle"
    BY <2>4, CompletedTimer
  <2> HIDE DEF g
  <2>6. /\ g.route = r /\ g.actions = a.actions /\ g.split = sp /\ g.pad = a.pad
        /\ g.helper = a.helper /\ g.ghost = a.ghost /\ g.walk = "on"
        /\ m.actions = a.actions /\ m.helper = a.helper /\ m.timer = tm
    BY <1>13, <2>4, <2>5 DEF SameBut, Fields
  <2>7. PressesOK(g)
    BY <1>12, <2>6, PressesCarry
  <2>8. /\ g.timer.moved = w.timer.moved
        /\ \/ g.timer.running = w.timer.running
           \/ w.timer.moved /\ ~g.timer.running /\ g.actions = <<>> /\ g.helper.state = "Idle"
    BY <1>5, <2>5, <2>6
  <2>9. TimerOK(g)
    BY <1>2, <1>13, <2>3, <2>6, <2>8 DEF TimerOK, AllPerformed
  <2>10. Sound(g) /\ SplitOK(g)
    BY <1>13, <1>14, <2>3, <2>5, <2>6, <2>7, <2>9
    DEF Sound, OrderOK, DelayOK, ApproachOK, LegOK, SplitOK, Neighbours
  <2>11. TimerEnds(w, g)
    BY <1>2, <1>13, <2>3, <2>6, <2>8 DEF TimerOK, AllPerformed, TimerEnds
  <2>12. Led(w, g)
    BY <1>13, <2>3, <2>6, <2>10, <2>11 DEF Led
  <2>13. Updated(w, UpdateRoute(g, outcome, situation), free)
    BY <2>3, <2>6, <2>12, RouteUpdates
  <2>14. v = UpdateRoute(g, outcome, situation)
    BY <1>3, <1>16
  <2> QED BY <2>13, <2>14 DEF v, w
<1> QED BY <1>15, <1>16

\* A Delay's frames are those it was stood at and those it still has.
Earned(w) ==
    w.route.delayAt # 0 =>
        w.ghost.served + w.route.delayLeft >= w.ghost.due

\* What a frame makes of the world w.
Counted(w, v) ==
    /\ Steady(v) /\ Earned(v) /\ StickOK(v) /\ LegOK(v)
    /\ DelaysStood(w, v) /\ TimerEnds(w, v) /\ Onward(w, v)

LEMMA FrameCounted ==
  ASSUME TargetsOK, player \in Int, Steady(World), Earned(World),
         NEW situation, NEW outcome \in Outcomes
  PROVE  Counted(World, CountServed(UpdateFrame(situation, outcome), situation))
<1> DEFINE w == World
           free == ControlFree(situation)
           u == UpdateFrame(situation, outcome)
           n == IF u.route.at = 0 \/ u.route.at # u.route.delayAt THEN 0
                ELSE IF w.route.delayAt # u.route.at THEN 1
                ELSE IF free THEN u.ghost.served + 1 ELSE u.ghost.served
           g == [u.ghost EXCEPT !.served = n]
           v == CountServed(u, situation)
<1>1. Updated(w, u, free)
  BY FrameUpdates
<1>2. route = w.route
  BY DEF World
<1>3. Earned(w)
  OBVIOUS
<1> HIDE DEF w, u
<1>4. u \in WorldType /\ u.ghost \in GhostType /\ u.ghost.served \in Nat
  BY <1>1 DEF Updated, Sound, WorldType, GhostType
<1>5. v = [u EXCEPT !.ghost = g]
  BY <1>2, <1>4 DEF CountServed, WorldType, GhostType
<1>6. n \in Nat
  BY <1>4
<1> HIDE DEF free, v
<1>7. Earned(v)
  <2> SUFFICES ASSUME v.route.delayAt # 0
               PROVE  v.ghost.served + v.route.delayLeft >= v.ghost.due
    BY DEF Earned
  <2>1. v.route = u.route /\ v.ghost.served = n /\ v.ghost.due = u.ghost.due
    BY <1>4, <1>5 DEF WorldType, GhostType
  <2>2. /\ u.route.at = u.route.delayAt /\ u.route.at # 0 /\ u.route.at \in DOMAIN Targets
        /\ CountdownHeld(w, u, free)
    BY <1>1, <2>1 DEF Updated, Sound, DelayOK
  <2>3. u.route.delayLeft \in Nat
    BY <1>4 DEF WorldType, RouteType
  <2>4. u.ghost.due \in Nat
    BY <1>4 DEF GhostType
  <2>5. CASE u.route.delayAt = w.route.delayAt
    <3>1. n = IF free THEN u.ghost.served + 1 ELSE u.ghost.served
      BY <2>2, <2>5
    <3>2. /\ u.ghost.served = w.ghost.served /\ u.ghost.due = w.ghost.due
          /\ \/ u.route.delayLeft = w.route.delayLeft
             \/ free /\ u.route.delayLeft + 1 = w.route.delayLeft
      BY <2>2, <2>5 DEF CountdownHeld
    <3>3. w.ghost.served + w.route.delayLeft >= u.ghost.due
      BY <1>3, <2>2, <2>5, <3>2 DEF Earned
    <3> HIDE DEF n
    <3>4. CASE u.route.delayLeft = w.route.delayLeft
      BY <1>4, <2>1, <2>3, <2>4, <3>1, <3>2, <3>3, <3>4
    <3>5. CASE free /\ u.route.delayLeft + 1 = w.route.delayLeft
      <4>1. n = u.ghost.served + 1 /\ w.route.delayLeft = u.route.delayLeft + 1
        BY <3>1, <3>5
      <4> QED BY <1>4, <2>1, <2>3, <2>4, <3>2, <3>3, <4>1
    <3> QED BY <3>2, <3>4, <3>5
  <2>6. CASE u.route.delayAt # w.route.delayAt
    <3>1. n = 1
      BY <2>2, <2>6
    <3>2. u.route.delayLeft + 1 = u.ghost.due
      BY <2>2, <2>6 DEF CountdownHeld
    <3> HIDE DEF n
    <3> QED BY <2>1, <2>3, <2>4, <3>1, <3>2
  <2> QED BY <2>5, <2>6
<1> HIDE DEF n
<1>8. /\ g \in GhostType /\ g.entry = u.ghost.entry /\ g.done = u.ghost.done
      /\ g.due = u.ghost.due /\ g.disturbed = u.ghost.disturbed
      /\ g.leg = u.ghost.leg /\ g.adjusted = u.ghost.adjusted /\ g.unearned = u.ghost.unearned
  BY <1>4, <1>6 DEF GhostType
<1> HIDE DEF g
<1>9. v \in WorldType /\ v.ghost = g /\ SameBut(v, u, {"ghost"})
  BY <1>4, <1>5, <1>8 DEF WorldType, SameBut, Fields
<1>10. /\ v.route = u.route /\ v.actions = u.actions /\ v.timer = u.timer /\ v.split = u.split
       /\ v.pad = u.pad /\ v.helper = u.helper
  BY <1>9 DEF SameBut, Fields
<1>11. PressesOK(v)
  BY <1>1, <1>8, <1>9, <1>10, PressesCarry DEF Updated, Sound
<1>12. Steady(v) /\ LegOK(v)
  BY <1>1, <1>8, <1>9, <1>10, <1>11
  DEF Updated, Steady, Sound, OrderOK, DelayOK, ApproachOK, TimerOK, AllPerformed, LegOK,
      SplitOK, Neighbours
<1>13. StickOK(v) /\ DelaysStood(w, v) /\ TimerEnds(w, v) /\ Onward(w, v)
  BY <1>1, <1>8, <1>9, <1>10 DEF Updated, StickOK, DelaysStood, DueServed, TimerEnds, Onward
<1> QED BY <1>7, <1>12, <1>13 DEF Counted, v, w, u

----
(* The invariant.                                                               *)

\* Nothing of the route outlives the beginning of a transition.
Still(w) == w.pad.leftStick = 0 /\ w.route.delayAt = 0 /\ w.route.approach.index = 0

Inv ==
    /\ TargetsOK /\ mapId \in Map /\ player \in Place
    /\ options \in [fromSelection : BOOLEAN, warp : BOOLEAN] /\ SceneTransitionTypeOK
    /\ Steady(World) /\ Earned(World) /\ StickOK(World)
    /\ IsSceneTransitionActive => Still(World)

LEMMA WorldIs ==
    /\ World.route = route /\ World.actions = activeActions /\ World.timer = timer
    /\ World.split = split /\ World.pad = pad /\ World.helper = helper
    /\ World.skips = AutoCutsceneSkips /\ World.ghost = ghost /\ World.walk = "on"
  BY DEF World

LEMMA WorldParts ==
  ASSUME World \in WorldType
  PROVE  /\ route \in RouteType /\ activeActions \in Seq(ActiveAction) /\ timer \in TimerType
         /\ split \in SplitType /\ pad \in PadType /\ helper \in HelperStates
         /\ AutoCutsceneSkips \in BOOLEAN /\ ghost \in GhostType
  BY WorldIs DEF WorldType

\* A handler's world becomes the state's.
LEMMA WorldBecomes ==
  ASSUME NEW w \in WorldType, Becomes(w)
  PROVE  /\ World' \in WorldType /\ WorldType' = WorldType
         /\ World'.route = w.route /\ World'.actions = w.actions /\ World'.timer = w.timer
         /\ World'.split = w.split /\ World'.pad = w.pad /\ World'.helper = w.helper
         /\ World'.skips = w.skips /\ World'.ghost = w.ghost /\ World'.walk = "on"
<1>1. World' = [w EXCEPT !.walk = "on"]
  BY DEF World, Becomes, WorldType
<1>2. World' \in WorldType
  BY <1>1 DEF WorldType, WalkType
<1>3. WorldType' = WorldType
  BY DEF WorldType
<1> QED BY <1>2, <1>3 DEF World, Becomes

LEMMA Carried ==
  ASSUME NEW w, Becomes(w), UNCHANGED <<Targets, mapId>>,
         Steady(w), Earned(w), StickOK(w)
  PROVE  Steady(World)' /\ Earned(World)' /\ StickOK(World)'
<1>1. /\ World' \in WorldType /\ WorldType' = WorldType
      /\ World'.route = w.route /\ World'.actions = w.actions /\ World'.timer = w.timer
      /\ World'.split = w.split /\ World'.pad = w.pad /\ World'.helper = w.helper
      /\ World'.skips = w.skips /\ World'.ghost = w.ghost /\ World'.walk = "on"
  BY WorldBecomes DEF Steady
<1>3. PressesOK(World)'
  BY <1>1 DEF Steady, PressesOK, OwesItsOwn, AsAsked
<1>4. OrderOK(World)'
  BY <1>1 DEF Steady, OrderOK, StepsBetween
<1>5. DelayOK(World)' /\ ApproachOK(World)' /\ TimerOK(World)'
  BY <1>1 DEF Steady, DelayOK, ApproachOK, TimerOK, AllPerformed, StepsBetween
<1>6. SplitOK(World)'
  BY <1>1 DEF Steady, SplitOK, Neighbours
<1>7. Earned(World)' /\ StickOK(World)'
  BY <1>1 DEF Earned, StickOK
<1> QED BY <1>1, <1>3, <1>4, <1>5, <1>6, <1>7 DEF Steady

\* A route that does not run is in order on whatever steps and map.
Quiet(w) ==
    /\ w \in WorldType
    /\ ~w.route.active /\ w.route.delayAt = 0 /\ w.route.approach.index = 0
    /\ w.route.startDelay = 0 /\ ~w.timer.moved
    /\ w.actions = <<>> /\ w.pad.buffered = {} /\ w.pad.leftStick = 0 /\ ~w.ghost.unearned

LEMMA QuietWorld ==
  ASSUME NEW w, Quiet(w), Becomes(w)
  PROVE  Steady(World)' /\ Earned(World)' /\ StickOK(World)' /\ Still(World)'
<1>1. /\ World' \in WorldType /\ WorldType' = WorldType
      /\ World'.route = w.route /\ World'.actions = w.actions /\ World'.timer = w.timer
      /\ World'.split = w.split /\ World'.pad = w.pad /\ World'.helper = w.helper
      /\ World'.skips = w.skips /\ World'.ghost = w.ghost /\ World'.walk = "on"
  BY WorldBecomes DEF Quiet
<1>2. DOMAIN World'.actions = {}
  BY <1>1 DEF Quiet
<1>3. PressesOK(World)'
  BY <1>1, <1>2 DEF Quiet, PressesOK
<1>4. OrderOK(World)' /\ DelayOK(World)' /\ ApproachOK(World)' /\ TimerOK(World)' /\ SplitOK(World)'
  BY <1>1 DEF Quiet, OrderOK, DelayOK, ApproachOK, TimerOK, SplitOK
<1>5. Earned(World)' /\ StickOK(World)' /\ Still(World)'
  BY <1>1 DEF Quiet, Earned, StickOK, Still
<1> QED BY <1>1, <1>3, <1>4, <1>5 DEF Steady

LEMMA StoppedIsQuiet ==
  ASSUME Steady(World)
  PROVE  Quiet(StopRoute(World))
  BY StoppedWorld, StoppedRouteType DEF Quiet, Steady, PressesOK

\* What the route does not look at may change.
LEMMA Unmoved ==
  ASSUME Steady(World), Earned(World), StickOK(World),
         UNCHANGED <<Targets, mapId, route, activeActions, split, pad, AutoCutsceneSkips, ghost>>,
         timer' \in TimerType, timer'.running = timer.running, timer'.moved = timer.moved,
         helper' \in HelperStates
  PROVE  Steady(World)' /\ Earned(World)' /\ StickOK(World)'
<1> DEFINE w == [[World EXCEPT !.timer = timer'] EXCEPT !.helper = helper']
<1>1. World \in WorldType
  BY DEF Steady
<1>2. /\ w \in WorldType /\ w.route = route /\ w.actions = activeActions /\ w.timer = timer'
      /\ w.split = split /\ w.pad = pad /\ w.helper = helper' /\ w.ghost = ghost
      /\ w.skips = AutoCutsceneSkips
  BY <1>1, WorldIs DEF WorldType
<1>3. Becomes(w)
  BY <1>2 DEF Becomes
<1> HIDE DEF w
<1>4. PressesOK(w)
  BY <1>2, WorldIs, PressesCarry DEF Steady
<1>5. Steady(w) /\ Earned(w) /\ StickOK(w)
  BY <1>2, <1>4, WorldIs
  DEF Steady, OrderOK, DelayOK, ApproachOK, TimerOK, AllPerformed, SplitOK, Neighbours,
      Earned, StickOK
<1> QED BY <1>3, <1>5, Carried

LEMMA InitInv == Init => Inv
<1> SUFFICES ASSUME Init PROVE Inv
  OBVIOUS
<1>1. TargetsOK /\ mapId \in Map /\ player \in Place
      /\ options \in [fromSelection : BOOLEAN, warp : BOOLEAN]
      /\ SceneTransitionTypeOK /\ ~IsSceneTransitionActive
  BY TargetingAssumption, RoutesAssumption
  DEF Init, TargetsOK, SceneTransitionInit, SceneTransitionTypeOK, IsSceneTransitionActive
<1> DEFINE w == World
<1>2. /\ w.route = StoppedRoute /\ w.actions = <<>> /\ w.pad = NoPad /\ w.ghost = NoGhost
      /\ ~w.timer.moved
  BY WorldIs DEF Init
<1>3. w \in WorldType
  <2>1. 0 \in Counter /\ 0 \in Index
    BY TargetingAssumption DEF Counter, Index
  <2>2. /\ timer \in TimerType /\ split \in SplitType
        /\ helper \in HelperStates /\ AutoCutsceneSkips \in BOOLEAN
    BY <2>1, IdleHelperType DEF Init, TimerType, SplitType
  <2>4. pad \in PadType
    BY DEF Init, PadType, NoPad
  <2>5. activeActions \in Seq(ActiveAction)
    BY DEF Init
  <2>3. route \in RouteType /\ ghost \in GhostType
    BY StoppedRouteType, NoGhostType DEF Init
  <2> QED BY <2>2, <2>3, <2>4, <2>5 DEF World, WorldType, WalkType
<1>4. w.pad.buffered = {} /\ w.pad.leftStick = 0
  BY <1>2 DEF NoPad
<1> HIDE DEF w
<1>5. DOMAIN w.actions = {}
  BY <1>2
<1>6. PressesOK(w)
  BY <1>2, <1>4, <1>5, NoGhostType DEF PressesOK
<1>7. Steady(w) /\ Earned(w) /\ StickOK(w)
  BY <1>2, <1>3, <1>4, <1>6, StoppedRouteType
  DEF Steady, OrderOK, DelayOK, ApproachOK, TimerOK, SplitOK, Earned, StickOK
<1> QED BY <1>1, <1>7 DEF Inv, w

----
(* The steps.                                                                   *)

\* What a step that is no frame leaves of the route's progress.
Aside ==
    /\ ghost'.done \in {ghost.done, <<>>} /\ ghost'.leg \in {ghost.leg, <<0, 0>>}
    /\ ~timer'.moved \/ timer'.running = timer.running
    /\ route'.approach.index = 0 \/ route'.approach = route.approach

LEMMA FrameStep ==
  ASSUME Inv, NEW situation \in Situations, NEW outcome \in Outcomes,
         NEW stride \in 0 .. MaxStride, Update(situation, outcome, stride)
  PROVE  Inv' /\ \E w : Counted(World, w) /\ Becomes(w)
<1>1. PICK w : w = CountServed(UpdateFrame(situation, outcome), situation)
  OBVIOUS
<1>2. /\ ~IsSceneTransitionActive /\ Becomes(w) /\ player' \in Place
      /\ UNCHANGED <<Targets, options, mapId, sceneTransition>>
  BY <1>1 DEF Update
<1>3. player \in Int
  BY TargetingAssumption DEF Inv
<1>4. Counted(World, w)
  BY <1>1, <1>3, FrameCounted DEF Inv
<1>5. Steady(World)' /\ Earned(World)' /\ StickOK(World)'
  BY <1>2, <1>4, Carried DEF Counted
<1>6. ~IsSceneTransitionActive' /\ SceneTransitionTypeOK' /\ TargetsOK'
  BY <1>2 DEF IsSceneTransitionActive, SceneTransitionTypeOK, TargetsOK, Inv
<1> QED BY <1>2, <1>4, <1>5, <1>6 DEF Inv

\* A step that stops the route, whatever it does to the steps and the player.
LEMMA StopStep ==
  ASSUME Inv, NEW w, Quiet(w), Becomes(w),
         w.ghost.done = <<>>, w.ghost.leg = <<0, 0>>, ~w.timer.moved,
         TargetsOK', player' \in Place, UNCHANGED <<options, mapId, sceneTransition>>
  PROVE  Inv' /\ Aside
<1>1. Steady(World)' /\ Earned(World)' /\ StickOK(World)' /\ Still(World)'
  BY QuietWorld
<1>2. Inv'
  BY <1>1 DEF Inv, SceneTransitionTypeOK
<1>3. Aside
  BY DEF Aside, Becomes, Quiet
<1> QED BY <1>2, <1>3

\* A step that leaves the route as it is.
LEMMA IdleStep ==
  ASSUME Inv, UNCHANGED <<Targets, mapId, route, activeActions, split, pad, AutoCutsceneSkips, ghost>>,
         timer' \in TimerType, timer'.running = timer.running, timer'.moved = timer.moved,
         helper' \in HelperStates, player' \in Place,
         options' \in [fromSelection : BOOLEAN, warp : BOOLEAN],
         SceneTransitionTypeOK', IsSceneTransitionActive' => IsSceneTransitionActive
  PROVE  Inv' /\ Aside
<1>1. Steady(World)' /\ Earned(World)' /\ StickOK(World)'
  BY Unmoved DEF Inv
<1>2. Still(World)' <=> Still(World)
  BY DEF Still, World
<1>3. Inv'
  BY <1>1, <1>2 DEF Inv, TargetsOK
<1>4. Aside
  BY DEF Aside
<1> QED BY <1>3, <1>4

LEMMA OnMapPlaces ==
  ASSUME TargetsOK, NEW map, NEW i \in OnMap(Targets, map)
  PROVE  Targets[i].position \in Place
<1>1. i \in DOMAIN Targets
  BY DEF OnMap
<1> QED BY <1>1, TargetTyped DEF TargetData

LEMMA PressStopStep == ASSUME Inv, PressStop PROVE Inv' /\ Aside
<1> DEFINE w == StopRoute(World)
<1>1. World \in WorldType /\ Steady(World)
  BY DEF Inv, Steady
<1>2. Quiet(w) /\ Becomes(w)
  BY <1>1, StoppedIsQuiet DEF PressStop
<1>3. w.ghost.done = <<>> /\ w.ghost.leg = <<0, 0>> /\ ~w.timer.moved
  BY <1>1, StoppedWorld
<1>4. TargetsOK' /\ player' \in Place /\ UNCHANGED <<options, mapId, sceneTransition>>
  BY DEF PressStop, Inv, TargetsOK
<1> HIDE DEF w
<1> QED BY <1>2, <1>3, <1>4, StopStep

LEMMA WarpToTargetStep == ASSUME Inv, NEW i, WarpToTarget(i) PROVE Inv' /\ Aside
<1> DEFINE w == StopRoute(World)
<1>1. World \in WorldType /\ Steady(World)
  BY DEF Inv, Steady
<1>2. Quiet(w) /\ Becomes(w)
  BY <1>1, StoppedIsQuiet DEF WarpToTarget
<1>3. w.ghost.done = <<>> /\ w.ghost.leg = <<0, 0>> /\ ~w.timer.moved
  BY <1>1, StoppedWorld
<1>4. TargetsOK' /\ UNCHANGED <<options, mapId, sceneTransition>>
  BY DEF WarpToTarget, Inv, TargetsOK
<1>5. player' \in Place
  <2>1. i \in OnMap(Targets, mapId) /\ player \in Place /\ TargetsOK
    BY DEF WarpToTarget, Inv
  <2>2. Targets[i].position \in Place
    BY <2>1, OnMapPlaces
  <2> QED BY <2>1, <2>2 DEF WarpToTarget
<1> HIDE DEF w
<1> QED BY <1>2, <1>3, <1>4, <1>5, StopStep

LEMMA EditStep ==
  ASSUME Inv, NEW targets, EditTargets(targets),
         targets \in Seq(TargetData), Len(targets) <= MaxTargets
  PROVE  Inv' /\ Aside
<1> DEFINE w == StopRoute(World)
<1>1. World \in WorldType /\ Steady(World)
  BY DEF Inv, Steady
<1>2. Quiet(w) /\ Becomes(w)
  BY <1>1, StoppedIsQuiet DEF EditTargets
<1>3. w.ghost.done = <<>> /\ w.ghost.leg = <<0, 0>> /\ ~w.timer.moved
  BY <1>1, StoppedWorld
<1>4. TargetsOK' /\ player' \in Place /\ UNCHANGED <<options, mapId, sceneTransition>>
  BY DEF EditTargets, Inv, TargetsOK
<1> HIDE DEF w
<1> QED BY <1>2, <1>3, <1>4, StopStep

LEMMA LoadStep ==
  ASSUME Inv, NEW targets \in Routes, LoadTargetsFromFile(targets)
  PROVE  Inv' /\ Aside
<1> DEFINE u == StopRoute(World)
           t == [[u.timer EXCEPT !.frames = 0] EXCEPT !.best = 0]
           s == [u.split EXCEPT !.frames = 0]
           w == [[u EXCEPT !.timer = t] EXCEPT !.split = s]
<1>1. World \in WorldType /\ Steady(World) /\ 0 \in Counter
  BY TargetingAssumption DEF Inv, Steady, Counter
<1>2. Quiet(u) /\ u.ghost.done = <<>> /\ u.ghost.leg = <<0, 0>> /\ ~u.timer.moved
  BY <1>1, StoppedWorld, StoppedIsQuiet
<1>3. Becomes([u EXCEPT !.timer.frames = 0, !.timer.best = 0, !.split.frames = 0])
  BY DEF LoadTargetsFromFile
<1> HIDE DEF u
<1>4. u.timer \in TimerType /\ u.split \in SplitType
  BY <1>2 DEF Quiet, WorldType
<1>5. t \in TimerType /\ ~t.moved /\ s \in SplitType
  BY <1>1, <1>2, <1>4 DEF TimerType, SplitType
<1>6. [u EXCEPT !.timer.frames = 0, !.timer.best = 0, !.split.frames = 0] = w
  BY <1>2, <1>4 DEF Quiet, WorldType, TimerType, SplitType
<1> HIDE DEF t, s
<1>7. /\ w \in WorldType /\ w.route = u.route /\ w.actions = u.actions /\ w.pad = u.pad
      /\ w.ghost = u.ghost /\ w.timer = t
  BY <1>2, <1>5 DEF Quiet, WorldType
<1>8. Becomes(w)
  BY <1>3, <1>6
<1> HIDE DEF w
<1>9. Quiet(w) /\ w.ghost.done = <<>> /\ w.ghost.leg = <<0, 0>> /\ ~w.timer.moved
  BY <1>2, <1>5, <1>7 DEF Quiet
<1>10. TargetsOK' /\ player' \in Place /\ UNCHANGED <<options, mapId, sceneTransition>>
  BY RoutesAssumption DEF LoadTargetsFromFile, Inv, TargetsOK
<1> QED BY <1>8, <1>9, <1>10, StopStep

LEMMA StartedWorld ==
  ASSUME TargetsOK, Steady(World), ~route.active, NEW selected \in 0 .. Len(Targets)
  PROVE  LET w == StartRoute(World, selected)
         IN  /\ Steady(w) /\ Still(w)
             /\ w.ghost.done \in {ghost.done, <<>>} /\ w.ghost.leg \in {ghost.leg, <<0, 0>>}
             /\ ~w.timer.moved \/ w.timer.running = timer.running
             /\ WarpPlace(w) # player =>
                    \E i \in OnMap(Targets, mapId) : WarpPlace(w) = Targets[i].position
<1> DEFINE v == World
           here == OnMap(Targets, mapId)
           from == IF options.fromSelection THEN selected ELSE FindFirstTargetForMap(mapId)
           warps == {i \in here : i >= from /\ Targets[i].type = "Position"}
           started == from # 0
           r == [StoppedRoute EXCEPT !.active = started, !.at = from, !.menuTas = v.route.menuTas]
           u == [v EXCEPT !.route = r]
           cleared == LeftStickOff(ClearActiveActions(u))
           w == StartRoute(World, selected)
<1>1. /\ v \in WorldType /\ PressesOK(v) /\ ApproachOK(v) /\ DelayOK(v) /\ TimerOK(v)
      /\ ~v.route.active /\ v.timer = timer /\ v.ghost = ghost
  BY WorldIs DEF Steady
<1>2. /\ v.route \in RouteType /\ v.pad \in PadType /\ v.ghost \in GhostType
      /\ v.timer \in TimerType /\ ~v.ghost.unearned
  BY <1>1 DEF WorldType, PressesOK
<1>3. 0 \in Index /\ 0 \in Counter /\ WarpDelay \in Nat
  BY TargetingAssumption DEF Index, Counter
<1>4. CASE options.fromSelection /\ selected \notin here
  <2> DEFINE no == FALSE
             q == [[v.route EXCEPT !.active = no] EXCEPT !.at = 0]
             x == [v EXCEPT !.route = q]
  <2>1. w = LeftStickOff([v EXCEPT !.route.active = FALSE, !.route.at = 0])
    BY <1>4 DEF StartRoute
  <2>2. [v EXCEPT !.route.active = FALSE, !.route.at = 0] = x
    BY <1>1, <1>2 DEF WorldType, RouteType
  <2>3. no \in BOOLEAN /\ ~no
    OBVIOUS
  <2> HIDE DEF no, v
  <2>4. /\ q \in RouteType /\ ~q.active /\ q.delayAt = v.route.delayAt
        /\ q.approach = v.route.approach /\ q.startDelay = v.route.startDelay
    BY <1>2, <1>3, <2>3 DEF RouteType
  <2> HIDE DEF q
  <2>5. x \in WorldType /\ x.route = q /\ SameBut(x, v, {"route"})
    BY <1>1, <2>4 DEF WorldType, SameBut, Fields
  <2> HIDE DEF x
  <2>6. /\ w \in WorldType /\ w.pad = [x.pad EXCEPT !.leftStick = 0] /\ SameBut(w, x, {"pad"})
    BY <2>1, <2>2, <2>5, StickReleased
  <2> HIDE DEF w
  <2>7. /\ w.route = q /\ w.actions = v.actions /\ w.timer = v.timer /\ w.ghost = v.ghost
        /\ w.pad.leftStick = 0 /\ w.pad.buffered = v.pad.buffered
    BY <1>2, <2>5, <2>6 DEF SameBut, Fields, PadType
  <2>8. PressesOK(w)
    BY <1>1, <2>7, PressesCarry
  <2>9. q.delayAt = 0 /\ q.approach.index = 0 /\ q.startDelay = 0
    BY <1>1, <2>4 DEF DelayOK, ApproachOK, TimerOK
  <2>10. Steady(w) /\ Still(w)
    BY <1>1, <2>4, <2>6, <2>7, <2>8, <2>9
    DEF Steady, Still, OrderOK, DelayOK, ApproachOK, TimerOK, AllPerformed, SplitOK
  <2>11. WarpPlace(w) = player
    BY <2>7, <2>9 DEF WarpPlace
  <2> QED BY <1>1, <2>7, <2>10, <2>11 DEF w
<1> HIDE DEF v
<1>5. from \in Index /\ (~(options.fromSelection /\ selected \notin here) /\ from # 0 => from \in here)
  <2>1. Len(Targets) <= MaxTargets /\ Len(Targets) \in Nat /\ MaxTargets \in Nat
    BY TargetingAssumption DEF TargetsOK
  <2>2. selected \in Index
    BY <2>1 DEF Index
  <2> QED BY <2>2, FirstIsFirst
<1> HIDE DEF here, from
<1>6. /\ r \in RouteType /\ r.active = started /\ r.at = from /\ r.menuTas = v.route.menuTas
      /\ ~r.waiting
      /\ r.startDelay = 0 /\ r.delayAt = 0 /\ r.approach = NoApproach /\ r.approach.index = 0
  <2> DEFINE a == [StoppedRoute EXCEPT !.active = started]
             b == [a EXCEPT !.at = from]
  <2>1. r = [b EXCEPT !.menuTas = v.route.menuTas] /\ v.route.menuTas \in BOOLEAN
    BY <1>2, StoppedRouteType DEF RouteType
  <2>2. started \in BOOLEAN
    OBVIOUS
  <2> HIDE DEF r, started
  <2>3. /\ a \in RouteType /\ a.active = started /\ ~a.waiting
        /\ a.startDelay = 0 /\ a.delayAt = 0 /\ a.approach = NoApproach /\ a.approach.index = 0
    BY <2>2, StoppedRouteType DEF RouteType
  <2> HIDE DEF a
  <2>4. /\ b \in RouteType /\ b.active = started /\ b.at = from /\ ~b.waiting
        /\ b.startDelay = 0 /\ b.delayAt = 0 /\ b.approach = NoApproach /\ b.approach.index = 0
    BY <1>5, <2>3 DEF RouteType
  <2> HIDE DEF b
  <2> QED BY <2>1, <2>4 DEF RouteType
<1> HIDE DEF r
<1>7. u \in WorldType /\ u.route = r /\ SameBut(u, v, {"route"})
  BY <1>1, <1>6 DEF WorldType, SameBut, Fields
<1> HIDE DEF u
<1> DEFINE c == ClearActiveActions(u)
<1>8. /\ c \in WorldType /\ c.actions = <<>> /\ c.pad.buffered = {}
      /\ SameBut(c, u, {"actions", "pad", "ghost"}) /\ SameRun(c.ghost, u.ghost)
  BY <1>7, ClearedWorld
<1> HIDE DEF c
<1>9. /\ LeftStickOff(c) \in WorldType /\ LeftStickOff(c).pad = [c.pad EXCEPT !.leftStick = 0]
      /\ SameBut(LeftStickOff(c), c, {"pad"})
  BY <1>8, StickReleased
<1>10. /\ cleared \in WorldType /\ cleared.route = r /\ cleared.actions = <<>>
       /\ cleared.pad.leftStick = 0 /\ cleared.pad.buffered = {}
       /\ cleared.timer = v.timer /\ SameRun(cleared.ghost, v.ghost)
       /\ cleared.split = v.split
  <2>1. cleared = LeftStickOff(c) /\ c.pad \in PadType
    BY <1>8 DEF c, WorldType
  <2> QED BY <1>7, <1>8, <1>9, <2>1 DEF SameBut, Fields, PadType
<1>11. CASE ~(options.fromSelection /\ selected \notin here) /\ from = 0
  <2>1. w = cleared
    BY <1>11 DEF StartRoute, from, here, v, u, r
  <2> HIDE DEF w, cleared
  <2>2. PressesOK(w)
    BY <1>2, <1>10, <2>1, NoPresses DEF SameRun
  <2>3. ~w.route.active
    BY <1>6, <1>10, <1>11, <2>1
  <2>4. Steady(w) /\ Still(w)
    BY <1>1, <1>6, <1>10, <2>1, <2>2, <2>3
    DEF Steady, Still, OrderOK, DelayOK, ApproachOK, TimerOK, AllPerformed, SplitOK, SameRun
  <2>5. WarpPlace(w) = player
    BY <1>6, <1>10, <2>1 DEF WarpPlace
  <2> QED BY <1>1, <1>10, <2>1, <2>4, <2>5 DEF w, SameRun
<1>12. CASE ~(options.fromSelection /\ selected \notin here) /\ from # 0
  <2> DEFINE yes == TRUE
             no == FALSE
             warpTo == FirstOf(warps)
             n == IF options.warp /\ warpTo # 0 THEN WarpDelay ELSE 0
             q == [r EXCEPT !.startDelay = n]
             t == [[[v.timer EXCEPT !.running = yes] EXCEPT !.moved = no] EXCEPT !.frames = 0]
             s == [running |-> no, origin |-> 0, frames |-> 0]
             g == [[NoGhost EXCEPT !.entry = from] EXCEPT !.unearned = v.ghost.unearned]
             x == [[[[cleared EXCEPT !.timer = t] EXCEPT !.split = s] EXCEPT !.route = q]
                       EXCEPT !.ghost = g]
  <2>1. w = [cleared EXCEPT
                 !.timer.running = TRUE, !.timer.moved = FALSE, !.timer.frames = 0,
                 !.split = [running |-> FALSE, origin |-> 0, frames |-> 0],
                 !.route.startDelay = n,
                 !.ghost = [NoGhost EXCEPT !.entry = from, !.unearned = v.ghost.unearned]]
    BY <1>12 DEF StartRoute, from, here, v, u, r
  <2> HIDE DEF w, cleared, warpTo
  <2>2. w = x
    BY <1>2, <1>6, <1>10, <2>1, NoGhostType DEF WorldType, RouteType, TimerType, GhostType
  <2>3. n \in Nat /\ yes \in BOOLEAN /\ no \in BOOLEAN /\ yes /\ ~no
    BY <1>3
  <2> HIDE DEF n, yes, no
  <2>4. /\ q \in RouteType /\ q.active = started /\ q.at = from /\ q.startDelay = n
        /\ q.delayAt = 0 /\ q.approach.index = 0
    BY <1>6, <2>3 DEF RouteType
  <2>5. t \in TimerType /\ t.running /\ ~t.moved
    BY <1>2, <1>3, <2>3 DEF TimerType
  <2>6. s \in SplitType /\ s.origin = 0
    BY <1>3, <2>3 DEF SplitType
  <2>7. g \in GhostType /\ g.entry = from /\ g.done = <<>> /\ g.leg = <<0, 0>> /\ ~g.unearned
    BY <1>2, <1>5, NoGhostType DEF GhostType
  <2> HIDE DEF q, t, s, g
  <2>8. /\ x \in WorldType /\ x.route = q /\ x.timer = t /\ x.split = s /\ x.ghost = g
        /\ x.actions = cleared.actions /\ x.pad = cleared.pad
    BY <1>10, <2>4, <2>5, <2>6, <2>7 DEF WorldType
  <2> HIDE DEF x
  <2>9. PressesOK(x)
    BY <1>10, <2>7, <2>8, NoPresses
  <2>10. from \in here /\ from \in Nat /\ here = OnMap(Targets, mapId)
    BY <1>5, <1>12, OnMapIndices DEF here
  <2>11. OrderOK(x)
    BY <2>4, <2>7, <2>8, <2>10, NothingBetween DEF OrderOK
  <2>12. q.active
    BY <1>12, <2>4
  <2>13. Steady(x) /\ Still(x)
    BY <1>10, <2>4, <2>5, <2>6, <2>8, <2>9, <2>11, <2>12
    DEF Steady, Still, DelayOK, ApproachOK, TimerOK, SplitOK
  <2>14. ASSUME WarpPlace(w) # player
         PROVE  \E i \in OnMap(Targets, mapId) : WarpPlace(w) = Targets[i].position
    <3>1. w.route.startDelay = n /\ w.route.at = from
      BY <2>2, <2>4, <2>8
    <3>2. n > 0 /\ WarpPlace(w) = Targets[warpTo].position
      BY <2>10, <2>14, <3>1 DEF WarpPlace, warpTo
    <3>3. warpTo # 0
      BY <3>2 DEF n
    <3>4. warps \subseteq Nat /\ warps \subseteq here
      BY <2>10, OnMapIndices
    <3> HIDE DEF warps
    <3>5. warpTo \in warps
      BY <3>3, <3>4, FirstIsLeast DEF warpTo
    <3> QED BY <2>10, <3>2, <3>4, <3>5
  <2> QED BY <2>2, <2>5, <2>7, <2>8, <2>13, <2>14 DEF w
<1> QED BY <1>4, <1>11, <1>12

LEMMA PressStartStep ==
  ASSUME Inv, NEW selected \in 0 .. Len(Targets), PressStart(selected)
  PROVE  Inv' /\ Aside
<1>1. PICK w : w = StartRoute(World, selected)
  OBVIOUS
<1>2. /\ ~route.active /\ Becomes(w) /\ player' = WarpPlace(w)
      /\ UNCHANGED <<Targets, options, mapId, sceneTransition>>
  BY <1>1 DEF PressStart
<1>3. /\ Steady(w) /\ Still(w)
      /\ w.ghost.done \in {ghost.done, <<>>} /\ w.ghost.leg \in {ghost.leg, <<0, 0>>}
      /\ ~w.timer.moved \/ w.timer.running = timer.running
      /\ WarpPlace(w) # player =>
             \E i \in OnMap(Targets, mapId) : WarpPlace(w) = Targets[i].position
  BY <1>1, <1>2, StartedWorld DEF Inv
<1>4. Earned(w) /\ StickOK(w)
  BY <1>3 DEF Still, Earned, StickOK
<1>5. Steady(World)' /\ Earned(World)' /\ StickOK(World)'
  BY <1>2, <1>3, <1>4, Carried
<1>6. Still(World)'
  BY <1>2, <1>3 DEF Still, World, Becomes
<1>7. player' \in Place
  BY <1>2, <1>3, OnMapPlaces DEF Inv
<1>8. Inv'
  BY <1>2, <1>5, <1>6, <1>7 DEF Inv, TargetsOK, SceneTransitionTypeOK
<1>9. Aside
  BY <1>2, <1>3 DEF Aside, Becomes, Still
<1> QED BY <1>8, <1>9

LEMMA ResetBestStep == ASSUME Inv, ResetBest PROVE Inv' /\ Aside
<1>1. timer \in TimerType /\ helper \in HelperStates /\ 0 \in Counter
  BY WorldParts, TargetingAssumption DEF Inv, Steady, Counter
<1>2. timer' \in TimerType /\ timer'.running = timer.running /\ timer'.moved = timer.moved
  BY <1>1 DEF ResetBest, TimerType
<1>3. UNCHANGED <<Targets, mapId, route, activeActions, split, pad, AutoCutsceneSkips, ghost,
                  helper, player, options, sceneTransition>>
  BY DEF ResetBest
<1> QED BY <1>1, <1>2, <1>3, IdleStep DEF Inv, SceneTransitionTypeOK, IsSceneTransitionActive

\* The timer is set back, and the run remembers it if it was running.
LEMMA ResetTimerStep == ASSUME Inv, ResetTimer PROVE Inv' /\ Aside
<1> DEFINE back == ghost.disturbed \/ timer.running
           t == [timer EXCEPT !.frames = 0]
           g == [ghost EXCEPT !.disturbed = back]
           w == [[World EXCEPT !.timer = t] EXCEPT !.ghost = g]
<1>1. /\ World \in WorldType /\ Steady(World) /\ Earned(World) /\ StickOK(World)
      /\ timer \in TimerType /\ ghost \in GhostType /\ 0 \in Counter
  BY WorldParts, TargetingAssumption DEF Inv, Steady, Counter
<1>2. t \in TimerType /\ t.running = timer.running /\ t.moved = timer.moved
  BY <1>1 DEF TimerType
<1>3. /\ UNCHANGED <<Targets, options, route, activeActions, split, pad, helper,
                     AutoCutsceneSkips, mapId, player, sceneTransition>>
      /\ timer' = t /\ ghost' = g
  BY DEF ResetTimer
<1>4. back \in BOOLEAN /\ (timer.running => back)
  OBVIOUS
<1> HIDE DEF back, t
<1>5. /\ g \in GhostType /\ g.disturbed = back /\ g.entry = ghost.entry
      /\ g.done = ghost.done /\ g.served = ghost.served /\ g.due = ghost.due
      /\ g.leg = ghost.leg /\ g.adjusted = ghost.adjusted /\ g.unearned = ghost.unearned
  BY <1>1, <1>4 DEF GhostType
<1> HIDE DEF g
<1>6. /\ w \in WorldType /\ w.route = route /\ w.actions = activeActions /\ w.timer = t
      /\ w.split = split /\ w.pad = pad /\ w.helper = helper /\ w.ghost = g
      /\ w.skips = AutoCutsceneSkips
  BY <1>1, <1>2, <1>5, WorldIs DEF WorldType
<1>7. Becomes(w)
  BY <1>3, <1>6 DEF Becomes
<1> HIDE DEF w
<1>8. PressesOK(w)
  BY <1>1, <1>5, <1>6, WorldIs, PressesCarry DEF Steady
<1>9. TimerOK(w)
  BY <1>1, <1>2, <1>4, <1>5, <1>6, WorldIs DEF Steady, TimerOK
<1>10. Steady(w) /\ Earned(w) /\ StickOK(w)
  BY <1>1, <1>5, <1>6, <1>8, <1>9, WorldIs
  DEF Steady, OrderOK, DelayOK, ApproachOK, SplitOK, Neighbours, Earned, StickOK
<1>11. Steady(World)' /\ Earned(World)' /\ StickOK(World)'
  BY <1>3, <1>7, <1>10, Carried
<1>12. Still(World)' <=> Still(World)
  BY <1>3 DEF Still, World
<1>13. Inv'
  BY <1>3, <1>11, <1>12 DEF Inv, TargetsOK, SceneTransitionTypeOK, IsSceneTransitionActive
<1>14. Aside
  BY <1>2, <1>3, <1>5 DEF Aside
<1> QED BY <1>13, <1>14

LEMMA OptionStep ==
  ASSUME Inv, NEW option \in DOMAIN options, ToggleOption(option) PROVE Inv' /\ Aside
<1>1. timer \in TimerType /\ helper \in HelperStates
  BY WorldParts DEF Inv, Steady
<1>2. options' \in [fromSelection : BOOLEAN, warp : BOOLEAN]
  BY DEF ToggleOption, Inv
<1>3. UNCHANGED <<Targets, mapId, route, activeActions, split, pad, AutoCutsceneSkips, ghost,
                  timer, helper, player, sceneTransition>>
  BY DEF ToggleOption
<1> QED BY <1>1, <1>2, <1>3, IdleStep DEF Inv, SceneTransitionTypeOK, IsSceneTransitionActive

LEMMA EndStep == ASSUME Inv, EndTransition PROVE Inv' /\ Aside
<1>1. timer \in TimerType /\ helper \in HelperStates
  BY WorldParts DEF Inv, Steady
<1>2. sceneTransition' = "None"
      /\ UNCHANGED <<Targets, mapId, route, activeActions, split, pad, AutoCutsceneSkips, ghost,
                     timer, helper, player, options>>
  BY DEF EndTransition, EndSceneTransition
<1> QED BY <1>1, <1>2, IdleStep DEF Inv, SceneTransitionTypeOK, IsSceneTransitionActive

LEMMA PlayerStep == ASSUME Inv, NEW place \in Place, PlayerMoves(place) PROVE Inv' /\ Aside
<1>1. timer \in TimerType /\ helper \in HelperStates
  BY WorldParts DEF Inv, Steady
<1>2. player' \in Place
      /\ UNCHANGED <<Targets, mapId, route, activeActions, split, pad, AutoCutsceneSkips, ghost,
                     timer, helper, options, sceneTransition>>
  BY DEF PlayerMoves
<1> QED BY <1>1, <1>2, IdleStep DEF Inv, SceneTransitionTypeOK, IsSceneTransitionActive

LEMMA HelperStep ==
  ASSUME Inv, HelperBegins \/ HelperEnds \/ \E now \in HelperStates : HelperArms(now)
  PROVE  Inv' /\ Aside
<1>1. timer \in TimerType /\ helper \in HelperStates
  BY WorldParts DEF Inv, Steady
<1>2. helper' \in HelperStates
  BY <1>1, IdleHelperType DEF HelperBegins, HelperEnds, HelperArms, HelperBecomes, HelperStates
<1>3. UNCHANGED <<Targets, mapId, route, activeActions, split, pad, AutoCutsceneSkips, ghost,
                  timer, player, options, sceneTransition>>
  BY DEF HelperBegins, HelperEnds, HelperArms, HelperBecomes
<1> QED BY <1>1, <1>2, <1>3, IdleStep DEF Inv, SceneTransitionTypeOK, IsSceneTransitionActive

LEMMA StutterStep == ASSUME Inv, UNCHANGED vars PROVE Inv' /\ Aside
<1>1. timer \in TimerType /\ helper \in HelperStates
  BY WorldParts DEF Inv, Steady
<1>2. UNCHANGED <<Targets, mapId, route, activeActions, split, pad, AutoCutsceneSkips, ghost,
                  timer, helper, player, options, sceneTransition>>
  BY DEF vars
<1> QED BY <1>1, <1>2, IdleStep DEF Inv, SceneTransitionTypeOK, IsSceneTransitionActive

\* The game takes a press: the actions that asked for it and the buffer lose it.
LEMMA AcceptStep == ASSUME Inv, NEW button \in Button, GameAccepts(button) PROVE Inv' /\ Aside
<1> DEFINE left == pad.buffered \ {button}
           p == [pad EXCEPT !.buffered = left]
           acts == [k \in DOMAIN activeActions |->
                       [activeActions[k] EXCEPT !.owed = @ \ {button}]]
           w == [[World EXCEPT !.pad = p] EXCEPT !.actions = acts]
<1>1. /\ World \in WorldType /\ Steady(World) /\ Earned(World) /\ StickOK(World)
      /\ pad \in PadType /\ activeActions \in Seq(ActiveAction)
  BY WorldParts DEF Inv, Steady
<1>2. /\ \A k \in DOMAIN activeActions :
            OwesItsOwn(activeActions[k]) /\ activeActions[k].owed \subseteq pad.buffered
      /\ activeActions = <<>> => pad.buffered = {}
      /\ ~ghost.adjusted =>
            /\ \A k \in DOMAIN activeActions : AsAsked(activeActions[k])
            /\ pad.buffered = UNION {activeActions[k].owed : k \in DOMAIN activeActions}
      /\ ~ghost.unearned
  BY <1>1, WorldIs DEF Steady, PressesOK
<1>3. /\ UNCHANGED <<Targets, options, route, timer, split, helper, AutoCutsceneSkips,
                     mapId, player, ghost, sceneTransition>>
      /\ pad' = p /\ activeActions' = acts
  BY DEF GameAccepts
<1>4. p \in PadType /\ p.buffered = left /\ p.leftStick = pad.leftStick
  BY <1>1 DEF PadType
<1>5. DOMAIN acts = DOMAIN activeActions /\ acts \in Seq(ActiveAction)
  <2>1. ASSUME NEW k \in DOMAIN activeActions PROVE acts[k] \in ActiveAction
    <3> DEFINE a == activeActions[k]
               owed == a.owed \ {button}
    <3>1. a \in ActiveAction /\ acts[k] = [a EXCEPT !.owed = owed]
      BY <1>1
    <3>2. owed \in SUBSET Button
      BY <3>1 DEF ActiveAction
    <3> HIDE DEF a, acts, owed
    <3> QED BY <3>1, <3>2 DEF ActiveAction
  <2> QED BY <1>1, <2>1
<1>6. \A k \in DOMAIN activeActions :
         /\ acts[k].owed = activeActions[k].owed \ {button} /\ OwesItsOwn(acts[k])
         /\ AsAsked(activeActions[k]) => AsAsked(acts[k])
  <2> TAKE k \in DOMAIN activeActions
  <2> DEFINE a == activeActions[k]
             b == acts[k]
  <2>1. a \in ActiveAction /\ OwesItsOwn(a) /\ b = [a EXCEPT !.owed = a.owed \ {button}]
    BY <1>1, <1>2
  <2> HIDE DEF a, b
  <2>2. /\ b.owed = a.owed \ {button} /\ b.index = a.index /\ b.holdLeft = a.holdLeft
        /\ b.started = a.started /\ b.requested = a.requested /\ b.accepted = a.accepted
    BY <2>1 DEF ActiveAction
  <2>3. OwesItsOwn(b)
    BY <2>1, <2>2 DEF OwesItsOwn
  <2>4. AsAsked(a) => AsAsked(b)
    BY <2>2 DEF AsAsked
  <2> QED BY <2>2, <2>3, <2>4 DEF a, b
<1> HIDE DEF acts, p
<1>7. /\ \A k \in DOMAIN acts : OwesItsOwn(acts[k]) /\ acts[k].owed \subseteq left
      /\ acts = <<>> => left = {}
      /\ ~ghost.adjusted => /\ \A k \in DOMAIN acts : AsAsked(acts[k])
                            /\ left = UNION {acts[k].owed : k \in DOMAIN acts}
  <2>1. \A k \in DOMAIN acts : OwesItsOwn(acts[k]) /\ acts[k].owed \subseteq left
    BY <1>2, <1>5, <1>6
  <2>2. ASSUME acts = <<>> PROVE left = {}
    <3>1. DOMAIN activeActions = {}
      BY <1>5, <2>2
    <3>2. activeActions = <<>>
      BY <1>1, <3>1
    <3> QED BY <1>2, <3>2
  <2>3. ASSUME ~ghost.adjusted
        PROVE  /\ \A k \in DOMAIN acts : AsAsked(acts[k])
               /\ left = UNION {acts[k].owed : k \in DOMAIN acts}
    BY <1>2, <1>5, <1>6, <2>3
  <2> QED BY <2>1, <2>2, <2>3
<1>8. /\ w \in WorldType /\ w.route = route /\ w.actions = acts /\ w.timer = timer
      /\ w.split = split /\ w.pad = p /\ w.helper = helper /\ w.ghost = ghost
      /\ w.skips = AutoCutsceneSkips
  BY <1>1, <1>4, <1>5, WorldIs DEF WorldType
<1>9. Becomes(w)
  BY <1>3, <1>8 DEF Becomes
<1> HIDE DEF w
<1>10. PressesOK(w)
  BY <1>2, <1>4, <1>7, <1>8 DEF PressesOK
<1>11. Steady(w) /\ Earned(w) /\ StickOK(w)
  BY <1>1, <1>4, <1>8, <1>10, WorldIs
  DEF Steady, OrderOK, DelayOK, ApproachOK, TimerOK, AllPerformed, SplitOK, Neighbours, Earned, StickOK
<1>12. Steady(World)' /\ Earned(World)' /\ StickOK(World)'
  BY <1>3, <1>9, <1>11, Carried
<1>13. Still(World)' <=> Still(World)
  BY <1>3, <1>4 DEF Still, World
<1>14. Inv'
  BY <1>3, <1>12, <1>13 DEF Inv, TargetsOK, SceneTransitionTypeOK, IsSceneTransitionActive
<1>15. Aside
  BY <1>3 DEF Aside
<1> QED BY <1>14, <1>15

\* At the beginning of a transition the route lets go of everything but its place.
LEMMA CrossedWorld ==
  ASSUME Steady(World), IsSceneTransitionActive => Still(World), NEW bond \in BOOLEAN
  PROVE  LET v == OnSceneTransition(World, bond)
         IN  /\ v \in WorldType /\ PressesOK(v) /\ Still(v)
             /\ v.route.active = route.active /\ v.route.at = route.at
             /\ v.route.startDelay = route.startDelay
             /\ v.timer = timer /\ v.split = split
             /\ v.ghost.entry = ghost.entry /\ v.ghost.done = ghost.done
             /\ v.ghost.disturbed = ghost.disturbed /\ v.ghost.leg = ghost.leg
<1> DEFINE w == World
           v == OnSceneTransition(World, bond)
<1>1. /\ w \in WorldType /\ PressesOK(w) /\ w.route = route /\ w.timer = timer
      /\ w.split = split /\ w.ghost = ghost
  BY WorldIs DEF Steady
<1>2. w.route \in RouteType /\ w.ghost \in GhostType /\ w.helper \in HelperStates /\ 0 \in Index
  BY <1>1, TargetingAssumption DEF WorldType, Index
<1>3. CASE IsSceneTransitionActive
  BY <1>1, <1>3 DEF OnSceneTransition
<1>4. CASE ~IsSceneTransitionActive
  <2> DEFINE no == FALSE
             going == w.route.active
             q == [[[[w.route EXCEPT !.delayAt = 0] EXCEPT !.delayLeft = 0]
                         EXCEPT !.menuTas = no] EXCEPT !.waiting = going]
             now == HelperAcross(w, bond)
             g == [w.ghost EXCEPT !.served = 0]
             x == [[[w EXCEPT !.route = q] EXCEPT !.helper = now] EXCEPT !.ghost = g]
  <2>1. v = StandStill([ForgetDelay(w) EXCEPT !.route.menuTas = FALSE,
                                              !.route.waiting = w.route.active,
                                              !.helper = HelperAcross(w, bond),
                                              !.ghost.served = 0])
    BY <1>4 DEF OnSceneTransition
  <2>2. now \in HelperStates
    BY <1>2, IdleHelperType DEF HelperAcross
  <2> HIDE DEF w, v, now
  <2>3. [ForgetDelay(w) EXCEPT !.route.menuTas = FALSE, !.route.waiting = w.route.active,
                               !.helper = now, !.ghost.served = 0] = x
    BY <1>1, <1>2 DEF ForgetDelay, WorldType, RouteType, GhostType
  <2>4. v = StandStill(x)
    BY <2>1, <2>3 DEF now
  <2>5. no \in BOOLEAN /\ going \in BOOLEAN
    BY <1>2 DEF RouteType
  <2> HIDE DEF no, going
  <2>6. /\ q \in RouteType /\ q.active = w.route.active /\ q.at = w.route.at
        /\ q.startDelay = w.route.startDelay /\ q.delayAt = 0
    <3> DEFINE a == [[w.route EXCEPT !.delayAt = 0] EXCEPT !.delayLeft = 0]
    <3>1. /\ a \in RouteType /\ a.active = w.route.active /\ a.at = w.route.at
          /\ a.startDelay = w.route.startDelay /\ a.delayAt = 0
      BY <1>2 DEF RouteType
    <3>2. q = [[a EXCEPT !.menuTas = no] EXCEPT !.waiting = going]
      OBVIOUS
    <3> HIDE DEF a, q
    <3> QED BY <2>5, <3>1, <3>2 DEF RouteType
  <2>7. /\ g \in GhostType /\ g.entry = w.ghost.entry /\ g.done = w.ghost.done
        /\ g.disturbed = w.ghost.disturbed /\ g.leg = w.ghost.leg
        /\ g.adjusted = w.ghost.adjusted /\ g.unearned = w.ghost.unearned
    BY <1>2 DEF GhostType
  <2> HIDE DEF q, g
  <2>8. /\ x \in WorldType /\ x.route = q /\ x.ghost = g /\ x.actions = w.actions
        /\ x.pad = w.pad /\ x.timer = w.timer /\ x.split = w.split
    BY <1>1, <2>2, <2>6, <2>7 DEF WorldType
  <2> HIDE DEF x
  <2>9. /\ v \in WorldType /\ v.route = [x.route EXCEPT !.approach = NoApproach]
        /\ v.pad = [x.pad EXCEPT !.leftStick = 0] /\ SameBut(v, x, {"route", "pad"})
    BY <2>4, <2>8, StandStillWorld
  <2>10. /\ v.ghost = g /\ v.actions = w.actions /\ v.timer = w.timer /\ v.split = w.split
    BY <2>8, <2>9 DEF SameBut, Fields
  <2>11. x.pad \in PadType
    BY <2>8 DEF WorldType
  <2>12. v.pad.leftStick = 0 /\ v.pad.buffered = w.pad.buffered
    BY <2>8, <2>9, <2>11 DEF PadType
  <2>13. /\ v.route.active = w.route.active /\ v.route.at = w.route.at
         /\ v.route.startDelay = w.route.startDelay
         /\ v.route.delayAt = 0 /\ v.route.approach.index = 0
    BY <2>6, <2>8, <2>9, StoppedRouteType DEF RouteType
  <2>14. PressesOK(v)
    BY <1>1, <2>7, <2>10, <2>12, PressesCarry
  <2> QED BY <1>1, <2>7, <2>9, <2>10, <2>12, <2>13, <2>14 DEF Still, v, w
<1> QED BY <1>3, <1>4

LEMMA ReloadStep == ASSUME Inv, NEW bond \in BOOLEAN, ReloadSave(bond) PROVE Inv' /\ Aside
<1>1. PICK w : w = OnSceneTransition(World, bond)
  OBVIOUS
<1>2. /\ Becomes(w) /\ ReloadBegins /\ UNCHANGED <<Targets, options, mapId, player>>
  BY <1>1 DEF ReloadSave
<1>3. /\ w \in WorldType /\ PressesOK(w) /\ Still(w)
      /\ w.route.active = route.active /\ w.route.at = route.at
      /\ w.route.startDelay = route.startDelay
      /\ w.timer = timer /\ w.split = split
      /\ w.ghost.entry = ghost.entry /\ w.ghost.done = ghost.done
      /\ w.ghost.disturbed = ghost.disturbed /\ w.ghost.leg = ghost.leg
  BY <1>1, CrossedWorld DEF Inv
<1>4. Steady(w) /\ Earned(w) /\ StickOK(w)
  BY <1>3, WorldIs
  DEF Inv, Steady, Still, OrderOK, DelayOK, ApproachOK, TimerOK, AllPerformed, SplitOK,
      Neighbours, Earned, StickOK
<1>5. Steady(World)' /\ Earned(World)' /\ StickOK(World)'
  BY <1>2, <1>4, Carried
<1>6. Still(World)'
  BY <1>2, <1>3 DEF Still, World, Becomes
<1>7. SceneTransitionTypeOK'
  BY <1>2 DEF ReloadBegins, Inv, SceneTransitionTypeOK
<1>8. Inv'
  BY <1>2, <1>5, <1>6, <1>7 DEF Inv, TargetsOK
<1>9. Aside
  BY <1>2, <1>3 DEF Aside, Becomes, Still
<1> QED BY <1>8, <1>9

\* A map change restarts the timers, and a running route at the map's first step.
LEMMA ChangedWorld ==
  ASSUME TargetsOK, NEW w \in WorldType, NEW map
  PROVE  LET v == OnMapChange(w, map)
         IN  /\ v \in WorldType /\ v.actions = w.actions /\ v.pad = w.pad
             /\ v.ghost.unearned = w.ghost.unearned /\ v.ghost.leg = w.ghost.leg
             /\ v.ghost.adjusted = w.ghost.adjusted
             /\ w.timer.running /\ ~w.route.active => v.ghost.disturbed
             /\ v.route.active = w.route.active /\ v.route.startDelay = w.route.startDelay
             /\ v.route.delayAt = w.route.delayAt /\ v.route.approach = w.route.approach
             /\ v.timer.running = w.timer.running /\ v.timer.moved = w.timer.moved
             /\ w.timer.running => v.split.origin = 0
             /\ IF w.route.active /\ w.route.at \notin OnMap(Targets, map)
                THEN /\ v.route.at \in OnMap(Targets, map) \cup {0}
                     /\ v.ghost.entry = v.route.at /\ v.ghost.done = <<>>
                ELSE /\ v.route.at = w.route.at
                     /\ v.ghost.entry = w.ghost.entry /\ v.ghost.done = w.ghost.done
<1> DEFINE u == RestartTimers(w)
           v == OnMapChange(w, map)
<1>1. /\ w.route \in RouteType /\ w.timer \in TimerType /\ w.split \in SplitType
      /\ w.ghost \in GhostType /\ 0 \in Index /\ 0 \in Counter
  BY TargetingAssumption DEF WorldType, Index, Counter
<1>2. /\ u \in WorldType /\ u.actions = w.actions /\ u.pad = w.pad
      /\ u.route = w.route /\ u.ghost.entry = w.ghost.entry /\ u.ghost.done = w.ghost.done
      /\ u.ghost.leg = w.ghost.leg /\ u.ghost.adjusted = w.ghost.adjusted
      /\ u.ghost.unearned = w.ghost.unearned
      /\ u.timer.running = w.timer.running /\ u.timer.moved = w.timer.moved
      /\ w.timer.running => u.split.origin = 0 /\ u.ghost.disturbed
  <2>1. CASE ~w.timer.running
    BY <2>1 DEF RestartTimers
  <2>2. CASE w.timer.running
    <3> DEFINE t == [w.timer EXCEPT !.frames = 0]
               on == w.split.running /\ w.timer.moved
               s == [origin |-> 0, frames |-> 0, running |-> on]
               yes == TRUE
               e == [w.ghost EXCEPT !.disturbed = yes]
    <3>1. u = [[[w EXCEPT !.timer = t] EXCEPT !.ghost = e] EXCEPT !.split = s]
      BY <1>1, <2>2 DEF RestartTimers, WorldType, TimerType, GhostType
    <3>2. t \in TimerType /\ t.running = w.timer.running /\ t.moved = w.timer.moved
      BY <1>1 DEF TimerType
    <3>3. on \in BOOLEAN /\ yes \in BOOLEAN /\ yes
      BY <1>1 DEF SplitType, TimerType
    <3> HIDE DEF on, yes, t, u
    <3>4. s \in SplitType /\ s.origin = 0
      BY <1>1, <3>3 DEF SplitType
    <3>5. /\ e \in GhostType /\ e.disturbed /\ e.entry = w.ghost.entry /\ e.done = w.ghost.done
          /\ e.leg = w.ghost.leg /\ e.adjusted = w.ghost.adjusted
          /\ e.unearned = w.ghost.unearned
      BY <1>1, <3>3 DEF GhostType
    <3> HIDE DEF s, e
    <3> QED BY <3>1, <3>2, <3>4, <3>5 DEF WorldType
  <2> QED BY <2>1, <2>2
<1> HIDE DEF u
<1>3. v = IF w.route.active /\ w.route.at \notin OnMap(Targets, map) THEN RepairIndex(u, map) ELSE u
  BY DEF OnMapChange, u
<1>4. CASE w.route.active /\ w.route.at \notin OnMap(Targets, map)
  <2> DEFINE first == FindFirstTargetForMap(map)
             none == <<>>
             kept == FALSE
             q == [u.route EXCEPT !.at = first]
             g == [[[u.ghost EXCEPT !.entry = first] EXCEPT !.done = none] EXCEPT !.disturbed = kept]
  <2>0. u.route \in RouteType /\ u.ghost \in GhostType
    BY <1>2 DEF WorldType
  <2>1. v = [[u EXCEPT !.route = q] EXCEPT !.ghost = g]
    <3>1. v = RepairIndex(u, map)
      BY <1>3, <1>4, Zenon
    <3> QED BY <1>2, <2>0, <3>1 DEF RepairIndex, WorldType, RouteType, GhostType
  <2>2. first \in Index /\ (first # 0 => first \in OnMap(Targets, map))
    BY FirstIsFirst
  <2>3. none \in Seq(Nat) /\ kept \in BOOLEAN
    OBVIOUS
  <2> HIDE DEF first, v, none, kept
  <2>4. /\ q \in RouteType /\ q.at = first /\ q.active = u.route.active
        /\ q.startDelay = u.route.startDelay /\ q.delayAt = u.route.delayAt
        /\ q.approach = u.route.approach
    BY <1>1, <1>2, <2>2 DEF RouteType
  <2>5. /\ g \in GhostType /\ g.entry = first /\ g.done = none /\ g.leg = u.ghost.leg
        /\ g.adjusted = u.ghost.adjusted /\ g.unearned = u.ghost.unearned
    BY <2>0, <2>2, <2>3 DEF GhostType
  <2> HIDE DEF q, g
  <2>6. /\ v \in WorldType /\ v.route = q /\ v.ghost = g /\ v.actions = u.actions
        /\ v.pad = u.pad /\ v.timer = u.timer /\ v.split = u.split
    BY <1>2, <2>1, <2>4, <2>5 DEF WorldType
  <2>7. v.route.at \in OnMap(Targets, map) \cup {0} /\ v.ghost.entry = v.route.at
        /\ v.ghost.done = <<>>
    BY <2>2, <2>4, <2>5, <2>6 DEF none
  <2> QED BY <1>2, <1>4, <2>4, <2>5, <2>6, <2>7 DEF v
<1>5. CASE ~(w.route.active /\ w.route.at \notin OnMap(Targets, map))
  BY <1>2, <1>3, <1>5
<1> QED BY <1>4, <1>5

LEMMA JumpStep ==
  ASSUME Inv, NEW map \in Map, NEW place \in Place, NEW bond \in BOOLEAN,
         MapJump(map, place, bond)
  PROVE  Inv' /\ Aside
<1>1. PICK u : u = OnSceneTransition(World, bond)
  OBVIOUS
<1>2. PICK w : w = OnMapChange(u, map)
  OBVIOUS
<1>3. /\ Becomes(w) /\ mapId' = map /\ player' = place /\ sceneTransition' = "Armed"
      /\ UNCHANGED <<Targets, options>>
  BY <1>1, <1>2 DEF MapJump, MapjumpArms
<1>4. /\ u \in WorldType /\ PressesOK(u) /\ Still(u)
      /\ u.route.active = route.active /\ u.route.at = route.at
      /\ u.route.startDelay = route.startDelay
      /\ u.timer = timer /\ u.split = split
      /\ u.ghost.entry = ghost.entry /\ u.ghost.done = ghost.done /\ u.ghost.leg = ghost.leg
  BY <1>1, CrossedWorld DEF Inv
<1>5. /\ w \in WorldType /\ w.actions = u.actions /\ w.pad = u.pad
      /\ w.ghost.unearned = u.ghost.unearned /\ w.ghost.leg = u.ghost.leg
      /\ w.ghost.adjusted = u.ghost.adjusted
      /\ u.timer.running /\ ~u.route.active => w.ghost.disturbed
      /\ w.route.active = u.route.active /\ w.route.startDelay = u.route.startDelay
      /\ w.route.delayAt = u.route.delayAt /\ w.route.approach = u.route.approach
      /\ w.timer.running = u.timer.running /\ w.timer.moved = u.timer.moved
      /\ u.timer.running => w.split.origin = 0
      /\ IF u.route.active /\ u.route.at \notin OnMap(Targets, map)
         THEN /\ w.route.at \in OnMap(Targets, map) \cup {0}
              /\ w.ghost.entry = w.route.at /\ w.ghost.done = <<>>
         ELSE /\ w.route.at = u.route.at
              /\ w.ghost.entry = u.ghost.entry /\ w.ghost.done = u.ghost.done
  BY <1>2, <1>4, ChangedWorld DEF Inv
<1>6. /\ World' \in WorldType /\ WorldType' = WorldType
      /\ World'.route = w.route /\ World'.actions = w.actions /\ World'.timer = w.timer
      /\ World'.split = w.split /\ World'.pad = w.pad /\ World'.helper = w.helper
      /\ World'.skips = w.skips /\ World'.ghost = w.ghost /\ World'.walk = "on"
  BY <1>3, <1>5, WorldBecomes
<1>7. PressesOK(World)'
  <2>1. PressesOK(w)
    BY <1>4, <1>5, PressesCarry
  <2> QED BY <1>3, <1>6, <2>1 DEF PressesOK, OwesItsOwn, AsAsked
<1>8. /\ w.pad.leftStick = 0 /\ w.route.delayAt = 0 /\ w.route.approach.index = 0
      /\ TimerOK(World) /\ OrderOK(World)
  BY <1>4, <1>5 DEF Still, Inv, Steady
<1>9. OrderOK(World)'
  <2> SUFFICES ASSUME route.active
               PROVE  /\ w.route.at = 0 \/ w.route.at \in OnMap(Targets, map)
                      /\ w.ghost.entry <= w.route.at
                      /\ w.ghost.done = StepsBetween(w.ghost.entry, w.route.at)'
    BY <1>3, <1>4, <1>5, <1>6 DEF OrderOK
  <2>1. CASE route.at \notin OnMap(Targets, map)
    <3>1. /\ w.route.at \in OnMap(Targets, map) \cup {0}
          /\ w.ghost.entry = w.route.at /\ w.ghost.done = <<>>
      BY <1>4, <1>5, <2>1
    <3> DEFINE at == w.route.at
               between == {i \in OnMap(Targets', mapId') : at <= i /\ i < at}
    <3>2. TargetsOK
      BY DEF Inv
    <3>3. OnMap(Targets, map) \subseteq Nat /\ Len(Targets) \in Nat
      BY <3>2, OnMapIndices
    <3>4. at \in Nat /\ OnMap(Targets', mapId') = OnMap(Targets, map) /\ Targets' = Targets
      BY <1>3, <3>1, <3>3
    <3>5. StepsBetween(at, at)' = InOrder(between, Len(Targets'))
      BY <1>6 DEF StepsBetween
    <3> HIDE DEF at
    <3>6. between = {}
      BY <3>3, <3>4
    <3> HIDE DEF between
    <3>7. StepsBetween(at, at)' = <<>>
      BY <3>3, <3>4, <3>5, <3>6, InOrderEmpty
    <3> QED BY <3>1, <3>4, <3>7 DEF at
  <2>2. CASE route.at \in OnMap(Targets, map)
    <3>1. /\ w.route.at = route.at /\ w.ghost.entry = ghost.entry /\ w.ghost.done = ghost.done
      BY <1>4, <1>5, <2>2
    <3>2. /\ route.at = 0 \/ route.at \in OnMap(Targets, mapId)
          /\ ghost.entry <= route.at /\ ghost.done = StepsBetween(ghost.entry, route.at)
      BY <1>8, WorldIs DEF OrderOK
    <3>3. map = mapId
      <4>1. TargetsOK
        BY DEF Inv
      <4>2. route.at # 0
        BY <2>2, <4>1, OnMapIndices
      <4> QED BY <2>2, <3>2, <4>2 DEF OnMap
    <3> QED BY <1>3, <2>2, <3>1, <3>2, <3>3 DEF StepsBetween
  <2> QED BY <2>1, <2>2
<1>10. TimerOK(World)' /\ SplitOK(World)'
  <2>1. route.active => timer.running /\ ~timer.moved
    BY <1>8, WorldIs DEF TimerOK
  <2>2. ~route.active => route.startDelay = 0
    BY <1>8, WorldIs DEF TimerOK
  <2>3. w.route.active => w.timer.running /\ ~w.timer.moved /\ w.split.origin = 0
    BY <1>4, <1>5, <2>1
  <2>4. ~w.route.active => w.route.startDelay = 0 /\ (w.timer.running => w.ghost.disturbed)
    BY <1>4, <1>5, <2>2
  <2> QED BY <1>6, <2>3, <2>4 DEF TimerOK, SplitOK
<1>11. DelayOK(World)' /\ ApproachOK(World)' /\ Earned(World)' /\ StickOK(World)' /\ Still(World)'
  BY <1>6, <1>8 DEF DelayOK, ApproachOK, Earned, StickOK, Still
<1>12. Inv'
  BY <1>3, <1>6, <1>7, <1>9, <1>10, <1>11 DEF Inv, Steady, TargetsOK, SceneTransitionTypeOK
<1>13. Aside
  <2>1. ghost' = w.ghost /\ timer' = w.timer /\ route' = w.route
    BY <1>3 DEF Becomes
  <2> QED BY <1>4, <1>5, <1>8, <2>1 DEF Aside
<1> QED BY <1>12, <1>13

\* Taking the player's place changes neither a step's kind nor its order, and puts
\* no step of this map elsewhere.
LEMMA SetTargetStep == ASSUME Inv, NEW i \in DOMAIN Targets, SetTarget(i) PROVE Inv' /\ Aside
<1> DEFINE here == OnMap(Targets, mapId)
           there == OnMap(Targets', mapId)
           place == IF IsSceneTransitionActive THEN Targets[i].position ELSE player
           map == IF Targets[i].type = "Position" THEN mapId ELSE Targets[i].mapId
           moved == [[Targets[i] EXCEPT !.position = place] EXCEPT !.mapId = map]
           w == World
           now == ghost'
           v == [w EXCEPT !.ghost = now]
<1>1. /\ Targets' = [Targets EXCEPT ![i].position = IF IsSceneTransitionActive THEN @ ELSE player,
                                    ![i].mapId = IF Targets[i].type = "Position" THEN mapId ELSE @]
      /\ ghost' = IF there = here THEN ghost ELSE [ghost EXCEPT !.entry = route.at, !.done = <<>>,
                                     !.disturbed = @ \/ ~route.active]
      /\ UNCHANGED <<options, route, activeActions, timer, split, pad, helper,
                     AutoCutsceneSkips, mapId, player, sceneTransition>>
  BY DEF SetTarget
<1>2. /\ TargetsOK /\ mapId \in Map /\ player \in Place /\ Steady(w) /\ Earned(w) /\ StickOK(w)
      /\ Targets \in Seq(TargetData) /\ Len(Targets) <= MaxTargets
      /\ w.route = route /\ w.ghost = ghost /\ w.split = split /\ w.actions = activeActions
      /\ w.pad = pad /\ w.timer = timer
  BY WorldIs DEF Inv, TargetsOK
<1>3. Targets[i] \in TargetData
  BY <1>2
<1>4. /\ moved \in TargetData /\ moved.mapId = map
      /\ \A f \in {"type", "frames", "hold", "buttons", "stick", "buffered", "enabled",
                   "intermediate"} : moved[f] = Targets[i][f]
  BY <1>2, <1>3 DEF TargetData
<1>5. Targets' = [Targets EXCEPT ![i] = moved]
  <2> DEFINE t == Targets
  <2>1. t \in Seq(TargetData) /\ t[i] \in TargetData /\ i \in DOMAIN t
    BY <1>2, <1>3
  <2>2. [t EXCEPT ![i].position = IF IsSceneTransitionActive THEN @ ELSE player,
                  ![i].mapId = IF t[i].type = "Position" THEN mapId ELSE @]
          = [t EXCEPT ![i] = moved]
    BY <2>1 DEF TargetData
  <2> QED BY <1>1, <2>2
<1> HIDE DEF moved, w
<1>6. /\ Targets' \in Seq(TargetData) /\ Len(Targets') = Len(Targets)
      /\ DOMAIN Targets' = DOMAIN Targets
  BY <1>2, <1>4, <1>5
<1>7. \A j \in DOMAIN Targets :
         /\ Targets'[j].type = Targets[j].type /\ Targets'[j].frames = Targets[j].frames
         /\ Targets'[j].buttons = Targets[j].buttons /\ Targets'[j].stick = Targets[j].stick
         /\ Targets'[j].buffered = Targets[j].buffered
         /\ Targets'[j].intermediate = Targets[j].intermediate
  <2> TAKE j \in DOMAIN Targets
  <2>1. CASE j = i
    BY <1>2, <1>4, <1>5, <2>1
  <2>2. CASE j # i
    BY <1>2, <1>5, <2>2
  <2> QED BY <2>1, <2>2
<1>8. here \subseteq there
  <2>1. ASSUME NEW j \in here PROVE j \in there
    <3>1. j \in DOMAIN Targets /\ Targets[j].mapId = mapId
      BY DEF OnMap
    <3>2. Targets'[j].mapId = mapId
      BY <1>2, <1>4, <1>5, <3>1
    <3> QED BY <1>6, <3>1, <3>2 DEF OnMap
  <2> QED BY <2>1
<1>9. \A j \in DOMAIN Targets : /\ IsMovementTarget(Targets'[j]) <=> IsMovementTarget(Targets[j])
                                /\ BufferedButtons(Targets'[j]) = BufferedButtons(Targets[j])
  BY <1>7 DEF IsMovementTarget, IsMenuTasStep, BufferedButtons
<1>10. ghost \in GhostType /\ route.at \in Index /\ w \in WorldType
  BY <1>2 DEF Steady, WorldType, RouteType
<1>11. /\ now \in GhostType /\ now.unearned = ghost.unearned /\ now.leg = ghost.leg
       /\ now.served = ghost.served /\ now.due = ghost.due /\ now.adjusted = ghost.adjusted
       /\ there = here => now = ghost
       /\ there # here => now.entry = route.at /\ now.done = <<>>
       /\ there = here \/ route.active \/ now.disturbed
  <2>1. CASE there = here
    BY <1>1, <1>10, <2>1
  <2>2. CASE there # here
    <3> DEFINE none == <<>>
               late == ghost.disturbed \/ ~route.active
               e == [[ghost EXCEPT !.entry = route.at] EXCEPT !.done = none]
    <3>1. now = [e EXCEPT !.disturbed = late]
      BY <1>1, <1>10, <2>2 DEF GhostType
    <3>2. none \in Seq(Nat) /\ late \in BOOLEAN /\ (~route.active => late)
      OBVIOUS
    <3> HIDE DEF none, late, now
    <3>3. /\ e \in GhostType /\ e.unearned = ghost.unearned /\ e.leg = ghost.leg
          /\ e.served = ghost.served /\ e.due = ghost.due /\ e.adjusted = ghost.adjusted
          /\ e.entry = route.at /\ e.done = none
      BY <1>10, <3>2 DEF GhostType
    <3> HIDE DEF e
    <3>4. /\ now \in GhostType /\ now.unearned = ghost.unearned /\ now.leg = ghost.leg
          /\ now.served = ghost.served /\ now.due = ghost.due /\ now.adjusted = ghost.adjusted
          /\ now.entry = route.at /\ now.done = none /\ now.disturbed = late
      BY <3>1, <3>2, <3>3 DEF GhostType
    <3> QED BY <2>2, <3>2, <3>4 DEF none, now
  <2> QED BY <2>1, <2>2
<1>12. /\ World' \in WorldType /\ WorldType' = WorldType
       /\ World'.route = route /\ World'.actions = activeActions /\ World'.timer = timer
       /\ World'.split = split /\ World'.pad = pad /\ World'.ghost = now
  <2>1. Becomes(v) /\ v \in WorldType /\ v.route = route /\ v.actions = activeActions
        /\ v.timer = timer /\ v.split = split /\ v.pad = pad /\ v.ghost = now
    <3>1. v \in WorldType /\ v.ghost = now /\ SameBut(v, w, {"ghost"})
      BY <1>10, <1>11 DEF WorldType, SameBut, Fields
    <3>2. /\ v.route = w.route /\ v.actions = w.actions /\ v.timer = w.timer /\ v.split = w.split
          /\ v.pad = w.pad /\ v.helper = w.helper /\ v.skips = w.skips
      BY <3>1 DEF SameBut, Fields
    <3> HIDE DEF v
    <3> QED BY <1>1, <3>1, <3>2, WorldIs DEF Becomes, w
  <2> HIDE DEF v
  <2> QED BY <2>1, WorldBecomes
<1> HIDE DEF now, here, there
<1>13. here = OnMap(Targets, mapId) /\ OnMap(Targets', mapId') = there
  BY <1>1 DEF here, there
<1>14. PressesOK(World)'
  <2>1. PressesOK(w)
    BY <1>2 DEF Steady
  <2>2. \A k \in DOMAIN activeActions : OwesItsOwn(activeActions[k])
    BY <1>2, <2>1 DEF PressesOK
  <2>3. \A k \in DOMAIN activeActions : OwesItsOwn(activeActions[k])'
    BY <1>1, <1>6, <2>2 DEF OwesItsOwn
  <2>4. \A k \in DOMAIN activeActions : AsAsked(activeActions[k]) => AsAsked(activeActions[k])'
    BY <1>1, <1>7, <1>9, <2>2 DEF OwesItsOwn, AsAsked
  <2> QED BY <1>1, <1>2, <1>11, <1>12, <2>1, <2>3, <2>4 DEF PressesOK
<1>15. OrderOK(World)'
  <2>0. PICK at, entry, done : at = route.at /\ entry = now.entry /\ done = now.done
    OBVIOUS
  <2> SUFFICES ASSUME route.active
               PROVE  /\ at = 0 \/ at \in there
                      /\ entry <= at
                      /\ done = StepsBetween(entry, at)'
    BY <1>12, <1>13, <2>0 DEF OrderOK, StepsBetween
  <2>1. /\ at = 0 \/ at \in here
        /\ ghost.entry <= at /\ ghost.done = StepsBetween(ghost.entry, at)
    BY <1>2, <1>13, <2>0 DEF Steady, OrderOK
  <2>2. CASE there = here
    <3>1. entry = ghost.entry /\ done = ghost.done
      BY <1>11, <2>0, <2>2
    <3>2. StepsBetween(entry, at)' = StepsBetween(entry, at)
      BY <1>6, <1>13, <2>2 DEF StepsBetween
    <3> QED BY <2>1, <2>2, <3>1, <3>2
  <2>3. CASE there # here
    <3> DEFINE between == {j \in there : at <= j /\ j < at}
    <3>1. there \subseteq Nat /\ Len(Targets') \in Nat /\ at \in Nat
      BY <1>6, <1>10, <1>13, <2>0, TargetingAssumption DEF OnMap, Index
    <3>2. StepsBetween(at, at)' = InOrder(between, Len(Targets'))
      BY <1>1, <1>13 DEF StepsBetween
    <3>3. between = {}
      <4>1. \A j \in there : ~(at <= j /\ j < at)
        <5> TAKE j \in there
        <5>1. j \in Nat /\ at \in Nat
          BY <3>1
        <5> HIDE DEF there
        <5> QED BY <5>1
      <4> QED BY <4>1, Zenon
    <3> HIDE DEF between
    <3>4. StepsBetween(at, at)' = <<>>
      BY <3>1, <3>2, <3>3, InOrderEmpty
    <3>5. entry = at /\ done = <<>>
      BY <1>11, <2>0, <2>3
    <3> QED BY <1>8, <2>1, <3>1, <3>4, <3>5
  <2> QED BY <2>2, <2>3
<1>16. DelayOK(World)'
  BY <1>1, <1>2, <1>6, <1>7, <1>12 DEF Steady, DelayOK
<1>17. route.active /\ route.at # 0 => route.at \in here /\ route.at \in DOMAIN Targets
  BY <1>2, <1>13 DEF Steady, OrderOK, OnMap
<1>18. ApproachOK(World)'
  <2>1. ApproachOK(w) /\ route \in RouteType
    BY <1>2, <1>10 DEF Steady, WorldType
  <2>2. route.approach.index # 0 =>
            /\ route.active /\ route.at = route.approach.index /\ route.at # 0
            /\ IsMovementTarget(Targets[route.at])
            /\ Targets[route.at].type = "Position" => route.approach.delta # 0
    BY <1>2, <2>1 DEF ApproachOK
  <2>3. route.approach.index # 0 =>
            /\ IsMovementTarget(Targets'[route.at])
            /\ Targets'[route.at].type = "Position" => route.approach.delta # 0
    BY <1>7, <1>9, <1>17, <2>2
  <2> QED BY <1>12, <2>2, <2>3 DEF ApproachOK
<1>19. TimerOK(World)'
  <2>1. TimerOK(w)
    BY <1>2 DEF Steady
  <2>2. CASE route.active
    BY <1>2, <1>12, <2>1, <2>2 DEF TimerOK
  <2>3. CASE ~route.active /\ there = here
    <3>1. StepsBetween(ghost.entry, MaxTargets + 1)' = StepsBetween(now.entry, MaxTargets + 1)
      BY <1>6, <1>11, <1>12, <1>13, <2>3 DEF StepsBetween, now
    <3> QED BY <1>2, <1>11, <1>12, <2>1, <2>3, <3>1 DEF TimerOK, AllPerformed, now
  <2>4. CASE ~route.active /\ there # here
    BY <1>2, <1>11, <1>12, <2>1, <2>4 DEF TimerOK
  <2> QED BY <2>2, <2>3, <2>4
<1>20. SplitOK(World)'
  <2> SUFFICES ASSUME route.active, split.origin # 0
               PROVE  split.origin < route.at /\ Neighbours(World, route.at)'
    BY <1>1, <1>12 DEF SplitOK
  <2>1. split.origin < route.at /\ Neighbours(w, route.at)
    BY <1>2 DEF Steady, SplitOK
  <2>2. split.origin \in Nat /\ route.at \in Nat /\ here \subseteq DOMAIN Targets
    BY <1>2, <1>10, <1>13, TargetingAssumption DEF WorldType, SplitType, Index, OnMap
  <2>3. CASE there = here
    BY <1>1, <1>2, <1>9, <1>11, <1>12, <1>13, <2>1, <2>2, <2>3 DEF Neighbours
  <2>4. CASE there # here
    BY <1>1, <1>11, <1>12, <2>1, <2>2, <2>4 DEF Neighbours
  <2> QED BY <2>1, <2>3, <2>4
<1>21. Earned(World)'
  BY <1>2, <1>11, <1>12 DEF Earned
<1>22. StickOK(World)'
  BY <1>1, <1>2, <1>8, <1>9, <1>12, <1>13, <1>17 DEF StickOK, OnMap
<1>23. Still(World)' <=> Still(w)
  BY <1>2, <1>12 DEF Still
<1>24. Inv'
  BY <1>1, <1>2, <1>6, <1>12, <1>14, <1>15, <1>16, <1>18, <1>19, <1>20, <1>21, <1>22, <1>23
  DEF Inv, Steady, TargetsOK, SceneTransitionTypeOK, IsSceneTransitionActive, w
<1>25. Aside
  BY <1>1, <1>11 DEF Aside, now
<1> QED BY <1>24, <1>25

\* The window's fields leave a step its kind and its map.
LEMMA AdjustedStep ==
  ASSUME NEW step \in TargetData, NEW new \in Adjusted(step)
  PROVE  /\ new \in TargetData /\ new.type = step.type /\ new.mapId = step.mapId
         /\ new.intermediate = step.intermediate
<1>1. FieldFrames \subseteq Nat
  BY RoutesAssumption
<1>2. CASE step.type = "Delay"
  <2>1. PICK n \in FieldFrames : new = [step EXCEPT !.frames = n]
    BY <1>2 DEF Adjusted, IsMovementTarget, IsMenuTasStep, MenuTasTypes
  <2> QED BY <1>1, <2>1 DEF TargetData
<1>3. CASE step.type = "Toggle"
  <2>1. PICK on \in BOOLEAN : new = [step EXCEPT !.enabled = on]
    BY <1>3 DEF Adjusted, IsMovementTarget, IsMenuTasStep, MenuTasTypes
  <2> QED BY <2>1 DEF TargetData
<1>4. CASE IsMovementTarget(step)
  <2>1. step.type # "Delay" /\ step.type # "Toggle" /\ step.type # "Action"
    BY <1>4 DEF IsMovementTarget, IsMenuTasStep, MenuTasTypes
  <2>2. PICK place \in Place : new = [step EXCEPT !.position = place]
    BY <1>4, <2>1 DEF Adjusted
  <2> QED BY <2>2 DEF TargetData
<1>5. CASE step.type = "Action"
  <2>1. ~IsMovementTarget(step)
    BY <1>5 DEF IsMovementTarget, IsMenuTasStep, MenuTasTypes
  <2>2. \/ \E n \in FieldFrames : new = [step EXCEPT !.frames = n]
        \/ \E n \in FieldFrames \ {0} : new = [step EXCEPT !.hold = n]
        \/ \E on \in BOOLEAN : new = [step EXCEPT !.stick = on, !.buffered = step.buffered /\ ~on]
        \/ \E button \in Button : new = [step EXCEPT !.buttons = (@ \ {button}) \cup ({button} \ @)]
        \/ \E on \in BOOLEAN : new = [step EXCEPT !.buffered = on]
    BY <1>5, <2>1 DEF Adjusted
  <2>3. CASE \E n \in FieldFrames : new = [step EXCEPT !.frames = n]
    BY <1>1, <2>3 DEF TargetData
  <2>4. CASE \E n \in FieldFrames \ {0} : new = [step EXCEPT !.hold = n]
    BY <1>1, <2>4 DEF TargetData
  <2>5. CASE \E on \in BOOLEAN : new = [step EXCEPT !.stick = on, !.buffered = step.buffered /\ ~on]
    <3>1. PICK on \in BOOLEAN : new = [step EXCEPT !.stick = on, !.buffered = step.buffered /\ ~on]
      BY <2>5, Zenon
    <3> DEFINE kept == step.buffered /\ ~on
               half == [step EXCEPT !.stick = on]
    <3>2. new = [half EXCEPT !.buffered = kept]
      BY <3>1 DEF TargetData
    <3>3. kept \in BOOLEAN
      OBVIOUS
    <3> HIDE DEF kept
    <3>4. half \in TargetData /\ \A f \in {"type", "mapId", "intermediate"} : half[f] = step[f]
      BY DEF TargetData
    <3> HIDE DEF half
    <3> QED BY <3>2, <3>3, <3>4 DEF TargetData
  <2>6. CASE \E button \in Button : new = [step EXCEPT !.buttons = (@ \ {button}) \cup ({button} \ @)]
    <3>1. PICK button \in Button : new = [step EXCEPT !.buttons = (@ \ {button}) \cup ({button} \ @)]
      BY <2>6
    <3> DEFINE b == (step.buttons \ {button}) \cup ({button} \ step.buttons)
    <3>2. new = [step EXCEPT !.buttons = b]
      BY <3>1
    <3>3. b \in SUBSET Button
      BY DEF TargetData
    <3> HIDE DEF b
    <3> QED BY <3>2, <3>3 DEF TargetData
  <2>7. CASE \E on \in BOOLEAN : new = [step EXCEPT !.buffered = on]
    BY <2>7 DEF TargetData
  <2> QED BY <2>2, <2>3, <2>4, <2>5, <2>6, <2>7, Zenon
<1>6. CASE ~IsMovementTarget(step) /\ step.type \notin {"Delay", "Toggle", "Action"}
  BY <1>6 DEF Adjusted
<1> QED BY <1>2, <1>3, <1>4, <1>5, <1>6

\* A field changed in place moves no step; what an Action in flight asked for may
\* no longer be what its step names, and the run remembers that.
LEMMA AdjustStep == ASSUME Inv, NEW i \in DOMAIN Targets, Adjust(i) PROVE Inv' /\ Aside
<1> DEFINE held == ghost.adjusted \/ \E k \in DOMAIN activeActions : activeActions[k].index = i
           now == [ghost EXCEPT !.adjusted = held]
           v == [World EXCEPT !.ghost = now]
           w == World
<1>1. PICK step \in Adjusted(Targets[i]) : Targets' = [Targets EXCEPT ![i] = step]
  BY DEF Adjust
<1>2. /\ UNCHANGED <<options, route, activeActions, timer, split, pad, helper,
                     AutoCutsceneSkips, mapId, player, sceneTransition>>
      /\ ghost' = now
  BY DEF Adjust
<1>3. /\ TargetsOK /\ mapId \in Map /\ player \in Place /\ Steady(w) /\ Earned(w) /\ StickOK(w)
      /\ Targets \in Seq(TargetData) /\ Len(Targets) <= MaxTargets
      /\ w.route = route /\ w.ghost = ghost /\ w.split = split /\ w.actions = activeActions
      /\ w.pad = pad /\ w.timer = timer
  BY WorldIs DEF Inv, TargetsOK
<1>4. /\ step \in TargetData /\ step.type = Targets[i].type /\ step.mapId = Targets[i].mapId
      /\ step.intermediate = Targets[i].intermediate
  BY <1>3, AdjustedStep
<1>5. /\ Targets' \in Seq(TargetData) /\ Len(Targets') = Len(Targets)
      /\ DOMAIN Targets' = DOMAIN Targets
  BY <1>1, <1>3, <1>4
<1>6. \A j \in DOMAIN Targets :
         /\ Targets'[j].type = Targets[j].type /\ Targets'[j].mapId = Targets[j].mapId
         /\ Targets'[j].intermediate = Targets[j].intermediate
         /\ j # i => Targets'[j] = Targets[j]
  BY <1>1, <1>3, <1>4
<1>7. \A j \in DOMAIN Targets : IsMovementTarget(Targets'[j]) <=> IsMovementTarget(Targets[j])
  BY <1>6 DEF IsMovementTarget, IsMenuTasStep
<1>8. OnMap(Targets', mapId') = OnMap(Targets, mapId)
  BY <1>2, <1>5, <1>6 DEF OnMap
<1>9. ghost \in GhostType /\ w \in WorldType
  BY <1>3 DEF Steady, WorldType
<1>10. held \in BOOLEAN /\ (~held => ~ghost.adjusted /\ \A k \in DOMAIN activeActions : activeActions[k].index # i)
  BY <1>9 DEF GhostType
<1> HIDE DEF held
<1>11. now \in GhostType /\ now.adjusted = held /\ SameRun(now, ghost)
  BY <1>9, <1>10, AdjustmentKnown
<1> HIDE DEF now, w
<1>12. /\ World' \in WorldType /\ WorldType' = WorldType
       /\ World'.route = route /\ World'.actions = activeActions /\ World'.timer = timer
       /\ World'.split = split /\ World'.pad = pad /\ World'.ghost = now
  <2>1. Becomes(v) /\ v \in WorldType /\ v.route = route /\ v.actions = activeActions
        /\ v.timer = timer /\ v.split = split /\ v.pad = pad /\ v.ghost = now
    <3>1. v \in WorldType /\ v.ghost = now /\ SameBut(v, w, {"ghost"})
      BY <1>9, <1>11 DEF WorldType, SameBut, Fields, w
    <3>2. /\ v.route = w.route /\ v.actions = w.actions /\ v.timer = w.timer /\ v.split = w.split
          /\ v.pad = w.pad /\ v.helper = w.helper /\ v.skips = w.skips
      BY <3>1 DEF SameBut, Fields
    <3> HIDE DEF v
    <3> QED BY <1>2, <3>1, <3>2, WorldIs DEF Becomes, w
  <2> HIDE DEF v
  <2> QED BY <2>1, WorldBecomes
<1>13. PressesOK(World)'
  <2>1. PressesOK(w)
    BY <1>3 DEF Steady
  <2>2. \A k \in DOMAIN activeActions : OwesItsOwn(activeActions[k])
    BY <1>3, <2>1 DEF PressesOK
  <2>3. \A k \in DOMAIN activeActions : OwesItsOwn(activeActions[k])'
    BY <1>2, <1>5, <2>2 DEF OwesItsOwn
  <2>4. ~held => \A k \in DOMAIN activeActions :
                     AsAsked(activeActions[k]) => AsAsked(activeActions[k])'
    BY <1>2, <1>6, <1>10, <2>2 DEF OwesItsOwn, AsAsked, BufferedButtons
  <2> QED BY <1>2, <1>3, <1>10, <1>11, <1>12, <2>1, <2>3, <2>4 DEF PressesOK, SameRun
<1>15. OrderOK(World)'
  BY <1>2, <1>3, <1>5, <1>8, <1>11, <1>12 DEF Steady, OrderOK, StepsBetween, SameRun
<1>16. DelayOK(World)'
  BY <1>2, <1>3, <1>5, <1>6, <1>12 DEF Steady, DelayOK
<1>17. route.active /\ route.at # 0 => route.at \in OnMap(Targets, mapId) /\ route.at \in DOMAIN Targets
  BY <1>3 DEF Steady, OrderOK, OnMap
<1>18. ApproachOK(World)'
  <2>1. ApproachOK(w) /\ route \in RouteType
    BY <1>3, <1>9 DEF Steady, WorldType
  <2>2. route.approach.index # 0 =>
            /\ route.active /\ route.at = route.approach.index /\ route.at # 0
            /\ IsMovementTarget(Targets[route.at])
            /\ Targets[route.at].type = "Position" => route.approach.delta # 0
    BY <1>3, <2>1 DEF ApproachOK
  <2>3. route.approach.index # 0 =>
            /\ IsMovementTarget(Targets'[route.at])
            /\ Targets'[route.at].type = "Position" => route.approach.delta # 0
    BY <1>6, <1>7, <1>17, <2>2
  <2> QED BY <1>12, <2>2, <2>3 DEF ApproachOK
<1>19. TimerOK(World)'
  BY <1>2, <1>3, <1>5, <1>8, <1>11, <1>12 DEF Steady, TimerOK, AllPerformed, StepsBetween, SameRun
<1>20. SplitOK(World)'
  <2>1. SplitOK(w) /\ OnMap(Targets, mapId) \subseteq DOMAIN Targets
    BY <1>3 DEF Steady, OnMap
  <2> QED BY <1>2, <1>3, <1>7, <1>8, <1>11, <1>12, <2>1 DEF SplitOK, Neighbours, SameRun
<1>21. Earned(World)' /\ (Still(World)' <=> Still(w))
  BY <1>3, <1>11, <1>12 DEF Earned, Still, SameRun
<1>22. StickOK(World)'
  <2>1. OnMap(Targets, mapId) \subseteq DOMAIN Targets
    BY DEF OnMap
  <2> QED BY <1>2, <1>3, <1>7, <1>8, <1>12, <2>1 DEF StickOK
<1>23. Inv'
  BY <1>2, <1>3, <1>5, <1>12, <1>13, <1>15, <1>16, <1>18, <1>19, <1>20, <1>21, <1>22
  DEF Inv, Steady, TargetsOK, SceneTransitionTypeOK, IsSceneTransitionActive, w
<1>24. Aside
  BY <1>2, <1>11 DEF Aside, SameRun
<1> QED BY <1>23, <1>24

----
(* The window's edits keep a route of steps, and none too many.                 *)

LEMMA GreatestNatural ==
  ASSUME NEW N \in Nat, NEW S, S \subseteq 1 .. N, S # {}
  PROVE  \E x \in S : \A y \in S : y <= x
<1> DEFINE T == {N - x : x \in S}
<1>1. T \subseteq Nat /\ T # {}
  <2>1. \A x \in S : N - x \in Nat
    OBVIOUS
  <2> QED BY <2>1
<1> HIDE DEF T
<1>2. PICK t \in T : \A u \in T : t <= u
  BY <1>1, LeastNatural
<1> USE DEF T
<1>3. PICK x \in S : t = N - x
  OBVIOUS
<1>4. ASSUME NEW y \in S PROVE y <= x
  <2>1. N - y \in T
    OBVIOUS
  <2> HIDE DEF T
  <2>2. N - x <= N - y
    BY <1>2, <1>3, <2>1
  <2> QED BY <2>2
<1> QED BY <1>4

LEMMA LastIsGreatest ==
  ASSUME NEW N \in Nat, NEW S, S \subseteq 1 .. N
  PROVE  /\ S # {} => Max(S) \in S /\ \A y \in S : y <= Max(S)
         /\ \/ LastOf(S) = 0 /\ S = {}
            \/ LastOf(S) \in S /\ \A y \in S : y <= LastOf(S)
<1>1. CASE S = {}
  BY <1>1 DEF LastOf
<1>2. CASE S # {}
  <2>1. \E x \in S : \A y \in S : x >= y
    BY <1>2, GreatestNatural
  <2>2. Max(S) = CHOOSE x \in S : \A y \in S : x >= y
    BY DEF Max
  <2> DEFINE m == Max(S)
  <2>3. m \in S /\ \A y \in S : m >= y
    BY <2>1, <2>2
  <2>4. LastOf(S) = m
    BY <1>2 DEF LastOf
  <2> HIDE DEF m
  <2>5. \A y \in S : y <= m
    BY <2>3
  <2> QED BY <1>2, <2>3, <2>4, <2>5 DEF m
<1> QED BY <1>1, <1>2

\* The map's own sequence: as long as the map has steps, each at its rank.
LEMMA EntriesOfMap ==
  ASSUME NEW targets \in Seq(TargetData), NEW map
  PROVE  LET indices == MapEntryIndices(targets, map)
             entries == MapEntries(targets, map)
         IN  /\ indices \in Seq(OnMap(targets, map))
             /\ entries \in Seq(TargetData) /\ DOMAIN entries = DOMAIN indices
             /\ Len(entries) = Len(indices)
             /\ \A i \in OnMap(targets, map) :
                   LET k == Cardinality({j \in OnMap(targets, map) : j <= i})
                   IN  k \in DOMAIN indices /\ indices[k] = i
<1> DEFINE S == OnMap(targets, map)
           N == Len(targets)
           indices == MapEntryIndices(targets, map)
           entries == MapEntries(targets, map)
<1>1. N \in Nat /\ S \subseteq 1 .. N /\ \A i \in S : targets[i] \in TargetData
  BY DEF OnMap
<1>2. indices = InOrder(S, N) /\ entries = [k \in DOMAIN indices |-> targets[indices[k]]]
  BY DEF MapEntryIndices, MapEntries
<1> HIDE DEF S, N, indices, entries
<1>3. /\ InOrder(S, N) \in Seq(S \cap (1 .. N))
      /\ \A i \in S \cap (1 .. N) :
            LET rank == Cardinality({j \in S : j \in 1 .. i})
            IN  rank \in DOMAIN InOrder(S, N) /\ InOrder(S, N)[rank] = i
  BY <1>1, InOrderSorts
<1>4. indices \in Seq(S)
  BY <1>1, <1>2, <1>3
<1>5. entries \in Seq(TargetData) /\ DOMAIN entries = DOMAIN indices /\ Len(entries) = Len(indices)
  <2>1. ASSUME NEW k \in DOMAIN indices PROVE targets[indices[k]] \in TargetData
    <3>1. indices[k] \in S
      BY <1>4
    <3> QED BY <1>1, <3>1, Zenon
  <2> QED BY <1>2, <1>4, <2>1
<1>6. ASSUME NEW i \in S
      PROVE  LET k == Cardinality({j \in S : j <= i}) IN k \in DOMAIN indices /\ indices[k] = i
  <2>1. i \in 1 .. N /\ \A j \in S : j \in 1 .. N
    BY <1>1, Zenon
  <2>2. \A j \in 1 .. N : j <= i <=> j \in 1 .. i
    BY <2>1
  <2>3. {j \in S : j <= i} = {j \in S : j \in 1 .. i} /\ i \in S \cap (1 .. N)
    BY <2>1, <2>2, Zenon
  <2> QED BY <1>2, <1>3, <2>3
<1> QED BY <1>4, <1>5, <1>6 DEF S, indices, entries

LEMMA PartOf ==
  ASSUME NEW S, NEW s \in Seq(S), NEW m \in Nat \ {0}, NEW n \in Nat, n <= Len(s), m <= n + 1
  PROVE  SubSeq(s, m, n) \in Seq(S) /\ Len(SubSeq(s, m, n)) = n - m + 1
<1>1. \A i \in m .. n : s[i] \in S
  OBVIOUS
<1>2. /\ SubSeq(s, m, n) \in Seq(S)
      /\ Len(SubSeq(s, m, n)) = IF m <= n THEN n - m + 1 ELSE 0
  BY <1>1, SubSeqProperties
<1> QED BY <1>2

LEMMA Joined ==
  ASSUME NEW S, NEW s \in Seq(S), NEW t \in Seq(S)
  PROVE  s \o t \in Seq(S) /\ Len(s \o t) = Len(s) + Len(t)
  OBVIOUS

LEMMA InsertedRoute ==
  ASSUME NEW targets \in Seq(TargetData), NEW step \in TargetData, NEW n \in 1 .. Len(targets) + 1
  PROVE  InsertAt(targets, n, step) \in Seq(TargetData)
         /\ Len(InsertAt(targets, n, step)) = Len(targets) + 1
<1> DEFINE N == Len(targets)
           a == SubSeq(targets, 1, n - 1)
           b == <<step>>
           c == SubSeq(targets, n, N)
           d == a \o b
<1>1. N \in Nat /\ n \in Nat \ {0} /\ n - 1 \in Nat /\ n - 1 <= N /\ n <= N + 1
  OBVIOUS
<1>2. a \in Seq(TargetData) /\ Len(a) = n - 1
  <2> DEFINE m == n - 1
  <2>1. m \in Nat /\ m <= Len(targets) /\ 1 <= m + 1
    BY <1>1
  <2> HIDE DEF m
  <2>2. SubSeq(targets, 1, m) \in Seq(TargetData) /\ Len(SubSeq(targets, 1, m)) = m - 1 + 1
    BY <2>1, PartOf
  <2> QED BY <2>1, <2>2 DEF m
<1>3. c \in Seq(TargetData) /\ Len(c) = N - n + 1
  BY <1>1, PartOf
<1>4. b \in Seq(TargetData) /\ Len(b) = 1
  OBVIOUS
<1>5. InsertAt(targets, n, step) = d \o c
  BY DEF InsertAt
<1> HIDE DEF a, b, c
<1>6. d \in Seq(TargetData) /\ Len(d) = Len(a) + Len(b)
  BY <1>2, <1>4, Joined
<1> HIDE DEF d
<1>7. d \o c \in Seq(TargetData) /\ Len(d \o c) = Len(d) + Len(c)
  BY <1>3, <1>6, Joined
<1> HIDE DEF N
<1>8. Len(d) + Len(c) = N + 1
  BY <1>1, <1>2, <1>3, <1>4, <1>6
<1> QED BY <1>5, <1>7, <1>8 DEF N

LEMMA AfterLastIndex ==
  ASSUME NEW targets \in Seq(TargetData), NEW map
  PROVE  AfterLast(targets, map) \in 1 .. Len(targets) + 1
<1> DEFINE S == OnMap(targets, map)
           N == Len(targets)
<1>1. N \in Nat /\ S \subseteq 1 .. N
  BY DEF OnMap
<1>2. AfterLast(targets, map) = IF S = {} THEN N + 1 ELSE Max(S) + 1
  BY DEF AfterLast
<1> HIDE DEF S, N
<1>3. S # {} => Max(S) \in S
  BY <1>1, LastIsGreatest
<1>4. S # {} => Max(S) \in 1 .. N
  BY <1>1, <1>3
<1>5. AfterLast(targets, map) \in 1 .. N + 1
  BY <1>1, <1>2, <1>4
<1> QED BY <1>5 DEF N

\* The block behind a place begins behind it, or there is none.
LEMMA NextBlockBehind ==
  ASSUME NEW entries \in Seq(TargetData), NEW k \in Nat
  PROVE  /\ NextBlock(entries, k) \in 1 .. Len(entries) + 1
         /\ k <= Len(entries) => k < NextBlock(entries, k)
<1> DEFINE H == {h \in Heads(entries) : h > k}
           n == NextBlock(entries, k)
<1>1. Len(entries) \in Nat /\ H \subseteq 1 .. Len(entries)
  BY DEF Heads
<1>2. n = IF \E h \in Heads(entries) : h > k THEN Min(H) ELSE Len(entries) + 1
  BY DEF NextBlock
<1>3. CASE \E h \in Heads(entries) : h > k
  <2>1. H # {} /\ H \subseteq Nat
    BY <1>1, <1>3
  <2>2. \A h \in H : h > k
    OBVIOUS
  <2> HIDE DEF H
  <2>3. \E x \in H : \A y \in H : x <= y
    BY <2>1, LeastNatural
  <2>4. Min(H) \in H
    BY <2>3 DEF Min
  <2>5. n \in H /\ n > k /\ n \in 1 .. Len(entries)
    BY <1>1, <1>2, <1>3, <2>2, <2>4
  <2> HIDE DEF n
  <2> QED BY <1>1, <2>5 DEF n
<1>4. CASE ~\E h \in Heads(entries) : h > k
  BY <1>1, <1>2, <1>4
<1> QED BY <1>3, <1>4

LEMMA InsertionIndex ==
  ASSUME NEW targets \in Seq(TargetData), NEW map, NEW selected \in Nat
  PROVE  /\ InsertionIndexAfterTargetBlock(targets, map, selected) \in 1 .. Len(targets) + 1
         /\ InsertionIndexAfterSelected(targets, map, selected) \in 1 .. Len(targets) + 1
<1> DEFINE S == OnMap(targets, map)
           N == Len(targets)
           entries == MapEntries(targets, map)
           indices == MapEntryIndices(targets, map)
           k == CHOOSE n \in DOMAIN indices : indices[n] = selected
           next == IF BlockStart(entries, k) = 0 THEN k + 1 ELSE NextBlock(entries, k)
<1>1. N \in Nat /\ S \subseteq 1 .. N
  BY DEF OnMap
<1>2. AfterLast(targets, map) \in 1 .. N + 1
  BY AfterLastIndex
<1>3. InsertionIndexAfterSelected(targets, map, selected) \in 1 .. N + 1
  BY <1>1, <1>2 DEF InsertionIndexAfterSelected
<1>4. CASE ~(selected \in S /\ next <= Len(indices))
  <2>1. InsertionIndexAfterTargetBlock(targets, map, selected) = AfterLast(targets, map)
    BY <1>4, Zenon DEF InsertionIndexAfterTargetBlock
  <2> QED BY <1>2, <1>3, <2>1
<1>5. CASE selected \in S /\ next <= Len(indices)
  <2>1. /\ indices \in Seq(S) /\ entries \in Seq(TargetData) /\ DOMAIN entries = DOMAIN indices
        /\ Len(entries) = Len(indices)
        /\ \E n \in DOMAIN indices : indices[n] = selected
    <3>1. /\ indices \in Seq(S) /\ entries \in Seq(TargetData) /\ DOMAIN entries = DOMAIN indices
          /\ Len(entries) = Len(indices)
          /\ \A i \in S : LET n == Cardinality({j \in S : j <= i})
                          IN  n \in DOMAIN indices /\ indices[n] = i
      BY EntriesOfMap, Zenon
    <3> HIDE DEF S, entries, indices
    <3> QED BY <1>5, <3>1
  <2>2. InsertionIndexAfterTargetBlock(targets, map, selected) = indices[next]
    BY <1>5, Zenon DEF InsertionIndexAfterTargetBlock
  <2> HIDE DEF S, N, entries, indices
  <2>3. k \in DOMAIN indices
    BY <2>1
  <2>4. k \in Nat
    BY <2>1, <2>3
  <2> HIDE DEF k
  <2>5. next \in Nat /\ 1 <= next
    <3>1. NextBlock(entries, k) \in 1 .. Len(entries) + 1
      BY <2>1, <2>4, NextBlockBehind, Zenon
    <3>2. NextBlock(entries, k) \in Nat /\ 1 <= NextBlock(entries, k)
      BY <2>1, <3>1
    <3> QED BY <2>4, <3>2
  <2> HIDE DEF next
  <2>6. next \in DOMAIN indices
    BY <1>5, <2>1, <2>5
  <2>7. indices[next] \in S
    BY <2>1, <2>6
  <2>8. indices[next] \in 1 .. N + 1
    <3>1. indices[next] \in 1 .. N
      BY <1>1, <2>7, Zenon
    <3> HIDE DEF indices
    <3> QED BY <1>1, <3>1
  <2> QED BY <1>3, <2>2, <2>8 DEF N
<1> QED BY <1>4, <1>5

LEMMA AddedRoute ==
  ASSUME TargetsOK, NEW step \in TargetData, NEW selected \in 0 .. Len(Targets),
         Len(Targets) < MaxTargets
  PROVE  /\ Inserted(Targets, step, selected) \in Seq(TargetData)
         /\ Len(Inserted(Targets, step, selected)) <= MaxTargets
<1> DEFINE n == IF step.type = "Position"
                THEN InsertionIndexAfterTargetBlock(Targets, step.mapId, selected)
                ELSE InsertionIndexAfterSelected(Targets, step.mapId, selected)
<1>1. Targets \in Seq(TargetData) /\ Len(Targets) \in Nat /\ selected \in Nat /\ MaxTargets \in Nat
  BY TargetingAssumption DEF TargetsOK
<1>2. Inserted(Targets, step, selected) = InsertAt(Targets, n, step)
  BY DEF Inserted
<1>3. n \in 1 .. Len(Targets) + 1
  BY <1>1, InsertionIndex
<1> HIDE DEF n
<1>4. /\ InsertAt(Targets, n, step) \in Seq(TargetData)
      /\ Len(InsertAt(Targets, n, step)) = Len(Targets) + 1
  BY <1>1, <1>3, InsertedRoute
<1> QED BY <1>1, <1>2, <1>4

LEMMA RemovedRoute ==
  ASSUME TargetsOK, NEW i \in DOMAIN Targets
  PROVE  RemoveAt(Targets, i) \in Seq(TargetData) /\ Len(RemoveAt(Targets, i)) <= MaxTargets
<1> DEFINE N == Len(Targets)
           before == i - 1
           after == i + 1
           a == SubSeq(Targets, 1, before)
           b == SubSeq(Targets, after, N)
<1>1. Targets \in Seq(TargetData) /\ N \in Nat /\ i \in 1 .. N /\ N <= MaxTargets
      /\ MaxTargets \in Nat
  BY TargetingAssumption DEF TargetsOK
<1>2. /\ before \in Nat /\ before <= N /\ 1 <= before + 1
      /\ after \in Nat \ {0} /\ N <= N /\ after <= N + 1
  BY <1>1
<1> HIDE DEF before, after
<1>3. a \in Seq(TargetData) /\ Len(a) = before - 1 + 1
  BY <1>1, <1>2, PartOf
<1>4. b \in Seq(TargetData) /\ Len(b) = N - after + 1
  BY <1>1, <1>2, PartOf
<1>5. RemoveAt(Targets, i) = a \o b
  BY DEF RemoveAt, before, after
<1> HIDE DEF a, b
<1>6. a \o b \in Seq(TargetData) /\ Len(a \o b) = Len(a) + Len(b)
  BY <1>3, <1>4, Joined
<1> HIDE DEF N
<1>7. Len(a) + Len(b) <= MaxTargets
  <2>1. i \in Nat /\ i <= N
    BY <1>1
  <2>2. Len(a) = i - 1
    BY <1>3, <2>1 DEF before
  <2>3. Len(b) = N - i
    BY <1>1, <1>4, <2>1 DEF after
  <2> QED BY <1>1, <2>1, <2>2, <2>3
<1> QED BY <1>5, <1>6, <1>7

LEMMA SwappedBlocks ==
  ASSUME NEW entries \in Seq(TargetData), NEW first \in Nat \ {0}, NEW middle \in Nat,
         NEW last \in Nat, first <= middle, middle <= last, last <= Len(entries) + 1
  PROVE  /\ SwapBlocks(entries, first, middle, last) \in Seq(TargetData)
         /\ Len(SwapBlocks(entries, first, middle, last)) = Len(entries)
<1> DEFINE N == Len(entries)
           f == first - 1
           m == middle - 1
           l == last - 1
           a == SubSeq(entries, 1, f)
           b == SubSeq(entries, middle, l)
           c == SubSeq(entries, first, m)
           d == SubSeq(entries, last, N)
           ab == a \o b
           abc == ab \o c
<1>1. /\ N \in Nat /\ f \in Nat /\ m \in Nat /\ l \in Nat
      /\ f <= N /\ m <= N /\ l <= N /\ 1 <= f + 1 /\ middle <= l + 1 /\ first <= m + 1
      /\ middle \in Nat \ {0} /\ last \in Nat \ {0} /\ N <= N /\ last <= N + 1
  OBVIOUS
<1> HIDE DEF f, m, l
<1>2. a \in Seq(TargetData) /\ Len(a) = f - 1 + 1
  BY <1>1, PartOf
<1>3. b \in Seq(TargetData) /\ Len(b) = l - middle + 1
  BY <1>1, PartOf
<1>4. c \in Seq(TargetData) /\ Len(c) = m - first + 1
  BY <1>1, PartOf
<1>5. d \in Seq(TargetData) /\ Len(d) = N - last + 1
  BY <1>1, PartOf
<1>6. SwapBlocks(entries, first, middle, last) = abc \o d
  BY DEF SwapBlocks, f, m, l
<1> HIDE DEF a, b, c, d
<1>7. ab \in Seq(TargetData) /\ Len(ab) = Len(a) + Len(b)
  BY <1>2, <1>3, Joined
<1> HIDE DEF ab
<1>8. abc \in Seq(TargetData) /\ Len(abc) = Len(ab) + Len(c)
  BY <1>4, <1>7, Joined
<1> HIDE DEF abc
<1>9. abc \o d \in Seq(TargetData) /\ Len(abc \o d) = Len(abc) + Len(d)
  BY <1>5, <1>8, Joined
<1> HIDE DEF N
<1>10. Len(abc) + Len(d) = N
  BY <1>1, <1>2, <1>3, <1>4, <1>5, <1>7, <1>8 DEF f, m, l
<1> QED BY <1>6, <1>9, <1>10 DEF N

LEMMA MovedEntries ==
  ASSUME NEW entries \in Seq(TargetData), NEW k \in DOMAIN entries, NEW up \in BOOLEAN
  PROVE  /\ MovedStep(entries, k, up) \in Seq(TargetData)
         /\ Len(MovedStep(entries, k, up)) = Len(entries)
         /\ MovedBlock(entries, k, up) \in Seq(TargetData)
         /\ Len(MovedBlock(entries, k, up)) = Len(entries)
<1>1. Len(entries) \in Nat /\ k \in 1 .. Len(entries) /\ DOMAIN entries = 1 .. Len(entries)
  OBVIOUS
<1>2. /\ MovedStep(entries, k, up) \in Seq(TargetData)
      /\ Len(MovedStep(entries, k, up)) = Len(entries)
  <2> DEFINE other == IF up THEN k - 1 ELSE k + 1
  <2>1. CASE other \notin DOMAIN entries \/ entries[other].type = "Position"
    BY <2>1 DEF MovedStep
  <2>2. CASE ~(other \notin DOMAIN entries \/ entries[other].type = "Position")
    <3>1. MovedStep(entries, k, up)
            = [entries EXCEPT ![k] = entries[other], ![other] = entries[k]]
      BY <2>2 DEF MovedStep
    <3>2. other \in DOMAIN entries
      BY <2>2
    <3> HIDE DEF other
    <3> QED BY <1>1, <3>1, <3>2
  <2> QED BY <2>1, <2>2
<1>3. /\ MovedBlock(entries, k, up) \in Seq(TargetData)
      /\ Len(MovedBlock(entries, k, up)) = Len(entries)
  <2> DEFINE N == Len(entries)
             previous == LastOf({h \in Heads(entries) : h < k})
             end == NextBlock(entries, k)
             beyond == NextBlock(entries, end)
  <2>1. k \in Nat /\ end \in 1 .. N + 1 /\ k < end /\ end \in Nat
    <3>1. end \in 1 .. N + 1 /\ (k <= N => k < end)
      BY <1>1, NextBlockBehind
    <3> HIDE DEF end
    <3> QED BY <1>1, <3>1
  <2>2. beyond \in 1 .. N + 1 /\ beyond \in Nat /\ (end <= N => end < beyond)
    <3> HIDE DEF end
    <3>1. beyond \in 1 .. N + 1 /\ (end <= N => end < beyond)
      BY <2>1, NextBlockBehind
    <3> HIDE DEF beyond
    <3> QED BY <1>1, <3>1
  <2>3. previous = 0 \/ (previous \in Nat \ {0} /\ previous < k)
    <3> DEFINE H == {h \in Heads(entries) : h < k}
    <3>1. H \subseteq 1 .. N
      BY DEF Heads
    <3>2. \A h \in H : h < k /\ h \in Nat \ {0}
      BY DEF Heads
    <3> HIDE DEF H
    <3>3. LastOf(H) = 0 \/ LastOf(H) \in H
      BY <1>1, <3>1, LastIsGreatest
    <3>4. LastOf(H) = previous
      BY DEF H
    <3> HIDE DEF previous
    <3> QED BY <3>2, <3>3, <3>4
  <2>4. MovedBlock(entries, k, up)
          = IF up THEN IF previous = 0 THEN entries ELSE SwapBlocks(entries, previous, k, end)
            ELSE IF end > N THEN entries ELSE SwapBlocks(entries, k, end, beyond)
    BY DEF MovedBlock
  <2> HIDE DEF previous, end, beyond
  <2>5. CASE up /\ previous # 0
    <3>1. previous \in Nat \ {0} /\ previous <= k /\ k <= end /\ end <= Len(entries) + 1
      BY <1>1, <2>1, <2>3, <2>5
    <3> QED BY <2>1, <2>4, <2>5, <3>1, SwappedBlocks
  <2>6. CASE ~up /\ ~(end > N)
    <3>1. k \in Nat \ {0} /\ k <= end /\ end <= beyond /\ beyond <= Len(entries) + 1
      BY <1>1, <2>1, <2>2, <2>6
    <3> QED BY <2>1, <2>2, <2>4, <2>6, <3>1, SwappedBlocks
  <2>7. CASE ~(up /\ previous # 0) /\ ~(~up /\ ~(end > N))
    BY <2>4, <2>7
  <2> QED BY <2>5, <2>6, <2>7
<1> QED BY <1>2, <1>3

LEMMA MovedRoute ==
  ASSUME TargetsOK, NEW i \in DOMAIN Targets, NEW up \in BOOLEAN
  PROVE  /\ MoveTargetWithinMap(Targets, i, up) \in Seq(TargetData)
         /\ Len(MoveTargetWithinMap(Targets, i, up)) <= MaxTargets
<1> DEFINE map == Targets[i].mapId
           S == OnMap(Targets, map)
           entries == MapEntries(Targets, map)
           Rank(n) == Cardinality({j \in S : j <= n})
           k == Rank(i)
           now == IF Targets[i].type = "Position" THEN MovedBlock(entries, k, up)
                                                  ELSE MovedStep(entries, k, up)
           t == [n \in DOMAIN Targets |-> IF Targets[n].mapId = map THEN now[Rank(n)] ELSE Targets[n]]
<1>1. Targets \in Seq(TargetData) /\ Len(Targets) <= MaxTargets
  BY DEF TargetsOK
<1>2. MoveTargetWithinMap(Targets, i, up) = t
  BY DEF MoveTargetWithinMap, WithMapEntries
<1>3. entries \in Seq(TargetData) /\ \A n \in S : Rank(n) \in DOMAIN entries
  BY <1>1, EntriesOfMap
<1>4. i \in S /\ \A n \in DOMAIN Targets : Targets[n].mapId = map => n \in S
  BY DEF OnMap
<1> HIDE DEF S, entries, map, Rank
<1>5. now \in Seq(TargetData) /\ Len(now) = Len(entries)
  BY <1>3, <1>4, MovedEntries
<1> HIDE DEF now
<1>6. \A n \in S : now[Rank(n)] \in TargetData
  BY <1>3, <1>5
<1>7. \A n \in DOMAIN Targets : t[n] \in TargetData
  BY <1>1, <1>4, <1>6
<1>8. t \in Seq(TargetData) /\ Len(t) = Len(Targets)
  BY <1>1, <1>7
<1> QED BY <1>1, <1>2, <1>8

LEMMA WindowEdits ==
  ASSUME Inv, \/ \E step \in NewSteps, selected \in 0 .. Len(Targets) : Add(step, selected)
              \/ \E i \in DOMAIN Targets : \/ Delete(i)
                                           \/ \E up \in BOOLEAN : Move(i, up)
                                           \/ ToggleIntermediate(i)
  PROVE  Inv' /\ Aside
<1>1. TargetsOK /\ mapId \in Map /\ player \in Place
  BY DEF Inv
<1>2. ASSUME NEW step \in NewSteps, NEW selected \in 0 .. Len(Targets), Add(step, selected)
      PROVE  Inv' /\ Aside
  <2> DEFINE place == IF IsSceneTransitionActive THEN 0 ELSE player
             placed == [[step EXCEPT !.mapId = mapId] EXCEPT !.position = place]
  <2>1. step \in TargetData /\ place \in Place
    BY <1>1, RoutesAssumption, TargetingAssumption
  <2> HIDE DEF place
  <2>2. placed \in TargetData
    BY <1>1, <2>1 DEF TargetData
  <2>3. /\ Len(Targets) < MaxTargets
        /\ EditTargets(Inserted(Targets, [step EXCEPT !.mapId = mapId,
              !.position = IF IsSceneTransitionActive THEN 0 ELSE player], selected))
    BY <1>2 DEF Add
  <2>4. [step EXCEPT !.mapId = mapId, !.position = IF IsSceneTransitionActive THEN 0 ELSE player]
          = placed
    BY <2>1 DEF TargetData, place
  <2> HIDE DEF placed
  <2>5. EditTargets(Inserted(Targets, placed, selected))
    BY <2>3, <2>4
  <2>6. /\ Inserted(Targets, placed, selected) \in Seq(TargetData)
        /\ Len(Inserted(Targets, placed, selected)) <= MaxTargets
    BY <1>1, <2>2, <2>3, AddedRoute
  <2> QED BY <2>5, <2>6, EditStep
<1>3. ASSUME NEW i \in DOMAIN Targets, Delete(i) PROVE Inv' /\ Aside
  BY <1>1, <1>3, RemovedRoute, EditStep DEF Delete
<1>4. ASSUME NEW i \in DOMAIN Targets, NEW up \in BOOLEAN, Move(i, up) PROVE Inv' /\ Aside
  BY <1>1, <1>4, MovedRoute, EditStep DEF Move
<1>5. ASSUME NEW i \in DOMAIN Targets, ToggleIntermediate(i) PROVE Inv' /\ Aside
  <2> DEFINE other == ~Targets[i].intermediate
             step == [Targets[i] EXCEPT !.intermediate = other]
             targets == [Targets EXCEPT ![i] = step]
  <2>1. /\ Targets \in Seq(TargetData) /\ Targets[i] \in TargetData /\ Len(Targets) <= MaxTargets
    BY <1>1 DEF TargetsOK
  <2>2. EditTargets([Targets EXCEPT ![i].intermediate = ~@])
    BY <1>5 DEF ToggleIntermediate
  <2>3. [Targets EXCEPT ![i].intermediate = ~@] = targets
    BY <2>1
  <2>4. other \in BOOLEAN
    OBVIOUS
  <2> HIDE DEF other
  <2>5. step \in TargetData
    BY <2>1, <2>4 DEF TargetData
  <2> HIDE DEF step
  <2>6. targets \in Seq(TargetData) /\ Len(targets) <= MaxTargets
    BY <2>1, <2>5
  <2> HIDE DEF targets
  <2>7. EditTargets(targets)
    BY <2>2, <2>3
  <2> QED BY <2>6, <2>7, EditStep
<1> QED BY <1>2, <1>3, <1>4, <1>5

----
(* Blocks: what the window's moves do to them.                                  *)

\* Every place of InOrder is the rank of the number that stands there.
LEMMA InOrderRanks ==
  ASSUME NEW S, NEW N \in Nat
  PROVE  \A k \in DOMAIN InOrder(S, N) :
            Cardinality({j \in S : j \in 1 .. InOrder(S, N)[k]}) = k
<1>a. PICK f : InOrder(S, N) = f[N] /\ Listing(f, S, N)
  BY InOrderLists
<1>1. /\ InOrder(S, N) = f[N]
      /\ f[0] = <<>>
      /\ \A n \in 1 .. N : f[n] = IF n \in S THEN Append(f[n - 1], n) ELSE f[n - 1]
  BY <1>a, Zenon DEF Listing
<1> DEFINE Upto(n) == {j \in S : j \in 1 .. n}
           Ranked(n) == \A k \in 1 .. Len(f[n]) : Cardinality(Upto(f[n][k])) = k
           T == {n \in 0 .. N : /\ f[n] \in Seq(Nat)
                                /\ Len(f[n]) = Cardinality(Upto(n))
                                /\ Ranked(n)}
<1>2. 0 \in T
  <2>1. Upto(0) = {}
    OBVIOUS
  <2>2. Cardinality(Upto(0)) = 0
    BY <2>1, FS_EmptySet
  <2>3. f[0] \in Seq(Nat) /\ Len(f[0]) = 0
    BY <1>1
  <2> HIDE DEF Upto
  <2>4. Ranked(0)
    BY <2>3
  <2> QED BY <2>2, <2>3, <2>4
<1>3. ASSUME NEW n \in 1 .. N, n - 1 \in T PROVE n \in T
  <2>1. f[n] = IF n \in S THEN Append(f[n - 1], n) ELSE f[n - 1]
    BY <1>1
  <2>2. Upto(n) = IF n \in S THEN Upto(n - 1) \cup {n} ELSE Upto(n - 1)
    OBVIOUS
  <2>3. n \notin Upto(n - 1)
    OBVIOUS
  <2>4. IsFiniteSet(Upto(n - 1))
    <3>1. IsFiniteSet(1 .. n - 1)
      BY FS_Interval
    <3>2. Upto(n - 1) \subseteq 1 .. n - 1
      OBVIOUS
    <3> QED BY <3>1, <3>2, FS_Subset
  <2>5. Cardinality(Upto(n - 1) \cup {n}) = Cardinality(Upto(n - 1)) + 1
    BY <2>3, <2>4, FS_AddElement
  <2>6. Cardinality(Upto(n - 1)) \in Nat
    BY <2>4, FS_CardinalityType
  <2>7. /\ f[n - 1] \in Seq(Nat)
        /\ Len(f[n - 1]) = Cardinality(Upto(n - 1))
        /\ Ranked(n - 1)
    BY <1>3
  <2> HIDE DEF Upto
  <2>8. CASE n \notin S
    <3>1. f[n] = f[n - 1] /\ Upto(n) = Upto(n - 1)
      BY <2>1, <2>2, <2>8
    <3>2. Ranked(n)
      BY <2>7, <3>1
    <3> HIDE DEF Ranked
    <3> QED BY <2>7, <3>1, <3>2
  <2>9. CASE n \in S
    <3> DEFINE s == f[n - 1]
               c == Len(s) + 1
    <3>1. f[n] = Append(s, n) /\ Cardinality(Upto(n)) = c
      BY <2>1, <2>2, <2>5, <2>7, <2>9
    <3>2. s \in Seq(Nat) /\ Len(s) \in Nat /\ n \in Nat
      BY <2>7
    <3>3. f[n] \in Seq(Nat) /\ Len(f[n]) = c
      BY <3>1, <3>2
    <3>4. \A k \in 1 .. Len(s) : Cardinality(Upto(s[k])) = k
      BY <2>7
    <3> HIDE DEF s, Ranked
    <3>5. ASSUME NEW k \in 1 .. c PROVE Cardinality(Upto(f[n][k])) = k
      <4>1. CASE k = c
        <5>1. Append(s, n)[c] = n
          BY <3>2
        <5> QED BY <3>1, <4>1, <5>1
      <4>2. CASE k \in 1 .. Len(s)
        <5>1. Append(s, n)[k] = s[k]
          BY <3>2, <4>2
        <5> QED BY <3>1, <3>4, <4>2, <5>1
      <4> QED BY <3>2, <4>1, <4>2
    <3>6. Ranked(n)
      <4>1. \A k \in 1 .. Len(f[n]) : Cardinality(Upto(f[n][k])) = k
        BY <3>3, <3>5
      <4> QED BY <4>1 DEF Ranked
    <3>7. n \in 0 .. N /\ Len(f[n]) = Cardinality(Upto(n))
      BY <3>1, <3>3
    <3> HIDE DEF c
    <3> QED BY <3>3, <3>6, <3>7, Zenon
  <2> QED BY <2>8, <2>9
<1>4. N \in T
  <2> HIDE DEF T
  <2> QED BY <1>2, <1>3, UpTo
<1>5. Ranked(N) /\ DOMAIN f[N] = 1 .. Len(f[N])
  BY <1>4
<1> QED BY <1>1, <1>5

\* The steps of a map replaced one for one by steps of that map are its steps.
LEMMA EntriesReplaced ==
  ASSUME NEW targets \in Seq(TargetData), NEW map, NEW now \in Seq(TargetData),
         Len(now) = Len(MapEntries(targets, map)), \A k \in DOMAIN now : now[k].mapId = map
  PROVE  MapEntries(WithMapEntries(targets, map, now), map) = now
<1> DEFINE S == OnMap(targets, map)
           N == Len(targets)
           indices == InOrder(S, N)
           Rank(i) == Cardinality({j \in S : j <= i})
           r == WithMapEntries(targets, map, now)
<1>1. N \in Nat /\ S \subseteq 1 .. N /\ DOMAIN targets = 1 .. N
      /\ \A i \in 1 .. N : targets[i] \in TargetData /\ (targets[i].mapId = map <=> i \in S)
  BY DEF OnMap
<1>2. r = [i \in 1 .. N |-> IF targets[i].mapId = map THEN now[Rank(i)] ELSE targets[i]]
  BY <1>1 DEF WithMapEntries
<1>3. /\ indices \in Seq(S) /\ Len(now) = Len(indices)
      /\ \A i \in S : Rank(i) \in DOMAIN indices
  <2>1. MapEntryIndices(targets, map) = indices
    BY DEF MapEntryIndices
  <2>2. /\ MapEntryIndices(targets, map) \in Seq(S)
        /\ Len(MapEntries(targets, map)) = Len(MapEntryIndices(targets, map))
        /\ \A i \in S : Rank(i) \in DOMAIN MapEntryIndices(targets, map)
    BY EntriesOfMap
  <2> QED BY <2>1, <2>2
<1>4. \A k \in DOMAIN indices : Rank(indices[k]) = k
  <2> SUFFICES ASSUME NEW k \in DOMAIN indices PROVE Rank(indices[k]) = k
    OBVIOUS
  <2>1. Cardinality({j \in S : j \in 1 .. indices[k]}) = k
    BY <1>1, InOrderRanks, Zenon
  <2> HIDE DEF indices, S, N
  <2>2. indices[k] \in S
    BY <1>3
  <2>3. indices[k] \in 1 .. N /\ \A j \in S : j \in 1 .. N
    BY <1>1, <2>2, Zenon
  <2>4. \A j \in 1 .. N : j <= indices[k] <=> j \in 1 .. indices[k]
    BY <2>3
  <2>5. {j \in S : j <= indices[k]} = {j \in S : j \in 1 .. indices[k]}
    BY <2>3, <2>4, Zenon
  <2> QED BY <2>1, <2>5, Zenon
<1>n. r = WithMapEntries(targets, map, now) /\ indices = InOrder(S, N) /\ S = OnMap(targets, map)
      /\ N = Len(targets)
  OBVIOUS
<1> HIDE DEF S, N, indices, Rank, r
<1>5. DOMAIN now = DOMAIN indices
  BY <1>3
<1>6. \A i \in 1 .. N : r[i] = IF i \in S THEN now[Rank(i)] ELSE targets[i]
  BY <1>1, <1>2
<1>7. \A i \in S : now[Rank(i)].mapId = map /\ now[Rank(i)] \in TargetData
  BY <1>3, <1>5
<1>8. r \in Seq(TargetData) /\ Len(r) = N /\ DOMAIN r = 1 .. N
  <2>1. \A i \in 1 .. N : r[i] \in TargetData
    BY <1>1, <1>6, <1>7, Zenon
  <2> QED BY <1>1, <1>2, <2>1
<1>9. OnMap(r, map) = S
  <2>1. \A i \in 1 .. N : r[i].mapId = map <=> i \in S
    BY <1>1, <1>6, <1>7, Zenon
  <2>2. OnMap(r, map) = {i \in 1 .. N : r[i].mapId = map}
    BY <1>8 DEF OnMap
  <2> QED BY <1>1, <2>1, <2>2, Zenon
<1>10. MapEntryIndices(r, map) = indices
  BY <1>8, <1>9, <1>n, Zenon DEF MapEntryIndices
<1>11. MapEntries(r, map) = [k \in DOMAIN indices |-> r[indices[k]]]
  BY <1>10, Zenon DEF MapEntries
<1>12. ASSUME NEW k \in DOMAIN indices PROVE r[indices[k]] = now[k]
  <2>1. indices[k] \in S
    BY <1>3
  <2>2. indices[k] \in 1 .. N
    BY <1>1, <2>1, Zenon
  <2>3. r[indices[k]] = now[Rank(indices[k])]
    BY <1>6, <2>1, <2>2, Zenon
  <2> QED BY <1>4, <2>3, Zenon
<1>13. now = [k \in DOMAIN indices |-> now[k]]
  BY <1>5
<1>14. [k \in DOMAIN indices |-> r[indices[k]]] = [k \in DOMAIN indices |-> now[k]]
  BY <1>12, Zenon
<1> QED BY <1>n, <1>11, <1>13, <1>14, Zenon

\* The block behind a place, by its two properties.
LEMMA NextBlockIs ==
  ASSUME NEW entries \in Seq(TargetData), NEW k \in Nat, k <= Len(entries)
  PROVE  LET n == NextBlock(entries, k)
         IN  /\ n \in Nat /\ k < n /\ n <= Len(entries) + 1
             /\ \A h \in Heads(entries) : h > k => n <= h
             /\ n = Len(entries) + 1 \/ n \in Heads(entries)
<1> DEFINE H == {h \in Heads(entries) : h > k}
           N == Len(entries)
           n == NextBlock(entries, k)
<1>1. N \in Nat /\ H \subseteq Nat /\ \A h \in H : h \in Heads(entries) /\ h > k /\ h <= N
  BY DEF Heads
<1>2. n = IF \E h \in Heads(entries) : h > k THEN Min(H) ELSE N + 1
  BY DEF NextBlock
<1>3. CASE H # {}
  <2>0. n = Min(H)
    BY <1>2, <1>3
  <2>1. \A h \in Heads(entries) : h > k => h \in H
    OBVIOUS
  <2> HIDE DEF H
  <2>2. \E x \in H : \A y \in H : x <= y
    BY <1>1, <1>3, LeastNatural
  <2>3. Min(H) \in H /\ \A y \in H : Min(H) <= y
    BY <2>2 DEF Min
  <2> HIDE DEF n
  <2>4. n \in H /\ \A y \in H : n <= y
    BY <2>0, <2>3
  <2>5. n \in Nat /\ k < n /\ n <= N + 1 /\ n \in Heads(entries)
    BY <1>1, <2>4
  <2> QED BY <2>1, <2>4, <2>5 DEF n
<1>4. CASE H = {}
  <2>1. \A h \in Heads(entries) : ~(h > k)
    BY <1>4
  <2>2. n = N + 1
    BY <1>2, <2>1, Zenon
  <2> HIDE DEF n
  <2>3. n \in Nat /\ k < n /\ n <= N + 1
    BY <1>1, <2>2
  <2> QED BY <2>1, <2>2, <2>3 DEF n
<1> QED BY <1>3, <1>4

\* And no other place has both.
LEMMA NextBlockUnique ==
  ASSUME NEW entries \in Seq(TargetData), NEW k \in Nat, NEW n \in Nat,
         k < n, n <= Len(entries) + 1,
         \A h \in Heads(entries) : h > k => n <= h,
         n = Len(entries) + 1 \/ n \in Heads(entries)
  PROVE  NextBlock(entries, k) = n
<1> DEFINE m == NextBlock(entries, k)
           N == Len(entries)
<1>0. N \in Nat /\ k <= N
  OBVIOUS
<1>1. /\ m \in Nat /\ k < m /\ m <= N + 1
      /\ \A h \in Heads(entries) : h > k => m <= h
      /\ m = N + 1 \/ m \in Heads(entries)
  BY <1>0, NextBlockIs
<1>2. m = N + 1 \/ n <= m
  <2> HIDE DEF m
  <2> QED BY <1>1
<1>3. n = N + 1 \/ m <= n
  <2> HIDE DEF m
  <2> QED BY <1>1
<1> HIDE DEF m
<1>4. m = n
  BY <1>0, <1>1, <1>2, <1>3
<1> QED BY <1>4 DEF m

\* The part of a sequence from one place to another. Two parts that agree place by
\* place are equal.
Part(s, m, n) == SubSeq(s, m, n)

Agree(s, m, n, t, i, j) ==
    /\ s \in Seq(TargetData) /\ m \in Nat \ {0} /\ n \in Nat /\ m <= n + 1 /\ n <= Len(s)
    /\ t \in Seq(TargetData) /\ i \in Nat \ {0} /\ j \in Nat /\ i <= j + 1 /\ j <= Len(t)
    /\ n - m = j - i
    /\ \A x \in 0 .. n - m : s[m + x] = t[i + x]

LEMMA SameParts ==
  ASSUME NEW s, NEW m, NEW n, NEW t, NEW i, NEW j, Agree(s, m, n, t, i, j)
  PROVE  Part(s, m, n) = Part(t, i, j)
<1>0. /\ s \in Seq(TargetData) /\ m \in Nat \ {0} /\ n \in Nat /\ m <= n + 1 /\ n <= Len(s)
      /\ t \in Seq(TargetData) /\ i \in Nat \ {0} /\ j \in Nat /\ i <= j + 1 /\ j <= Len(t)
      /\ n - m = j - i
      /\ \A x \in 0 .. n - m : s[m + x] = t[i + x]
  BY Zenon DEF Agree
<1> DEFINE a == SubSeq(s, m, n)
           b == SubSeq(t, i, j)
<1>1. a \in Seq(TargetData) /\ Len(a) = n - m + 1 /\ \A x \in 1 .. n - m + 1 : a[x] = s[m + x - 1]
  <2>1. \A x \in m .. n : s[x] \in TargetData
    BY <1>0
  <2> QED BY <1>0, <2>1, SubSeqProperties
<1>2. b \in Seq(TargetData) /\ Len(b) = j - i + 1 /\ \A x \in 1 .. j - i + 1 : b[x] = t[i + x - 1]
  <2>1. \A x \in i .. j : t[x] \in TargetData
    BY <1>0
  <2> QED BY <1>0, <2>1, SubSeqProperties
<1> HIDE DEF a, b
<1>3. ASSUME NEW x \in 1 .. Len(a) PROVE a[x] = b[x]
  <2> DEFINE y == x - 1
  <2>1. y \in 0 .. n - m /\ m + x - 1 = m + y /\ i + x - 1 = i + y
    BY <1>0, <1>1, <1>3
  <2>2. s[m + y] = t[i + y]
    BY <1>0, <2>1
  <2>3. a[x] = s[m + x - 1] /\ b[x] = t[i + x - 1]
    BY <1>0, <1>1, <1>2, <1>3
  <2> QED BY <2>1, <2>2, <2>3, Zenon
<1>4. a = b
  BY <1>0, <1>1, <1>2, <1>3, SeqEqual
<1> QED BY <1>4 DEF a, b, Part

\* The members of a part.
LEMMA MembersOfPart ==
  ASSUME NEW S, NEW s \in Seq(S), NEW m \in Nat \ {0}, NEW n \in Nat, m <= n + 1, n <= Len(s)
  PROVE  ToSet(Part(s, m, n)) = {s[x] : x \in m .. n}
<1> DEFINE a == SubSeq(s, m, n)
<1>1. a \in Seq(S) /\ Len(a) = n - m + 1 /\ \A x \in 1 .. n - m + 1 : a[x] = s[m + x - 1]
  <2>1. \A x \in m .. n : s[x] \in S
    OBVIOUS
  <2> QED BY <2>1, SubSeqProperties
<1> HIDE DEF a
<1>2. DOMAIN a = 1 .. n - m + 1
  BY <1>1
<1>3. ASSUME NEW x \in DOMAIN a PROVE a[x] \in {s[y] : y \in m .. n}
  <2> DEFINE y == m + x - 1
  <2>1. y \in m .. n /\ a[x] = s[y]
    BY <1>1, <1>2
  <2> QED BY <2>1
<1>4. ASSUME NEW y \in m .. n PROVE \E x \in DOMAIN a : a[x] = s[y]
  <2> DEFINE x == y - m + 1
  <2>1. x \in 1 .. n - m + 1 /\ m + x - 1 = y
    OBVIOUS
  <2> HIDE DEF x
  <2>2. a[x] = s[y]
    BY <1>1, <2>1
  <2> QED BY <1>2, <2>1, <2>2
<1>5. ToSet(a) = {s[x] : x \in m .. n}
  <2>1. ToSet(a) = {a[x] : x \in DOMAIN a}
    BY DEF ToSet
  <2>2. \A z : z \in {a[x] : x \in DOMAIN a} <=> z \in {s[x] : x \in m .. n}
    BY <1>3, <1>4, Zenon
  <2> QED BY <2>1, <2>2, Zenon
<1> QED BY <1>5 DEF a, Part

\* Where the steps stand after two neighbouring stretches changed places.
LEMMA SwappedPlaces ==
  ASSUME NEW entries \in Seq(TargetData), NEW first \in Nat \ {0}, NEW middle \in Nat,
         NEW last \in Nat, first <= middle, middle <= last, last <= Len(entries) + 1
  PROVE  \A j \in 1 .. Len(entries) :
            SwapBlocks(entries, first, middle, last)[j] =
                IF j < first \/ j >= last THEN entries[j]
                ELSE IF j < first + (last - middle) THEN entries[j + (middle - first)]
                ELSE entries[j - (last - middle)]
<1> DEFINE N == Len(entries)
           f == first - 1
           m == middle - 1
           l == last - 1
           a == SubSeq(entries, 1, f)
           b == SubSeq(entries, middle, l)
           c == SubSeq(entries, first, m)
           d == SubSeq(entries, last, N)
           ab == a \o b
           abc == ab \o c
<1>1. /\ N \in Nat /\ f \in Nat /\ m \in Nat /\ l \in Nat
      /\ f <= N /\ m <= N /\ l <= N /\ 1 <= f + 1 /\ middle <= l + 1 /\ first <= m + 1
      /\ middle \in Nat \ {0} /\ last \in Nat \ {0} /\ N <= N /\ last <= N + 1
      /\ \A x \in 1 .. N : entries[x] \in TargetData
  OBVIOUS
<1>n. f = first - 1 /\ m = middle - 1 /\ l = last - 1
  OBVIOUS
<1> HIDE DEF f, m, l, N
<1>2. a \in Seq(TargetData) /\ Len(a) = f /\ \A x \in 1 .. f : a[x] = entries[x]
  <2>1. \A x \in 1 .. f : entries[x] \in TargetData
    BY <1>1
  <2>2. /\ a \in Seq(TargetData) /\ Len(a) = IF 1 <= f THEN f - 1 + 1 ELSE 0
        /\ \A x \in 1 .. f - 1 + 1 : a[x] = entries[1 + x - 1]
    BY <1>1, <2>1, SubSeqProperties
  <2> HIDE DEF a
  <2> QED BY <1>1, <2>2
<1>3. /\ b \in Seq(TargetData) /\ Len(b) = last - middle
      /\ \A x \in 1 .. last - middle : b[x] = entries[middle + x - 1]
  <2>0. middle \in Int /\ l \in Int
    BY <1>1
  <2>1. \A x \in middle .. l : entries[x] \in TargetData
    BY <1>1
  <2>2. /\ b \in Seq(TargetData) /\ Len(b) = IF middle <= l THEN l - middle + 1 ELSE 0
        /\ \A x \in 1 .. l - middle + 1 : b[x] = entries[middle + x - 1]
    BY <2>0, <2>1, SubSeqProperties
  <2>3. l - middle + 1 = last - middle /\ (middle <= l \/ last - middle = 0)
    BY <1>1, <1>n
  <2> HIDE DEF b
  <2> QED BY <2>2, <2>3
<1>4. /\ c \in Seq(TargetData) /\ Len(c) = middle - first
      /\ \A x \in 1 .. middle - first : c[x] = entries[first + x - 1]
  <2>0. first \in Int /\ m \in Int
    BY <1>1
  <2>1. \A x \in first .. m : entries[x] \in TargetData
    BY <1>1
  <2>2. /\ c \in Seq(TargetData) /\ Len(c) = IF first <= m THEN m - first + 1 ELSE 0
        /\ \A x \in 1 .. m - first + 1 : c[x] = entries[first + x - 1]
    BY <2>0, <2>1, SubSeqProperties
  <2>3. m - first + 1 = middle - first /\ (first <= m \/ middle - first = 0)
    BY <1>1, <1>n
  <2> HIDE DEF c
  <2> QED BY <2>2, <2>3
<1>5. /\ d \in Seq(TargetData) /\ Len(d) = N - last + 1
      /\ \A x \in 1 .. N - last + 1 : d[x] = entries[last + x - 1]
  <2>0. last \in Int /\ N \in Int
    BY <1>1
  <2>1. \A x \in last .. N : entries[x] \in TargetData
    BY <1>1
  <2>2. /\ d \in Seq(TargetData) /\ Len(d) = IF last <= N THEN N - last + 1 ELSE 0
        /\ \A x \in 1 .. N - last + 1 : d[x] = entries[last + x - 1]
    BY <2>0, <2>1, SubSeqProperties
  <2> HIDE DEF d
  <2> QED BY <1>1, <2>2
<1>6. SwapBlocks(entries, first, middle, last) = abc \o d
  BY DEF SwapBlocks, f, m, l, N
<1> HIDE DEF a, b, c, d
<1>7. /\ ab \in Seq(TargetData) /\ Len(ab) = Len(a) + Len(b)
      /\ \A x \in 1 .. Len(a) + Len(b) : ab[x] = IF x <= Len(a) THEN a[x] ELSE b[x - Len(a)]
  BY <1>2, <1>3, ConcatProperties
<1> HIDE DEF ab
<1>8. /\ abc \in Seq(TargetData) /\ Len(abc) = Len(ab) + Len(c)
      /\ \A x \in 1 .. Len(ab) + Len(c) : abc[x] = IF x <= Len(ab) THEN ab[x] ELSE c[x - Len(ab)]
  <2>1. ab \in Seq(TargetData) /\ c \in Seq(TargetData)
    BY <1>4, <1>7
  <2> QED BY <2>1, ConcatProperties
<1> HIDE DEF abc
<1>9. \A x \in 1 .. Len(abc) + Len(d) : (abc \o d)[x] = IF x <= Len(abc) THEN abc[x] ELSE d[x - Len(abc)]
  <2>1. abc \in Seq(TargetData) /\ d \in Seq(TargetData)
    BY <1>5, <1>8
  <2> QED BY <2>1, ConcatProperties
<1>10. /\ Len(a) = first - 1 /\ Len(ab) = first - 1 + (last - middle)
       /\ Len(abc) = last - 1 /\ Len(abc) + Len(d) = N
       /\ Len(a) + Len(b) = Len(ab) /\ Len(ab) + Len(c) = Len(abc) /\ f = first - 1
  BY <1>1, <1>n, <1>2, <1>3, <1>4, <1>5, <1>7, <1>8
<1>11. ASSUME NEW j \in 1 .. N
       PROVE  (abc \o d)[j] = IF j < first \/ j >= last THEN entries[j]
                ELSE IF j < first + (last - middle) THEN entries[j + (middle - first)]
                ELSE entries[j - (last - middle)]
  <2>0. j \in Nat /\ (abc \o d)[j] = IF j <= Len(abc) THEN abc[j] ELSE d[j - Len(abc)]
    <3>1. j \in 1 .. Len(abc) + Len(d) /\ j \in Nat
      BY <1>10
    <3> QED BY <1>9, <3>1, Zenon
  <2>1. CASE j >= last
    <3> DEFINE x == j - (last - 1)
    <3>1. x \in 1 .. N - last + 1 /\ last + x - 1 = j /\ ~(j <= Len(abc)) /\ j - Len(abc) = x
      BY <1>1, <1>10, <2>0, <2>1
    <3>2. d[x] = entries[j]
      BY <1>5, <3>1
    <3> QED BY <2>0, <2>1, <3>1, <3>2
  <2>2. CASE j < first
    <3>1. j \in 1 .. Len(a) /\ j \in 1 .. f /\ j \in 1 .. Len(a) + Len(b) /\ j <= Len(ab)
          /\ j \in 1 .. Len(ab) + Len(c) /\ j <= Len(abc)
      BY <1>1, <1>10, <2>0, <2>2
    <3>2. abc[j] = ab[j]
      BY <1>8, <3>1
    <3>3. ab[j] = a[j]
      BY <1>7, <3>1
    <3>4. a[j] = entries[j]
      BY <1>2, <3>1
    <3> QED BY <2>0, <2>2, <3>1, <3>2, <3>3, <3>4
  <2>3. CASE ~(j < first) /\ j < first + (last - middle)
    <3> DEFINE x == j - (first - 1)
    <3>1. /\ j \in 1 .. Len(a) + Len(b) /\ j <= Len(ab) /\ j \in 1 .. Len(ab) + Len(c)
          /\ j <= Len(abc) /\ ~(j <= Len(a)) /\ j - Len(a) = x /\ x \in 1 .. last - middle
          /\ middle + x - 1 = j + (middle - first) /\ ~(j >= last)
      BY <1>1, <1>10, <2>0, <2>3
    <3> HIDE DEF x
    <3>2. abc[j] = ab[j]
      BY <1>8, <3>1
    <3>3. ab[j] = b[x]
      BY <1>7, <3>1
    <3>4. b[x] = entries[middle + x - 1]
      BY <1>3, <3>1
    <3> QED BY <2>0, <2>3, <3>1, <3>2, <3>3, <3>4
  <2>moved. CASE ~(j < first) /\ ~(j >= last) /\ ~(j < first + (last - middle))
    <3> DEFINE x == j - (first - 1 + (last - middle))
    <3>1. /\ j \in 1 .. Len(ab) + Len(c) /\ ~(j <= Len(ab)) /\ j - Len(ab) = x
          /\ x \in 1 .. middle - first /\ first + x - 1 = j - (last - middle) /\ j <= Len(abc)
      BY <1>1, <1>10, <2>0, <2>moved
    <3> HIDE DEF x
    <3>2. abc[j] = c[x] /\ c[x] = entries[first + x - 1]
      BY <1>4, <1>8, <3>1
    <3> QED BY <2>0, <2>moved, <3>1, <3>2
  <2> QED BY <2>1, <2>2, <2>3, <2>moved
<1> QED BY <1>6, <1>11 DEF N

\* A Target with the steps that follow it, and what stands before the first.
BlockAt(entries, h) == Part(entries, h, NextBlock(entries, h) - 1)
Ahead(entries) == Part(entries, 1, NextBlock(entries, 0) - 1)

\* The block at a is followed by the one at b, and that by what stands at c.
Adjoining(entries, a, b, c) ==
    /\ a < b /\ b < c /\ c <= Len(entries) + 1 /\ a \in Heads(entries) /\ b \in Heads(entries)
    /\ c = Len(entries) + 1 \/ c \in Heads(entries)
    /\ \A h \in Heads(entries) : (h > a => b <= h) /\ (h > b => c <= h)

\* Two sequences with the same blocks, at the same places or others.
SameBlocks(s, e) ==
    /\ Ahead(s) = Ahead(e)
    /\ {BlockAt(s, h) : h \in Heads(s)} = {BlockAt(e, h) : h \in Heads(e)}

\* Two neighbouring blocks changed places: the blocks are what they were.
LEMMA SwapKeepsBlocks ==
  ASSUME NEW e \in Seq(TargetData), NEW a \in Nat \ {0}, NEW b \in Nat \ {0}, NEW c \in Nat \ {0},
         Adjoining(e, a, b, c)
  PROVE  SameBlocks(SwapBlocks(e, a, b, c), e)
<1> DEFINE N == Len(e)
           H == Heads(e)
           s == SwapBlocks(e, a, b, c)
           G == Heads(s)
           d == a + (c - b)
<1>0. /\ a < b /\ b < c /\ c <= N + 1 /\ a \in H /\ b \in H /\ (c = N + 1 \/ c \in H)
      /\ \A h \in H : (h > a => b <= h) /\ (h > b => c <= h)
  BY Zenon DEF Adjoining
<1>1. N \in Nat /\ a \in Nat /\ 1 <= a /\ a <= N
  BY <1>0 DEF Heads
<1>2. b \in Nat /\ a < b /\ b <= N + 1 /\ (\A h \in H : h > a => b <= h) /\ b \in H
  BY <1>0, <1>1
<1>3. /\ c \in Nat /\ b < c /\ c <= N + 1 /\ (\A h \in H : h > b => c <= h)
      /\ c = N + 1 \/ c \in H
  BY <1>0, <1>1
<1>b. NextBlock(e, a) = b /\ NextBlock(e, b) = c
  BY <1>1, <1>2, <1>3, NextBlockUnique
<1>4. d \in Nat /\ a < d /\ d < c
  BY <1>1, <1>2, <1>3
<1>5. /\ a \in Nat \ {0} /\ a <= b /\ b <= c /\ c <= Len(e) + 1
  BY <1>1, <1>2, <1>3
<1>6. s \in Seq(TargetData) /\ Len(s) = N
  BY <1>2, <1>3, <1>5, SwappedBlocks
<1>7. \A j \in 1 .. N : s[j] = IF j < a \/ j >= c THEN e[j]
                               ELSE IF j < d THEN e[j + (b - a)] ELSE e[j - (c - b)]
  <2>1. \A j \in 1 .. Len(e) : SwapBlocks(e, a, b, c)[j] =
                IF j < a \/ j >= c THEN e[j]
                ELSE IF j < a + (c - b) THEN e[j + (b - a)] ELSE e[j - (c - b)]
    BY <1>5, SwappedPlaces
  <2> QED BY <2>1, Zenon
<1>d. d = a + (c - b) /\ Len(e) = N
  OBVIOUS
<1>8. /\ \A j \in 1 .. N : j \in H <=> e[j].type = "Position"
      /\ \A j \in 1 .. N : j \in G <=> s[j].type = "Position"
      /\ \A j \in H : j \in 1 .. N
      /\ \A j \in G : j \in 1 .. N
  BY <1>6 DEF Heads
<1>ab. Ahead(s) = Part(s, 1, NextBlock(s, 0) - 1) /\ Ahead(e) = Part(e, 1, NextBlock(e, 0) - 1)
  BY DEF Ahead
<1> HIDE DEF N, H, s, G, d
<1>9. ASSUME NEW j \in 1 .. N
      PROVE  j \in G <=> ((j < a \/ j >= c) /\ j \in H) \/ j = a \/ j = d
  <2>1. CASE j < a \/ j >= c
    <3>1. s[j] = e[j]
      BY <1>7, <2>1
    <3>2. j # a /\ j # d
      BY <1>1, <1>2, <1>3, <1>4, <2>1
    <3> QED BY <1>8, <2>1, <3>1, <3>2, Zenon
  <2>2. CASE ~(j < a \/ j >= c) /\ j < d
    <3> DEFINE x == j + (b - a)
    <3>0. s[j] = e[x]
      BY <1>7, <2>2, Zenon
    <3>1. x \in 1 .. N /\ b <= x /\ x < c /\ (x = b <=> j = a) /\ j # d
      BY <1>1, <1>2, <1>3, <1>4, <1>d, <2>2
    <3> HIDE DEF x
    <3>2. x \in H <=> x = b
      BY <1>1, <1>2, <1>3, <3>1
    <3> QED BY <1>8, <2>2, <3>0, <3>1, <3>2, Zenon
  <2>3. CASE ~(j < a \/ j >= c) /\ ~(j < d)
    <3> DEFINE x == j - (c - b)
    <3>0. s[j] = e[x]
      BY <1>7, <2>3, Zenon
    <3>1. x \in 1 .. N /\ a <= x /\ x < b /\ (x = a <=> j = d) /\ j # a
      BY <1>1, <1>2, <1>3, <1>4, <1>d, <2>3
    <3> HIDE DEF x
    <3>2. x \in H <=> x = a
      BY <1>0, <1>1, <1>2, <1>3, <3>1
    <3> QED BY <1>8, <2>3, <3>0, <3>1, <3>2, Zenon
  <2> QED BY <2>1, <2>2, <2>3, Zenon
<1>10. a \in H /\ a \in G /\ d \in G /\ (c = N + 1 \/ c \in G)
  <2>1. a \in 1 .. N /\ d \in 1 .. N /\ (c = N + 1 \/ c \in 1 .. N)
    BY <1>1, <1>2, <1>3, <1>4
  <2>2. a \in H
    BY <1>0
  <2>3. c = N + 1 \/ c \in G
    <3>1. c >= c
      BY <1>3
    <3> QED BY <1>3, <1>9, <2>1, <3>1, Zenon
  <2> QED BY <1>9, <2>1, <2>2, <2>3, Zenon
<1>g. \A j \in G : j \in Nat /\ 1 <= j /\ j <= N /\ (j < a \/ j = a \/ j = d \/ j >= c)
                   /\ (j \in H \/ j = a \/ j = d)
  <2>1. \A j \in G : j \in 1 .. N /\ (((j < a \/ j >= c) /\ j \in H) \/ j = a \/ j = d)
    BY <1>8, <1>9, Zenon
  <2> QED BY <2>1
<1>h. \A j \in H : /\ j \in Nat /\ 1 <= j /\ j <= N /\ (j < a \/ j = a \/ j = b \/ j >= c)
                   /\ (j < a \/ j >= c => j \in G)
  <2>1. \A j \in H : j \in 1 .. N /\ (j < a \/ j >= c => j \in G)
    BY <1>8, <1>9, Zenon
  <2>2. \A j \in H : j <= a \/ b <= j
    BY <1>1, <1>2, <2>1
  <2>3. \A j \in H : j <= b \/ c <= j
    BY <1>2, <1>3, <2>1
  <2> QED BY <1>1, <1>2, <1>3, <2>1, <2>2, <2>3
<1>11. ASSUME NEW k \in Nat, k < a
       PROVE  /\ NextBlock(s, k) = NextBlock(e, k) /\ NextBlock(e, k) \in Nat
              /\ k < NextBlock(e, k) /\ NextBlock(e, k) <= a
  <2> DEFINE n == NextBlock(e, k)
  <2>1. /\ n \in Nat /\ k < n /\ n <= N + 1 /\ (\A h \in H : h > k => n <= h)
        /\ n = N + 1 \/ n \in H
    <3>1. k <= Len(e)
      BY <1>1, <1>11 DEF N
    <3> QED BY <3>1, NextBlockIs DEF N, H
  <2> HIDE DEF n
  <2>2. n <= a /\ n \in H
    BY <1>1, <1>10, <1>11, <2>1
  <2>3. n \in G
    BY <1>10, <1>h, <2>1, <2>2, <1>1
  <2>4. \A h \in G : h > k => n <= h
    BY <1>g, <1>10, <1>1, <1>4, <2>1, <2>2
  <2>5. NextBlock(s, k) = n
    BY <1>6, <2>1, <2>3, <2>4, NextBlockUnique DEF G
  <2> QED BY <2>1, <2>2, <2>5 DEF n
<1>12. ASSUME NEW k \in Nat, c <= k, k <= N
       PROVE  /\ NextBlock(s, k) = NextBlock(e, k) /\ NextBlock(e, k) \in Nat
              /\ k < NextBlock(e, k) /\ NextBlock(e, k) <= N + 1
  <2> DEFINE n == NextBlock(e, k)
  <2>1. /\ n \in Nat /\ k < n /\ n <= N + 1 /\ (\A h \in H : h > k => n <= h)
        /\ n = N + 1 \/ n \in H
    BY <1>12, NextBlockIs DEF N, H
  <2> HIDE DEF n
  <2>2. n = N + 1 \/ n \in G
    BY <1>h, <1>12, <1>3, <2>1
  <2>3. \A h \in G : h > k => n <= h
    BY <1>g, <1>12, <1>1, <1>2, <1>3, <1>4, <2>1
  <2>4. NextBlock(s, k) = n
    BY <1>6, <2>1, <2>2, <2>3, NextBlockUnique DEF G
  <2> QED BY <2>1, <2>4 DEF n
<1>13. NextBlock(s, a) = d
  <2>1. \A h \in G : h > a => d <= h
    BY <1>g, <1>1, <1>2, <1>3, <1>4
  <2>2. d <= Len(s) + 1
    BY <1>1, <1>3, <1>4, <1>6
  <2> QED BY <1>1, <1>4, <1>6, <1>10, <2>1, <2>2, NextBlockUnique DEF G
<1>14. NextBlock(s, d) = c
  <2>1. \A h \in G : h > d => c <= h
    BY <1>g, <1>1, <1>2, <1>3, <1>4
  <2> QED BY <1>1, <1>3, <1>4, <1>6, <1>10, <2>1, NextBlockUnique DEF G
<1>15. ASSUME NEW m \in Nat \ {0}, NEW n \in Nat, m <= n + 1, n < a \/ c <= m, n <= N
       PROVE  Part(s, m, n) = Part(e, m, n)
  <2>1. ASSUME NEW x \in 0 .. n - m PROVE s[m + x] = e[m + x]
    <3>1. m + x \in 1 .. N /\ (m + x < a \/ m + x >= c)
      BY <1>1, <1>3, <1>15
    <3> QED BY <1>7, <3>1
  <2>2. n <= Len(s) /\ n <= Len(e) /\ n - m = n - m
    BY <1>6, <1>15 DEF N
  <2>3. Agree(s, m, n, e, m, n)
    BY <1>6, <1>15, <2>1, <2>2, Zenon DEF Agree
  <2> QED BY <2>3, SameParts
<1>16. Ahead(s) = Ahead(e)
  <2> DEFINE n == NextBlock(e, 0)
             m == n - 1
  <2>1. n = NextBlock(s, 0) /\ n \in Nat /\ 0 < n /\ n <= a
    BY <1>1, <1>11
  <2>2. m = NextBlock(s, 0) - 1
    BY <2>1
  <2> HIDE DEF n
  <2>3. m \in Nat /\ 1 <= m + 1 /\ m < a /\ m <= N /\ 1 \in Nat \ {0}
    BY <1>1, <2>1
  <2> HIDE DEF m
  <2>4. Part(s, 1, m) = Part(e, 1, m)
    BY <1>15, <2>3
  <2> QED BY <1>ab, <2>2, <2>4, Zenon DEF m, n
<1>17. ASSUME NEW k \in Nat, 1 <= k, k <= N, k < a \/ c <= k
       PROVE  BlockAt(s, k) = BlockAt(e, k)
  <2> DEFINE n == NextBlock(e, k)
             m == n - 1
  <2>1. n = NextBlock(s, k) /\ n \in Nat /\ k < n /\ n <= N + 1 /\ (k < a => n <= a)
    <3>1. CASE k < a
      BY <1>1, <1>11, <3>1
    <3>2. CASE c <= k
      BY <1>1, <1>2, <1>3, <1>12, <1>17, <3>2
    <3> QED BY <1>17, <3>1, <3>2
  <2>2. m = NextBlock(s, k) - 1
    BY <2>1
  <2> HIDE DEF n
  <2>3. m \in Nat /\ k <= m + 1 /\ (m < a \/ c <= k) /\ m <= N /\ k \in Nat \ {0}
    BY <1>1, <1>17, <2>1
  <2> HIDE DEF m
  <2>4. Part(s, k, m) = Part(e, k, m)
    BY <1>15, <2>3
  <2> QED BY <2>2, <2>4, Zenon DEF m, n, BlockAt
<1>18. BlockAt(s, a) = BlockAt(e, b)
  <2> DEFINE m == d - 1
             n == c - 1
  <2>1. /\ m \in Nat /\ a \in Nat \ {0} /\ a <= m + 1 /\ m <= Len(s)
        /\ n \in Nat /\ b \in Nat \ {0} /\ b <= n + 1 /\ n <= Len(e)
        /\ m - a = n - b
    BY <1>1, <1>2, <1>3, <1>4, <1>6, <1>d
  <2>2. ASSUME NEW x \in 0 .. m - a PROVE s[a + x] = e[b + x]
    <3> DEFINE j == a + x
    <3>1. j \in 1 .. N /\ ~(j < a \/ j >= c) /\ j < d /\ j + (b - a) = b + x
      BY <1>1, <1>2, <1>3, <1>4, <2>1, <2>2
    <3> HIDE DEF j
    <3>2. s[j] = e[j + (b - a)]
      BY <1>7, <3>1
    <3> QED BY <3>1, <3>2 DEF j
  <2> HIDE DEF m, n
  <2>3. Part(s, a, m) = Part(e, b, n)
    <3>1. Agree(s, a, m, e, b, n)
      BY <1>6, <2>1, <2>2, Zenon DEF Agree
    <3> QED BY <3>1, SameParts
  <2>4. BlockAt(s, a) = Part(s, a, m) /\ BlockAt(e, b) = Part(e, b, n)
    BY <1>13, <1>b DEF BlockAt, m, n
  <2> QED BY <2>3, <2>4
<1>19. BlockAt(s, d) = BlockAt(e, a)
  <2> DEFINE m == c - 1
             n == b - 1
  <2>1. /\ m \in Nat /\ d \in Nat \ {0} /\ d <= m + 1 /\ m <= Len(s)
        /\ n \in Nat /\ a \in Nat \ {0} /\ a <= n + 1 /\ n <= Len(e)
        /\ m - d = n - a
    BY <1>1, <1>2, <1>3, <1>4, <1>6, <1>d
  <2>2. ASSUME NEW x \in 0 .. m - d PROVE s[d + x] = e[a + x]
    <3> DEFINE j == d + x
    <3>1. j \in 1 .. N /\ ~(j < a \/ j >= c) /\ ~(j < d) /\ j - (c - b) = a + x
      BY <1>1, <1>2, <1>3, <1>4, <1>d, <2>1, <2>2
    <3> HIDE DEF j
    <3>2. s[j] = e[j - (c - b)]
      BY <1>7, <3>1
    <3> QED BY <3>1, <3>2 DEF j
  <2> HIDE DEF m, n
  <2>3. Part(s, d, m) = Part(e, a, n)
    <3>1. Agree(s, d, m, e, a, n)
      BY <1>6, <2>1, <2>2, Zenon DEF Agree
    <3> QED BY <3>1, SameParts
  <2>4. BlockAt(s, d) = Part(s, d, m) /\ BlockAt(e, a) = Part(e, a, n)
    BY <1>14, <1>b DEF BlockAt, m, n
  <2> QED BY <2>3, <2>4
<1>20. \A k \in G : \E h \in H : BlockAt(s, k) = BlockAt(e, h)
  <2> TAKE k \in G
  <2>1. CASE k = a
    BY <1>2, <1>18, <2>1
  <2>2. CASE k = d
    BY <1>10, <1>19, <2>2
  <2>3. CASE k # a /\ k # d
    <3>1. k \in H /\ k \in Nat /\ 1 <= k /\ k <= N /\ (k < a \/ c <= k)
      BY <1>g, <1>1, <1>3, <2>3
    <3> QED BY <1>17, <3>1
  <2> QED BY <2>1, <2>2, <2>3
<1>21. \A h \in H : \E k \in G : BlockAt(s, k) = BlockAt(e, h)
  <2> TAKE h \in H
  <2>1. CASE h = a
    BY <1>10, <1>19, <2>1
  <2>2. CASE h = b
    BY <1>10, <1>18, <2>2
  <2>3. CASE h # a /\ h # b
    <3>1. h \in G /\ h \in Nat /\ 1 <= h /\ h <= N /\ (h < a \/ c <= h)
      BY <1>h, <1>1, <1>3, <2>3
    <3> QED BY <1>17, <3>1
  <2> QED BY <2>1, <2>2, <2>3
<1>22. {BlockAt(s, h) : h \in G} = {BlockAt(e, h) : h \in H}
  <2>1. ASSUME NEW z PROVE z \in {BlockAt(s, k) : k \in G} <=> z \in {BlockAt(e, h) : h \in H}
    BY <1>20, <1>21
  <2> QED BY <2>1, Zenon
<1> QED BY <1>16, <1>22 DEF G, H, s, SameBlocks

\* A moved Target: the blocks of its map are what they were, and no step is new.
LEMMA MovedBlockKeeps ==
  ASSUME NEW e \in Seq(TargetData), NEW k \in Heads(e), NEW up \in BOOLEAN
  PROVE  LET s == MovedBlock(e, k, up)
         IN  /\ SameBlocks(s, e)
             /\ \A j \in DOMAIN s : \E x \in DOMAIN e : s[j] = e[x]
<1> DEFINE N == Len(e)
           Kept(s) == /\ SameBlocks(s, e)
                      /\ \A j \in DOMAIN s : \E x \in DOMAIN e : s[j] = e[x]
<1>1. N \in Nat /\ k \in Nat /\ 1 <= k /\ k <= N /\ (\A h \in Heads(e) : h \in 1 .. N)
      /\ DOMAIN e = 1 .. N
  BY DEF Heads
<1>2. Kept(e)
  BY DEF SameBlocks
<1>3. ASSUME NEW a \in Nat \ {0}, NEW b \in Nat \ {0}, NEW c \in Nat \ {0},
             Adjoining(e, a, b, c)
      PROVE  Kept(SwapBlocks(e, a, b, c))
  <2> DEFINE s == SwapBlocks(e, a, b, c)
  <2>1. SameBlocks(s, e)
    BY <1>3, SwapKeepsBlocks
  <2>2. a <= b /\ b <= c /\ b \in Nat /\ c \in Nat /\ c <= Len(e) + 1
    BY <1>3 DEF Adjoining
  <2>3. s \in Seq(TargetData) /\ Len(s) = N
    BY <1>3, <2>2, SwappedBlocks
  <2>4. \A j \in 1 .. N : s[j] = IF j < a \/ j >= c THEN e[j]
                ELSE IF j < a + (c - b) THEN e[j + (b - a)] ELSE e[j - (c - b)]
    BY <1>3, <2>2, SwappedPlaces
  <2> HIDE DEF s
  <2>5. ASSUME NEW j \in DOMAIN s PROVE \E x \in DOMAIN e : s[j] = e[x]
    <3>1. j \in 1 .. N
      BY <2>3
    <3> DEFINE x == IF j < a \/ j >= c THEN j ELSE IF j < a + (c - b) THEN j + (b - a) ELSE j - (c - b)
    <3>2. s[j] = e[x]
      BY <2>4, <3>1
    <3>3. x \in 1 .. N
      BY <1>1, <2>2, <3>1
    <3> HIDE DEF x
    <3> QED BY <1>1, <3>2, <3>3
  <2> QED BY <2>1, <2>5 DEF s
<1> DEFINE H == {h \in Heads(e) : h < k}
           previous == LastOf(H)
           end == NextBlock(e, k)
           beyond == NextBlock(e, end)
<1>4. MovedBlock(e, k, up)
        = IF up THEN IF previous = 0 THEN e ELSE SwapBlocks(e, previous, k, end)
          ELSE IF end > N THEN e ELSE SwapBlocks(e, k, end, beyond)
  BY DEF MovedBlock
<1>5. /\ end \in Nat /\ k < end /\ end <= N + 1 /\ (\A h \in Heads(e) : h > k => end <= h)
      /\ end = N + 1 \/ end \in Heads(e)
  BY <1>1, NextBlockIs
<1> HIDE DEF end
<1>6. end <= N => /\ beyond \in Nat /\ end < beyond /\ beyond <= N + 1
                  /\ \A h \in Heads(e) : h > end => beyond <= h
                  /\ beyond = N + 1 \/ beyond \in Heads(e)
  BY <1>5, NextBlockIs
<1>7. previous # 0 => /\ previous \in Nat /\ previous >= 1 /\ previous < k /\ previous \in Heads(e)
                      /\ \A h \in Heads(e) : h < k => h <= previous
  <2>1. H \subseteq 1 .. N
    BY <1>1
  <2>2. \A h \in H : h < k /\ h \in Heads(e)
    OBVIOUS
  <2>3. \A h \in Heads(e) : h < k => h \in H
    OBVIOUS
  <2> HIDE DEF H
  <2>4. LastOf(H) = 0 \/ (LastOf(H) \in H /\ \A h \in H : h <= LastOf(H))
    BY <1>1, <2>1, LastIsGreatest
  <2> HIDE DEF previous
  <2>5. previous # 0 => previous \in H /\ \A h \in H : h <= previous
    BY <2>4 DEF previous
  <2>6. ASSUME previous # 0
        PROVE  /\ previous \in Nat /\ previous >= 1 /\ previous < k /\ previous \in Heads(e)
               /\ \A h \in Heads(e) : h < k => h <= previous
    <3>1. previous \in Heads(e) /\ previous < k /\ \A h \in Heads(e) : h < k => h <= previous
      BY <2>2, <2>3, <2>5, <2>6, Zenon
    <3> QED BY <1>1, <3>1
  <2> QED BY <2>6, Zenon
<1> HIDE DEF previous, beyond, Kept
<1>8. CASE up /\ previous # 0
  <2>1. /\ previous \in Nat \ {0} /\ k \in Nat \ {0} /\ end \in Nat \ {0}
        /\ previous < k /\ k < end /\ end <= Len(e) + 1 /\ previous \in Heads(e) /\ k \in Heads(e)
        /\ end = Len(e) + 1 \/ end \in Heads(e)
    BY <1>1, <1>5, <1>7, <1>8
  <2>2. \A h \in Heads(e) : (h > previous => k <= h) /\ (h > k => end <= h)
    BY <1>1, <1>5, <1>7, <1>8
  <2>3. Kept(SwapBlocks(e, previous, k, end))
    BY <1>3, <2>1, <2>2 DEF Adjoining
  <2> QED BY <1>4, <1>8, <2>3 DEF Kept
<1>9. CASE ~up /\ ~(end > N)
  <2>1. /\ k \in Nat \ {0} /\ end \in Nat \ {0} /\ beyond \in Nat \ {0}
        /\ k < end /\ end < beyond /\ beyond <= Len(e) + 1 /\ k \in Heads(e) /\ end \in Heads(e)
        /\ beyond = Len(e) + 1 \/ beyond \in Heads(e)
    BY <1>1, <1>5, <1>6, <1>9
  <2>2. \A h \in Heads(e) : (h > k => end <= h) /\ (h > end => beyond <= h)
    BY <1>1, <1>5, <1>6, <1>9
  <2>3. Kept(SwapBlocks(e, k, end, beyond))
    BY <1>3, <2>1, <2>2 DEF Adjoining
  <2> QED BY <1>4, <1>9, <2>3 DEF Kept
<1>10. CASE ~(up /\ previous # 0) /\ ~(~up /\ ~(end > N))
  BY <1>2, <1>4, <1>10 DEF Kept
<1> QED BY <1>8, <1>9, <1>10

\* Another moved step: it stays in its block, and no step is new.
LEMMA MovedStepKeeps ==
  ASSUME NEW e \in Seq(TargetData), NEW k \in DOMAIN e, k \notin Heads(e), NEW up \in BOOLEAN
  PROVE  LET s == MovedStep(e, k, up)
         IN  /\ ToSet(Ahead(s)) = ToSet(Ahead(e)) /\ Heads(s) = Heads(e)
             /\ \A h \in Heads(e) : ToSet(BlockAt(s, h)) = ToSet(BlockAt(e, h))
             /\ \A j \in DOMAIN s : \E x \in DOMAIN e : s[j] = e[x]
<1> DEFINE N == Len(e)
           o == IF up THEN k - 1 ELSE k + 1
           s == MovedStep(e, k, up)
<1>1. N \in Nat /\ k \in Nat /\ 1 <= k /\ k <= N /\ DOMAIN e = 1 .. N
      /\ \A h \in Heads(e) : h \in Nat /\ 1 <= h /\ h <= N
  BY DEF Heads
<1>2. CASE o \notin DOMAIN e \/ e[o].type = "Position"
  <2>1. s = e
    BY <1>2 DEF MovedStep
  <2> QED BY <2>1
<1>3. CASE ~(o \notin DOMAIN e \/ e[o].type = "Position")
  <2>1. s = [e EXCEPT ![k] = e[o], ![o] = e[k]]
    BY <1>3 DEF MovedStep
  <2>2. o \in Nat /\ 1 <= o /\ o <= N /\ (o = k - 1 \/ o = k + 1) /\ o \notin Heads(e)
    BY <1>1, <1>3 DEF Heads
  <2>n. s = MovedStep(e, k, up) /\ N = Len(e)
    OBVIOUS
  <2> HIDE DEF o, s, N
  <2>3. /\ s \in Seq(TargetData) /\ Len(s) = N /\ DOMAIN s = 1 .. N
        /\ \A j \in 1 .. N : s[j] = IF j = o THEN e[k] ELSE IF j = k THEN e[o] ELSE e[j]
    BY <1>1, <2>1, <2>2, <2>n
  <2>4. Heads(s) = Heads(e)
    <3>1. e[k].type # "Position" /\ e[o].type # "Position"
      BY <1>1, <2>2 DEF Heads
    <3> QED BY <1>1, <2>3, <3>1 DEF Heads
  <2>5. ASSUME NEW x \in Nat PROVE NextBlock(s, x) = NextBlock(e, x)
    BY <2>3, <2>4, <2>n, Zenon DEF NextBlock
  <2>6. ASSUME NEW m \in Nat \ {0}, NEW n \in Nat, m <= n + 1, n <= N, k \in m .. n <=> o \in m .. n
        PROVE  ToSet(Part(s, m, n)) = ToSet(Part(e, m, n))
    <3>1. ToSet(Part(s, m, n)) = {s[x] : x \in m .. n}
      BY <2>3, <2>6, MembersOfPart
    <3>2. ToSet(Part(e, m, n)) = {e[x] : x \in m .. n}
      BY <2>6, <2>n, MembersOfPart
    <3>3. \A x \in m .. n : x \in 1 .. N
      BY <1>1, <2>6
    <3>4. ASSUME NEW x \in m .. n PROVE s[x] \in {e[y] : y \in m .. n}
      BY <2>3, <2>6, <3>3
    <3>5. ASSUME NEW x \in m .. n PROVE \E y \in m .. n : s[y] = e[x]
      <4>1. CASE x = o
        <5>1. k \in m .. n /\ k # o
          BY <2>2, <1>1, <2>6, <4>1
        <5> QED BY <2>3, <3>3, <4>1, <5>1
      <4>2. CASE x = k
        <5>1. o \in m .. n
          BY <2>6, <4>2
        <5> QED BY <2>3, <3>3, <4>2, <5>1
      <4>3. CASE x # k /\ x # o
        BY <2>3, <3>3, <4>3
      <4> QED BY <4>1, <4>2, <4>3
    <3>6. \A z : z \in {s[x] : x \in m .. n} <=> z \in {e[x] : x \in m .. n}
      BY <3>4, <3>5, Zenon
    <3> QED BY <3>1, <3>2, <3>6, Zenon
  <2>7. ASSUME NEW h \in {0} \cup Heads(e)
        PROVE  LET m == IF h = 0 THEN 1 ELSE h
                   n == NextBlock(e, h) - 1
               IN  ToSet(Part(s, m, n)) = ToSet(Part(e, m, n))
    <3> DEFINE m == IF h = 0 THEN 1 ELSE h
               next == NextBlock(e, h)
               n == next - 1
    <3>1. h \in Nat /\ h <= N /\ h # k /\ h # o
      BY <1>1, <2>2
    <3>2. next \in Nat /\ h < next /\ next <= N + 1 /\ (next = N + 1 \/ next \in Heads(e))
      BY <3>1, <2>n, NextBlockIs
    <3>3. next # k /\ next # o
      BY <1>1, <2>2, <3>2
    <3> HIDE DEF next
    <3>4. m \in Nat \ {0} /\ n \in Nat /\ m <= n + 1 /\ n <= N
      BY <1>1, <3>1, <3>2
    <3>5. k \in m .. n <=> o \in m .. n
      BY <1>1, <2>2, <3>1, <3>2, <3>3
    <3> HIDE DEF m, n
    <3>6. ToSet(Part(s, m, n)) = ToSet(Part(e, m, n))
      BY <2>6, <3>4, <3>5
    <3> QED BY <3>6 DEF m, n, next
  <2>8. ToSet(Ahead(s)) = ToSet(Ahead(e))
    <3>1. NextBlock(s, 0) = NextBlock(e, 0)
      BY <2>5
    <3> QED BY <2>7, <3>1 DEF Ahead
  <2>9. ASSUME NEW h \in Heads(e) PROVE ToSet(BlockAt(s, h)) = ToSet(BlockAt(e, h))
    <3>1. h \in Nat /\ h # 0 /\ NextBlock(s, h) = NextBlock(e, h)
      BY <1>1, <2>5
    <3>2. ToSet(Part(s, h, NextBlock(e, h) - 1)) = ToSet(Part(e, h, NextBlock(e, h) - 1))
      BY <2>7, <3>1
    <3> QED BY <3>1, <3>2 DEF BlockAt
  <2>10. ASSUME NEW j \in DOMAIN s PROVE \E x \in DOMAIN e : s[j] = e[x]
    BY <1>1, <2>2, <2>3
  <2> QED BY <2>4, <2>8, <2>9, <2>10, <2>n, Zenon
<1> QED BY <1>2, <1>3

\* The blocks of a map without their places, and with them but without their order.
BlockSet(e) == {BlockAt(e, h) : h \in Heads(e)}
BlockMembers(e) == {<<h, ToSet(BlockAt(e, h))>> : h \in Heads(e)}
Contents(blocks) == {b[2] : b \in blocks[2]}
Members(blocks) == {<<b[1], ToSet(b[2])>> : b \in blocks[2]}

\* The blocks of a map, by its own sequence.
LEMMA BlocksOfMap ==
  ASSUME NEW targets, NEW map
  PROVE  /\ Blocks(targets, map)[1] = Ahead(MapEntries(targets, map))
         /\ Contents(Blocks(targets, map)) = BlockSet(MapEntries(targets, map))
         /\ Members(Blocks(targets, map)) = BlockMembers(MapEntries(targets, map))
<1> DEFINE e == MapEntries(targets, map)
           B == {<<h, BlockAt(e, h)>> : h \in Heads(e)}
<1>1. Blocks(targets, map) = <<Ahead(e), B>>
  BY DEF Blocks, Ahead, BlockAt, Part
<1> HIDE DEF e
<1>2. Blocks(targets, map)[1] = Ahead(e) /\ Blocks(targets, map)[2] = B
  BY <1>1
<1>3. /\ \A h \in Heads(e) : \E b \in B : b[1] = h /\ b[2] = BlockAt(e, h)
      /\ \A b \in B : \E h \in Heads(e) : b[1] = h /\ b[2] = BlockAt(e, h)
  <2>1. ASSUME NEW h \in Heads(e) PROVE \E b \in B : b[1] = h /\ b[2] = BlockAt(e, h)
    <3>1. <<h, BlockAt(e, h)>> \in B
      OBVIOUS
    <3>2. <<h, BlockAt(e, h)>>[1] = h /\ <<h, BlockAt(e, h)>>[2] = BlockAt(e, h)
      OBVIOUS
    <3> QED BY <3>1, <3>2, Zenon
  <2>2. ASSUME NEW b \in B PROVE \E h \in Heads(e) : b[1] = h /\ b[2] = BlockAt(e, h)
    OBVIOUS
  <2> QED BY <2>1, <2>2, Zenon
<1> HIDE DEF B
<1>4. {b[2] : b \in B} = {BlockAt(e, h) : h \in Heads(e)}
  <2>1. ASSUME NEW z PROVE z \in {b[2] : b \in B} <=> z \in {BlockAt(e, h) : h \in Heads(e)}
    BY <1>3
  <2> QED BY <2>1, Zenon
<1>5. {<<b[1], ToSet(b[2])>> : b \in B} = {<<h, ToSet(BlockAt(e, h))>> : h \in Heads(e)}
  <2>1. ASSUME NEW z PROVE z \in {<<b[1], ToSet(b[2])>> : b \in B}
                           <=> z \in {<<h, ToSet(BlockAt(e, h))>> : h \in Heads(e)}
    BY <1>3
  <2> QED BY <2>1, Zenon
<1>6. Contents(Blocks(targets, map)) = BlockSet(e)
  BY <1>2, <1>4 DEF Contents, BlockSet
<1>7. Members(Blocks(targets, map)) = BlockMembers(e)
  BY <1>2, <1>5 DEF Members, BlockMembers
<1> QED BY <1>2, <1>6, <1>7 DEF e

\* What BlocksStayTogether says of a list and of what it became.
Together(targets, now, i) ==
    LET map == targets[i].mapId
        before == Blocks(targets, map) after == Blocks(now, map)
    IN  /\ \A j \in DOMAIN targets : targets[j].mapId # map => now[j] = targets[j]
        /\ IF targets[i].type = "Position"
           THEN after[1] = before[1] /\ Contents(after) = Contents(before)
           ELSE ToSet(after[1]) = ToSet(before[1]) /\ Members(after) = Members(before)

\* A move of the window keeps the blocks together.
LEMMA MoveKeepsBlocks ==
  ASSUME NEW targets \in Seq(TargetData), NEW i \in DOMAIN targets, NEW up \in BOOLEAN
  PROVE  Together(targets, MoveTargetWithinMap(targets, i, up), i)
<1> DEFINE map == targets[i].mapId
           S == OnMap(targets, map)
           indices == MapEntryIndices(targets, map)
           e == MapEntries(targets, map)
           k == Cardinality({j \in S : j <= i})
           m == IF targets[i].type = "Position" THEN MovedBlock(e, k, up) ELSE MovedStep(e, k, up)
           now == MoveTargetWithinMap(targets, i, up)
<1>1. now = WithMapEntries(targets, map, m)
  BY DEF MoveTargetWithinMap
<1>2. /\ indices \in Seq(S) /\ e \in Seq(TargetData) /\ DOMAIN e = DOMAIN indices
      /\ \A j \in S : LET n == Cardinality({x \in S : x <= j}) IN n \in DOMAIN indices /\ indices[n] = j
  BY EntriesOfMap, Zenon
<1>3. /\ i \in S /\ \A j \in S : j \in DOMAIN targets /\ targets[j].mapId = map
  BY DEF OnMap
<1>4. \A x \in DOMAIN e : e[x] = targets[indices[x]]
  BY <1>2 DEF MapEntries
<1>n. e = MapEntries(targets, map)
  OBVIOUS
<1> HIDE DEF S, indices, e, now
<1>5. k \in DOMAIN e /\ e[k] = targets[i]
  <2>1. k \in DOMAIN indices /\ indices[k] = i
    BY <1>2, <1>3
  <2> QED BY <1>2, <1>4, <2>1
<1>6. ASSUME NEW x \in DOMAIN e PROVE e[x].mapId = map
  <2>1. indices[x] \in S
    BY <1>2
  <2> QED BY <1>3, <1>4, <2>1, Zenon
<1> HIDE DEF map, k
<1>7. \A j \in DOMAIN targets : targets[j].mapId # map => now[j] = targets[j]
  BY <1>1 DEF WithMapEntries
<1>8. k \in Heads(e) <=> targets[i].type = "Position"
  BY <1>5 DEF Heads
<1>9. CASE targets[i].type = "Position"
  <2>1. m = MovedBlock(e, k, up) /\ k \in Heads(e)
    BY <1>8, <1>9
  <2>2. m \in Seq(TargetData) /\ Len(m) = Len(e)
    BY <1>2, <1>5, <2>1, MovedEntries
  <2> HIDE DEF m
  <2>3. SameBlocks(m, e) /\ \A j \in DOMAIN m : \E x \in DOMAIN e : m[j] = e[x]
    BY <1>2, <2>1, MovedBlockKeeps
  <2>4. \A j \in DOMAIN m : m[j].mapId = map
    BY <1>6, <2>3
  <2>5. MapEntries(now, map) = m
    BY <1>1, <1>n, <2>2, <2>4, EntriesReplaced
  <2>6. Blocks(now, map)[1] = Ahead(m) /\ Contents(Blocks(now, map)) = BlockSet(m)
    BY <2>5, BlocksOfMap
  <2>7. Blocks(targets, map)[1] = Ahead(e) /\ Contents(Blocks(targets, map)) = BlockSet(e)
    BY <1>n, BlocksOfMap
  <2>8. Ahead(m) = Ahead(e) /\ BlockSet(m) = BlockSet(e)
    BY <2>3 DEF SameBlocks, BlockSet
  <2> QED BY <1>7, <1>9, <2>6, <2>7, <2>8 DEF map, now, Together
<1>10. CASE targets[i].type # "Position"
  <2>1. m = MovedStep(e, k, up) /\ k \notin Heads(e)
    BY <1>8, <1>10
  <2>2. m \in Seq(TargetData) /\ Len(m) = Len(e)
    BY <1>2, <1>5, <2>1, MovedEntries
  <2> HIDE DEF m
  <2>3. /\ ToSet(Ahead(m)) = ToSet(Ahead(e)) /\ Heads(m) = Heads(e)
        /\ \A h \in Heads(e) : ToSet(BlockAt(m, h)) = ToSet(BlockAt(e, h))
        /\ \A j \in DOMAIN m : \E x \in DOMAIN e : m[j] = e[x]
    BY <1>2, <1>5, <2>1, MovedStepKeeps
  <2>4. \A j \in DOMAIN m : m[j].mapId = map
    BY <1>6, <2>3
  <2>5. MapEntries(now, map) = m
    BY <1>1, <1>n, <2>2, <2>4, EntriesReplaced
  <2>6. Blocks(now, map)[1] = Ahead(m) /\ Members(Blocks(now, map)) = BlockMembers(m)
    BY <2>5, BlocksOfMap
  <2>7. Blocks(targets, map)[1] = Ahead(e) /\ Members(Blocks(targets, map)) = BlockMembers(e)
    BY <1>n, BlocksOfMap
  <2>8. BlockMembers(m) = BlockMembers(e)
    BY <2>3 DEF BlockMembers
  <2> QED BY <1>7, <1>10, <2>3, <2>6, <2>7, <2>8 DEF map, now, Together
<1> QED BY <1>9, <1>10

----
(* The specification.                                                           *)

LEMMA OtherSteps == ASSUME Inv, Window \/ Environment \/ UNCHANGED vars PROVE Inv' /\ Aside
<1>1. CASE \E selected \in 0 .. Len(Targets) : PressStart(selected)
  BY <1>1, PressStartStep
<1>2. CASE PressStop
  BY <1>2, PressStopStep
<1>3. CASE ResetTimer \/ ResetBest
  BY <1>3, ResetTimerStep, ResetBestStep
<1>4. CASE \E option \in DOMAIN options : ToggleOption(option)
  BY <1>4, OptionStep
<1>5. CASE \/ \E step \in NewSteps, selected \in 0 .. Len(Targets) : Add(step, selected)
           \/ \E i \in DOMAIN Targets : \/ Delete(i)
                                        \/ \E up \in BOOLEAN : Move(i, up)
                                        \/ ToggleIntermediate(i)
  BY <1>5, WindowEdits
<1>6. CASE \E i \in DOMAIN Targets : SetTarget(i) \/ Adjust(i) \/ WarpToTarget(i)
  BY <1>6, SetTargetStep, AdjustStep, WarpToTargetStep
<1>7. CASE \E targets \in Routes : LoadTargetsFromFile(targets)
  BY <1>7, LoadStep
<1>8. CASE \E map \in Map, place \in Place, bond \in BOOLEAN : MapJump(map, place, bond)
  BY <1>8, JumpStep
<1>9. CASE \E bond \in BOOLEAN : ReloadSave(bond)
  BY <1>9, ReloadStep
<1>10. CASE EndTransition
  BY <1>10, EndStep
<1>11. CASE \E place \in Place : PlayerMoves(place)
  BY <1>11, PlayerStep
<1>12. CASE \E button \in Button : GameAccepts(button)
  BY <1>12, AcceptStep
<1>13. CASE HelperBegins \/ HelperEnds \/ \E now \in HelperStates : HelperArms(now)
  BY <1>13, HelperStep
<1>14. CASE UNCHANGED vars
  BY <1>14, StutterStep
<1> QED BY <1>1, <1>2, <1>3, <1>4, <1>5, <1>6, <1>7, <1>8, <1>9, <1>10, <1>11, <1>12, <1>13, <1>14
        DEF Window, Environment

\* A step is a frame, or leaves the route's progress aside.
LEMMA Steps ==
  ASSUME Inv, [Next]_vars
  PROVE  Inv' /\ (Aside \/ \E w : Counted(World, w) /\ Becomes(w))
<1>1. CASE Frame
  <2>1. PICK situation \in Situations, outcome \in Outcomes, stride \in 0 .. MaxStride :
            Update(situation, outcome, stride)
    BY <1>1 DEF Frame
  <2> QED BY <2>1, FrameStep
<1>2. CASE Window \/ Environment \/ UNCHANGED vars
  BY <1>2, OtherSteps
<1> QED BY <1>1, <1>2 DEF Next

LEMMA Invariance == Spec => []Inv
<1>1. Inv /\ [Next]_vars => Inv'
  BY Steps
<1> QED BY InitInv, <1>1, PTL DEF Spec

\* Type correctness.
THEOREM TypeCorrect == Spec => []TypeOK
<1>1. Inv => TypeOK
  <2> SUFFICES ASSUME Inv PROVE TypeOK
    OBVIOUS
  <2>1. /\ route \in RouteType /\ activeActions \in Seq(ActiveAction) /\ timer \in TimerType
        /\ split \in SplitType /\ pad \in PadType /\ helper \in HelperStates
        /\ AutoCutsceneSkips \in BOOLEAN
    BY WorldParts DEF Inv, Steady
  <2> QED BY <2>1 DEF Inv, TypeOK, RouteType, TimerType, SplitType, PadType
<1> QED BY <1>1, Invariance, PTL

\* Through delays, waits, repairs, jumps and re-entries, a running route has
\* performed every step of its map from the one it entered at, each once and in
\* the route's order, up to the one it stands at.
THEOREM PerformedInOrderHolds == Spec => []PerformedInOrder
<1>1. Inv => PerformedInOrder
  BY WorldIs DEF Inv, Steady, OrderOK, PerformedInOrder
<1> QED BY <1>1, Invariance, PTL

\* The left stick is held only while the route walks.
THEOREM StickOnlyWhileWalkingHolds == Spec => []StickOnlyWhileWalking
<1>1. Inv => StickOnlyWhileWalking
  BY WorldIs DEF Inv, StickOK, Still, StickOnlyWhileWalking
<1> QED BY <1>1, Invariance, PTL

\* No press is left in the input buffer once no Action is in flight, and none goes on
\* before what its step asked for was taken.
THEOREM PressesArePairedHolds == Spec => []PressesArePaired
<1>1. Inv => PressesArePaired
  BY WorldIs DEF Inv, Steady, PressesOK, PressesArePaired
<1> QED BY <1>1, Invariance, PTL

\* The route moves past a Delay only after the frames it asked for on entry.
THEOREM DelayIsServedHolds == Spec => DelayIsServed
<1> DEFINE A == \A i \in DOMAIN Targets :
          /\ Targets[i].type = "Delay"
          /\ Len(ghost'.done) > Len(ghost.done) /\ i \in ToSet(ghost'.done) \ ToSet(ghost.done)
          => IF route.delayAt = i THEN route.at = i /\ ghost.served >= ghost.due
             ELSE Targets[i].frames = 0
<1>1. ASSUME Inv, [Next]_vars PROVE A
  <2>1. CASE Aside
    <3>1. ghost'.done = ghost.done \/ ToSet(ghost'.done) = {}
      BY <2>1 DEF Aside, ToSet
    <3> QED BY <3>1
  <2>2. ASSUME NEW w, Counted(World, w), Becomes(w) PROVE A
    <3> SUFFICES ASSUME NEW i \in DOMAIN Targets, Targets[i].type = "Delay",
                        i \in ToSet(ghost'.done) \ ToSet(ghost.done)
                 PROVE  IF route.delayAt = i THEN route.at = i /\ ghost.served >= ghost.due
                        ELSE Targets[i].frames = 0
      OBVIOUS
    <3>1. IF route.delayAt = i THEN route.delayLeft = 0 ELSE Targets[i].frames = 0
      BY <2>2, WorldIs DEF Counted, DelaysStood, DueServed, Becomes
    <3>2. i # 0 /\ ghost.due \in Nat /\ ghost.served \in Nat
      BY <1>1, WorldParts DEF Inv, Steady, TargetsOK, GhostType
    <3>3. CASE route.delayAt = i
      <4>1. route.at = i
        BY <1>1, <3>2, <3>3, WorldIs DEF Inv, Steady, DelayOK
      <4>2. ghost.served + route.delayLeft >= ghost.due
        BY <1>1, <3>2, <3>3, WorldIs DEF Inv, Earned
      <4> QED BY <3>1, <3>2, <3>3, <4>1, <4>2
    <3> QED BY <3>1, <3>3
  <2> QED BY <1>1, <2>1, <2>2, Steps
<1> QED BY <1>1, Invariance, PTL DEF Spec, DelayIsServed

\* The script timer stops by itself only when nothing is in flight or pending, and
\* with every step performed unless the run was disturbed.
THEOREM TimerCoversRouteHolds == Spec => TimerCoversRoute
<1> DEFINE A == timer.running /\ ~timer'.running /\ timer'.moved =>
          /\ ~route'.active /\ activeActions' = <<>> /\ helper'.state = "Idle"
          /\ ghost.disturbed \/ ghost'.done = StepsBetween(ghost'.entry, MaxTargets + 1)
<1>1. ASSUME Inv, [Next]_vars PROVE A
  <2>1. CASE Aside
    BY <2>1 DEF Aside
  <2>2. ASSUME NEW w, Counted(World, w), Becomes(w) PROVE A
    BY <2>2, WorldIs DEF Counted, TimerEnds, Becomes
  <2> QED BY <1>1, <2>1, <2>2, Steps
<1> QED BY <1>1, Invariance, PTL DEF Spec, TimerCoversRoute

\* A target-to-target time is measured between one movement target of the map and
\* the next.
THEOREM SplitsJoinNeighboursHolds == Spec => SplitsJoinNeighbours
<1> DEFINE A == ghost'.leg \notin {ghost.leg, NoGhost.leg} /\ ghost'.leg[1] >= ghost'.entry =>
          ghost'.leg[2] = FindNextMovementTargetForMap(ghost'.leg[1], mapId)
<1>1. ASSUME Inv, [Next]_vars PROVE A
  <2>1. CASE Aside
    BY <2>1, NoGhostType DEF Aside
  <2>2. ASSUME NEW w, Counted(World, w), Becomes(w) PROVE A
    <3>1. w.ghost.leg[1] \in Nat /\ w.ghost.entry \in Nat /\ ghost' = w.ghost
      BY <2>2, TargetingAssumption DEF Counted, Steady, WorldType, GhostType, Index, Becomes
    <3>2. \/ ghost'.leg = NoGhost.leg
          \/ ghost'.leg[1] < ghost'.entry
          \/ ghost'.leg[2] = FindNextMovementTargetForMap(ghost'.leg[1], mapId)
      BY <2>2, <3>1, NoGhostType, Zenon DEF Counted, LegOK
    <3>3. ghost'.leg[1] \in Nat /\ ghost'.entry \in Nat
      BY <3>1
    <3>4. ~(ghost'.leg[1] < ghost'.entry /\ ghost'.leg[1] >= ghost'.entry)
      BY <3>3
    <3> QED BY <3>2, <3>4, Zenon
  <2> QED BY <1>1, <2>1, <2>2, Steps
<1> QED BY <1>1, Invariance, PTL DEF Spec, SplitsJoinNeighbours

\* The route never turns back towards a Position.
THEOREM NoTurningBackHolds == Spec => NoTurningBack
<1> DEFINE A == LET before == route.approach after == route'.approach
                IN  /\ after.index # 0 /\ after.index = before.index
                    /\ Targets[after.index].type = "Position"
                    => before.delta * after.delta > 0
<1>1. ASSUME Inv, [Next]_vars PROVE A
  <2>1. CASE Aside
    <3> SUFFICES ASSUME route'.approach.index # 0, route'.approach = route.approach,
                        Targets[route.approach.index].type = "Position"
                 PROVE  route.approach.delta * route.approach.delta > 0
      BY <2>1 DEF Aside
    <3> DEFINE d == route.approach.delta
    <3>1. d \in Int /\ d # 0
      BY <1>1, WorldIs, WorldParts DEF Inv, Steady, ApproachOK, RouteType
    <3> HIDE DEF d
    <3> QED BY <3>1, Squares DEF d
  <2>2. ASSUME NEW w, Counted(World, w), Becomes(w) PROVE A
    BY <2>2, WorldIs DEF Counted, Onward, Becomes
  <2> QED BY <1>1, <2>1, <2>2, Steps
<1> QED BY <1>1, Invariance, PTL DEF Spec, NoTurningBack

\* Moving a Target takes its steps with it and tears no block apart; moving another
\* step keeps it in its block; the steps of other maps stay in place.
THEOREM BlocksStayTogetherHolds == Spec => BlocksStayTogether
<1> DEFINE A == Targets' # Targets => \A i \in DOMAIN Targets, up \in BOOLEAN : Move(i, up) =>
          LET map == Targets[i].mapId
              before == Blocks(Targets, map) after == Blocks(Targets', map)
          IN  /\ \A j \in DOMAIN Targets :
                    Targets[j].mapId # map => Targets'[j] = Targets[j]
              /\ IF Targets[i].type = "Position"
                 THEN /\ after[1] = before[1]
                      /\ {b[2] : b \in after[2]} = {b[2] : b \in before[2]}
                 ELSE /\ ToSet(after[1]) = ToSet(before[1])
                      /\ {<<b[1], ToSet(b[2])>> : b \in after[2]}
                         = {<<b[1], ToSet(b[2])>> : b \in before[2]}
<1>1. ASSUME Inv PROVE A
  <2> SUFFICES ASSUME NEW i \in DOMAIN Targets, NEW up \in BOOLEAN, Move(i, up)
               PROVE  Together(Targets, Targets', i)
    BY Zenon DEF Together, Contents, Members
  <2>1. Targets \in Seq(TargetData)
    BY <1>1 DEF Inv, TargetsOK
  <2>2. Targets' = MoveTargetWithinMap(Targets, i, up)
    BY DEF Move, EditTargets
  <2>3. Together(Targets, MoveTargetWithinMap(Targets, i, up), i)
    BY <2>1, MoveKeepsBlocks, Zenon
  <2> QED BY <2>2, <2>3, Zenon
<1> QED BY <1>1, Invariance, PTL DEF Spec, BlocksStayTogether

====
