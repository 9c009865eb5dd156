-------------------------- MODULE ExplosionProofs --------------------------
(***************************************************************************)
(* Proofs about Explosion for every board, every radius and every width of *)
(* the counter, the one that makes the loops run for ever included.        *)
(***************************************************************************)
EXTENDS Explosion, TLAPS

\* The cells of an arm that the explosion at p, with blocks on the cells B,
\* reaches within n iterations.
Ray(a, p, B, n) == {c \in BlastArea(p, B) : \E k \in 0 .. n - 1 : c = Along(a, p, k)}

\* The arms whose loop is over.
Finished == [right  |-> {},
             left   |-> {"right"},
             up     |-> {"right", "left"},
             down   |-> {"right", "left", "up"},
             centre |-> {"right", "left", "up", "down"}]

\* What was there before this call, and what the loops that are over added.
Earlier == UNION {BlastArea(q, blocks) : q \in exploded}

Behind == UNION {Ray(a, pos, blocks, Radius + 1) : a \in Finished[arm]}

\* Between two iterations everything behind the counter is in the set, and
\* nothing that does not belong there; the loop has met no block yet.
LoopInv ==
    /\ arm = "done" => explosions = Earlier
    /\ arm = "centre" => explosions = Earlier \cup Behind
    /\ arm \in Arms =>
         /\ Earlier \cup Behind \cup Ray(arm, pos, blocks, i) \subseteq explosions
         /\ explosions \subseteq Earlier \cup Behind \cup Ray(arm, pos, blocks, Radius + 1)
         /\ \A k \in 0 .. i - 1 : OnBoard(arm, pos, k) => Along(arm, pos, k) \notin blocks

IInv == TypeOK /\ LoopInv

-----------------------------------------------------------------------------

\* An iteration on the board looks at a cell of the board.
LEMMA AlongInCell ==
    ASSUME NEW a \in Arms, NEW p \in Cell, NEW n \in Nat, OnBoard(a, p, n)
    PROVE  Along(a, p, n) \in Cell
<1>. USE BoardAssumption DEF Cell, Along, OnBoard, Arms
<1>1. CASE a = "right" BY <1>1
<1>2. CASE a = "left" BY <1>2
<1>3. CASE a = "up" BY <1>3
<1>4. CASE a = "down" BY <1>4
<1>. QED BY <1>1, <1>2, <1>3, <1>4

\* A cell reached before any block was met belongs to the blast.
LEMMA FreeArmInBlast ==
    ASSUME NEW a \in Arms, NEW p \in Cell, NEW n \in 0 .. Radius,
           NEW B \in SUBSET Cell,
           OnBoard(a, p, n),
           \A k \in 0 .. n - 1 : OnBoard(a, p, k) => Along(a, p, k) \notin B
    PROVE  Along(a, p, n) \in BlastArea(p, B)
<1>. DEFINE c == Along(a, p, n)
<1>1. c \in Cell BY AlongInCell, BoardAssumption
<1>2. InRange(p, c)
  BY BoardAssumption DEF InRange, Along, Arms, Cell
<1>3. ASSUME NEW b \in B PROVE ~ Shields(b, p, c)
  <2>. SUFFICES ASSUME Shields(b, p, c) PROVE FALSE OBVIOUS
  <2>. USE BoardAssumption DEF Shields, Between, Along, OnBoard, Cell
  <2>1. b \in Cell BY <1>3
  <2>2. CASE a = "right"
    <3>1. b[1] - p[1] \in 0 .. n - 1 /\ b = <<p[1] + (b[1] - p[1]), p[2]>> BY <2>1, <2>2
    <3>. QED BY <3>1, <2>1, <2>2, <1>3
  <2>3. CASE a = "left"
    <3>1. p[1] - b[1] \in 0 .. n - 1 /\ b = <<p[1] - (p[1] - b[1]), p[2]>> BY <2>1, <2>3
    <3>. QED BY <3>1, <2>1, <2>3, <1>3
  <2>4. CASE a = "up"
    <3>1. b[2] - p[2] \in 0 .. n - 1 /\ b = <<p[1], p[2] + (b[2] - p[2])>> BY <2>1, <2>4
    <3>. QED BY <3>1, <2>1, <2>4, <1>3
  <2>5. CASE a = "down"
    <3>1. p[2] - b[2] \in 0 .. n - 1 /\ b = <<p[1], p[2] - (p[2] - b[2])>> BY <2>1, <2>5
    <3>. QED BY <3>1, <2>1, <2>5, <1>3
  <2>. QED BY <2>2, <2>3, <2>4, <2>5 DEF Arms
<1>. QED BY <1>1, <1>2, <1>3 DEF BlastArea

\* Nothing beyond a block belongs to the blast.
LEMMA BlockEndsArm ==
    ASSUME NEW a \in Arms, NEW p \in Cell, NEW B \in SUBSET Cell,
           NEW n \in Nat, NEW m \in Nat, n < m, Along(a, p, n) \in B
    PROVE  Along(a, p, m) \notin BlastArea(p, B)
<1>1. Shields(Along(a, p, n), p, Along(a, p, m))
  BY DEF Shields, Between, Along, Arms, Cell
<1>. QED BY <1>1 DEF BlastArea

\* The four arms are the whole blast.
LEMMA ArmsCoverBlast ==
    ASSUME NEW p \in Cell, NEW B \in SUBSET Cell, NEW c \in BlastArea(p, B)
    PROVE  \E a \in Arms : \E k \in 0 .. Radius : c = Along(a, p, k)
<1>. USE BoardAssumption DEF Cell
<1>0. c \in Cell /\ InRange(p, c) BY DEF BlastArea
<1>1. CASE p[2] = c[2] /\ p[1] <= c[1] /\ c[1] <= p[1] + Radius
  <2>1. c[1] - p[1] \in 0 .. Radius /\ c = <<p[1] + (c[1] - p[1]), p[2]>> BY <1>0, <1>1
  <2>. QED BY <2>1 DEF Along, Arms
<1>2. CASE p[2] = c[2] /\ c[1] <= p[1] /\ p[1] - Radius <= c[1]
  <2>1. p[1] - c[1] \in 0 .. Radius /\ c = <<p[1] - (p[1] - c[1]), p[2]>> BY <1>0, <1>2
  <2>. QED BY <2>1 DEF Along, Arms
<1>3. CASE p[1] = c[1] /\ p[2] <= c[2] /\ c[2] <= p[2] + Radius
  <2>1. c[2] - p[2] \in 0 .. Radius /\ c = <<p[1], p[2] + (c[2] - p[2])>> BY <1>0, <1>3
  <2>. QED BY <2>1 DEF Along, Arms
<1>4. CASE p[1] = c[1] /\ c[2] <= p[2] /\ p[2] - Radius <= c[2]
  <2>1. p[2] - c[2] \in 0 .. Radius /\ c = <<p[1], p[2] - (p[2] - c[2])>> BY <1>0, <1>4
  <2>. QED BY <2>1 DEF Along, Arms
<1>. QED BY <1>0, <1>1, <1>2, <1>3, <1>4 DEF InRange

\* A bomb always destroys its own cell.
LEMMA CentreInBlast ==
    ASSUME NEW p \in Cell, NEW B \in SUBSET Cell
    PROVE  p \in BlastArea(p, B)
BY BoardAssumption DEF BlastArea, InRange, Shields, Between, Cell

-----------------------------------------------------------------------------

LEMMA IncrementInRange == ASSUME NEW n \in 0 .. MaxCord PROVE Increment(n) \in 0 .. MaxCord
BY CordAssumption DEF Increment

LEMMA InitType == Init => TypeOK
BY BoardAssumption, CordAssumption DEF Init, TypeOK, Cell

LEMMA NextType == TypeOK /\ [Next]_vars => TypeOK'
<1>. SUFFICES ASSUME TypeOK, [Next]_vars PROVE TypeOK'
  OBVIOUS
<1>. USE CordAssumption DEF TypeOK
<1>1. CASE Explode BY <1>1 DEF Explode, Arms
<1>2. CASE SkipCell BY <1>2, IncrementInRange DEF SkipCell
<1>3. CASE BurnCell
  <2>1. Along(arm, pos, i) \in Cell BY <1>3, AlongInCell DEF BurnCell
  <2>. QED BY <1>3, <2>1, IncrementInRange DEF BurnCell
<1>4. CASE HitBlock
  <2>1. Along(arm, pos, i) \in Cell BY <1>4, AlongInCell DEF HitBlock
  <2>2. NextArm[arm] \in Arms \cup {"centre"} BY <1>4 DEF HitBlock, NextArm, Arms
  <2>. QED BY <1>4, <2>1, <2>2 DEF HitBlock
<1>5. CASE LeaveArm
  <2>1. NextArm[arm] \in Arms \cup {"centre"} BY <1>5 DEF LeaveArm, NextArm, Arms
  <2>. QED BY <1>5, <2>1 DEF LeaveArm
<1>6. CASE Finish BY <1>6 DEF Finish
<1>7. CASE UNCHANGED vars BY <1>7 DEF vars
<1>. QED BY <1>1, <1>2, <1>3, <1>4, <1>5, <1>6, <1>7 DEF Next, Loops

\* The loops only ever touch cells of the board and the counter never leaves
\* its type (game.cpp:142-174), for every board, radius and width.
THEOREM TypeCorrect == Spec => []TypeOK
<1>1. Init => TypeOK BY InitType
<1>2. TypeOK /\ [Next]_vars => TypeOK' BY NextType
<1>. QED BY <1>1, <1>2, PTL DEF Spec

-----------------------------------------------------------------------------

\* What is left of the arm when its loop ends: nothing.
LEMMA NextFinished ==
    ASSUME NEW a \in Arms PROVE Finished[NextArm[a]] = Finished[a] \cup {a}
BY DEF Arms, NextArm, Finished

LEMMA InitLoop == Init => LoopInv
BY DEF Init, LoopInv, Earlier, Arms

\* An iteration that examines cell c of the board without ending the loop, or
\* before it ends the loop.
LEMMA OneCell ==
    ASSUME IInv, arm \in Arms, i <= Radius, OnBoard(arm, pos, i)
    PROVE  /\ Along(arm, pos, i) \in Ray(arm, pos, blocks, Radius + 1)
           /\ Ray(arm, pos, blocks, i + 1) = Ray(arm, pos, blocks, i) \cup {Along(arm, pos, i)}
<1>. USE BoardAssumption, CordAssumption DEF IInv, TypeOK, LoopInv
<1>1. Along(arm, pos, i) \in BlastArea(pos, blocks)
  BY FreeArmInBlast
<1>2. i \in 0 .. (Radius + 1) - 1 /\ i \in 0 .. (i + 1) - 1 OBVIOUS
<1>3. 0 .. (i + 1) - 1 = (0 .. i - 1) \cup {i} OBVIOUS
<1>. QED BY <1>1, <1>2, <1>3 DEF Ray

LEMMA NextLoop == IInv /\ [Next]_vars => LoopInv'
<1>. SUFFICES ASSUME IInv, [Next]_vars PROVE LoopInv'
  OBVIOUS
<1>. USE BoardAssumption, CordAssumption DEF IInv, TypeOK, LoopInv
<1>1. CASE Explode
  <2>. USE <1>1 DEF Explode
  <2>1. Earlier' = Earlier BY DEF Earlier
  <2>2. Behind' = {} BY DEF Behind, Finished
  <2>3. Ray("right", pos', blocks', 0) = {} BY DEF Ray
  <2>. QED BY <2>1, <2>2, <2>3 DEF Arms
<1>2. CASE SkipCell
  <2>. USE <1>2 DEF SkipCell
  <2>1. /\ Earlier' = Earlier /\ Behind' = Behind
        /\ Ray(arm, pos, blocks, Radius + 1)' = Ray(arm, pos, blocks, Radius + 1)
        /\ Ray(arm, pos, blocks, i)' \subseteq Ray(arm, pos, blocks, i)
    <3>1. Earlier' = Earlier /\ Behind' = Behind BY DEF Earlier, Behind, Ray
    <3>2. Ray(arm, pos, blocks, Radius + 1)' = Ray(arm, pos, blocks, Radius + 1) BY DEF Ray
    <3>3. Along(arm, pos, i) \notin Cell
      <4>. USE DEF Along, OnBoard, Cell
      <4>1. CASE arm = "right" BY <4>1
      <4>2. CASE arm = "left" BY <4>2
      <4>3. CASE arm = "up" BY <4>3
      <4>4. CASE arm = "down" BY <4>4
      <4>. QED BY <4>1, <4>2, <4>3, <4>4 DEF Arms
    <3>4. ASSUME NEW c \in Ray(arm, pos, blocks, i)' PROVE c \in Ray(arm, pos, blocks, i)
      <4>1. PICK k \in 0 .. i' - 1 : c = Along(arm, pos, k)
        BY <3>4 DEF Ray
      <4>2. c \in BlastArea(pos, blocks) /\ c \in Cell BY <3>4 DEF Ray, BlastArea
      <4>3. k # i /\ k \in 0 .. i BY <4>1, <4>2, <3>3 DEF Increment
      <4>. QED BY <4>1, <4>2, <4>3 DEF Ray
    <3>. QED BY <3>1, <3>2, <3>4
  <2>2. \A k \in 0 .. i' - 1 : OnBoard(arm, pos, k) => Along(arm, pos, k) \notin blocks
    <3>1. \A k \in 0 .. i' - 1 : k = i \/ k \in 0 .. i - 1 BY DEF Increment
    <3>. QED BY <3>1
  <2>. QED BY <2>1, <2>2 DEF Arms
<1>3. CASE BurnCell
  <2>. USE <1>3 DEF BurnCell
  <2>1. Earlier' = Earlier /\ Behind' = Behind BY DEF Earlier, Behind, Ray
  <2>2. Ray(arm, pos, blocks, Radius + 1)' = Ray(arm, pos, blocks, Radius + 1) BY DEF Ray
  <2>3. Ray(arm, pos, blocks, i)' \subseteq Ray(arm, pos, blocks, i + 1)
    BY DEF Ray, Increment
  <2>4. \A k \in 0 .. i' - 1 : OnBoard(arm, pos, k) => Along(arm, pos, k) \notin blocks
    <3>1. \A k \in 0 .. i' - 1 : k = i \/ k \in 0 .. i - 1 BY DEF Increment
    <3>. QED BY <3>1
  <2>. QED BY <2>1, <2>2, <2>3, <2>4, OneCell DEF Arms
<1>4. CASE HitBlock
  <2>. USE <1>4 DEF HitBlock
  <2>1. Ray(arm, pos, blocks, Radius + 1) \subseteq explosions'
    <3>1. ASSUME NEW c \in Ray(arm, pos, blocks, Radius + 1) PROVE c \in Ray(arm, pos, blocks, i + 1)
      <4>1. PICK k \in 0 .. Radius : c = Along(arm, pos, k)
        BY <3>1 DEF Ray
      <4>2. ~ (i < k) BY <4>1, <3>1, BlockEndsArm DEF Ray
      <4>. QED BY <4>1, <4>2, <3>1 DEF Ray
    <3>. QED BY <3>1, OneCell
  <2>2. explosions' \subseteq Earlier \cup Behind \cup Ray(arm, pos, blocks, Radius + 1)
    BY OneCell
  <2>3. Earlier' = Earlier BY DEF Earlier
  <2>4. Behind' = Behind \cup Ray(arm, pos, blocks, Radius + 1)
    <3>1. Finished[arm'] = Finished[arm] \cup {arm} BY NextFinished
    <3>. QED BY <3>1 DEF Behind
  <2>5. explosions' = Earlier' \cup Behind' BY <2>1, <2>2, <2>3, <2>4
  <2>6. Ray(arm', pos', blocks', 0) = {} BY DEF Ray
  <2>7. arm' # "done" BY DEF Arms, NextArm
  <2>. QED BY <2>5, <2>6, <2>7
<1>5. CASE LeaveArm
  <2>. USE <1>5 DEF LeaveArm
  <2>1. Ray(arm, pos, blocks, Radius + 1) \subseteq Ray(arm, pos, blocks, i) BY DEF Ray
  <2>2. Earlier' = Earlier BY DEF Earlier
  <2>3. Behind' = Behind \cup Ray(arm, pos, blocks, Radius + 1)
    <3>1. Finished[arm'] = Finished[arm] \cup {arm} BY NextFinished
    <3>. QED BY <3>1 DEF Behind
  <2>4. explosions' = Earlier' \cup Behind' BY <2>1, <2>2, <2>3
  <2>5. Ray(arm', pos', blocks', 0) = {} BY DEF Ray
  <2>6. arm' # "done" BY DEF Arms, NextArm
  <2>. QED BY <2>4, <2>5, <2>6
<1>6. CASE Finish
  <2>. USE <1>6 DEF Finish
  <2>1. BlastArea(pos, blocks) \subseteq Behind
    BY ArmsCoverBlast DEF Behind, Ray, Finished, Arms
  <2>2. Behind \cup {pos} \subseteq BlastArea(pos, blocks)
    BY CentreInBlast DEF Behind, Ray
  <2>3. Earlier' = Earlier \cup BlastArea(pos, blocks) BY DEF Earlier
  <2>4. explosions' = Earlier' BY <2>1, <2>2, <2>3
  <2>. QED BY <2>4 DEF Arms
<1>7. CASE UNCHANGED vars
  BY <1>7 DEF vars, Earlier, Behind, Ray
<1>. QED BY <1>1, <1>2, <1>3, <1>4, <1>5, <1>6, <1>7 DEF Next, Loops

\* explode_bomb computes the union of the blasts of the bombs that exploded
\* (game.cpp:135-175, src/README.md 2.8), for every board, every radius, every
\* number of bombs and every placement of blocks.
THEOREM ExplosionCorrect == Spec => []ExplosionsAreUnionOfBlasts
<1>1. Init => IInv BY InitType, InitLoop DEF IInv
<1>2. IInv /\ [Next]_vars => IInv' BY NextType, NextLoop DEF IInv
<1>3. IInv => ExplosionsAreUnionOfBlasts
  BY DEF IInv, LoopInv, Earlier, ExplosionsAreUnionOfBlasts
<1>. QED BY <1>1, <1>2, <1>3, PTL DEF Spec

=============================================================================
