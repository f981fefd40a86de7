----------------------------- MODULE ScanProofs -----------------------------
(***************************************************************************)
(* The scan of the updater for every grid, scanner and measured point: the *)
(* rays follow their lines and spare the cell they end in, and the scan    *)
(* ray by ray is the single step of the updater.  And its masks for every  *)
(* convex polygon: what the crossing rule and the clamped box make of it.  *)
(***************************************************************************)
EXTENDS ScanProcessing, FiniteSetTheorems, WellFoundedInduction, TLAPS

-----------------------------------------------------------------------------
(* Numbers.                                                                *)

LEMMA SmallestOf ==
  ASSUME NEW T, T \subseteq Nat, T # {}
  PROVE  \E m \in T : \A n \in T : m <= n
<1>1. PICK m \in T : \A n \in T : <<n, m>> \notin OpToRel(<, Nat)
  BY NatLessThanWellFounded, WFMin
<1>2. \A n \in T : ~(n < m)
  BY <1>1 DEF OpToRel
<1> QED BY <1>2

(* No square is twice a square: of two that were, there would be a         *)
(* smallest, and half of it would be smaller.                              *)
LEMMA NoDoubleSquare ==
  ASSUME NEW m \in Nat, NEW h \in Nat, m * m = 2 * h * h
  PROVE  h = 0
<1> DEFINE Halved == {n \in Nat : n # 0 /\ \E k \in Nat : k * k = 2 * n * n}
<1> SUFFICES ASSUME h # 0 PROVE FALSE
  OBVIOUS
<1>1. PICK n \in Halved : \A o \in Halved : n <= o
  <2>1. h \in Halved
    OBVIOUS
  <2> QED BY <2>1, SmallestOf
<1>2. PICK k \in Nat : k * k = 2 * n * n
  OBVIOUS
<1>3. PICK q \in Nat : k = 2 * q \/ k = 2 * q + 1
  <2>1. k = 2 * (k \div 2) \/ k = 2 * (k \div 2) + 1
    OBVIOUS
  <2> QED BY <2>1
<1>4. k # 2 * q + 1
  <2>1. SUFFICES ASSUME k = 2 * q + 1 PROVE FALSE
    OBVIOUS
  <2>2. k * k = 2 * (2 * (q * q) + 2 * q) + 1
    BY <2>1
  <2>3. 2 * n * n = 2 * (n * n) /\ n * n \in Int /\ 2 * (q * q) + 2 * q \in Int
    OBVIOUS
  <2> QED BY <1>2, <2>2, <2>3
<1>5. n * n = 2 * q * q
  BY <1>2, <1>3, <1>4
<1>6. q # 0 /\ q < n
  <2>1. q # 0
    BY <1>5
  <2>2. ASSUME q >= n PROVE FALSE
    <3>1. q * q >= n * n /\ q * q > 0
      BY <2>1, <2>2
    <3> QED BY <1>5, <3>1
  <2> QED BY <2>1, <2>2
<1>7. q \in Halved
  BY <1>5, <1>6
<1> QED BY <1>1, <1>6, <1>7

LEMMA CauchySchwarz ==
  ASSUME NEW a \in Int, NEW b \in Int, NEW c \in Int, NEW d \in Int
  PROVE  (a * c + b * d) * (a * c + b * d) <= (a * a + b * b) * (c * c + d * d)
<1>1. (a * a + b * b) * (c * c + d * d)
        = (a * c + b * d) * (a * c + b * d) + (a * d - b * c) * (a * d - b * c)
  OBVIOUS
<1>2. \A z \in Int : z * z >= 0
  OBVIOUS
<1>3. (a * d - b * c) * (a * d - b * c) >= 0
  BY <1>2
<1> QED BY <1>1, <1>3

LEMMA RoundedDown ==
  ASSUME NEW n \in Int, NEW s \in Nat \ {0}
  PROVE  n \div s \in Int /\ s * (n \div s) <= n /\ n < s * (n \div s) + s
OBVIOUS

-----------------------------------------------------------------------------
(* Lines.                                                                  *)

(* i and j are the steps made of dx and dy: the error is the distance from *)
(* the line, which is at most half a step.                                 *)
Nearest(dx, dy, i, j, error) ==
  /\ error = dx * (j + 1) - dy * (i + 1)
  /\ 2 * Abs(dx * j - dy * i) <= IF dx > dy THEN dx ELSE dy

(* A round of the loop steps along one axis at least, along none beyond    *)
(* the end, and stays nearest to the line.                                 *)
LEMMA RoundStaysNearest ==
  ASSUME NEW dx \in Nat, NEW dy \in Nat, NEW i \in 0 .. dx, NEW j \in 0 .. dy,
         NEW error \in Int, Nearest(dx, dy, i, j, error), i # dx \/ j # dy
  PROVE  /\ 2 * error >= -dy \/ 2 * error <= dx
         /\ 2 * error >= -dy => i < dx
         /\ 2 * error <= dx => j < dy
         /\ 2 * error >= -dy /\ 2 * error <= dx
              => Nearest(dx, dy, i + 1, j + 1, error - dy + dx)
         /\ 2 * error >= -dy /\ 2 * error > dx => Nearest(dx, dy, i + 1, j, error - dy)
         /\ 2 * error < -dy => Nearest(dx, dy, i, j + 1, error + dx)
<1>1. PICK p \in Int, q \in Int : p = dx * j /\ q = dy * i
  OBVIOUS
<1>2. dx * (j + 1) = p + dx /\ dy * (i + 1) = q + dy
  BY <1>1
<1>3. dx * ((j + 1) + 1) = p + dx + dx /\ dy * ((i + 1) + 1) = q + dy + dy
  BY <1>1
<1>4. /\ error = p + dx - q - dy
      /\ 2 * Abs(p - q) <= IF dx > dy THEN dx ELSE dy
  BY <1>1, <1>2 DEF Nearest
<1>5. 2 * error >= -dy => i < dx
  <2>1. SUFFICES ASSUME i = dx, 2 * error >= -dy PROVE FALSE
    OBVIOUS
  <2>2. dx * (j + 1) <= dx * dy
    BY <2>1
  <2>3. dy * (i + 1) = dx * dy + dy /\ dx * dy \in Int
    BY <2>1
  <2> QED BY <1>2, <1>4, <2>1, <2>2, <2>3
<1>6. 2 * error <= dx => j < dy
  <2>1. SUFFICES ASSUME j = dy, 2 * error <= dx PROVE FALSE
    OBVIOUS
  <2>2. dy * (i + 1) <= dx * dy
    BY <2>1
  <2>3. dx * (j + 1) = dx * dy + dx /\ dx * dy \in Int
    BY <2>1
  <2> QED BY <1>2, <1>4, <2>1, <2>2, <2>3
<1>7. 2 * error >= -dy /\ 2 * error <= dx => Nearest(dx, dy, i + 1, j + 1, error - dy + dx)
  BY <1>2, <1>3, <1>4 DEF Nearest, Abs
<1>8. 2 * error >= -dy /\ 2 * error > dx => Nearest(dx, dy, i + 1, j, error - dy)
  BY <1>1, <1>2, <1>3, <1>4 DEF Nearest, Abs
<1>9. 2 * error < -dy => Nearest(dx, dy, i, j + 1, error + dx)
  BY <1>1, <1>2, <1>3, <1>4 DEF Nearest, Abs
<1> QED BY <1>4, <1>5, <1>6, <1>7, <1>8, <1>9

(* One coordinate of the cursor, between start and end.                    *)
LEMMA AlongAxis ==
  ASSUME NEW s \in Int, NEW e \in Int, NEW c \in Int, Abs(c - s) + Abs(e - c) = Abs(e - s)
  PROVE  /\ Abs(c - s) \in 0 .. Abs(e - s) /\ Abs(e - s) \in Nat
         /\ Abs(c - s) = Abs(e - s) <=> c = e
         /\ Abs(c - s) < Abs(e - s) =>
              /\ Abs((c + Towards(s, e)) - s) = Abs(c - s) + 1
              /\ Abs((c + Towards(s, e)) - s) + Abs(e - (c + Towards(s, e))) = Abs(e - s)
BY DEF Abs, Towards

Points == Int \X Int

Travelled(s, c) == Abs(c[1] - s[1]) + Abs(c[2] - s[2])

OnLine(s, e, c, error) ==
  /\ Abs(c[1] - s[1]) + Abs(e[1] - c[1]) = Abs(e[1] - s[1])
  /\ Abs(c[2] - s[2]) + Abs(e[2] - c[2]) = Abs(e[2] - s[2])
  /\ Nearest(Abs(e[1] - s[1]), Abs(e[2] - s[2]), Abs(c[1] - s[1]), Abs(c[2] - s[2]), error)

LEMMA LineBegins ==
  ASSUME NEW s \in Points, NEW e \in Points
  PROVE  OnLine(s, e, s, LineX(s, e) + LineY(s, e)) /\ LineX(s, e) + LineY(s, e) \in Int
<1> DEFINE dx == Abs(e[1] - s[1])
           dy == Abs(e[2] - s[2])
<1>1. dx \in Nat /\ dy \in Nat /\ s[1] - s[1] = 0 /\ s[2] - s[2] = 0
  BY DEF Points, Abs
<1>2. Abs(0) = 0
  BY DEF Abs
<1>3. LineX(s, e) = dx /\ LineY(s, e) = -dy
  BY DEF LineX, LineY
<1>4. OnLine(s, e, s, dx + (-dy)) <=>
        0 + dx = dx /\ 0 + dy = dy /\ Nearest(dx, dy, 0, 0, dx + (-dy))
  BY <1>1, <1>2 DEF OnLine
<1> HIDE DEF dx, dy
<1>5. Nearest(dx, dy, 0, 0, dx + (-dy))
  BY <1>1, <1>2 DEF Nearest
<1> QED BY <1>1, <1>3, <1>4, <1>5

(* Until it is at the end, the cursor goes on.                             *)
LEMMA CursorGoesOn ==
  ASSUME NEW s \in Points, NEW e \in Points, NEW c \in Points, NEW error \in Int,
         OnLine(s, e, c, error), c # e
  PROVE  /\ StepsX(s, e, error) \/ StepsY(s, e, error)
         /\ NextCell(s, e, c, error) \in Points /\ NextError(s, e, error) \in Int
         /\ OnLine(s, e, NextCell(s, e, c, error), NextError(s, e, error))
         /\ Travelled(s, c) < Travelled(s, NextCell(s, e, c, error))
<1>1. PICK s1 \in Int, s2 \in Int : s = <<s1, s2>>
  BY DEF Points
<1>2. PICK e1 \in Int, e2 \in Int : e = <<e1, e2>>
  BY DEF Points
<1>3. PICK c1 \in Int, c2 \in Int : c = <<c1, c2>>
  BY DEF Points
<1> DEFINE dx == Abs(e1 - s1)
           dy == Abs(e2 - s2)
           i == Abs(c1 - s1)
           j == Abs(c2 - s2)
           x == c1 + Towards(s1, e1)
           y == c2 + Towards(s2, e2)
<1>4. /\ i + Abs(e1 - c1) = dx /\ j + Abs(e2 - c2) = dy
      /\ Nearest(dx, dy, i, j, error)
  BY <1>1, <1>2, <1>3 DEF OnLine
<1>5. /\ i \in 0 .. dx /\ dx \in Nat /\ (i = dx <=> c1 = e1)
      /\ i < dx => Abs(x - s1) = i + 1 /\ Abs(x - s1) + Abs(e1 - x) = dx
  BY <1>4, AlongAxis
<1>6. /\ j \in 0 .. dy /\ dy \in Nat /\ (j = dy <=> c2 = e2)
      /\ j < dy => Abs(y - s2) = j + 1 /\ Abs(y - s2) + Abs(e2 - y) = dy
  BY <1>4, AlongAxis
<1>7. i # dx \/ j # dy
  BY <1>2, <1>3, <1>5, <1>6
<1>8. x \in Int /\ y \in Int
  BY DEF Towards
<1>9. /\ StepsX(s, e, error) <=> 2 * error >= -dy
      /\ StepsY(s, e, error) <=> 2 * error <= dx
      /\ LineX(s, e) = dx /\ LineY(s, e) = -dy
  BY <1>1, <1>2 DEF StepsX, StepsY, LineX, LineY
<1>10. NextCell(s, e, c, error) =
         <<IF 2 * error >= -dy THEN x ELSE c1, IF 2 * error <= dx THEN y ELSE c2>>
  BY <1>1, <1>2, <1>3, <1>9 DEF NextCell
<1>11. NextError(s, e, error) =
         error + (IF 2 * error >= -dy THEN -dy ELSE 0) + (IF 2 * error <= dx THEN dx ELSE 0)
  BY <1>9 DEF NextError
<1>12. \A u, v \in Int, f \in Int :
         OnLine(s, e, <<u, v>>, f) <=>
           /\ Abs(u - s1) + Abs(e1 - u) = dx /\ Abs(v - s2) + Abs(e2 - v) = dy
           /\ Nearest(dx, dy, Abs(u - s1), Abs(v - s2), f)
  BY <1>1, <1>2 DEF OnLine
<1>13. \A u, v \in Int : Travelled(s, <<u, v>>) = Abs(u - s1) + Abs(v - s2)
  BY <1>1 DEF Travelled
<1> HIDE DEF dx, dy, i, j, x, y
<1>14. /\ 2 * error >= -dy \/ 2 * error <= dx
       /\ 2 * error >= -dy => i < dx
       /\ 2 * error <= dx => j < dy
       /\ 2 * error >= -dy /\ 2 * error <= dx
            => Nearest(dx, dy, i + 1, j + 1, error - dy + dx)
       /\ 2 * error >= -dy /\ 2 * error > dx => Nearest(dx, dy, i + 1, j, error - dy)
       /\ 2 * error < -dy => Nearest(dx, dy, i, j + 1, error + dx)
  BY <1>4, <1>5, <1>6, <1>7, RoundStaysNearest
<1>15. Travelled(s, c) = i + j
  BY <1>3, <1>13 DEF i, j
<1>16. i = Abs(c1 - s1) /\ j = Abs(c2 - s2)
  BY DEF i, j
<1>17. CASE 2 * error >= -dy /\ 2 * error <= dx
  <2>1. /\ NextCell(s, e, c, error) = <<x, y>>
        /\ NextError(s, e, error) = error - dy + dx
    BY <1>5, <1>6, <1>10, <1>11, <1>17
  <2>2. OnLine(s, e, <<x, y>>, error - dy + dx) /\ Travelled(s, <<x, y>>) = i + 1 + j + 1
    BY <1>5, <1>6, <1>8, <1>12, <1>13, <1>14, <1>17
  <2> QED BY <1>5, <1>6, <1>8, <1>9, <1>15, <1>17, <2>1, <2>2 DEF Points
<1>18. CASE 2 * error >= -dy /\ 2 * error > dx
  <2>1. NextCell(s, e, c, error) = <<x, c2>> /\ NextError(s, e, error) = error - dy
    BY <1>5, <1>6, <1>10, <1>11, <1>18
  <2>2. OnLine(s, e, <<x, c2>>, error - dy) /\ Travelled(s, <<x, c2>>) = i + 1 + j
    BY <1>4, <1>5, <1>6, <1>8, <1>12, <1>13, <1>14, <1>16, <1>18
  <2> QED BY <1>5, <1>6, <1>8, <1>9, <1>15, <1>18, <2>1, <2>2 DEF Points
<1>19. CASE 2 * error < -dy
  <2>1. 2 * error <= dx
    BY <1>14, <1>19, <1>5, <1>6
  <2>2. NextCell(s, e, c, error) = <<c1, y>> /\ NextError(s, e, error) = error + dx
    BY <1>5, <1>6, <1>10, <1>11, <1>19, <2>1
  <2>3. OnLine(s, e, <<c1, y>>, error + dx) /\ Travelled(s, <<c1, y>>) = i + j + 1
    BY <1>4, <1>5, <1>6, <1>8, <1>12, <1>13, <1>14, <1>16, <1>19, <2>1
  <2> QED BY <1>5, <1>6, <1>8, <1>9, <1>15, <1>19, <2>1, <2>2, <2>3 DEF Points
<1> QED BY <1>5, <1>6, <1>17, <1>18, <1>19

-----------------------------------------------------------------------------
(* The end of a ray.                                                       *)

LEMMA CellOfPoint ==
  ASSUME NEW p \in Points
  PROVE  WorldToCell(p) \in Points
<1>1. (p[1] - OriginX) \div Scale \in Int /\ (p[2] - OriginY) \div Scale \in Int
  BY GridAssumption, RoundedDown DEF Points
<1> QED BY <1>1 DEF WorldToCell, Points

(* A point is at most half the diagonal from the centre of its cell.       *)
LEMMA NearOwnCenter ==
  ASSUME NEW p \in Points
  PROVE  /\ Center(WorldToCell(p)) \in Points
         /\ SquaredDistance(p, Center(WorldToCell(p)))
              <= 2 * (Scale \div 2) * (Scale \div 2)
<1>1. PICK h \in Nat : h = Scale \div 2 /\ Scale = 2 * h /\ h > 0
  BY GridAssumption
<1> DEFINE off(n, o) == (n - o) - (Scale * ((n - o) \div Scale) + h)
<1>2. ASSUME NEW n \in Int, NEW o \in Int
      PROVE  (n - o) \div Scale \in Int /\ off(n, o) \in (-h) .. h
  <2>1. PICK z \in Int : z = n - o
    BY <1>2
  <2>2. Scale \in Nat \ {0}
    BY GridAssumption
  <2>3. z \div Scale \in Int /\ Scale * (z \div Scale) <= z /\ z < Scale * (z \div Scale) + Scale
    BY <2>2, RoundedDown
  <2>4. PICK w \in Int : w = Scale * (z \div Scale)
    BY <2>2, <2>3
  <2>5. off(n, o) = z - (w + h) /\ w <= z /\ z < w + 2 * h
    BY <1>1, <2>1, <2>3, <2>4
  <2> QED BY <2>1, <2>3, <2>5
<1>3. \A z \in (-h) .. h : z * z <= h * h
  <2>1. SUFFICES ASSUME NEW z \in (-h) .. h PROVE z * z <= h * h
    OBVIOUS
  <2>2. (h - z) * (h + z) >= 0
    OBVIOUS
  <2>3. (h - z) * (h + z) = h * h - z * z
    OBVIOUS
  <2> QED BY <2>2, <2>3
<1>4. PICK x \in Int, y \in Int : p = <<x, y>>
  BY DEF Points
<1>5. PICK u \in Int, v \in Int : u = (x - OriginX) \div Scale /\ v = (y - OriginY) \div Scale
  BY <1>2, GridAssumption
<1>6. WorldToCell(p) = <<u, v>>
  BY <1>4, <1>5 DEF WorldToCell
<1>7. Center(WorldToCell(p)) = <<OriginX + u * Scale + h, OriginY + v * Scale + h>>
  BY <1>1, <1>6 DEF Center
<1>8. off(x, OriginX) \in (-h) .. h /\ off(y, OriginY) \in (-h) .. h
  BY <1>2, GridAssumption
<1>9. /\ x - (OriginX + u * Scale + h) = off(x, OriginX)
      /\ y - (OriginY + v * Scale + h) = off(y, OriginY)
  <2>1. OriginX \in Int /\ OriginY \in Int /\ Scale \in Int
    BY GridAssumption
  <2>2. off(x, OriginX) = (x - OriginX) - (Scale * u + h)
        /\ off(y, OriginY) = (y - OriginY) - (Scale * v + h)
    BY <1>5
  <2>3. \A n, o, z \in Int : n - (o + z * Scale + h) = (n - o) - (Scale * z + h)
    BY <2>1
  <2> QED BY <2>1, <2>2, <2>3
<1>10. SquaredDistance(p, Center(WorldToCell(p))) =
         off(x, OriginX) * off(x, OriginX) + off(y, OriginY) * off(y, OriginY)
  BY <1>4, <1>7, <1>9 DEF SquaredDistance
<1>11. Center(WorldToCell(p)) \in Points
  BY <1>7, GridAssumption DEF Points
<1> HIDE DEF off
<1>12. SquaredDistance(p, Center(WorldToCell(p))) <= h * h + h * h
  BY <1>3, <1>8, <1>10
<1>13. 2 * (Scale \div 2) * (Scale \div 2) = h * h + h * h
  BY <1>1
<1> QED BY <1>11, <1>12, <1>13

(* The triangle inequality, between squares: a point q that is nearer to b *)
(* than m is not on the way from a to b at m before b, unless it is a.     *)
LEMMA NotPassedNearby ==
  ASSUME NEW a \in Points, NEW b \in Points, NEW q \in Points, NEW m2 \in Nat,
         SquaredDistance(b, q) < m2, m2 <= SquaredDistance(a, b),
         (SquaredDistance(a, b) + m2 - SquaredDistance(a, q))
           * (SquaredDistance(a, b) + m2 - SquaredDistance(a, q))
           >= 4 * m2 * SquaredDistance(a, b)
  PROVE  FALSE
<1>1. PICK v1 \in Int, v2 \in Int, w1 \in Int, w2 \in Int :
        /\ v1 = a[1] - b[1] /\ v2 = a[2] - b[2]
        /\ w1 = b[1] - q[1] /\ w2 = b[2] - q[2]
  BY DEF Points
<1>2. PICK r2 \in Int : r2 = v1 * v1 + v2 * v2
  OBVIOUS
<1>3. PICK e2 \in Int : e2 = w1 * w1 + w2 * w2
  OBVIOUS
<1>4. PICK g \in Int : g = v1 * w1 + v2 * w2
  OBVIOUS
<1>5. PICK d2 \in Int : d2 = r2 + e2 + 2 * g
  OBVIOUS
<1>6. SquaredDistance(a, b) = r2 /\ SquaredDistance(b, q) = e2
  BY <1>1, <1>2, <1>3 DEF SquaredDistance
<1>7. SquaredDistance(a, q) = d2
  <2>1. a[1] - q[1] = v1 + w1 /\ a[2] - q[2] = v2 + w2
    BY <1>1 DEF Points
  <2>2. (v1 + w1) * (v1 + w1) + (v2 + w2) * (v2 + w2) = d2
    BY <1>2, <1>3, <1>4, <1>5
  <2> QED BY <2>1, <2>2 DEF SquaredDistance
<1>8. g * g <= r2 * e2
  BY <1>2, <1>3, <1>4, CauchySchwarz
<1>9. (r2 + e2 - d2) * (r2 + e2 - d2) <= 4 * e2 * r2
  <2>1. r2 + e2 - d2 = -(2 * g)
    BY <1>5
  <2>2. (-(2 * g)) * (-(2 * g)) = 4 * (g * g) /\ 4 * e2 * r2 = 4 * (r2 * e2)
    OBVIOUS
  <2>3. g * g \in Int /\ r2 * e2 \in Int
    OBVIOUS
  <2> QED BY <1>8, <2>1, <2>2, <2>3
<1>10. d2 >= 0
  <2>1. \A z \in Int : z * z >= 0
    OBVIOUS
  <2>2. (v1 + w1) * (v1 + w1) + (v2 + w2) * (v2 + w2) = d2
    BY <1>2, <1>3, <1>4, <1>5
  <2>3. (v1 + w1) * (v1 + w1) >= 0 /\ (v2 + w2) * (v2 + w2) >= 0
    BY <2>1
  <2> QED BY <2>2, <2>3
<1>11. (r2 + m2 - d2) * (r2 + m2 - d2) - 4 * m2 * r2
         = (r2 + e2 - d2) * (r2 + e2 - d2) - 4 * e2 * r2
             + (m2 - e2) * (m2 + e2 - 2 * r2 - 2 * d2)
  OBVIOUS
<1>12. (m2 - e2) * (m2 + e2 - 2 * r2 - 2 * d2) < 0
  <2>1. m2 - e2 > 0 /\ m2 + e2 - 2 * r2 - 2 * d2 < 0
    BY <1>6, <1>10
  <2>2. \A y, z \in Int : y > 0 /\ z < 0 => y * z < 0
    OBVIOUS
  <2> QED BY <2>1, <2>2
<1>13. (r2 + m2 - d2) * (r2 + m2 - d2) >= 4 * m2 * r2
  BY <1>6, <1>7
<1> QED BY <1>9, <1>11, <1>12, <1>13

(* With a margin of half the diagonal of a cell, only a scanner in the     *)
(* cell itself passes through the cell that it measures.                   *)
LEMMA EndNotPassed ==
  ASSUME NEW from \in Points, NEW to \in Points, 2 * Margin * Margin >= Scale * Scale,
         PassedThrough(from, to, WorldToCell(to))
  PROVE  WorldToCell(to) = WorldToCell(from)
<1> DEFINE q == Center(WorldToCell(to))
           m2 == Margin * Margin
<1>1. PICK h \in Nat : h = Scale \div 2 /\ Scale = 2 * h /\ h > 0
  BY GridAssumption
<1>2. q \in Points /\ SquaredDistance(to, q) <= 2 * h * h
  BY <1>1, NearOwnCenter
<1>3. m2 \in Nat /\ 2 * h * h < m2
  <2>1. Margin \in Nat /\ m2 \in Nat
    BY GridAssumption
  <2>2. 2 * m2 >= 2 * (2 * h * h)
    BY <1>1, <2>1
  <2>3. Margin * Margin # 2 * h * h
    BY <1>1, <2>1, NoDoubleSquare
  <2> QED BY <2>1, <2>2, <2>3
<1>4. SquaredDistance(to, q) \in Int /\ SquaredDistance(from, to) \in Int
  BY <1>2 DEF SquaredDistance, Points
<1>5. SquaredDistance(to, q) < m2
  BY <1>2, <1>3, <1>4
<1>6. \/ SquaredDistance(from, q) = 0
      \/ /\ SquaredDistance(from, to) >= m2
         /\ (SquaredDistance(from, to) + m2 - SquaredDistance(from, q))
              * (SquaredDistance(from, to) + m2 - SquaredDistance(from, q))
              >= 4 * m2 * SquaredDistance(from, to)
  BY DEF PassedThrough
<1> HIDE DEF m2, q
<1>7. SquaredDistance(from, q) = 0
  BY <1>2, <1>3, <1>4, <1>5, <1>6, NotPassedNearby
<1>8. from = q
  <2>1. PICK x \in Int, y \in Int : from = <<x, y>>
    BY DEF Points
  <2>2. PICK u \in Int, v \in Int : q = <<u, v>>
    BY <1>2 DEF Points
  <2>3. (x - u) * (x - u) + (y - v) * (y - v) = 0
    BY <1>7, <2>1, <2>2 DEF SquaredDistance
  <2>4. \A z \in Int : z * z >= 0 /\ (z * z = 0 => z = 0)
    OBVIOUS
  <2>5. x - u = 0 /\ y - v = 0
    BY <2>3, <2>4
  <2> QED BY <2>1, <2>2, <2>5
<1>9. ASSUME NEW c \in Points PROVE WorldToCell(Center(c)) = c
  <2>1. PICK x \in Int, y \in Int : c = <<x, y>>
    BY DEF Points
  <2>2. Center(c) = <<OriginX + x * Scale + h, OriginY + y * Scale + h>>
    BY <1>1, <2>1 DEF Center
  <2>3. ASSUME NEW z \in Int PROVE (z * Scale + h) \div Scale = z
    BY <1>1, GridAssumption
  <2>4. OriginX \in Int /\ OriginY \in Int
    BY GridAssumption
  <2>5. PICK u \in Int, v \in Int : u = OriginX + x * Scale + h /\ v = OriginY + y * Scale + h
    BY <2>4, GridAssumption
  <2>6. u - OriginX = x * Scale + h /\ v - OriginY = y * Scale + h
    <3>1. Scale \in Int
      BY GridAssumption
    <3> QED BY <2>4, <2>5, <3>1
  <2>7. Center(c) = <<u, v>>
    BY <2>2, <2>5
  <2>8. WorldToCell(<<u, v>>) = <<(u - OriginX) \div Scale, (v - OriginY) \div Scale>>
    BY DEF WorldToCell
  <2>9. (u - OriginX) \div Scale = x /\ (v - OriginY) \div Scale = y
    BY <2>3, <2>6
  <2> QED BY <2>1, <2>7, <2>8, <2>9
<1> QED BY <1>8, <1>9, CellOfPoint DEF q

-----------------------------------------------------------------------------
(* The evidence of one cell, while the rays of a scan come in.             *)

Rays == [free : SUBSET Points, end : Points]

LEMMA AddTyped ==
  ASSUME NEW e \in CellEvidence, NEW n \in Nat, NEW pose \in Pose
  PROVE  AddEvidence(e, n, pose, MinHits, MinPoses) \in CellEvidence
<1>1. CapHits(e.hits + n) \in 0 .. HitCap
  BY CountAssumption DEF CapHits, CellEvidence
<1>2. (IF IsDistinctPose(e, pose) THEN e.poses \cup {pose} ELSE e.poses) \in SUBSET Pose
  BY DEF CellEvidence
<1> QED BY <1>1, <1>2 DEF AddEvidence, CellEvidence

(* One hit more from the same pose.                                        *)
LEMMA AddOneMore ==
  ASSUME NEW e \in CellEvidence, NEW n \in Nat, NEW pose \in Pose
  PROVE  AddEvidence(AddEvidence(e, n, pose, MinHits, MinPoses), 1, pose, MinHits, MinPoses)
           = AddEvidence(e, n + 1, pose, MinHits, MinPoses)
<1> DEFINE once == AddEvidence(e, n, pose, MinHits, MinPoses)
           poses == IF IsDistinctPose(e, pose) THEN e.poses \cup {pose} ELSE e.poses
<1>1. e.hits \in Nat /\ HitCap \in Nat
  BY CountAssumption DEF CellEvidence
<1>2. once.hits = CapHits(e.hits + n) /\ once.poses = poses
  BY DEF AddEvidence
<1>3. CapHits(once.hits + 1) = CapHits(e.hits + (n + 1))
  BY <1>1, <1>2 DEF CapHits
<1>4. ~IsDistinctPose(once, pose)
  BY <1>2, CloseAssumption DEF IsDistinctPose
<1> HIDE DEF once
<1>5. AddEvidence(once, 1, pose, MinHits, MinPoses) =
        [hits |-> CapHits(e.hits + (n + 1)), poses |-> poses,
         cleared |-> /\ CapHits(e.hits + (n + 1)) >= MinHits
                     /\ Cardinality(poses) >= MinPoses]
  BY <1>2, <1>3, <1>4 DEF AddEvidence
<1>6. AddEvidence(e, n + 1, pose, MinHits, MinPoses) =
        [hits |-> CapHits(e.hits + (n + 1)), poses |-> poses,
         cleared |-> /\ CapHits(e.hits + (n + 1)) >= MinHits
                     /\ Cardinality(poses) >= MinPoses]
  BY DEF AddEvidence
<1> QED BY <1>5, <1>6 DEF once

LEMMA CrossingsFinite ==
  ASSUME NEW rays \in Seq(Rays), NEW c
  PROVE  /\ Crossings(rays, c) \subseteq 1 .. Len(rays)
         /\ IsFiniteSet(Crossings(rays, c)) /\ Cardinality(Crossings(rays, c)) \in Nat
<1>1. Crossings(rays, c) \subseteq 1 .. Len(rays)
  BY DEF Crossings
<1>2. IsFiniteSet(1 .. Len(rays))
  BY FS_Interval
<1> QED BY <1>1, <1>2, FS_Subset, FS_CardinalityType

LEMMA NoRays ==
  ASSUME NEW e, NEW c, NEW pose
  PROVE  ScanCell(e, <<>>, c, pose) = e
<1>1. Crossings(<<>>, c) = {} /\ ~EndsOn(<<>>, c)
  BY DEF Crossings, EndsOn
<1> QED BY <1>1, FS_EmptySet DEF ScanCell

(* A ray that begins resets the cell in which it will end.                 *)
LEMMA RayBegun ==
  ASSUME NEW rays \in Seq(Rays), NEW x \in Points, NEW e, NEW c, NEW pose
  PROVE  ScanCell(e, Append(rays, [free |-> {}, end |-> x]), c, pose) =
           IF c = x THEN NoEvidence ELSE ScanCell(e, rays, c, pose)
<1> DEFINE ray == [free |-> {}, end |-> x]
           more == Append(rays, ray)
           n == Len(rays)
<1>1. /\ n \in Nat /\ DOMAIN rays = 1 .. n /\ DOMAIN more = 1 .. n + 1
      /\ more[n + 1] = ray /\ \A i \in 1 .. n : more[i] = rays[i]
  <2>1. ray \in Rays
    BY DEF Rays
  <2> QED BY <2>1
<1>2. ray.free = {} /\ ray.end = x
  OBVIOUS
<1> HIDE DEF more, ray
<1>3. CASE c = x
  <2>1. EndsOn(more, c)
    BY <1>1, <1>2, <1>3 DEF EndsOn
  <2>2. Crossings(more, c) = {}
    BY <1>1, <1>2, <1>3 DEF Crossings
  <2> QED BY <1>3, <2>1, <2>2, FS_EmptySet DEF ScanCell, more, ray
<1>4. CASE c # x
  <2>1. EndsOn(more, c) <=> EndsOn(rays, c)
    BY <1>1, <1>2, <1>4 DEF EndsOn
  <2>2. Crossings(more, c) = Crossings(rays, c)
    BY <1>1, <1>2, <1>4 DEF Crossings
  <2> QED BY <1>4, <2>1, <2>2 DEF ScanCell, more, ray
<1> QED BY <1>3, <1>4

(* The last ray passes through one more cell.                              *)
LEMMA CellPassed ==
  ASSUME NEW rays \in Seq(Rays), rays # <<>>, NEW x \in Points,
         x \notin rays[Len(rays)].free,
         NEW e \in CellEvidence, NEW c, NEW pose \in Pose
  PROVE  ScanCell(e, [rays EXCEPT ![Len(rays)].free = @ \cup {x}], c, pose) =
           IF c = x THEN AddEvidence(ScanCell(e, rays, c, pose), 1, pose, MinHits, MinPoses)
           ELSE ScanCell(e, rays, c, pose)
<1> DEFINE n == Len(rays)
           more == [rays EXCEPT ![n].free = @ \cup {x}]
<1>1. n \in Nat \ {0} /\ DOMAIN rays = 1 .. n /\ DOMAIN more = 1 .. n
  OBVIOUS
<1>2. /\ \A i \in 1 .. n : more[i].end = rays[i].end
      /\ \A i \in 1 .. n : i # n => more[i].free = rays[i].free
      /\ more[n].free = rays[n].free \cup {x}
  BY <1>1 DEF Rays
<1> HIDE DEF more, n
<1>3. EndsOn(more, c) <=> EndsOn(rays, c)
  BY <1>1, <1>2 DEF EndsOn
<1>4. CASE c # x
  <2>1. Crossings(more, c) = Crossings(rays, c)
    BY <1>1, <1>2, <1>4 DEF Crossings
  <2> QED BY <1>3, <1>4, <2>1 DEF ScanCell, more, n
<1>5. CASE c = x
  <2> DEFINE k == Cardinality(Crossings(rays, c))
             start == IF EndsOn(rays, c) THEN NoEvidence ELSE e
  <2>1. Crossings(more, c) = Crossings(rays, c) \cup {n} /\ n \notin Crossings(rays, c)
    <3>1. x \notin rays[n].free
      BY DEF n
    <3>2. \A i \in 1 .. n : c \in more[i].free <=> c \in rays[i].free \/ i = n
      BY <1>1, <1>2, <1>5
    <3>3. \A i : i \in Crossings(more, c) <=>
            /\ i \in 1 .. n /\ (c \in rays[i].free \/ i = n)
            /\ \A j \in 1 .. n : rays[j].end = c => j <= i
      BY <1>1, <1>2, <3>2 DEF Crossings
    <3>4. \A i : i \in Crossings(rays, c) <=>
            /\ i \in 1 .. n /\ c \in rays[i].free
            /\ \A j \in 1 .. n : rays[j].end = c => j <= i
      BY <1>1 DEF Crossings
    <3>5. n \in 1 .. n /\ \A j \in 1 .. n : j <= n
      BY <1>1
    <3>6. \A i : i \in Crossings(more, c) <=> i \in Crossings(rays, c) \/ i = n
      BY <3>3, <3>4, <3>5
    <3> QED BY <1>5, <3>1, <3>4, <3>6
  <2>2. k \in Nat /\ Cardinality(Crossings(more, c)) = k + 1
    BY <2>1, CrossingsFinite, FS_AddElement
  <2>3. start \in CellEvidence
    <3>1. 0 \in 0 .. HitCap
      BY CountAssumption
    <3> QED BY <3>1 DEF NoEvidence, CellEvidence
  <2> HIDE DEF k, start
  <2>4. ScanCell(e, more, c, pose) = AddEvidence(start, k + 1, pose, MinHits, MinPoses)
    <3>1. k + 1 # 0
      BY <2>2
    <3> QED BY <1>3, <2>2, <3>1 DEF ScanCell, start
  <2>5. ScanCell(e, rays, c, pose) =
          IF k = 0 THEN start ELSE AddEvidence(start, k, pose, MinHits, MinPoses)
    BY DEF ScanCell, k, start
  <2>6. AddEvidence(ScanCell(e, rays, c, pose), 1, pose, MinHits, MinPoses)
          = AddEvidence(start, k + 1, pose, MinHits, MinPoses)
    <3>1. k = 0 => k + 1 = 1
      OBVIOUS
    <3> QED BY <2>2, <2>3, <2>5, <3>1, AddOneMore
  <2> QED BY <1>5, <2>4, <2>6 DEF more, n
<1> QED BY <1>4, <1>5

-----------------------------------------------------------------------------
(* The inductive invariant of a scan.                                      *)

ScanTypes ==
  /\ phase \in {"idle", "rays", "line"}
  /\ evidence \in [Cell -> CellEvidence] /\ scan \in Seq(Rays)
  /\ phase = "idle" => scan = <<>>
  /\ phase # "idle" =>
       /\ robotPose \in Pose /\ before \in [Cell -> CellEvidence]
       /\ raw # NoMap /\ raw.geometry \notin Degenerate
  /\ phase = "line" =>
       target \in Points /\ cursor \in Points /\ err \in Int /\ scan # <<>>

(* The cursor is on its line, and the cells that the ray has passed        *)
(* through lie behind it.                                                  *)
LineInv ==
  phase = "line" =>
    /\ OnLine(Start, End, cursor, err)
    /\ scan[Len(scan)].end = End
    /\ \A c \in scan[Len(scan)].free : Travelled(Start, c) < Travelled(Start, cursor)

(* The evidence is that of the scan so far.                                *)
Processed ==
  phase # "idle" =>
    \A c \in Cell :
      evidence[c] = IF IsCandidateOccupied(raw, candidate, c)
                      THEN ScanCell(before[c], scan, c, robotPose) ELSE before[c]

ScanInv == ScanTypes /\ LineInv /\ EndpointNotCounted /\ Processed

LEMMA NoEvidenceTyped == NoEvidence \in CellEvidence
<1>1. 0 \in 0 .. HitCap
  BY CountAssumption
<1> QED BY <1>1 DEF NoEvidence, CellEvidence

LEMMA SensorCell ==
  ASSUME NEW pose \in Pose
  PROVE  Sensor[pose] \in Points /\ WorldToCell(Sensor[pose]) \in Points
BY ScanAssumption, CellOfPoint DEF Points

LEMMA ScanStart == ScanInit => ScanInv
BY NoEvidenceTyped
DEF ScanInit, NoScan, Init, EmptyGrid, ScanInv, ScanTypes, LineInv, EndpointNotCounted, Processed

(* A handler other than onScan leaves the scan alone.                      *)
LEMMA HandlerKeeps ==
  ASSUME ScanInv, Idle,
         evidence' = evidence \/ evidence' = EmptyGrid
           \/ \E keep : evidence' = ResetOutside(evidence, keep)
  PROVE  ScanInv'
<1>1. evidence' \in [Cell -> CellEvidence]
  BY NoEvidenceTyped DEF ScanInv, ScanTypes, EmptyGrid, ResetOutside
<1> QED BY <1>1 DEF Idle, ScanInv, ScanTypes, LineInv, EndpointNotCounted, Processed

LEMMA BeginScanKeeps ==
  ASSUME ScanInv, NEW pose \in Pose, BeginScan(pose)
  PROVE  ScanInv'
<1>1. /\ phase = "idle" /\ phase' = "rays" /\ robotPose' = pose /\ before' = evidence
      /\ scan' = <<>> /\ UNCHANGED <<raw, candidate, evidence>>
      /\ raw # NoMap /\ raw.geometry \notin Degenerate
  BY DEF BeginScan, vars, inputs, masks, grids
<1>2. ScanTypes'
  BY <1>1 DEF ScanInv, ScanTypes
<1>3. Processed'
  BY <1>1, NoRays DEF Processed
<1> QED BY <1>1, <1>2, <1>3 DEF ScanInv, LineInv, EndpointNotCounted

LEMMA BeginRayKeeps ==
  ASSUME ScanInv, NEW point \in Target, BeginRay(point)
  PROVE  ScanInv'
<1> USE DEF ScanInv, ScanTypes
<1>1. /\ phase = "rays" /\ phase' = "line" /\ target' = point
      /\ UNCHANGED <<robotPose, before, raw, candidate>>
      /\ cursor' = Start /\ err' = LineX(Start, End') + LineY(Start, End')
      /\ scan' = Append(scan, [free |-> {}, end |-> End'])
      /\ evidence' = IF IsCandidateOccupied(raw, candidate, End')
                       THEN [evidence EXCEPT ![End'] = NoEvidence] ELSE evidence
  BY DEF BeginRay, inputs, masks
<1>2. Start \in Points /\ Start' = Start
  BY <1>1, SensorCell DEF Start
<1>3. point \in Points /\ End' \in Points
  BY <1>1, ScanAssumption, CellOfPoint DEF End, Points
<1>4. PICK x \in Points : x = End'
  BY <1>3
<1>5. PICK ray \in Rays : ray = [free |-> {}, end |-> x]
  BY DEF Rays
<1>6. /\ scan' \in Seq(Rays) /\ scan' # <<>> /\ Len(scan') = Len(scan) + 1
      /\ scan'[Len(scan')] = ray /\ \A k \in 1 .. Len(scan) : scan'[k] = scan[k]
  <2>1. scan' = Append(scan, ray)
    BY <1>1, <1>4, <1>5
  <2> HIDE DEF Rays
  <2> QED BY <2>1
<1>7. ScanTypes'
  <2>1. evidence' \in [Cell -> CellEvidence]
    BY <1>1, NoEvidenceTyped
  <2>2. cursor' \in Points /\ err' \in Int
    BY <1>1, <1>2, <1>3, LineBegins
  <2> QED BY <1>1, <1>3, <1>6, <2>1, <2>2
<1>8. LineInv'
  <2>1. OnLine(Start, x, cursor', err')
    BY <1>1, <1>2, <1>4, LineBegins
  <2>2. OnLine(Start, End, cursor, err)'
    BY <1>2, <1>4, <2>1
  <2> QED BY <1>4, <1>5, <1>6, <2>2 DEF LineInv
<1>9. EndpointNotCounted'
  <2>1. ASSUME NEW k \in 1 .. Len(scan') PROVE k \in 1 .. Len(scan) \/ scan'[k] = ray
    BY <1>6, <2>1
  <2> QED BY <1>2, <1>5, <1>6, <2>1 DEF EndpointNotCounted
<1>10. Processed'
  <2>1. ASSUME NEW c \in Cell
        PROVE  ScanCell(before[c], scan', c, robotPose) =
                 IF c = x THEN NoEvidence ELSE ScanCell(before[c], scan, c, robotPose)
    BY <1>1, <1>4, RayBegun
  <2>2. ASSUME NEW c \in Cell
        PROVE  evidence'[c] = IF c = x /\ IsCandidateOccupied(raw, candidate, c)
                                THEN NoEvidence ELSE evidence[c]
    BY <1>1, <1>4
  <2> QED BY <1>1, <2>1, <2>2 DEF Processed, IsCandidateOccupied, IsOccupied
<1> QED BY <1>7, <1>8, <1>9, <1>10

LEMMA VisitCellKeeps ==
  ASSUME ScanInv, VisitCell
  PROVE  ScanInv'
<1> USE DEF ScanInv, ScanTypes
<1> DEFINE passed == PassedThrough(Sensor[robotPose], target, cursor)
           n == Len(scan)
<1>1. /\ phase = "line" /\ UNCHANGED <<robotPose, target, before, raw, candidate>>
      /\ evidence' = IF passed /\ IsCandidateOccupied(raw, candidate, cursor)
           THEN [evidence EXCEPT ![cursor] = AddEvidence(@, 1, robotPose, MinHits, MinPoses)]
           ELSE evidence
      /\ scan' = [scan EXCEPT ![n].free = @ \cup {c \in {cursor} : passed}]
      /\ phase' = IF cursor = End THEN "rays" ELSE "line"
      /\ cursor' = IF cursor = End THEN cursor ELSE NextCell(Start, End, cursor, err)
      /\ err' = IF cursor = End THEN err ELSE NextError(Start, End, err)
  BY DEF VisitCell, inputs, masks
<1>2. Start \in Points /\ Start' = Start /\ Sensor[robotPose] \in Points
  BY <1>1, SensorCell DEF Start
<1>3. End \in Points /\ End' = End
  BY <1>1, CellOfPoint DEF End
<1>4. n \in 1 .. Len(scan) /\ scan[n] \in Rays
  BY <1>1
<1>5. /\ scan' \in Seq(Rays) /\ scan' # <<>> /\ Len(scan') = n
      /\ \A k \in 1 .. n : scan'[k].end = scan[k].end
      /\ \A k \in 1 .. n : k # n => scan'[k].free = scan[k].free
      /\ scan'[n].free = scan[n].free \cup {c \in {cursor} : passed}
  <2>1. PICK free \in SUBSET Points : free = scan[n].free \cup {c \in {cursor} : passed}
    BY <1>1, <1>4 DEF Rays
  <2>2. [scan[n] EXCEPT !.free = free] \in Rays
    BY <1>4 DEF Rays
  <2>3. scan' = [scan EXCEPT ![n] = [scan[n] EXCEPT !.free = free]]
    BY <1>1, <1>4, <2>1
  <2>4. /\ scan[n].end = [scan[n] EXCEPT !.free = free].end
        /\ [scan[n] EXCEPT !.free = free].free = free
    BY <1>4 DEF Rays
  <2> HIDE DEF Rays, passed
  <2> QED BY <1>1, <1>4, <2>1, <2>2, <2>3, <2>4
<1> HIDE DEF passed, n
<1>6. OnLine(Start, End, cursor, err) /\ scan[n].end = End
      /\ \A c \in scan[n].free : Travelled(Start, c) < Travelled(Start, cursor)
  BY <1>1 DEF LineInv, n
<1>7. cursor # End =>
        /\ cursor' \in Points /\ err' \in Int /\ OnLine(Start, End, cursor', err')
        /\ Travelled(Start, cursor) < Travelled(Start, cursor')
  BY <1>1, <1>2, <1>3, <1>6, CursorGoesOn
<1>8. cursor \notin scan[n].free
  <2>1. Travelled(Start, cursor) \in Int
    BY <1>1, <1>2 DEF Travelled, Points, Abs
  <2> QED BY <1>6, <2>1
<1>9. evidence' \in [Cell -> CellEvidence]
  <2>1. CASE passed /\ IsCandidateOccupied(raw, candidate, cursor) /\ cursor \in Cell
    <3>1. AddEvidence(evidence[cursor], 1, robotPose, MinHits, MinPoses) \in CellEvidence
      BY <1>1, <2>1, AddTyped
    <3> QED BY <1>1, <2>1, <3>1
  <2>2. CASE ~(passed /\ IsCandidateOccupied(raw, candidate, cursor) /\ cursor \in Cell)
    <3>1. evidence' = evidence
      BY <1>1, <2>2
    <3> QED BY <3>1
  <2> QED BY <2>1, <2>2
<1>10. ScanTypes'
  BY <1>1, <1>5, <1>7, <1>9
<1>11. LineInv'
  <2>1. ASSUME cursor # End, NEW c \in scan'[n].free
        PROVE  Travelled(Start, c) < Travelled(Start, cursor')
    <3>1. c = cursor \/ c \in scan[n].free
      BY <1>5, <2>1
    <3>2. c \in Points
      BY <1>1, <1>4, <3>1 DEF Rays
    <3>3. \A p \in Points : Travelled(Start, p) \in Int
      BY <1>2 DEF Travelled, Points, Abs
    <3> QED BY <1>1, <1>6, <1>7, <2>1, <3>1, <3>2, <3>3
  <2> QED BY <1>1, <1>2, <1>3, <1>4, <1>5, <1>6, <1>7, <2>1 DEF LineInv, n
<1>12. EndpointNotCounted'
  <2>1. ASSUME 2 * Margin * Margin >= Scale * Scale, cursor = End, passed
        PROVE  End = Start
    BY <1>1, <1>2, <2>1, EndNotPassed DEF End, Start, passed
  <2>2. ASSUME 2 * Margin * Margin >= Scale * Scale, NEW k \in 1 .. n,
               scan'[k].end \in scan'[k].free
        PROVE  scan'[k].end = Start
    <3>1. CASE scan[k].end \in scan[k].free
      BY <1>5, <2>2, <3>1 DEF EndpointNotCounted, n
    <3>2. CASE scan[k].end \notin scan[k].free
      <4>1. k = n /\ End = cursor /\ passed
        BY <1>5, <1>6, <2>2, <3>2
      <4> QED BY <1>5, <1>6, <2>1, <2>2, <4>1
    <3> QED BY <3>1, <3>2
  <2> QED BY <1>2, <1>5, <2>2 DEF EndpointNotCounted
<1>13. Processed'
  <2>1. ASSUME NEW c \in Cell
        PROVE  /\ before[c] \in CellEvidence
               /\ ScanCell(before[c], scan', c, robotPose) =
                    IF c = cursor /\ passed
                    THEN AddEvidence(ScanCell(before[c], scan, c, robotPose), 1, robotPose,
                                     MinHits, MinPoses)
                    ELSE ScanCell(before[c], scan, c, robotPose)
    <3>1. CASE passed
      <4>1. scan' = [scan EXCEPT ![Len(scan)].free = @ \cup {cursor}]
        <5>1. {x \in {cursor} : passed} = {cursor}
          BY <3>1
        <5> QED BY <1>1, <5>1 DEF n
      <4>2. /\ before[c] \in CellEvidence /\ robotPose \in Pose /\ cursor \in Points
            /\ scan \in Seq(Rays) /\ scan # <<>> /\ cursor \notin scan[Len(scan)].free
        BY <1>1, <1>8, <2>1 DEF n
      <4> HIDE DEF ScanInv, ScanTypes
      <4>3. ScanCell(before[c], [scan EXCEPT ![Len(scan)].free = @ \cup {cursor}], c, robotPose) =
              IF c = cursor
              THEN AddEvidence(ScanCell(before[c], scan, c, robotPose), 1, robotPose,
                               MinHits, MinPoses)
              ELSE ScanCell(before[c], scan, c, robotPose)
        BY <4>2, CellPassed
      <4> QED BY <3>1, <4>1, <4>2, <4>3
    <3>2. CASE ~passed
      <4>1. scan' = scan
        <5>1. {x \in {cursor} : passed} = {}
          BY <3>2
        <5>2. scan[n].free \cup {} = scan[n].free /\ [scan[n] EXCEPT !.free = scan[n].free] = scan[n]
          BY <1>4 DEF Rays
        <5> QED BY <1>1, <1>4, <5>1, <5>2
      <4> QED BY <1>1, <3>2, <4>1
    <3> QED BY <3>1, <3>2
  <2>2. ASSUME NEW c \in Cell
        PROVE  evidence'[c] =
                 IF c = cursor /\ passed /\ IsCandidateOccupied(raw, candidate, c)
                 THEN AddEvidence(evidence[c], 1, robotPose, MinHits, MinPoses)
                 ELSE evidence[c]
    BY <1>1
  <2> QED BY <1>1, <2>1, <2>2 DEF Processed, IsCandidateOccupied, IsOccupied
<1> QED BY <1>10, <1>11, <1>12, <1>13

LEMMA EndScanKeeps ==
  ASSUME ScanInv, EndScan
  PROVE  ScanInv'
<1>1. phase' = "idle" /\ scan' = <<>> /\ evidence' = evidence
  BY DEF EndScan, NoScan, grids
<1>2. ScanTypes'
  BY <1>1 DEF ScanInv, ScanTypes
<1> QED BY <1>1, <1>2 DEF ScanInv, LineInv, EndpointNotCounted, Processed

LEMMA ScanStep == ScanInv /\ [ScanNext]_scanVars => ScanInv'
<1> SUFFICES ASSUME ScanInv, [ScanNext]_scanVars PROVE ScanInv'
  OBVIOUS
<1>1. CASE ReceiveMap
  <2>1. Idle /\ \E map \in RawMap : \E dynOk, travOk : OnRawMap(map, dynOk, travOk)
    BY <1>1 DEF ReceiveMap
  <2>2. evidence' = EmptyGrid \/ \E keep : evidence' = ResetOutside(evidence, keep)
    BY <2>1 DEF OnRawMap, NewGeometry, SameGeometry
  <2> QED BY <2>1, <2>2, HandlerKeeps
<1>2. ASSUME NEW polygon \in Polygon, ReceiveRegion(polygon) PROVE ScanInv'
  <2>1. Idle /\ \E regions, ok : OnSemanticRegions(regions, ok, {}, NoPose)
    BY <1>2 DEF ReceiveRegion
  <2>2. evidence' = evidence \/ \E keep : evidence' = ResetOutside(evidence, keep)
    BY <2>1 DEF OnSemanticRegions, RebuildMasks, grids
  <2> QED BY <2>1, <2>2, HandlerKeeps
<1>3. ASSUME NEW pose \in Pose, BeginScan(pose) PROVE ScanInv'
  BY <1>3, BeginScanKeeps
<1>4. ASSUME NEW point \in Target, BeginRay(point) PROVE ScanInv'
  BY <1>4, BeginRayKeeps
<1>5. CASE VisitCell
  BY <1>5, VisitCellKeeps
<1>6. CASE EndScan
  BY <1>6, EndScanKeeps
<1>7. CASE UNCHANGED scanVars
  BY <1>7 DEF scanVars, vars, inputs, masks, grids, line, ScanInv, ScanTypes, LineInv,
              EndpointNotCounted, Processed, Start, End
<1> QED BY <1>1, <1>2, <1>3, <1>4, <1>5, <1>6, <1>7 DEF ScanNext

(* Between any two steps of the node, the evidence is what the rays so far *)
(* have made of the evidence before the scan, and the cursor is on a line. *)
THEOREM ScanInvariant == ScanSpec => []ScanInv
BY ScanStart, ScanStep, PTL DEF ScanSpec

(* On a grid of any size, each ray visits the cells nearest to its line    *)
(* and goes on to its end, where the loop of raytraceCells stops; no ray   *)
(* counts against the cell in which it ends, with a margin of half the     *)
(* diagonal of a cell or more.                                             *)
THEOREM RaysFollowTheirLines == ScanSpec => []RayInv
<1>1. ScanInv => RayInv
  <2>1. SUFFICES ASSUME ScanInv, phase = "line" PROVE CursorOnLine
    BY DEF ScanInv, RayInv, CursorOnLine
  <2>2. Start \in Points /\ End \in Points /\ cursor \in Points /\ err \in Int
    BY <2>1, SensorCell, CellOfPoint DEF ScanInv, ScanTypes, Start, End
  <2>3. OnLine(Start, End, cursor, err)
    BY <2>1 DEF ScanInv, LineInv
  <2>4. cursor # End => StepsX(Start, End, err) \/ StepsY(Start, End, err)
    BY <2>2, <2>3, CursorGoesOn
  <2> DEFINE dx == Abs(End[1] - Start[1])
             dy == Abs(End[2] - Start[2])
  <2>5. LineX(Start, End) = dx /\ -LineY(Start, End) = dy /\ dx \in Nat /\ dy \in Nat
    BY <2>2 DEF LineX, LineY, Points, Abs
  <2> HIDE DEF dx, dy
  <2> QED BY <2>1, <2>3, <2>4, <2>5 DEF CursorOnLine, OnLine, Nearest, dx, dy
<1> QED BY <1>1, ScanInvariant, PTL

-----------------------------------------------------------------------------
(* The scan as one step.                                                   *)

LEMMA AtomicStart == ScanInit => Atomic!Init
BY DEF ScanInit, NoScan, Init, Atomic!Init, EmptyGrid, Atomic!EmptyGrid, NoEvidence,
       Atomic!NoEvidence

LEMMA AtomicMap ==
  ASSUME Idle, phase = "idle", NEW map, NEW dynOk, NEW travOk, OnRawMap(map, dynOk, travOk)
  PROVE  Atomic!OnRawMap(map, dynOk, travOk)
BY DEF Idle, OnRawMap, Atomic!OnRawMap, GeometryChanged, Atomic!GeometryChanged,
       NewGeometry, Atomic!NewGeometry, SameGeometry, Atomic!SameGeometry,
       PublishMaps, Atomic!PublishMaps, Overridden, Atomic!Overridden,
       IsCandidateOccupied, Atomic!IsCandidateOccupied, IsOccupied, Atomic!IsOccupied,
       EmptyGrid, Atomic!EmptyGrid, NoEvidence, Atomic!NoEvidence,
       ResetOutside, Atomic!ResetOutside, DynamicMask, Atomic!DynamicMask,
       TraversableMask, Atomic!TraversableMask, Footprints, Atomic!Footprints,
       UseTraversableRegion, Atomic!UseTraversableRegion, masks, Atomic!masks

LEMMA AtomicRegions ==
  ASSUME Idle, phase = "idle", NEW regions, NEW dynOk, NEW travOk,
         OnSemanticRegions(regions, dynOk, travOk, NoPose)
  PROVE  Atomic!OnSemanticRegions(regions, dynOk, travOk, NoPose)
<1>1. phase' = "idle"
  BY DEF Idle
<1>2. Atomic!EmptyGrid = EmptyGrid /\ Atomic!NoEvidence = NoEvidence
  BY DEF EmptyGrid, Atomic!EmptyGrid, NoEvidence, Atomic!NoEvidence
<1>3. \A grid, keep : Atomic!ResetOutside(grid, keep) = ResetOutside(grid, keep)
  BY <1>2 DEF ResetOutside, Atomic!ResetOutside
<1>4. /\ Atomic!KeptTraversable = KeptTraversable
      /\ Atomic!RebuildMasks(dynOk, travOk) <=> RebuildMasks(dynOk, travOk)
  BY <1>1, <1>3
  DEF KeptTraversable, Atomic!KeptTraversable, ClearedIn, Atomic!ClearedIn,
      RebuildMasks, Atomic!RebuildMasks, DynamicMask, Atomic!DynamicMask,
      TraversableMask, Atomic!TraversableMask, Footprints, Atomic!Footprints,
      UseTraversableRegion, Atomic!UseTraversableRegion, masks, Atomic!masks
<1>5. \A grid, mask :
        Atomic!ConfirmTraversable(grid, mask, NoPose) = ConfirmTraversable(grid, mask, NoPose)
  BY DEF ConfirmTraversable, Atomic!ConfirmTraversable
<1>6. Atomic!PublishMaps <=> PublishMaps
  BY <1>1 DEF PublishMaps, Atomic!PublishMaps, Overridden, Atomic!Overridden,
              IsCandidateOccupied, Atomic!IsCandidateOccupied, IsOccupied, Atomic!IsOccupied
<1> QED BY <1>1, <1>4, <1>5, <1>6
        DEF OnSemanticRegions, Atomic!OnSemanticRegions, masks, Atomic!masks, grids,
            Atomic!grids, published, Atomic!published

LEMMA SameCardinality == \A S : Atomic!Cardinality(S) = Cardinality(S)
BY DEF Atomic!Cardinality, Cardinality

LEMMA AtomicScan ==
  ASSUME ScanInv, EndScan
  PROVE  Atomic!OnScan(scan, robotPose)
<1>1. /\ phase = "rays" /\ phase' = "idle" /\ raw # NoMap /\ raw.geometry \notin Degenerate
      /\ UNCHANGED <<inputs, masks, grids>> /\ PublishMaps
      /\ evidence \in [Cell -> CellEvidence]
  BY DEF EndScan, NoScan, ScanInv, ScanTypes
<1>2. ASSUME NEW e, NEW n, NEW pose
      PROVE  Atomic!AddEvidence(e, n, pose, MinHits, MinPoses)
               = AddEvidence(e, n, pose, MinHits, MinPoses)
  <2>1. Atomic!CapHits(e.hits + n) = CapHits(e.hits + n)
    BY DEF CapHits, Atomic!CapHits
  <2>2. Atomic!IsDistinctPose(e, pose) <=> IsDistinctPose(e, pose)
    BY DEF IsDistinctPose, Atomic!IsDistinctPose
  <2>3. CASE IsDistinctPose(e, pose)
    BY <2>1, <2>2, <2>3, SameCardinality DEF AddEvidence, Atomic!AddEvidence
  <2>4. CASE ~IsDistinctPose(e, pose)
    BY <2>1, <2>2, <2>4, SameCardinality DEF AddEvidence, Atomic!AddEvidence
  <2> QED BY <2>3, <2>4
<1>3. ASSUME NEW e, NEW c
      PROVE  Atomic!ScanCell(e, scan, c, robotPose) = ScanCell(e, scan, c, robotPose)
  <2>1. Atomic!EndsOn(scan, c) <=> EndsOn(scan, c)
    BY DEF EndsOn, Atomic!EndsOn
  <2>2. Atomic!Crossings(scan, c) = Crossings(scan, c) /\ Atomic!NoEvidence = NoEvidence
    BY DEF Crossings, Atomic!Crossings, NoEvidence, Atomic!NoEvidence
  <2>3. CASE EndsOn(scan, c)
    BY <1>2, <2>1, <2>2, <2>3, SameCardinality DEF ScanCell, Atomic!ScanCell
  <2>4. CASE ~EndsOn(scan, c)
    BY <1>2, <2>1, <2>2, <2>4, SameCardinality DEF ScanCell, Atomic!ScanCell
  <2> QED BY <2>3, <2>4
<1>4. \A c : Atomic!IsCandidateOccupied(raw, candidate, c)
               <=> IsCandidateOccupied(raw, candidate, c)
  BY DEF IsCandidateOccupied, Atomic!IsCandidateOccupied, IsOccupied, Atomic!IsOccupied
<1>5. evidence' = [c \in Cell |-> IF IsCandidateOccupied(raw, candidate, c)
                                    THEN ScanCell(before[c], scan, c, robotPose) ELSE before[c]]
  <2>1. evidence' = [c \in Cell |-> evidence[c]]
    BY <1>1 DEF grids
  <2> QED BY <1>1, <2>1 DEF ScanInv, Processed
<1>6. Atomic!PublishMaps
  BY <1>1 DEF PublishMaps, Atomic!PublishMaps, Overridden, Atomic!Overridden,
              IsCandidateOccupied, Atomic!IsCandidateOccupied, IsOccupied, Atomic!IsOccupied
<1>7. UNCHANGED <<Atomic!inputs, Atomic!masks, travEvidence>>
  BY <1>1 DEF inputs, masks, grids, Atomic!inputs, Atomic!masks
<1> QED BY <1>1, <1>3, <1>4, <1>5, <1>6, <1>7 DEF Atomic!OnScan

(* A step that others see.                                                 *)
Handled ==
  \/ \E map \in RawMap : \E dynOk, travOk \in Transformed(latestRegions) :
       Atomic!OnRawMap(map, dynOk, travOk)
  \/ \E polygon \in Polygon :
       Atomic!OnSemanticRegions({RegionOf[polygon]}, {RegionOf[polygon]}, {}, NoPose)
  \/ phase = "rays" /\ Atomic!OnScan(scan, robotPose)

LEMMA StepIsHandled ==
  ASSUME ScanInv, [ScanNext]_scanVars
  PROVE  Handled \/ UNCHANGED Atomic!vars
<1>1. CASE ReceiveMap
  <2>1. PICK map \in RawMap, dynOk \in Transformed(latestRegions),
             travOk \in Transformed(latestRegions) : OnRawMap(map, dynOk, travOk)
    BY <1>1 DEF ReceiveMap
  <2>2. Atomic!OnRawMap(map, dynOk, travOk)
    BY <1>1, <2>1, AtomicMap DEF ReceiveMap, Idle
  <2> QED BY <2>2 DEF Handled
<1>2. ASSUME NEW polygon \in Polygon, ReceiveRegion(polygon) PROVE Handled
  <2>1. Atomic!OnSemanticRegions({RegionOf[polygon]}, {RegionOf[polygon]}, {}, NoPose)
    BY <1>2, AtomicRegions DEF ReceiveRegion, Idle
  <2> QED BY <2>1 DEF Handled
<1>3. CASE EndScan
  BY <1>3, AtomicScan DEF EndScan, Handled
<1>4. CASE (\E pose \in Pose : BeginScan(pose)) \/ (\E point \in Target : BeginRay(point))
             \/ VisitCell \/ UNCHANGED scanVars
  <2>1. /\ UNCHANGED <<inputs, masks, travEvidence, published>>
        /\ UNCHANGED (IF phase = "idle" THEN evidence ELSE before)
    BY <1>4 DEF BeginScan, BeginRay, VisitCell, scanVars, vars, inputs, masks, grids, published
  <2> QED BY <2>1 DEF Atomic!vars, Atomic!inputs, Atomic!masks, Atomic!grids,
                      Atomic!published, inputs, masks, published
<1> QED BY <1>1, <1>2, <1>3, <1>4 DEF ScanNext

(* The ray by ray processing of a scan is the one step that the updater    *)
(* takes for it, and between its rays nobody sees a change.                *)
THEOREM ScansAreAtomic == ScanSpec => ScanIsAtomic
<1>1. ScanInv /\ [ScanNext]_scanVars => [Handled]_(Atomic!vars)
  BY StepIsHandled
<1>2. ScanInit => Atomic!Init
  BY AtomicStart
<1> QED BY <1>1, <1>2, ScanInvariant, PTL DEF ScanSpec, ScanIsAtomic, Handled

(* The rays of a scan are rays on the grid, not more than a scan has.      *)
RaysOnGrid ==
  phase # "idle" =>
    /\ scan \in Seq(RayMessage) /\ Len(scan) <= MaxRays
    /\ Start \in GridCell
    /\ phase = "line" => End \in GridCell

(* The cells between two cells of the grid are on it.                      *)
LEMMA LineOnGrid ==
  ASSUME NEW s \in GridCell, NEW e \in GridCell, NEW c \in Points, NEW error,
         OnLine(s, e, c, error)
  PROVE  c \in GridCell
<1>1. ASSUME NEW a \in Int, NEW b \in Int, NEW k \in Int, NEW last \in Int,
             a \in 0 .. last, b \in 0 .. last, Abs(k - a) + Abs(b - k) = Abs(b - a)
      PROVE  k \in 0 .. last
  BY <1>1 DEF Abs
<1>2. Width - 1 \in Int /\ Height - 1 \in Int
  BY GridAssumption
<1>3. c[1] \in 0 .. Width - 1 /\ c[2] \in 0 .. Height - 1
  <2>1. /\ s[1] \in 0 .. Width - 1 /\ e[1] \in 0 .. Width - 1 /\ c[1] \in Int
        /\ s[2] \in 0 .. Height - 1 /\ e[2] \in 0 .. Height - 1 /\ c[2] \in Int
    BY DEF GridCell, Points
  <2>2. /\ s[1] \in Int /\ e[1] \in Int /\ s[2] \in Int /\ e[2] \in Int
    BY <1>2, <2>1
  <2>3. /\ Abs(c[1] - s[1]) + Abs(e[1] - c[1]) = Abs(e[1] - s[1])
        /\ Abs(c[2] - s[2]) + Abs(e[2] - c[2]) = Abs(e[2] - s[2])
    BY DEF OnLine
  <2>4. c[1] \in 0 .. Width - 1
    <3>1. PICK a \in Int, b \in Int, k \in Int, last \in Int :
            a = s[1] /\ b = e[1] /\ k = c[1] /\ last = Width - 1
      BY <1>2, <2>1, <2>2
    <3>2. a \in 0 .. last /\ b \in 0 .. last /\ Abs(k - a) + Abs(b - k) = Abs(b - a)
      BY <2>1, <2>3, <3>1, Zenon
    <3>3. k \in 0 .. last
      BY <1>1, <3>2
    <3> QED BY <3>1, <3>3, Zenon
  <2>5. c[2] \in 0 .. Height - 1
    <3>1. PICK a \in Int, b \in Int, k \in Int, last \in Int :
            a = s[2] /\ b = e[2] /\ k = c[2] /\ last = Height - 1
      BY <1>2, <2>1, <2>2
    <3>2. a \in 0 .. last /\ b \in 0 .. last /\ Abs(k - a) + Abs(b - k) = Abs(b - a)
      BY <2>1, <2>3, <3>1, Zenon
    <3>3. k \in 0 .. last
      BY <1>1, <3>2
    <3> QED BY <3>1, <3>3, Zenon
  <2> QED BY <2>4, <2>5
<1> QED BY <1>3 DEF GridCell, Points

LEMMA RaysOnGridStep ==
  ASSUME ScanInv, RaysOnGrid, [ScanNext]_scanVars
  PROVE  RaysOnGrid'
<1>1. CASE phase' = "idle"
  BY <1>1 DEF RaysOnGrid
<1>2. CASE UNCHANGED <<phase, robotPose, target, scan>>
  BY <1>2 DEF RaysOnGrid, Start, End
<1>3. ASSUME NEW pose \in Pose, BeginScan(pose) PROVE RaysOnGrid'
  <2>1. phase' = "rays" /\ scan' = <<>> /\ Start' \in GridCell
    BY <1>3 DEF BeginScan, OnGrid, Start
  <2> QED BY <2>1, CountAssumption DEF RaysOnGrid
<1>4. ASSUME NEW point \in Target, BeginRay(point) PROVE RaysOnGrid'
  <2>1. /\ phase = "rays" /\ Len(scan) < MaxRays /\ robotPose' = robotPose
        /\ End' \in GridCell /\ scan' = Append(scan, [free |-> {}, end |-> End'])
    BY <1>4 DEF BeginRay, OnGrid, End
  <2>2. PICK ray \in RayMessage : ray = [free |-> {}, end |-> End']
    BY <2>1, ScanAssumption DEF RayMessage
  <2>3. scan \in Seq(RayMessage) /\ scan' = Append(scan, ray)
    BY <2>1, <2>2 DEF RaysOnGrid
  <2>4. scan' \in Seq(RayMessage) /\ Len(scan') <= MaxRays
    BY <2>1, <2>3, CountAssumption
  <2> QED BY <2>1, <2>4 DEF RaysOnGrid, Start
<1>5. CASE VisitCell
  <2>1. /\ phase = "line" /\ UNCHANGED <<robotPose, target>>
        /\ \E free \in SUBSET {cursor} :
             scan' = [scan EXCEPT ![Len(scan)].free = @ \cup free]
    BY <1>5 DEF VisitCell
  <2>2. cursor \in Cell
    <3>1. Start \in GridCell /\ End \in GridCell /\ cursor \in Points
      BY <2>1 DEF RaysOnGrid, ScanInv, ScanTypes
    <3>2. OnLine(Start, End, cursor, err)
      BY <2>1 DEF ScanInv, LineInv
    <3> QED BY <3>1, <3>2, LineOnGrid, ScanAssumption
  <2>3. scan \in Seq(RayMessage) /\ scan # <<>>
    BY <2>1 DEF RaysOnGrid, ScanInv, ScanTypes
  <2>4. PICK n \in 1 .. Len(scan) : n = Len(scan)
    BY <2>3
  <2>5. PICK free \in SUBSET Cell : scan' = [scan EXCEPT ![n].free = @ \cup free]
    BY <2>1, <2>2, <2>4
  <2>6. scan[n] \in RayMessage
    BY <2>3
  <2>7. PICK ray \in RayMessage : ray = [scan[n] EXCEPT !.free = @ \cup free]
    BY <2>6 DEF RayMessage
  <2>8. scan' = [scan EXCEPT ![n] = ray]
    BY <2>5, <2>7
  <2>9. scan' \in Seq(RayMessage) /\ Len(scan') = Len(scan)
    <3> HIDE DEF RayMessage
    <3> QED BY <2>3, <2>8
  <2> QED BY <2>1, <2>9 DEF RaysOnGrid, Start, End
<1> QED BY <1>1, <1>2, <1>3, <1>4, <1>5
        DEF ScanNext, ReceiveMap, ReceiveRegion, Idle, EndScan, NoScan, scanVars, line

(* What others see is the map published last.                              *)
Shown ==
  raw # NoMap =>
    /\ clearedCells = Atomic!Overridden(raw, candidate,
                          IF phase = "idle" THEN evidence ELSE before, travEvidence)
    /\ cleaned = [c \in Cell |-> IF c \in clearedCells THEN 0 ELSE raw.data[c]]

LEMMA ShownStep ==
  ASSUME Shown, Handled \/ UNCHANGED Atomic!vars
  PROVE  Shown'
<1>1. CASE UNCHANGED Atomic!vars
  <2>1. /\ UNCHANGED <<raw, candidate, travEvidence, cleaned, clearedCells>>
        /\ UNCHANGED (IF phase = "idle" THEN evidence ELSE before)
    BY <1>1 DEF Atomic!vars, Atomic!inputs, Atomic!masks, Atomic!grids, Atomic!published
  <2> QED BY <2>1 DEF Shown, Atomic!Overridden, Atomic!IsCandidateOccupied, Atomic!IsOccupied
<1>2. CASE Atomic!PublishMaps
  BY <1>2 DEF Shown, Atomic!PublishMaps, Atomic!Overridden, Atomic!IsCandidateOccupied,
              Atomic!IsOccupied
<1>3. CASE raw' = NoMap
  BY <1>3 DEF Shown
<1> QED BY <1>1, <1>2, <1>3
        DEF Handled, Atomic!OnRawMap, Atomic!OnSemanticRegions, Atomic!OnScan

(* A scan of which no ray is usable changes nothing.                       *)
LEMMA EmptyScanStutters ==
  ASSUME ScanInv, Shown, phase = "rays", scan = <<>>, Atomic!OnScan(scan, robotPose)
  PROVE  UNCHANGED Atomic!vars
<1> DEFINE seen == IF phase = "idle" THEN evidence ELSE before
<1>1. seen = before /\ before \in [Cell -> CellEvidence]
  BY DEF ScanInv, ScanTypes
<1>2. ASSUME NEW e, NEW c PROVE Atomic!ScanCell(e, <<>>, c, robotPose) = e
  <2>1. Atomic!Crossings(<<>>, c) = {} /\ ~Atomic!EndsOn(<<>>, c)
    BY DEF Atomic!Crossings, Atomic!EndsOn
  <2>2. Atomic!Cardinality({}) = 0
    BY SameCardinality, FS_EmptySet
  <2> QED BY <2>1, <2>2 DEF Atomic!ScanCell
<1>3. seen' = seen
  <2>1. seen' = [c \in Cell |->
                   IF Atomic!IsCandidateOccupied(raw, candidate, c)
                     THEN Atomic!ScanCell(before[c], <<>>, c, robotPose) ELSE before[c]]
    BY <1>1 DEF Atomic!OnScan
  <2>2. seen' = [c \in Cell |-> before[c]]
    BY <1>2, <2>1
  <2> QED BY <1>1, <2>2
<1>4. /\ UNCHANGED <<raw, latestRegions, candidate, travCandidate, travEvidence>>
      /\ raw # NoMap /\ Atomic!PublishMaps
  BY DEF Atomic!OnScan, Atomic!inputs, Atomic!masks
<1>5. clearedCells' = clearedCells /\ cleaned' = cleaned
  BY <1>3, <1>4 DEF Shown, Atomic!PublishMaps, Atomic!Overridden, Atomic!IsCandidateOccupied,
                   Atomic!IsOccupied
<1> QED BY <1>3, <1>4, <1>5
        DEF Atomic!vars, Atomic!inputs, Atomic!masks, Atomic!grids, Atomic!published

(* The regions of the polygons are dynamic and nothing else: whether their *)
(* frame is known makes no difference to the other mask.                   *)
LEMMA HandledIsNext ==
  ASSUME ScanInv, RaysOnGrid, Shown, RayMessage \subseteq Ray, Handled
  PROVE  Atomic!Next \/ UNCHANGED Atomic!vars
<1>1. \A regions : Atomic!Transformed(regions) = Transformed(regions)
  BY DEF Transformed, Atomic!Transformed
<1>2. CASE \E map \in RawMap : \E dynOk, travOk \in Transformed(latestRegions) :
             Atomic!OnRawMap(map, dynOk, travOk)
  BY <1>1, <1>2 DEF Atomic!Next
<1>3. ASSUME NEW polygon \in Polygon,
             Atomic!OnSemanticRegions({RegionOf[polygon]}, {RegionOf[polygon]}, {}, NoPose)
      PROVE  Atomic!Next
  <2>1. PICK r \in Region : r = RegionOf[polygon] /\ r.traversable = FALSE
    BY RegionAssumption DEF RegionOf
  <2>2. \A g : Atomic!TraversableMask({r}, g) = Atomic!TraversableMask({}, g)
    <3>1. {q \in {r} : Atomic!UseTraversableRegion(q)} = {q \in {} : Atomic!UseTraversableRegion(q)}
      BY <2>1 DEF Atomic!UseTraversableRegion
    <3> QED BY <3>1 DEF Atomic!TraversableMask
  <2>3. Atomic!RebuildMasks({r}, {}) <=> Atomic!RebuildMasks({r}, {r})
    BY <2>2 DEF Atomic!RebuildMasks
  <2>4. Atomic!OnSemanticRegions({r}, {r}, {r}, NoPose)
    BY <1>3, <2>1, <2>3 DEF Atomic!OnSemanticRegions
  <2>5. {r} \in SUBSET Region /\ {r} \in Transformed({r})
    BY <2>1, MessageAssumption DEF Transformed
  <2> QED BY <1>1, <2>4, <2>5 DEF Atomic!Next
<1>4. CASE phase = "rays" /\ Atomic!OnScan(scan, robotPose)
  <2>1. CASE scan = <<>>
    BY <1>4, <2>1, EmptyScanStutters
  <2>2. CASE scan # <<>>
    <3>1. scan \in Seq(Ray) /\ Len(scan) <= MaxRays
      BY <1>4 DEF RaysOnGrid
    <3>2. Len(scan) \in 1 .. MaxRays /\ scan \in [1 .. Len(scan) -> Ray]
      BY <2>2, <3>1, CountAssumption
    <3>3. scan \in Atomic!Scans
      BY <3>2 DEF Atomic!Scans
    <3>4. robotPose \in Pose
      BY <1>4 DEF ScanInv, ScanTypes
    <3> QED BY <1>4, <3>3, <3>4 DEF Atomic!Next
  <2> QED BY <2>1, <2>2
<1> QED BY <1>2, <1>3, <1>4 DEF Handled

(* With every ray among those that DynamicMapUpdater allows, the node with *)
(* its geometry implements it: so what is proved of DynamicMapUpdater      *)
(* holds of the node that fills polygons and follows rays.                 *)
THEOREM ScanImplementsUpdater ==
  ASSUME RayMessage \subseteq Ray
  PROVE  ScanSpec => Atomic!Spec
<1> DEFINE Inv == ScanInv /\ RaysOnGrid /\ Shown
<1>1. ScanInit => Atomic!Init /\ RaysOnGrid /\ Shown
  <2>1. ScanInit => phase = "idle" /\ raw = NoMap
    BY DEF ScanInit, NoScan, Init
  <2> QED BY <2>1, AtomicStart DEF RaysOnGrid, Shown
<1>2. ScanInv /\ RaysOnGrid /\ [ScanNext]_scanVars => RaysOnGrid'
  BY RaysOnGridStep
<1>3. ScanInv /\ Shown /\ [ScanNext]_scanVars => Shown'
  BY StepIsHandled, ShownStep
<1>4. ScanInv /\ RaysOnGrid /\ Shown /\ [ScanNext]_scanVars => [Atomic!Next]_(Atomic!vars)
  BY StepIsHandled, HandledIsNext
<1> QED BY <1>1, <1>2, <1>3, <1>4, ScanInvariant, PTL DEF ScanSpec, Atomic!Spec

-----------------------------------------------------------------------------
(* Convex polygons.  Vertices are taken relative to a point: Turn is twice *)
(* the signed area of the triangle that two of them make with the point,   *)
(* and Area that of three of them.                                         *)

Turn(x, y, i, j) == x[i] * y[j] - y[i] * x[j]

Area(x, y, i, j, k) == Turn(x, y, i, j) + Turn(x, y, j, k) + Turn(x, y, k, i)

Before(i, n) == IF i = 1 THEN n ELSE i - 1

(* How far the edge c, d crosses the row of the point beyond the line      *)
(* through a and b.                                                        *)
Gap(x, y, a, b, c, d) ==
  (y[d] - y[c]) * Turn(x, y, a, b) - (y[b] - y[a]) * Turn(x, y, c, d)

(* All vertices lie on one side of the line through a and b, none but      *)
(* these two on it.                                                        *)
Beside(x, y, V, a, b, t) ==
  \A k \in V : IF k \in {a, b} THEN Area(x, y, a, b, k) = 0 ELSE t * Area(x, y, a, b, k) > 0

(* The vertices around a polygon that is convex and turns one way; prev is *)
(* the vertex before each.                                                 *)
Around(x, y, V, prev, o) ==
  /\ \A i, j \in V : prev[i] = prev[j] => i = j
  /\ \A i \in V : Beside(x, y, V, prev[i], i, o)

(* The edges right of the point that the row of the point crosses.         *)
Crossed(x, y, V, prev) ==
  {i \in V : \/ y[prev[i]] <= 0 /\ y[i] > 0 /\ Turn(x, y, prev[i], i) > 0
             \/ y[prev[i]] > 0 /\ y[i] <= 0 /\ Turn(x, y, i, prev[i]) > 0}

LEMMA SignOfProduct ==
  ASSUME NEW v \in Int, NEW w \in Int
  PROVE  /\ v > 0 /\ w > 0 => v * w > 0
         /\ v >= 0 /\ w >= 0 => v * w >= 0
         /\ v <= 0 /\ w <= 0 => v * w >= 0
         /\ v >= 0 /\ w <= 0 => v * w <= 0
         /\ v <= 0 /\ w >= 0 => v * w <= 0
         /\ v < 0 /\ w > 0 => v * w < 0
         /\ v * w = 0 => v = 0 \/ w = 0
OBVIOUS

(* Where the edge c, d crosses the row of the point, in terms of the line  *)
(* through a and b.                                                        *)
LEMMA CrossingSide ==
  ASSUME NEW ax \in Int, NEW ay \in Int, NEW bx \in Int, NEW by \in Int,
         NEW cx \in Int, NEW cy \in Int, NEW dx \in Int, NEW dy \in Int
  PROVE  (dy - cy) * (ax * by - ay * bx) - (by - ay) * (cx * dy - cy * dx)
           = dy * ((ax * by - ay * bx) + (bx * cy - by * cx) + (cx * ay - cy * ax))
             - cy * ((ax * by - ay * bx) + (bx * dy - by * dx) + (dx * ay - dy * ax))
OBVIOUS

(* The same of the vertices of a polygon.                                   *)
LEMMA TurnTypes ==
  ASSUME NEW V, NEW x \in [V -> Int], NEW y \in [V -> Int]
  PROVE  /\ \A i, j \in V : Turn(x, y, i, j) \in Int /\ Turn(x, y, i, j) = -Turn(x, y, j, i)
         /\ \A i, j, k \in V : Area(x, y, i, j, k) \in Int
<1>1. ASSUME NEW i \in V, NEW j \in V
      PROVE  Turn(x, y, i, j) \in Int /\ Turn(x, y, i, j) = -Turn(x, y, j, i)
  <2>1. PICK a \in Int, b \in Int, c \in Int, d \in Int :
          a = x[i] /\ b = y[i] /\ c = x[j] /\ d = y[j]
    OBVIOUS
  <2>2. a * d - b * c = -(c * b - d * a) /\ a * d - b * c \in Int
    OBVIOUS
  <2>3. Turn(x, y, i, j) = a * d - b * c /\ Turn(x, y, j, i) = c * b - d * a
    BY <2>1, Zenon DEF Turn
  <2> QED BY <2>2, <2>3
<1>2. ASSUME NEW i \in V, NEW j \in V, NEW k \in V
      PROVE  Area(x, y, i, j, k) \in Int
  <2>1. PICK a \in Int, b \in Int, c \in Int :
          a = Turn(x, y, i, j) /\ b = Turn(x, y, j, k) /\ c = Turn(x, y, k, i)
    BY <1>1
  <2> QED BY <2>1 DEF Area
<1> QED BY <1>1, <1>2

LEMMA GapOf ==
  ASSUME NEW V, NEW x \in [V -> Int], NEW y \in [V -> Int],
         NEW a \in V, NEW b \in V, NEW c \in V, NEW d \in V
  PROVE  /\ Gap(x, y, a, b, c, d) \in Int
         /\ Gap(x, y, c, d, a, b) = -Gap(x, y, a, b, c, d)
         /\ Gap(x, y, a, b, c, d)
              = y[d] * Area(x, y, a, b, c) - y[c] * Area(x, y, a, b, d)
<1>1. PICK ax \in Int, bx \in Int, cx \in Int, dx \in Int :
        ax = x[a] /\ bx = x[b] /\ cx = x[c] /\ dx = x[d]
  OBVIOUS
<1>2. PICK ay \in Int, by \in Int, cy \in Int, dy \in Int :
        ay = y[a] /\ by = y[b] /\ cy = y[c] /\ dy = y[d]
  OBVIOUS
<1>3. (dy - cy) * (ax * by - ay * bx) - (by - ay) * (cx * dy - cy * dx)
        = dy * ((ax * by - ay * bx) + (bx * cy - by * cx) + (cx * ay - cy * ax))
          - cy * ((ax * by - ay * bx) + (bx * dy - by * dx) + (dx * ay - dy * ax))
  BY CrossingSide
<1>4. PICK ab \in Int, cd \in Int : ab = Turn(x, y, a, b) /\ cd = Turn(x, y, c, d)
  BY TurnTypes
<1>5. (by - ay) * cd - (dy - cy) * ab = -((dy - cy) * ab - (by - ay) * cd)
      /\ (dy - cy) * ab - (by - ay) * cd \in Int
  OBVIOUS
<1>6. /\ Gap(x, y, a, b, c, d) = (dy - cy) * ab - (by - ay) * cd
      /\ Gap(x, y, c, d, a, b) = (by - ay) * cd - (dy - cy) * ab
  BY <1>2, <1>4, Zenon DEF Gap
<1>7. Gap(x, y, a, b, c, d) = y[d] * Area(x, y, a, b, c) - y[c] * Area(x, y, a, b, d)
  BY <1>1, <1>2, <1>3, Zenon DEF Turn, Area, Gap
<1> QED BY <1>5, <1>6, <1>7

(* An edge c, d that crosses the row of the point, beside the line through *)
(* a and b: the crossing is on the side of the polygon, and on the line    *)
(* only if c is.                                                           *)
LEMMA WeightedSide ==
  ASSUME NEW t \in Int, t = 1 \/ t = -1, NEW u \in Int, NEW v \in Int,
         NEW low \in Int, NEW high \in Int,
         low <= 0, high > 0, t * u >= 0, t * v >= 0
  PROVE  t * (high * u - low * v) >= 0 /\ (high * u - low * v = 0 => u = 0)
<1>1. CASE t = 1
  <2>1. u >= 0 /\ v >= 0
    BY <1>1
  <2>2. high * u >= 0 /\ low * v <= 0 /\ (u > 0 => high * u > 0)
    BY <2>1, SignOfProduct
  <2>3. high * u \in Int /\ low * v \in Int
    OBVIOUS
  <2> QED BY <1>1, <2>1, <2>2, <2>3
<1>2. CASE t = -1
  <2>1. u <= 0 /\ v <= 0
    BY <1>2
  <2>2. high * u <= 0 /\ low * v >= 0 /\ (u < 0 => u * high < 0) /\ u * high = high * u
    BY <2>1, SignOfProduct
  <2>3. high * u \in Int /\ low * v \in Int
    OBVIOUS
  <2> QED BY <1>2, <2>1, <2>2, <2>3
<1> QED BY <1>1, <1>2

LEMMA CrossesBeside ==
  ASSUME NEW V, NEW x \in [V -> Int], NEW y \in [V -> Int], NEW t \in Int, t = 1 \/ t = -1,
         NEW a \in V, NEW b \in V, NEW c \in V, NEW d \in V,
         Beside(x, y, V, a, b, t), y[c] <= 0, y[d] > 0
  PROVE  t * Gap(x, y, a, b, c, d) >= 0 /\ (Gap(x, y, a, b, c, d) = 0 => c \in {a, b})
<1>1. PICK low \in Int, high \in Int : low = y[c] /\ high = y[d]
  OBVIOUS
<1>2. PICK u \in Int : u = Area(x, y, a, b, c)
  BY TurnTypes
<1>3. PICK v \in Int : v = Area(x, y, a, b, d)
  BY TurnTypes
<1>4. t * u >= 0 /\ t * v >= 0 /\ (u = 0 => c \in {a, b})
  BY <1>2, <1>3 DEF Beside
<1>5. t * (high * u - low * v) >= 0 /\ (high * u - low * v = 0 => u = 0)
  BY <1>1, <1>4, WeightedSide
<1>6. Gap(x, y, a, b, c, d) = high * u - low * v
  BY <1>1, <1>2, <1>3, GapOf
<1> QED BY <1>4, <1>5, <1>6

(* At most one edge with the polygon on a given side crosses the row.      *)
LEMMA OneCrossing ==
  ASSUME NEW V, NEW x \in [V -> Int], NEW y \in [V -> Int], NEW t \in Int, t = 1 \/ t = -1,
         NEW a \in V, NEW b \in V, NEW c \in V, NEW d \in V,
         Beside(x, y, V, a, b, t), Beside(x, y, V, c, d, t),
         y[a] <= 0, y[b] > 0, y[c] <= 0, y[d] > 0
  PROVE  a = c
<1>1. PICK g \in Int : g = Gap(x, y, a, b, c, d)
  BY GapOf
<1>2. Gap(x, y, c, d, a, b) = -g
  BY <1>1, GapOf
<1>3. t * g >= 0 /\ (g = 0 => c \in {a, b})
  BY <1>1, CrossesBeside
<1>4. t * (-g) >= 0
  BY <1>2, CrossesBeside
<1>5. g = 0
  BY <1>3, <1>4
<1>6. c # b
  OBVIOUS
<1> QED BY <1>3, <1>5, <1>6

LEMMA WeightedTurn ==
  ASSUME NEW u \in Int, NEW v \in Int, NEW h \in Int, NEW i \in Int,
         h > 0, i > 0, v > 0, h * u - i * v >= 0
  PROVE  u > 0
<1>1. i * v > 0 /\ (u <= 0 => h * u <= 0)
  BY SignOfProduct
<1>2. h * u \in Int /\ i * v \in Int
  OBVIOUS
<1> QED BY <1>1, <1>2

(* The row enters the polygon at the edge with the polygon on its right:   *)
(* a point left of that edge is left of the other one too.                 *)
LEMMA LeftOfBoth ==
  ASSUME NEW V, NEW x \in [V -> Int], NEW y \in [V -> Int],
         NEW a \in V, NEW b \in V, NEW c \in V, NEW d \in V,
         Beside(x, y, V, a, b, 1),
         y[a] <= 0, y[b] > 0, y[c] <= 0, y[d] > 0, Turn(x, y, c, d) > 0
  PROVE  Turn(x, y, a, b) > 0
<1>1. PICK ay \in Int, by \in Int, cy \in Int, dy \in Int :
        ay = y[a] /\ by = y[b] /\ cy = y[c] /\ dy = y[d]
  OBVIOUS
<1>2. PICK ab \in Int, cd \in Int : ab = Turn(x, y, a, b) /\ cd = Turn(x, y, c, d)
  BY TurnTypes
<1>3. Gap(x, y, a, b, c, d) = (dy - cy) * ab - (by - ay) * cd
  BY <1>1, <1>2, Zenon DEF Gap
<1>4. 1 * Gap(x, y, a, b, c, d) >= 0
  BY CrossesBeside
<1>5. (dy - cy) * ab - (by - ay) * cd >= 0
  BY <1>3, <1>4
<1>6. dy - cy > 0 /\ by - ay > 0 /\ cd > 0
  BY <1>1, <1>2
<1>7. ab > 0
  BY <1>5, <1>6, WeightedTurn
<1> QED BY <1>2, <1>7

LEMMA WeightedSides ==
  ASSUME NEW t \in Int, t = 1 \/ t = -1, NEW side \in Int, NEW right \in Int, NEW left \in Int,
         NEW h \in Int, NEW i \in Int, NEW rise \in Int, h > 0, i > 0, right > 0, left <= 0,
         t * (h * side - rise * right) >= 0, t * (i * side - rise * left) >= 0
  PROVE  t * side >= 0
<1>1. PICK l \in Nat : l = -left
  OBVIOUS
<1>2. PICK r \in Int, s \in Int :
        r = t * (h * side - rise * right) /\ s = t * (i * side - rise * left)
  OBVIOUS
<1>3. l * r >= 0 /\ right * s >= 0
  BY <1>1, <1>2, SignOfProduct
<1>4. l * r + right * s = (h * l + i * right) * (t * side)
  <2>1. s = t * (i * side + rise * l)
    BY <1>1, <1>2
  <2> QED BY <1>2, <2>1
<1>5. h * l >= 0 /\ i * right > 0
  BY <1>1, SignOfProduct
<1>6. PICK w \in Int : w = h * l + i * right
  OBVIOUS
<1>7. PICK z \in Int : z = t * side
  OBVIOUS
<1>8. w > 0
  BY <1>5, <1>6
<1>9. w * z >= 0
  BY <1>3, <1>4, <1>6, <1>7
<1>10. z < 0 => z * w < 0
  BY <1>8, SignOfProduct
<1> QED BY <1>7, <1>9, <1>10

(* A point between the two crossings of its row lies beyond no edge.       *)
LEMMA BetweenCrossings ==
  ASSUME NEW V, NEW x \in [V -> Int], NEW y \in [V -> Int], NEW t \in Int, t = 1 \/ t = -1,
         NEW a \in V, NEW b \in V, Beside(x, y, V, a, b, t),
         NEW c \in V, NEW d \in V, NEW e \in V, NEW f \in V,
         y[c] <= 0, y[d] > 0, y[e] <= 0, y[f] > 0,
         Turn(x, y, c, d) > 0, Turn(x, y, e, f) <= 0
  PROVE  t * Turn(x, y, a, b) >= 0
<1>1. PICK side \in Int, right \in Int, left \in Int :
        side = Turn(x, y, a, b) /\ right = Turn(x, y, c, d) /\ left = Turn(x, y, e, f)
  BY TurnTypes
<1>2. PICK ay \in Int, by \in Int, cy \in Int, dy \in Int, ey \in Int, fy \in Int :
        ay = y[a] /\ by = y[b] /\ cy = y[c] /\ dy = y[d] /\ ey = y[e] /\ fy = y[f]
  OBVIOUS
<1>3. /\ Gap(x, y, a, b, c, d) = (dy - cy) * side - (by - ay) * right
      /\ Gap(x, y, a, b, e, f) = (fy - ey) * side - (by - ay) * left
  BY <1>1, <1>2, Zenon DEF Gap
<1>4. t * Gap(x, y, a, b, c, d) >= 0 /\ t * Gap(x, y, a, b, e, f) >= 0
  BY CrossesBeside
<1>5. dy - cy > 0 /\ fy - ey > 0 /\ dy - cy \in Int /\ fy - ey \in Int /\ by - ay \in Int
  BY <1>2
<1>6. t * side >= 0
  BY <1>1, <1>3, <1>4, <1>5, WeightedSides
<1> QED BY <1>1, <1>6

-----------------------------------------------------------------------------
(* Around the polygon.                                                     *)

(* Every vertex has another one before it and another one after it.        *)
LEMMA BeforeFacts ==
  ASSUME NEW n \in Nat, n >= 3, NEW i \in 1 .. n
  PROVE  /\ Before(i, n) \in 1 .. n /\ Before(i, n) # i
         /\ \A j \in 1 .. n : Before(j, n) = Before(i, n) => j = i
         /\ \E j \in 1 .. n : Before(j, n) = i /\ j # i /\ j # Before(i, n)
<1>1. /\ Before(i, n) \in 1 .. n /\ Before(i, n) # i
      /\ \A j \in 1 .. n : Before(j, n) = Before(i, n) => j = i
  BY DEF Before
<1>2. CASE i = n
  <2>1. 1 \in 1 .. n /\ Before(1, n) = i /\ 1 # i /\ 1 # Before(i, n)
    BY <1>2 DEF Before
  <2> QED BY <1>1, <2>1
<1>3. CASE i # n
  <2>1. i + 1 \in 1 .. n /\ Before(i + 1, n) = i /\ i + 1 # i /\ i + 1 # Before(i, n)
    BY <1>3 DEF Before
  <2> QED BY <1>1, <2>1
<1> QED BY <1>2, <1>3

(* Going round, one enters every set of vertices that is not all of them.  *)
LEMMA Entered ==
  ASSUME NEW n \in Nat, NEW A, A \subseteq 1 .. n, A # {}, A # 1 .. n
  PROVE  \E i \in A : Before(i, n) \notin A
<1>1. PICK j \in 1 .. n : j \notin A
  OBVIOUS
<1>2. CASE \E k \in A : k > j
  <2> DEFINE Beyond == {k \in A : k > j}
  <2>1. PICK i \in Beyond : \A k \in Beyond : i <= k
    <3>1. Beyond \subseteq Nat
      <4>1. A \subseteq Nat
        OBVIOUS
      <4> QED BY <4>1
    <3>2. Beyond # {}
      BY <1>2
    <3> HIDE DEF Beyond
    <3> QED BY <3>1, <3>2, SmallestOf
  <2>2. i \in A /\ i > j /\ Before(i, n) = i - 1
    BY <1>1, <2>1 DEF Before
  <2>3. i - 1 \notin A
    BY <1>1, <2>1, <2>2
  <2> QED BY <2>2, <2>3
<1>3. CASE ~\E k \in A : k > j
  <2>1. n \notin A
    BY <1>1, <1>3
  <2>2. CASE 1 \in A
    BY <2>1, <2>2 DEF Before
  <2>3. CASE 1 \notin A
    <3>1. PICK i \in A : \A k \in A : i <= k
      <4>1. A \subseteq Nat
        OBVIOUS
      <4> QED BY <4>1, SmallestOf
    <3>2. Before(i, n) = i - 1 /\ i - 1 \notin A
      BY <2>3, <3>1 DEF Before
    <3> QED BY <3>2
  <2> QED BY <2>2, <2>3
<1> QED BY <1>2, <1>3

(* One of finitely many numbers is the least.                              *)
LEMMA LowestOf ==
  ASSUME NEW n \in Nat, n > 0, NEW y \in [1 .. n -> Int]
  PROVE  \E m \in 1 .. n : \A k \in 1 .. n : y[m] <= y[k]
<1> DEFINE Lowest(m, h) == m \in 1 .. h /\ \A k \in 1 .. h : y[m] <= y[k]
           Without == {h \in 1 .. n : \A m \in 1 .. n : ~Lowest(m, h)}
<1>1. SUFFICES ASSUME Without # {} PROVE FALSE
  BY n \in 1 .. n
<1>2. PICK h \in Without : \A k \in Without : h <= k
  <2>1. Without \subseteq Nat
    OBVIOUS
  <2> QED BY <1>1, <2>1, SmallestOf
<1>3. h # 1
  <2>1. 1 \in 1 .. n /\ y[1] \in Int
    OBVIOUS
  <2>2. Lowest(1, 1)
    BY <2>1
  <2> QED BY <1>2, <2>1, <2>2
<1>4. h - 1 \in 1 .. n /\ h - 1 \notin Without
  <2>1. h \in 1 .. n
    BY <1>2
  <2>2. h - 1 \in 1 .. n /\ ~(h <= h - 1)
    BY <1>3, <2>1
  <2> HIDE DEF Without
  <2> QED BY <1>2, <2>2
<1>5. PICK m \in 1 .. n : Lowest(m, h - 1)
  BY <1>4
<1>6. y[m] \in Int /\ y[h] \in Int /\ \A k \in 1 .. n : y[k] \in Int
  BY <1>2
<1>7. \A k \in 1 .. h : k = h \/ k \in 1 .. h - 1
  BY <1>2
<1>8. CASE y[m] <= y[h]
  <2>1. Lowest(m, h)
    BY <1>2, <1>5, <1>7, <1>8
  <2> QED BY <1>2, <2>1
<1>9. CASE y[h] < y[m]
  <2>1. ASSUME NEW k \in 1 .. h PROVE y[h] <= y[k]
    <3>1. k \in 1 .. n /\ y[k] \in Int
      BY <1>2
    <3> QED BY <1>5, <1>6, <1>7, <1>9, <3>1
  <2>2. Lowest(h, h)
    BY <1>2, <2>1
  <2> QED BY <1>2, <2>2
<1> QED BY <1>6, <1>8, <1>9

(* And one is the greatest.                                                *)
LEMMA HighestOf ==
  ASSUME NEW n \in Nat, n > 0, NEW y \in [1 .. n -> Int]
  PROVE  \E m \in 1 .. n : \A k \in 1 .. n : y[m] >= y[k]
<1> DEFINE z == [k \in 1 .. n |-> -y[k]]
<1>1. z \in [1 .. n -> Int]
  OBVIOUS
<1>2. PICK m \in 1 .. n : \A k \in 1 .. n : z[m] <= z[k]
  <2> HIDE DEF z
  <2> QED BY <1>1, LowestOf
<1>3. ASSUME NEW k \in 1 .. n PROVE y[m] >= y[k]
  <2>1. -y[m] <= -y[k] /\ y[m] \in Int /\ y[k] \in Int
    BY <1>2
  <2> QED BY <2>1
<1> QED BY <1>3

LEMMA AtExtreme ==
  ASSUME NEW s \in Int, s = 1 \/ s = -1, NEW w \in Int,
         NEW p \in Int, NEW q \in Int, NEW r \in Int, NEW up \in Int, NEW vp \in Int,
         s * p > 0, s * q > 0, r > 0, p * up + q * vp + r * w = 0,
         w > 0 => s * up >= 0 /\ s * vp >= 0,
         w <= 0 => s * up <= 0 /\ s * vp <= 0
  PROVE  w = 0 /\ up = 0 /\ vp = 0
<1>1. p * up \in Int /\ q * vp \in Int /\ r * w \in Int
  OBVIOUS
<1>2. CASE w > 0
  <2>1. p * up >= 0 /\ q * vp >= 0 /\ r * w > 0
    <3>1. CASE s = 1
      BY <1>2, <3>1, SignOfProduct
    <3>2. CASE s = -1
      <4>1. p <= 0 /\ q <= 0 /\ up <= 0 /\ vp <= 0
        BY <1>2, <3>2
      <4> QED BY <1>2, <4>1, SignOfProduct
    <3> QED BY <3>1, <3>2
  <2> QED BY <1>1, <2>1
<1>3. CASE w <= 0
  <2>1. p * up <= 0 /\ q * vp <= 0 /\ r * w <= 0 /\ p # 0 /\ q # 0
    <3>1. CASE s = 1
      BY <1>3, <3>1, SignOfProduct
    <3>2. CASE s = -1
      <4>1. p < 0 /\ q < 0 /\ up >= 0 /\ vp >= 0
        BY <1>3, <3>2
      <4> QED BY <1>3, <4>1, SignOfProduct
    <3> QED BY <3>1, <3>2
  <2>2. p * up = 0 /\ q * vp = 0 /\ r * w = 0
    BY <1>1, <2>1
  <2> QED BY <2>1, <2>2, SignOfProduct
<1> QED BY <1>2, <1>3

(* Beside a vertex that no other is below (or above), the edges do not     *)
(* turn around a point on that side of it.                                 *)
LEMMA TurnAtVertex ==
  ASSUME NEW V, NEW x \in [V -> Int], NEW y \in [V -> Int],
         NEW o \in Int, o = 1 \/ o = -1, NEW s \in Int, s = 1 \/ s = -1,
         NEW a \in V, NEW v \in V, NEW b \in V,
         o * Area(x, y, a, v, b) > 0,
         s * (o * Turn(x, y, a, v)) > 0, s * (o * Turn(x, y, v, b)) > 0,
         y[v] > 0 => s * (y[b] - y[v]) >= 0 /\ s * (y[a] - y[v]) >= 0,
         y[v] <= 0 => s * (y[b] - y[v]) <= 0 /\ s * (y[a] - y[v]) <= 0
  PROVE  FALSE
<1>1. PICK ax \in Int, vx \in Int, bx \in Int : ax = x[a] /\ vx = x[v] /\ bx = x[b]
  OBVIOUS
<1>2. PICK ay \in Int, vy \in Int, by \in Int : ay = y[a] /\ vy = y[v] /\ by = y[b]
  OBVIOUS
<1>3. PICK av \in Int, vb \in Int, ba \in Int :
        av = Turn(x, y, a, v) /\ vb = Turn(x, y, v, b) /\ ba = Turn(x, y, b, a)
  BY TurnTypes
<1>4. /\ av = ax * vy - ay * vx /\ vb = vx * by - vy * bx /\ ba = bx * ay - by * ax
      /\ Area(x, y, a, v, b) = av + vb + ba
  BY <1>1, <1>2, <1>3, Zenon DEF Turn, Area
<1>5. av * (by - vy) + vb * (ay - vy) + (av + vb + ba) * vy = 0
  BY <1>4
<1>6. (o * av) * (by - vy) + (o * vb) * (ay - vy) + (o * (av + vb + ba)) * vy = 0
  <2>1. o * (av * (by - vy) + vb * (ay - vy) + (av + vb + ba) * vy) = 0
    BY <1>5
  <2> QED BY <2>1
<1>7. vy = 0 /\ by - vy = 0 /\ ay - vy = 0
  <2> DEFINE p == o * av
             q == o * vb
             r == o * (av + vb + ba)
             up == by - vy
             vp == ay - vy
  <2>1. p \in Int /\ q \in Int /\ r \in Int /\ up \in Int /\ vp \in Int
    OBVIOUS
  <2>2. s * p > 0 /\ s * q > 0 /\ r > 0
    BY <1>3, <1>4
  <2>3. /\ vy > 0 => s * up >= 0 /\ s * vp >= 0
        /\ vy <= 0 => s * up <= 0 /\ s * vp <= 0
    BY <1>2
  <2>4. p * up + q * vp + r * vy = 0
    BY <1>6
  <2>5. vy = 0 /\ up = 0 /\ vp = 0
    <3> HIDE DEF p, q, r, up, vp
    <3> QED BY <2>1, <2>2, <2>3, <2>4, AtExtreme
  <2> QED BY <2>5
<1>8. av = 0
  BY <1>4, <1>7
<1> QED BY <1>3, <1>8

(* The same edge taken the other way.                                      *)
LEMMA BesideBack ==
  ASSUME NEW V, NEW x \in [V -> Int], NEW y \in [V -> Int], NEW t \in Int, t = 1 \/ t = -1,
         NEW a \in V, NEW b \in V, Beside(x, y, V, a, b, t)
  PROVE  Beside(x, y, V, b, a, -t)
<1> SUFFICES ASSUME NEW k \in V
             PROVE  IF k \in {b, a} THEN Area(x, y, b, a, k) = 0
                                    ELSE (-t) * Area(x, y, b, a, k) > 0
  BY DEF Beside
<1>1. PICK ab \in Int, bk \in Int, ka \in Int :
        ab = Turn(x, y, a, b) /\ bk = Turn(x, y, b, k) /\ ka = Turn(x, y, k, a)
  BY TurnTypes
<1>2. Turn(x, y, b, a) = -ab /\ Turn(x, y, k, b) = -bk /\ Turn(x, y, a, k) = -ka
  BY <1>1, TurnTypes
<1>3. Area(x, y, a, b, k) = ab + bk + ka /\ Area(x, y, b, a, k) = (-ab) + (-ka) + (-bk)
  BY <1>1, <1>2 DEF Area
<1>4. PICK u \in Int : u = Area(x, y, a, b, k)
  BY TurnTypes
<1>5. Area(x, y, b, a, k) = -u /\ t \in Int
  BY <1>3, <1>4
<1>6. IF k \in {a, b} THEN u = 0 ELSE t * u > 0
  BY <1>4 DEF Beside
<1>7. (-t) * (-u) = t * u
  OBVIOUS
<1> QED BY <1>5, <1>6, <1>7

(* If all vertices are on one side of the row, the edges do not turn       *)
(* around the point.                                                       *)
LEMMA NoTurnBesideRow ==
  ASSUME NEW n \in Nat, n >= 3, NEW x \in [1 .. n -> Int], NEW y \in [1 .. n -> Int],
         NEW o \in Int, o = 1 \/ o = -1, NEW s \in Int, s = 1 \/ s = -1,
         NEW prev, prev = [i \in 1 .. n |-> Before(i, n)],
         Around(x, y, 1 .. n, prev, o),
         \A i \in 1 .. n : s * (o * Turn(x, y, prev[i], i)) > 0,
         (\A i \in 1 .. n : y[i] > 0) \/ (\A i \in 1 .. n : y[i] <= 0)
  PROVE  FALSE
<1>0. n > 0
  OBVIOUS
<1>1. PICK low \in 1 .. n : \A k \in 1 .. n : y[low] <= y[k]
  BY <1>0, LowestOf
<1>2. PICK high \in 1 .. n : \A k \in 1 .. n : y[high] >= y[k]
  BY <1>0, HighestOf
<1>3. ASSUME NEW v \in 1 .. n,
             \A k \in 1 .. n : /\ y[v] > 0 => s * (y[k] - y[v]) >= 0
                               /\ y[v] <= 0 => s * (y[k] - y[v]) <= 0
      PROVE  FALSE
  <2>1. PICK b \in 1 .. n : prev[b] = v /\ b # v /\ b # prev[v]
    BY BeforeFacts
  <2>2. PICK a \in 1 .. n : a = prev[v]
    BY BeforeFacts
  <2>3. o * Area(x, y, a, v, b) > 0
    BY <2>1, <2>2 DEF Around, Beside
  <2>4. /\ s * (o * Turn(x, y, a, v)) > 0
        /\ s * (o * Turn(x, y, v, b)) > 0
    BY <2>1, <2>2
  <2>5. /\ y[v] > 0 => s * (y[b] - y[v]) >= 0 /\ s * (y[a] - y[v]) >= 0
        /\ y[v] <= 0 => s * (y[b] - y[v]) <= 0 /\ s * (y[a] - y[v]) <= 0
    BY <1>3
  <2> QED BY <2>3, <2>4, <2>5, TurnAtVertex
<1>4. CASE (\A i \in 1 .. n : y[i] > 0) /\ s = 1
  <2>1. ASSUME NEW k \in 1 .. n PROVE y[low] > 0 /\ s * (y[k] - y[low]) >= 0
    <3>1. y[k] \in Int /\ y[low] \in Int
      OBVIOUS
    <3> QED BY <1>1, <1>4, <3>1
  <2>2. ~(y[low] <= 0)
    <3>1. y[low] \in Int /\ y[low] > 0
      BY <1>4
    <3> QED BY <3>1
  <2> QED BY <1>3, <2>1, <2>2
<1>5. CASE (\A i \in 1 .. n : y[i] > 0) /\ s = -1
  <2>1. ASSUME NEW k \in 1 .. n PROVE y[high] > 0 /\ s * (y[k] - y[high]) >= 0
    <3>1. y[k] \in Int /\ y[high] \in Int
      OBVIOUS
    <3> QED BY <1>2, <1>5, <3>1
  <2>2. ~(y[high] <= 0)
    <3>1. y[high] \in Int /\ y[high] > 0
      BY <1>5
    <3> QED BY <3>1
  <2> QED BY <1>3, <2>1, <2>2
<1>6. CASE (\A i \in 1 .. n : y[i] <= 0) /\ s = 1
  <2>1. ASSUME NEW k \in 1 .. n PROVE y[high] <= 0 /\ s * (y[k] - y[high]) <= 0
    <3>1. y[k] \in Int /\ y[high] \in Int
      OBVIOUS
    <3> QED BY <1>2, <1>6, <3>1
  <2> QED BY <1>3, <2>1
<1>7. CASE (\A i \in 1 .. n : y[i] <= 0) /\ s = -1
  <2>1. ASSUME NEW k \in 1 .. n PROVE y[low] <= 0 /\ s * (y[k] - y[low]) <= 0
    <3>1. y[k] \in Int /\ y[low] \in Int
      OBVIOUS
    <3> QED BY <1>1, <1>7, <3>1
  <2> QED BY <1>3, <2>1
<1> QED BY <1>4, <1>5, <1>6, <1>7

LEMMA OddOfTwo ==
  ASSUME NEW u, NEW d, u # d, NEW S, S \subseteq {u, d}
  PROVE  Cardinality(S) % 2 = 1 <=> (u \in S) # (d \in S)
<1>1. S = {} \/ S = {u} \/ S = {d} \/ S = {u, d}
  OBVIOUS
<1>2. Cardinality({}) = 0 /\ Cardinality({u}) = 1 /\ Cardinality({d}) = 1
  BY FS_EmptySet, FS_Singleton
<1>3. Cardinality({u, d}) = 2
  <2>1. {u, d} = {u} \cup {d} /\ IsFiniteSet({u}) /\ d \notin {u}
    BY FS_Singleton
  <2>2. Cardinality({u} \cup {d}) = Cardinality({u}) + 1
    BY <2>1, FS_AddElement
  <2> QED BY <1>2, <2>1, <2>2
<1>4. 0 % 2 = 0 /\ 1 % 2 = 1 /\ 2 % 2 = 0
  OBVIOUS
<1>5. CASE S = {}
  BY <1>2, <1>4, <1>5
<1>6. CASE S = {u}
  BY <1>2, <1>4, <1>6
<1>7. CASE S = {d}
  BY <1>2, <1>4, <1>7
<1>8. CASE S = {u, d}
  BY <1>3, <1>4, <1>8
<1> QED BY <1>1, <1>5, <1>6, <1>7, <1>8

(* What an odd number of crossings says of the side the edges are on.      *)
OddMeansInside(x, y, V, prev, o) ==
  /\ (\A i \in V : o * Turn(x, y, prev[i], i) > 0)
       => Cardinality(Crossed(x, y, V, prev)) % 2 = 1
  /\ ~\A i \in V : o * Turn(x, y, prev[i], i) < 0
  /\ Cardinality(Crossed(x, y, V, prev)) % 2 = 1
       => /\ \A i \in V : o * Turn(x, y, prev[i], i) >= 0
          /\ \E a, b, c, e \in V :
               /\ y[a] <= 0 /\ y[b] > 0 /\ y[c] <= 0 /\ y[e] > 0
               /\ Turn(x, y, a, b) > 0 /\ Turn(x, y, c, e) <= 0

(* A row that crosses the edges into u, upwards, and into d, downwards.    *)
LEMMA TwoCrossings ==
  ASSUME NEW V, NEW x \in [V -> Int], NEW y \in [V -> Int], NEW o \in Int, o = 1 \/ o = -1,
         NEW prev \in [V -> V], Around(x, y, V, prev, o),
         NEW u \in V, y[prev[u]] <= 0, y[u] > 0,
         NEW d \in V, y[prev[d]] > 0, y[d] <= 0
  PROVE  OddMeansInside(x, y, V, prev, o)
<1> DEFINE E == Crossed(x, y, V, prev)
<1>1. PICK pu \in V, pd \in V : pu = prev[u] /\ pd = prev[d]
  OBVIOUS
<1>2. PICK su \in Int : su = Turn(x, y, pu, u)
  BY TurnTypes
<1>3. PICK sd \in Int : sd = Turn(x, y, pd, d)
  BY TurnTypes
<1>4. Turn(x, y, d, pd) = -sd
  BY <1>3, TurnTypes
<1>5. /\ y[u] \in Int /\ y[d] \in Int /\ y[pu] \in Int /\ y[pd] \in Int
      /\ y[pu] <= 0 /\ y[u] > 0 /\ y[pd] > 0 /\ y[d] <= 0
  BY <1>1
<1>6. Beside(x, y, V, pu, u, o) /\ Beside(x, y, V, pd, d, o)
  BY <1>1 DEF Around
<1>7. -o \in Int /\ (-o = 1 \/ -o = -1) /\ -(-o) = o
  OBVIOUS
<1>8. Beside(x, y, V, d, pd, -o)
  BY <1>6, BesideBack
<1>9. u # d /\ ~(y[u] <= 0) /\ ~(y[d] > 0) /\ ~(y[pu] > 0) /\ ~(y[pd] <= 0)
  BY <1>5
<1>10. u \in E <=> su > 0
  BY <1>1, <1>2, <1>5, <1>9 DEF Crossed
<1>11. d \in E <=> sd < 0
  <2>1. d \in E <=> Turn(x, y, d, pd) > 0
    BY <1>1, <1>5, <1>9 DEF Crossed
  <2> QED BY <1>4, <2>1
<1> HIDE DEF E
<1>12. E \subseteq {u, d}
  <2> SUFFICES ASSUME NEW i \in E PROVE i = u \/ i = d
    OBVIOUS
  <2>1. i \in V /\ ((y[prev[i]] <= 0 /\ y[i] > 0) \/ (y[prev[i]] > 0 /\ y[i] <= 0))
    BY DEF Crossed, E
  <2>2. PICK j \in V : j = prev[i]
    BY <2>1
  <2>3. Beside(x, y, V, j, i, o)
    BY <2>1, <2>2 DEF Around
  <2>4. Beside(x, y, V, i, j, -o)
    BY <2>1, <2>3, BesideBack
  <2>5. CASE y[j] <= 0 /\ y[i] > 0
    <3>1. j = pu
      BY <1>5, <1>6, <2>1, <2>3, <2>5, OneCrossing
    <3> QED BY <1>1, <2>1, <2>2, <3>1 DEF Around
  <2>6. CASE y[j] > 0 /\ y[i] <= 0
    <3>1. i = d
      BY <1>5, <1>7, <1>8, <2>1, <2>4, <2>6, OneCrossing
    <3> QED BY <3>1
  <2> QED BY <2>1, <2>2, <2>5, <2>6
<1>13. Cardinality(E) % 2 = 1 <=> (u \in E) # (d \in E)
  BY <1>9, <1>12, OddOfTwo
<1>14. o = 1 => (sd < 0 => su > 0)
  <2> SUFFICES ASSUME o = 1, sd < 0 PROVE su > 0
    OBVIOUS
  <2>1. Turn(x, y, d, pd) > 0
    BY <1>4
  <2>2. Turn(x, y, pu, u) > 0
    BY <1>5, <1>6, <2>1, LeftOfBoth
  <2> QED BY <1>2, <2>2
<1>15. o = -1 => (su > 0 => sd < 0)
  <2> SUFFICES ASSUME o = -1, su > 0 PROVE sd < 0
    OBVIOUS
  <2>1. Turn(x, y, pu, u) > 0
    BY <1>2
  <2>2. Beside(x, y, V, d, pd, 1)
    BY <1>8
  <2>3. Turn(x, y, d, pd) > 0
    BY <1>5, <2>1, <2>2, LeftOfBoth
  <2> QED BY <1>4, <2>3
<1>16. (\A i \in V : o * Turn(x, y, prev[i], i) > 0) => o * su > 0 /\ o * sd > 0
  BY <1>1, <1>2, <1>3
<1>17. (\A i \in V : o * Turn(x, y, prev[i], i) < 0) => o * su < 0 /\ o * sd < 0
  BY <1>1, <1>2, <1>3
<1>18. (u \in E) # (d \in E) =>
         \E a, b, c, e \in V :
           /\ y[a] <= 0 /\ y[b] > 0 /\ y[c] <= 0 /\ y[e] > 0
           /\ Turn(x, y, a, b) > 0 /\ Turn(x, y, c, e) <= 0
  <2>1. CASE su > 0 /\ ~(sd < 0)
    <3>1. Turn(x, y, pu, u) > 0 /\ Turn(x, y, d, pd) <= 0
      BY <1>2, <1>4, <2>1
    <3> QED BY <1>5, <3>1
  <2>2. CASE ~(su > 0) /\ sd < 0
    <3>1. Turn(x, y, d, pd) > 0 /\ Turn(x, y, pu, u) <= 0
      BY <1>2, <1>4, <2>2
    <3> QED BY <1>5, <3>1
  <2> QED BY <1>10, <1>11, <2>1, <2>2
<1>19. Cardinality(E) % 2 = 1 => \A i \in V : o * Turn(x, y, prev[i], i) >= 0
  <2> SUFFICES ASSUME (u \in E) # (d \in E), NEW i \in V
               PROVE  o * Turn(x, y, prev[i], i) >= 0
    BY <1>13
  <2>1. PICK a \in V, b \in V, c \in V, e \in V :
          /\ y[a] <= 0 /\ y[b] > 0 /\ y[c] <= 0 /\ y[e] > 0
          /\ Turn(x, y, a, b) > 0 /\ Turn(x, y, c, e) <= 0
    BY <1>18
  <2>2. PICK j \in V : j = prev[i]
    OBVIOUS
  <2>3. Beside(x, y, V, j, i, o)
    BY <2>2 DEF Around
  <2>4. o * Turn(x, y, j, i) >= 0
    BY <2>1, <2>3, BetweenCrossings
  <2> QED BY <2>2, <2>4
<1>20. (\A i \in V : o * Turn(x, y, prev[i], i) > 0) => Cardinality(E) % 2 = 1
  <2>1. o * su > 0 /\ o * sd > 0 => (su > 0) # (sd < 0)
    OBVIOUS
  <2> QED BY <1>10, <1>11, <1>13, <1>16, <2>1
<1>21. ~\A i \in V : o * Turn(x, y, prev[i], i) < 0
  <2>1. o = 1 => ~(o * su < 0 /\ o * sd < 0)
    BY <1>14
  <2>2. o = -1 => ~(o * su < 0 /\ o * sd < 0)
    BY <1>15
  <2> QED BY <1>17, <2>1, <2>2
<1> QED BY <1>13, <1>18, <1>19, <1>20, <1>21 DEF E, OddMeansInside

(* The same for any point: either its row meets the polygon or it does not.*)
LEMMA OddInside ==
  ASSUME NEW n \in Nat, n >= 3, NEW x \in [1 .. n -> Int], NEW y \in [1 .. n -> Int],
         NEW o \in Int, o = 1 \/ o = -1, NEW prev, prev = [i \in 1 .. n |-> Before(i, n)],
         Around(x, y, 1 .. n, prev, o)
  PROVE  OddMeansInside(x, y, 1 .. n, prev, o)
<1>1. prev \in [1 .. n -> 1 .. n]
  BY BeforeFacts
<1>2. CASE (\A i \in 1 .. n : y[i] > 0) \/ (\A i \in 1 .. n : y[i] <= 0)
  <2>1. Crossed(x, y, 1 .. n, prev) = {}
    <3>1. ASSUME NEW i \in 1 .. n, NEW j \in 1 .. n
          PROVE  ~(y[j] <= 0 /\ y[i] > 0) /\ ~(y[j] > 0 /\ y[i] <= 0)
      <4>1. y[i] \in Int /\ y[j] \in Int
        OBVIOUS
      <4> QED BY <1>2, <4>1
    <3>2. \A i \in 1 .. n : prev[i] \in 1 .. n
      BY <1>1
    <3> QED BY <3>1, <3>2 DEF Crossed
  <2>2. Cardinality(Crossed(x, y, 1 .. n, prev)) % 2 # 1
    <3>1. Cardinality({}) = 0 /\ 0 % 2 # 1
      BY FS_EmptySet
    <3> QED BY <2>1, <3>1
  <2>3. ASSUME NEW s \in Int, s = 1 \/ s = -1,
               \A i \in 1 .. n : s * (o * Turn(x, y, prev[i], i)) > 0
        PROVE  FALSE
    BY <1>2, <2>3, NoTurnBesideRow
  <2>4. ASSUME NEW i \in 1 .. n
        PROVE  o * Turn(x, y, prev[i], i) \in Int
    <3>1. PICK t \in Int : t = Turn(x, y, prev[i], i)
      BY <1>1, TurnTypes
    <3> QED BY <3>1
  <2>5. ASSUME NEW s \in Int, s = 1 \/ s = -1
        PROVE  ~\A i \in 1 .. n : s * (o * Turn(x, y, prev[i], i)) > 0
    BY <2>3, <2>5
  <2>6. ~\A i \in 1 .. n : o * Turn(x, y, prev[i], i) > 0
    <3>1. \E i \in 1 .. n : ~(1 * (o * Turn(x, y, prev[i], i)) > 0)
      BY <2>5
    <3> QED BY <2>4, <3>1
  <2>7. ~\A i \in 1 .. n : o * Turn(x, y, prev[i], i) < 0
    <3>1. \E i \in 1 .. n : ~((-1) * (o * Turn(x, y, prev[i], i)) > 0)
      BY <2>5
    <3> QED BY <2>4, <3>1
  <2> QED BY <2>2, <2>6, <2>7 DEF OddMeansInside
<1>3. CASE ~((\A i \in 1 .. n : y[i] > 0) \/ (\A i \in 1 .. n : y[i] <= 0))
  <2>1. PICK u \in 1 .. n : y[u] > 0 /\ y[prev[u]] <= 0
    <3> DEFINE A == {i \in 1 .. n : y[i] > 0}
    <3>1. A \subseteq 1 .. n /\ A # 1 .. n /\ A # {}
      <4>1. \A i \in 1 .. n : ~(y[i] <= 0) <=> y[i] > 0
        <5>1. \A i \in 1 .. n : y[i] \in Int
          OBVIOUS
        <5> QED BY <5>1
      <4> QED BY <1>3, <4>1
    <3>2. PICK i \in A : Before(i, n) \notin A
      <4> HIDE DEF A
      <4> QED BY <3>1, Entered
    <3>3. i \in 1 .. n /\ y[i] > 0 /\ prev[i] \in 1 .. n /\ ~(y[prev[i]] > 0)
      BY <1>1, <3>2
    <3>4. y[prev[i]] \in Int
      BY <3>3
    <3> QED BY <3>3, <3>4
  <2>2. PICK d \in 1 .. n : y[d] <= 0 /\ y[prev[d]] > 0
    <3> DEFINE B == {i \in 1 .. n : y[i] <= 0}
    <3>1. B \subseteq 1 .. n /\ B # 1 .. n /\ B # {}
      <4>1. \A i \in 1 .. n : ~(y[i] <= 0) <=> y[i] > 0
        <5>1. \A i \in 1 .. n : y[i] \in Int
          OBVIOUS
        <5> QED BY <5>1
      <4> QED BY <1>3, <4>1
    <3>2. PICK i \in B : Before(i, n) \notin B
      <4> HIDE DEF B
      <4> QED BY <3>1, Entered
    <3>3. i \in 1 .. n /\ y[i] <= 0 /\ prev[i] \in 1 .. n /\ ~(y[prev[i]] <= 0)
      BY <1>1, <3>2
    <3>4. y[prev[i]] \in Int
      BY <3>3
    <3> QED BY <3>3, <3>4
  <2> QED BY <1>1, <2>1, <2>2, TwoCrossings
<1> QED BY <1>2, <1>3

-----------------------------------------------------------------------------
(* The vertices relative to a point.                                       *)
From(p, polygon, k) == [i \in 1 .. Len(polygon) |-> polygon[i][k] - p[k]]

(* The vertex before each.                                                 *)
Round(n) == [i \in 1 .. n |-> Before(i, n)]

(* The coordinates are integers.                                           *)
LEMMA FromTypes ==
  ASSUME NEW polygon \in Seq(Points), NEW p \in Points
  PROVE  /\ Len(polygon) \in Nat
         /\ p[1] \in Int /\ p[2] \in Int
         /\ \A i \in 1 .. Len(polygon) : polygon[i][1] \in Int /\ polygon[i][2] \in Int
         /\ \A k \in {1, 2} : /\ From(p, polygon, k) \in [1 .. Len(polygon) -> Int]
                              /\ \A i \in 1 .. Len(polygon) :
                                   From(p, polygon, k)[i] = polygon[i][k] - p[k]
<1>1. Len(polygon) \in Nat /\ p[1] \in Int /\ p[2] \in Int
  BY DEF Points
<1>2. \A i \in 1 .. Len(polygon) : polygon[i][1] \in Int /\ polygon[i][2] \in Int
  BY DEF Points
<1>3. ASSUME NEW k \in {1, 2}, NEW i \in 1 .. Len(polygon)
      PROVE  polygon[i][k] - p[k] \in Int
  BY <1>1, <1>2
<1>4. ASSUME NEW k \in {1, 2}
      PROVE  /\ From(p, polygon, k) \in [1 .. Len(polygon) -> Int]
             /\ \A i \in 1 .. Len(polygon) : From(p, polygon, k)[i] = polygon[i][k] - p[k]
  BY <1>3 DEF From
<1> QED BY <1>1, <1>2, <1>4

(* Sides in terms of turns, where u and v are the vertices relative to p.  *)
LEMMA SideIsTurn ==
  ASSUME NEW ax \in Int, NEW ay \in Int, NEW bx \in Int, NEW by \in Int,
         NEW px \in Int, NEW py \in Int
  PROVE  (bx - ax) * (py - ay) - (by - ay) * (px - ax)
           = (ax - px) * (by - py) - (ay - py) * (bx - px)
OBVIOUS

LEMMA SideShifted ==
  ASSUME NEW ax \in Int, NEW ay \in Int, NEW bx \in Int, NEW by \in Int,
         NEW cx \in Int, NEW cy \in Int, NEW px \in Int, NEW py \in Int
  PROVE  (bx - ax) * (cy - ay) - (by - ay) * (cx - ax)
           = ((ax - px) * (by - py) - (ay - py) * (bx - px))
             + ((bx - px) * (cy - py) - (by - py) * (cx - px))
             + ((cx - px) * (ay - py) - (cy - py) * (ax - px))
OBVIOUS

(* Sides and areas do not depend on the point that vertices are relative   *)
(* to.                                                                     *)
LEMMA SidesFrom ==
  ASSUME NEW polygon \in Seq(Points), NEW p \in Points,
         NEW x, x = From(p, polygon, 1), NEW y, y = From(p, polygon, 2)
  PROVE  /\ \A i, j \in 1 .. Len(polygon) : Side(polygon[i], polygon[j], p) = Turn(x, y, i, j)
         /\ \A i, j, k \in 1 .. Len(polygon) :
              Side(polygon[i], polygon[j], polygon[k]) = Area(x, y, i, j, k)
<1>1. \A i \in 1 .. Len(polygon) : x[i] = polygon[i][1] - p[1] /\ y[i] = polygon[i][2] - p[2]
  BY FromTypes
<1>2. ASSUME NEW i \in 1 .. Len(polygon), NEW j \in 1 .. Len(polygon)
      PROVE  Side(polygon[i], polygon[j], p) = Turn(x, y, i, j)
  <2>1. PICK ax \in Int, ay \in Int, bx \in Int, by \in Int, px \in Int, py \in Int :
          /\ ax = polygon[i][1] /\ ay = polygon[i][2]
          /\ bx = polygon[j][1] /\ by = polygon[j][2] /\ px = p[1] /\ py = p[2]
    BY FromTypes
  <2>2. (bx - ax) * (py - ay) - (by - ay) * (px - ax)
          = (ax - px) * (by - py) - (ay - py) * (bx - px)
    BY SideIsTurn
  <2>3. x[i] = ax - px /\ y[i] = ay - py /\ x[j] = bx - px /\ y[j] = by - py
    BY <1>1, <2>1
  <2>4. Side(polygon[i], polygon[j], p) = (bx - ax) * (py - ay) - (by - ay) * (px - ax)
    BY <2>1, Zenon DEF Side
  <2>5. Turn(x, y, i, j) = (ax - px) * (by - py) - (ay - py) * (bx - px)
    BY <2>3, Zenon DEF Turn
  <2> QED BY <2>2, <2>4, <2>5, Zenon
<1>3. ASSUME NEW i \in 1 .. Len(polygon), NEW j \in 1 .. Len(polygon),
             NEW k \in 1 .. Len(polygon)
      PROVE  Side(polygon[i], polygon[j], polygon[k]) = Area(x, y, i, j, k)
  <2>1. PICK ax \in Int, ay \in Int, bx \in Int, by \in Int, px \in Int, py \in Int :
          /\ ax = polygon[i][1] /\ ay = polygon[i][2]
          /\ bx = polygon[j][1] /\ by = polygon[j][2] /\ px = p[1] /\ py = p[2]
    BY FromTypes
  <2>2. PICK cx \in Int, cy \in Int : cx = polygon[k][1] /\ cy = polygon[k][2]
    BY FromTypes
  <2>3. (bx - ax) * (cy - ay) - (by - ay) * (cx - ax)
           = ((ax - px) * (by - py) - (ay - py) * (bx - px))
             + ((bx - px) * (cy - py) - (by - py) * (cx - px))
             + ((cx - px) * (ay - py) - (cy - py) * (ax - px))
    BY SideShifted
  <2>4. /\ x[i] = ax - px /\ y[i] = ay - py /\ x[j] = bx - px /\ y[j] = by - py
        /\ x[k] = cx - px /\ y[k] = cy - py
    BY <1>1, <2>1, <2>2
  <2>5. Side(polygon[i], polygon[j], polygon[k])
          = (bx - ax) * (cy - ay) - (by - ay) * (cx - ax)
    BY <2>1, <2>2, Zenon DEF Side
  <2>6. Area(x, y, i, j, k) = ((ax - px) * (by - py) - (ay - py) * (bx - px))
             + ((bx - px) * (cy - py) - (by - py) * (cx - px))
             + ((cx - px) * (ay - py) - (cy - py) * (ax - px))
    BY <2>4, Zenon DEF Area, Turn
  <2> QED BY <2>3, <2>5, <2>6, Zenon
<1> QED BY <1>2, <1>3

(* The vertex after the one before is the vertex itself.                   *)
LEMMA AfterBefore ==
  ASSUME NEW n \in Nat, n >= 3
  PROVE  /\ \A i \in 1 .. n : Before(i, n) \in 1 .. n /\ After(Before(i, n), n) = i
         /\ \A i \in 1 .. n : After(i, n) \in 1 .. n /\ Before(After(i, n), n) = i
<1>1. ASSUME NEW i \in 1 .. n
      PROVE  After(i, n) = IF i = n THEN 1 ELSE i + 1
  <2>1. CASE i = n
    <3>1. n % n = 0
      OBVIOUS
    <3> QED BY <2>1, <3>1 DEF After
  <2>2. CASE i # n
    <3>1. i % n = i
      BY <2>2
    <3> QED BY <2>2, <3>1 DEF After
  <2> QED BY <2>1, <2>2
<1>2. ASSUME NEW i \in 1 .. n
      PROVE  Before(i, n) \in 1 .. n /\ After(Before(i, n), n) = i
  <2>1. Before(i, n) \in 1 .. n
    BY DEF Before
  <2>2. After(Before(i, n), n) = IF Before(i, n) = n THEN 1 ELSE Before(i, n) + 1
    BY <1>1, <2>1
  <2> QED BY <2>1, <2>2 DEF Before
<1>3. ASSUME NEW i \in 1 .. n
      PROVE  After(i, n) \in 1 .. n /\ Before(After(i, n), n) = i
  BY <1>1 DEF Before
<1> QED BY <1>2, <1>3

(* A convex polygon seen from any point.                                    *)
LEMMA ConvexAround ==
  ASSUME NEW polygon \in Seq(Points), Len(polygon) >= 3, NEW p \in Points,
         NEW o \in Int, o = 1 \/ o = -1, Turns(polygon, o),
         NEW x, x = From(p, polygon, 1), NEW y, y = From(p, polygon, 2)
  PROVE  Around(x, y, 1 .. Len(polygon), Round(Len(polygon)), o)
<1>1. PICK n \in Nat : n = Len(polygon) /\ n >= 3
  BY FromTypes
<1>2. x \in [1 .. n -> Int] /\ y \in [1 .. n -> Int]
  BY <1>1, FromTypes
<1>3. \A i \in 1 .. n : Round(n)[i] = Before(i, n) /\ Before(i, n) \in 1 .. n
  BY <1>1, BeforeFacts DEF Round
<1>4. \A i, j \in 1 .. n : Round(n)[i] = Round(n)[j] => i = j
  <2> SUFFICES ASSUME NEW i \in 1 .. n, NEW j \in 1 .. n, Before(i, n) = Before(j, n)
               PROVE  i = j
    BY <1>3
  <2> QED BY <1>1, BeforeFacts
<1>5. ASSUME NEW i \in 1 .. n
      PROVE  Beside(x, y, 1 .. n, Round(n)[i], i, o)
  <2>1. PICK j \in 1 .. n : j = Before(i, n) /\ After(j, n) = i
    BY <1>1, AfterBefore
  <2>2. ASSUME NEW k \in 1 .. n, k \notin {j, i}
        PROVE  o * Area(x, y, j, i, k) > 0
    <3>1. o * Side(polygon[j], polygon[i], polygon[k]) > 0
      BY <1>1, <2>1, <2>2 DEF Turns
    <3>2. Side(polygon[j], polygon[i], polygon[k]) = Area(x, y, j, i, k)
      BY <1>1, SidesFrom
    <3> QED BY <3>1, <3>2
  <2>3. ASSUME NEW k \in 1 .. n, k \in {j, i}
        PROVE  Area(x, y, j, i, k) = 0
    <3>1. \A l, m \in 1 .. n : Turn(x, y, l, m) \in Int /\ Turn(x, y, l, m) = -Turn(x, y, m, l)
      BY <1>2, TurnTypes
    <3> PICK ji \in Int : ji = Turn(x, y, j, i)
      BY <3>1
    <3>3. Turn(x, y, i, j) = -ji
      BY <3>1
    <3>2. \A m \in 1 .. n : Turn(x, y, m, m) = 0
      <4>1. ASSUME NEW m \in 1 .. n PROVE Turn(x, y, m, m) = 0
        <5>1. Turn(x, y, m, m) \in Int /\ Turn(x, y, m, m) = -Turn(x, y, m, m)
          BY <3>1
        <5> QED BY <5>1
      <4> QED BY <4>1
    <3> QED BY <2>3, <3>2, <3>3 DEF Area
  <2>4. Round(n)[i] = j
    BY <1>3, <2>1
  <2> QED BY <2>2, <2>3, <2>4 DEF Beside
<1> QED BY <1>1, <1>4, <1>5 DEF Around

(* The comparison without the division, for the two ways an edge may cross *)
(* the row.                                                                *)
LEMMA LeftOf ==
  ASSUME NEW ax \in Int, NEW ay \in Int, NEW bx \in Int, NEW by \in Int,
         NEW px \in Int, NEW py \in Int
  PROVE  /\ (px - ax) * (by - ay) < (bx - ax) * (py - ay)
              <=> (ax - px) * (by - py) - (ay - py) * (bx - px) > 0
         /\ (px - ax) * (by - ay) > (bx - ax) * (py - ay)
              <=> (bx - px) * (ay - py) - (by - py) * (ax - px) > 0
<1>1. (bx - ax) * (py - ay) - (px - ax) * (by - ay)
        = (ax - px) * (by - py) - (ay - py) * (bx - px)
  OBVIOUS
<1>2. (px - ax) * (by - ay) - (bx - ax) * (py - ay)
        = (bx - px) * (ay - py) - (by - py) * (ax - px)
  OBVIOUS
<1> DEFINE u == (px - ax) * (by - ay)
           v == (bx - ax) * (py - ay)
           s == (ax - px) * (by - py) - (ay - py) * (bx - px)
           t == (bx - px) * (ay - py) - (by - py) * (ax - px)
<1>3. u \in Int /\ v \in Int /\ s \in Int /\ t \in Int /\ v - u = s /\ u - v = t
  BY <1>1, <1>2
<1> HIDE DEF u, v, s, t
<1>4. (u < v <=> s > 0) /\ (u > v <=> t > 0)
  BY <1>3
<1> QED BY <1>4 DEF u, v, s, t

(* What the crossing rule counts.                                          *)
LEMMA CrossedFrom ==
  ASSUME NEW polygon \in Seq(Points), Len(polygon) >= 3, NEW p \in Points,
         NEW x, x = From(p, polygon, 1), NEW y, y = From(p, polygon, 2)
  PROVE  InPolygon(p, polygon) <=>
           Cardinality(Crossed(x, y, 1 .. Len(polygon), Round(Len(polygon)))) % 2 = 1
<1>1. PICK n \in Nat : n = Len(polygon) /\ n >= 3
  BY FromTypes
<1>2. \A i \in 1 .. n : Round(n)[i] = Before(i, n) /\ Before(i, n) \in 1 .. n
  BY <1>1, BeforeFacts DEF Round
<1> DEFINE Previous(i) == IF i = 1 THEN polygon[Len(polygon)] ELSE polygon[i - 1]
<1> DEFINE crosses(i) == /\ (polygon[i][2] > p[2]) # (Previous(i)[2] > p[2])
                         /\ LeftOfEdge(p, polygon[i], Previous(i))
<1> DEFINE crossing(i) == \/ y[Round(n)[i]] <= 0 /\ y[i] > 0 /\ Turn(x, y, Round(n)[i], i) > 0
                          \/ y[Round(n)[i]] > 0 /\ y[i] <= 0 /\ Turn(x, y, i, Round(n)[i]) > 0
<1>3. ASSUME NEW i \in 1 .. n
      PROVE  crosses(i) <=> crossing(i)
  <2>1. PICK j \in 1 .. n : j = Before(i, n) /\ Round(n)[i] = j
    BY <1>2
  <2>2. Previous(i) = polygon[j]
    BY <1>1, <2>1 DEF Before
  <2>3. PICK ax \in Int, ay \in Int, bx \in Int, by \in Int, px \in Int, py \in Int :
          /\ ax = polygon[i][1] /\ ay = polygon[i][2]
          /\ bx = polygon[j][1] /\ by = polygon[j][2] /\ px = p[1] /\ py = p[2]
    BY <1>1, FromTypes
  <2>4. x[i] = ax - px /\ y[i] = ay - py /\ x[j] = bx - px /\ y[j] = by - py
    BY <1>1, <2>3, FromTypes
  <2>5. Turn(x, y, i, j) = (ax - px) * (by - py) - (ay - py) * (bx - px)
    BY <2>4, Zenon DEF Turn
  <2>6. Turn(x, y, j, i) = (bx - px) * (ay - py) - (by - py) * (ax - px)
    BY <2>4, Zenon DEF Turn
  <2>7. LeftOfEdge(p, polygon[i], polygon[j]) <=>
          IF by - ay > 0 THEN (px - ax) * (by - ay) < (bx - ax) * (py - ay)
                         ELSE (px - ax) * (by - ay) > (bx - ax) * (py - ay)
    BY <2>3, Zenon DEF LeftOfEdge
  <2>8. LeftOfEdge(p, polygon[i], polygon[j]) <=>
          IF by - ay > 0 THEN Turn(x, y, i, j) > 0 ELSE Turn(x, y, j, i) > 0
    <3>1. /\ (px - ax) * (by - ay) < (bx - ax) * (py - ay)
               <=> (ax - px) * (by - py) - (ay - py) * (bx - px) > 0
          /\ (px - ax) * (by - ay) > (bx - ax) * (py - ay)
               <=> (bx - px) * (ay - py) - (by - py) * (ax - px) > 0
      BY LeftOf
    <3> QED BY <2>5, <2>6, <2>7, <3>1, Zenon
  <2>9. /\ y[j] > 0 /\ y[i] <= 0 => by - ay > 0 /\ by > py /\ ~(ay > py)
        /\ y[j] <= 0 /\ y[i] > 0 => ~(by - ay > 0) /\ ~(by > py) /\ ay > py
        /\ (ay > py) # (by > py) => (y[j] > 0 /\ y[i] <= 0) \/ (y[j] <= 0 /\ y[i] > 0)
    BY <2>4
  <2>10. crosses(i) <=> /\ (ay > py) # (by > py)
                        /\ LeftOfEdge(p, polygon[i], polygon[j])
    BY <2>2, <2>3
  <2>11. crossing(i) <=> \/ y[j] <= 0 /\ y[i] > 0 /\ Turn(x, y, j, i) > 0
                         \/ y[j] > 0 /\ y[i] <= 0 /\ Turn(x, y, i, j) > 0
    BY <2>1
  <2> HIDE DEF crosses, crossing
  <2> QED BY <2>8, <2>9, <2>10, <2>11, Zenon
<1>4. {i \in 1 .. Len(polygon) : crosses(i)} = Crossed(x, y, 1 .. n, Round(n))
  <2> HIDE DEF crosses
  <2> QED BY <1>1, <1>3 DEF Crossed
<1>5. InPolygon(p, polygon) <=> Cardinality({i \in 1 .. Len(polygon) : crosses(i)}) % 2 = 1
  BY DEF InPolygon
<1> QED BY <1>1, <1>4, <1>5

(* If an edge crosses the row right of the point then an end is right of   *)
(* it.                                                                     *)
LEMMA SomeRight ==
  ASSUME NEW ax \in Int, NEW ay \in Int, NEW bx \in Int, NEW by \in Int, ay <= 0, by > 0
  PROVE  /\ ax * by - ay * bx > 0 => ax > 0 \/ bx > 0
         /\ ax * by - ay * bx <= 0 => ax <= 0 \/ bx <= 0
<1>1. CASE ax <= 0 /\ bx <= 0
  <2>1. ax * by <= 0 /\ ay * bx >= 0 /\ ax * by \in Int /\ ay * bx \in Int
    BY <1>1, SignOfProduct
  <2> QED BY <1>1, <2>1
<1>2. CASE ax > 0 /\ bx > 0
  <2>1. ax * by > 0 /\ ay * bx <= 0 /\ ax * by \in Int /\ ay * bx \in Int
    BY <1>2, SignOfProduct
  <2> QED BY <1>2, <2>1
<1> QED BY <1>1, <1>2

(* A point lies strictly within the vertices' range in one coordinate.     *)
Between(p, polygon, k) ==
  \E i, j \in 1 .. Len(polygon) : polygon[i][k] <= p[k] /\ p[k] < polygon[j][k]

(* The crossing rule finds the points within a convex polygon, and none    *)
(* outside it.                                                             *)
LEMMA ConvexFilled ==
  ASSUME NEW polygon \in Seq(Points), Len(polygon) >= 3, NEW p \in Points,
         ConvexPolygon(polygon)
  PROVE  /\ WithinEdges(p, polygon) => InPolygon(p, polygon)
         /\ InPolygon(p, polygon) => /\ WithinEdges(p, polygon) \/ OnBorder(p, polygon)
                                     /\ Between(p, polygon, 1) /\ Between(p, polygon, 2)
<1>1. PICK n \in Nat : n = Len(polygon) /\ n >= 3
  BY FromTypes
<1>2. PICK o \in Int : (o = 1 \/ o = -1) /\ Turns(polygon, o)
  BY DEF ConvexPolygon
<1>3. PICK x : x = From(p, polygon, 1)
  OBVIOUS
<1>4. PICK y : y = From(p, polygon, 2)
  OBVIOUS
<1>5. x \in [1 .. n -> Int] /\ y \in [1 .. n -> Int]
  BY <1>1, <1>3, <1>4, FromTypes
<1>6. Around(x, y, 1 .. n, Round(n), o)
  BY <1>1, <1>2, <1>3, <1>4, ConvexAround
<1>7. OddMeansInside(x, y, 1 .. n, Round(n), o)
  BY <1>1, <1>2, <1>5, <1>6, OddInside DEF Round
<1>8. InPolygon(p, polygon) <=> Cardinality(Crossed(x, y, 1 .. n, Round(n))) % 2 = 1
  BY <1>1, <1>3, <1>4, CrossedFrom
<1> DEFINE side(i) == Side(polygon[i], polygon[After(i, n)], p)
           turn(i) == Turn(x, y, Round(n)[i], i)
<1>9. /\ \A i \in 1 .. n : turn(i) \in Int
      /\ \A i \in 1 .. n : After(i, n) \in 1 .. n /\ side(i) = turn(After(i, n))
      /\ \A i \in 1 .. n : Before(i, n) \in 1 .. n /\ turn(i) = side(Before(i, n))
  <2>1. \A i \in 1 .. n : Round(n)[i] = Before(i, n) /\ Before(i, n) \in 1 .. n
    BY <1>1, AfterBefore DEF Round
  <2>2. ASSUME NEW i \in 1 .. n PROVE turn(i) \in Int
    <3>1. Round(n)[i] \in 1 .. n
      BY <2>1
    <3> QED BY <1>5, <3>1, TurnTypes
  <2>3. \A i, j \in 1 .. n : Side(polygon[i], polygon[j], p) = Turn(x, y, i, j)
    BY <1>1, <1>3, <1>4, SidesFrom
  <2>4. ASSUME NEW i \in 1 .. n
        PROVE  After(i, n) \in 1 .. n /\ side(i) = turn(After(i, n))
    <3>1. After(i, n) \in 1 .. n /\ Before(After(i, n), n) = i
      BY <1>1, AfterBefore
    <3>2. Round(n)[After(i, n)] = i
      BY <2>1, <3>1
    <3> QED BY <2>3, <3>1, <3>2
  <2>5. ASSUME NEW i \in 1 .. n
        PROVE  Before(i, n) \in 1 .. n /\ turn(i) = side(Before(i, n))
    <3>1. Before(i, n) \in 1 .. n /\ After(Before(i, n), n) = i
      BY <1>1, AfterBefore
    <3>2. Round(n)[i] = Before(i, n)
      BY <2>1
    <3> QED BY <2>3, <3>1, <3>2
  <2> QED BY <2>2, <2>4, <2>5
<1>10. WithinEdges(p, polygon) <=>
         (\A i \in 1 .. n : side(i) > 0) \/ (\A i \in 1 .. n : side(i) < 0)
  BY <1>1 DEF WithinEdges
<1>11. OnBorder(p, polygon) <=>
         /\ (\A i \in 1 .. n : side(i) >= 0) \/ (\A i \in 1 .. n : side(i) <= 0)
         /\ \E i \in 1 .. n : side(i) = 0
  BY <1>1 DEF OnBorder
<1>12. /\ (\A i \in 1 .. n : o * turn(i) > 0) => InPolygon(p, polygon)
       /\ ~\A i \in 1 .. n : o * turn(i) < 0
       /\ InPolygon(p, polygon) =>
            /\ \A i \in 1 .. n : o * turn(i) >= 0
            /\ \E a, b, c, e \in 1 .. n :
                 /\ y[a] <= 0 /\ y[b] > 0 /\ y[c] <= 0 /\ y[e] > 0
                 /\ Turn(x, y, a, b) > 0 /\ Turn(x, y, c, e) <= 0
  BY <1>7, <1>8 DEF OddMeansInside
<1> HIDE DEF side, turn
<1>13. ASSUME NEW i \in 1 .. n
       PROVE  /\ turn(i) \in Int
              /\ o = 1 => o * turn(i) = turn(i)
              /\ o = -1 => o * turn(i) = -turn(i)
  <2>1. PICK t \in Int : t = turn(i)
    BY <1>9
  <2> QED BY <2>1
<1>14. ASSUME WithinEdges(p, polygon) PROVE InPolygon(p, polygon)
  <2>1. CASE \A i \in 1 .. n : side(i) > 0
    <3>1. \A i \in 1 .. n : turn(i) > 0
      BY <1>9, <2>1
    <3>2. (\A i \in 1 .. n : o * turn(i) > 0) \/ (\A i \in 1 .. n : o * turn(i) < 0)
      <4>1. CASE o = 1
        <5>1. ASSUME NEW i \in 1 .. n PROVE o * turn(i) > 0
          BY <1>13, <3>1, <4>1
        <5> QED BY <5>1
      <4>2. CASE o = -1
        <5>1. ASSUME NEW i \in 1 .. n PROVE o * turn(i) < 0
          BY <1>13, <3>1, <4>2
        <5> QED BY <5>1
      <4> QED BY <1>2, <4>1, <4>2
    <3> QED BY <1>12, <3>2
  <2>2. CASE \A i \in 1 .. n : side(i) < 0
    <3>1. \A i \in 1 .. n : turn(i) < 0
      BY <1>9, <2>2
    <3>2. (\A i \in 1 .. n : o * turn(i) > 0) \/ (\A i \in 1 .. n : o * turn(i) < 0)
      <4>1. CASE o = 1
        <5>1. ASSUME NEW i \in 1 .. n PROVE o * turn(i) < 0
          BY <1>13, <3>1, <4>1
        <5> QED BY <5>1
      <4>2. CASE o = -1
        <5>1. ASSUME NEW i \in 1 .. n PROVE o * turn(i) > 0
          BY <1>13, <3>1, <4>2
        <5> QED BY <5>1
      <4> QED BY <1>2, <4>1, <4>2
    <3> QED BY <1>12, <3>2
  <2> QED BY <1>10, <1>14, <2>1, <2>2
<1>15. ASSUME InPolygon(p, polygon) PROVE WithinEdges(p, polygon) \/ OnBorder(p, polygon)
  <2>1. (\A i \in 1 .. n : turn(i) >= 0) \/ (\A i \in 1 .. n : turn(i) <= 0)
    <3>1. \A i \in 1 .. n : o * turn(i) >= 0
      BY <1>12, <1>15
    <3>2. CASE o = 1
      <4>1. ASSUME NEW i \in 1 .. n PROVE turn(i) >= 0
        BY <1>13, <3>1, <3>2
      <4> QED BY <4>1
    <3>3. CASE o = -1
      <4>1. ASSUME NEW i \in 1 .. n PROVE turn(i) <= 0
        BY <1>13, <3>1, <3>3
      <4> QED BY <4>1
    <3> QED BY <1>2, <3>2, <3>3
  <2>2. (\A i \in 1 .. n : side(i) >= 0) \/ (\A i \in 1 .. n : side(i) <= 0)
    BY <1>9, <2>1
  <2>3. \A i \in 1 .. n : side(i) \in Int
    BY <1>9
  <2> QED BY <1>10, <1>11, <2>2, <2>3
<1>16. ASSUME InPolygon(p, polygon) PROVE Between(p, polygon, 1) /\ Between(p, polygon, 2)
  <2>1. PICK a \in 1 .. n, b \in 1 .. n, c \in 1 .. n, e \in 1 .. n :
          /\ y[a] <= 0 /\ y[b] > 0 /\ y[c] <= 0 /\ y[e] > 0
          /\ Turn(x, y, a, b) > 0 /\ Turn(x, y, c, e) <= 0
    BY <1>12, <1>16
  <2>2. \A i \in 1 .. n : /\ polygon[i][1] \in Int /\ polygon[i][2] \in Int
                          /\ x[i] = polygon[i][1] - p[1] /\ y[i] = polygon[i][2] - p[2]
    BY <1>1, <1>3, <1>4, FromTypes
  <2>3. p[1] \in Int /\ p[2] \in Int
    BY FromTypes
  <2>4. x[a] > 0 \/ x[b] > 0
    <3>1. x[a] * y[b] - y[a] * x[b] > 0
      BY <2>1 DEF Turn
    <3>2. x[a] \in Int /\ x[b] \in Int /\ y[a] \in Int /\ y[b] \in Int
      BY <1>5
    <3> QED BY <2>1, <3>1, <3>2, SomeRight
  <2>5. x[c] <= 0 \/ x[e] <= 0
    <3>1. x[c] * y[e] - y[c] * x[e] <= 0
      BY <2>1 DEF Turn
    <3>2. x[c] \in Int /\ x[e] \in Int /\ y[c] \in Int /\ y[e] \in Int
      BY <1>5
    <3> QED BY <2>1, <3>1, <3>2, SomeRight
  <2>6. PICK i \in 1 .. n, j \in 1 .. n : x[i] <= 0 /\ x[j] > 0
    BY <2>4, <2>5
  <2>7. polygon[i][1] <= p[1] /\ p[1] < polygon[j][1]
    BY <2>2, <2>3, <2>6
  <2>8. polygon[a][2] <= p[2] /\ p[2] < polygon[b][2]
    BY <2>1, <2>2, <2>3
  <2> QED BY <1>1, <2>7, <2>8 DEF Between
<1> QED BY <1>14, <1>15, <1>16

-----------------------------------------------------------------------------
(* The box around a polygon.                                               *)

(* Least and Greatest coordinate of the vertices.                          *)
LEMMA Extent ==
  ASSUME NEW polygon \in Seq(Points), Len(polygon) >= 3, NEW k \in {1, 2},
         NEW at, at = {polygon[i][k] : i \in 1 .. Len(polygon)}
  PROVE  /\ Least(at) \in Int /\ Greatest(at) \in Int
         /\ \A i \in 1 .. Len(polygon) :
              Least(at) <= polygon[i][k] /\ polygon[i][k] <= Greatest(at)
<1>1. PICK n \in Nat : n = Len(polygon) /\ n > 0
  OBVIOUS
<1>2. \A i \in 1 .. n : polygon[i][1] \in Int /\ polygon[i][2] \in Int
  BY <1>1 DEF Points
<1>3. PICK z \in [1 .. n -> Int] : \A i \in 1 .. n : z[i] = polygon[i][k]
  <2> DEFINE f == [i \in 1 .. n |-> polygon[i][k]]
  <2>1. f \in [1 .. n -> Int]
    BY <1>2
  <2> QED BY <2>1
<1>4. at = {z[i] : i \in 1 .. n}
  <2>1. at = {polygon[i][k] : i \in 1 .. n}
    BY <1>1
  <2>2. \A m : m \in at <=> \E i \in 1 .. n : m = polygon[i][k]
    BY <2>1
  <2>3. ASSUME NEW m, m \in at PROVE m \in {z[i] : i \in 1 .. n}
    <3>1. PICK i \in 1 .. n : m = polygon[i][k]
      BY <2>2, <2>3
    <3>2. m = z[i]
      BY <1>3, <3>1, Zenon
    <3> QED BY <3>2
  <2>4. ASSUME NEW i \in 1 .. n PROVE z[i] \in at
    BY <1>3, <2>2, Zenon
  <2> QED BY <2>3, <2>4
<1>5. PICK low \in 1 .. n : \A i \in 1 .. n : z[low] <= z[i]
  BY <1>1, LowestOf
<1>6. PICK high \in 1 .. n : \A i \in 1 .. n : z[high] >= z[i]
  BY <1>1, HighestOf
<1>7. at \subseteq Int
  BY <1>4
<1>8. Least(at) \in at /\ \A m \in at : Least(at) <= m
  <2>1. \E l \in at : \A m \in at : l <= m
    BY <1>4, <1>5
  <2> QED BY <2>1 DEF Least
<1>9. Greatest(at) \in at /\ \A m \in at : Greatest(at) >= m
  <2>1. \E l \in at : \A m \in at : l >= m
    BY <1>4, <1>6
  <2> QED BY <2>1 DEF Greatest
<1>10. \A i \in 1 .. n : z[i] \in at /\ z[i] \in Int
  BY <1>4
<1>11. ASSUME NEW i \in 1 .. n
       PROVE  Least(at) <= polygon[i][k] /\ polygon[i][k] <= Greatest(at)
  <2>1. Least(at) <= z[i] /\ Greatest(at) >= z[i] /\ z[i] \in Int
    BY <1>8, <1>9, <1>10
  <2>2. Greatest(at) \in Int
    BY <1>7, <1>9
  <2> QED BY <1>3, <2>1, <2>2
<1> QED BY <1>1, <1>7, <1>8, <1>9, <1>11

(* One coordinate of a cell whose centre is between low and high.          *)
LEMMA CellBetween ==
  ASSUME NEW s \in Nat \ {0}, NEW h \in Nat, h < s, NEW o \in Int,
         NEW last \in Nat, NEW c \in 0 .. last, NEW low \in Int, NEW high \in Int,
         low <= o + c * s + h, o + c * s + h <= high
  PROVE  c \in Clamp((low - o) \div s, last) .. Clamp((high - o) \div s, last)
<1>1. PICK d \in Int, e \in Int : d = (low - o) \div s /\ e = (high - o) \div s
  BY RoundedDown
<1>2. s * d <= low - o /\ high - o < s * e + s
  BY <1>1, RoundedDown
<1>3. d <= c
  <2>1. SUFFICES ASSUME d > c PROVE FALSE
    OBVIOUS
  <2>2. s * (d - c - 1) >= 0
    BY <2>1, SignOfProduct
  <2>3. s * (d - c - 1) = s * d - c * s - s /\ s * d \in Int /\ c * s \in Int
    OBVIOUS
  <2> QED BY <1>2, <2>2, <2>3
<1>4. c <= e
  <2>1. SUFFICES ASSUME c > e PROVE FALSE
    OBVIOUS
  <2>2. s * (c - e - 1) >= 0
    BY <2>1, SignOfProduct
  <2>3. s * (c - e - 1) = c * s - s * e - s /\ s * e \in Int /\ c * s \in Int
    OBVIOUS
  <2> QED BY <1>2, <2>2, <2>3
<1>5. c \in Clamp(d, last) .. Clamp(e, last)
  BY <1>3, <1>4 DEF Clamp
<1> QED BY <1>1, <1>5

(* A point is not farther along one axis than in the plane.                *)
LEMMA WithinRadius ==
  ASSUME NEW a \in Int, NEW b \in Int, NEW r \in Nat, a * a + b * b <= r * r
  PROVE  -r <= a /\ a <= r
<1>1. \A z \in Int : z * z >= 0
  OBVIOUS
<1>2. (a - r) * (a + r) <= 0
  <2>1. (a - r) * (a + r) = a * a - r * r /\ b * b >= 0
    BY <1>1
  <2>2. a * a \in Int /\ b * b \in Int /\ r * r \in Int
    OBVIOUS
  <2> QED BY <2>1, <2>2
<1>3. a > r => (a - r) * (a + r) > 0
  BY SignOfProduct
<1>4. a < -r => (r - a) * (-(a + r)) > 0
  BY SignOfProduct
<1>5. (r - a) * (-(a + r)) = (a - r) * (a + r)
  OBVIOUS
<1> QED BY <1>2, <1>3, <1>4, <1>5

(* The centre of a cell is a point.                                        *)
LEMMA CenterTyped ==
  ASSUME NEW c \in GridCell
  PROVE  Center(c) \in Points
<1>1. c[1] \in Int /\ c[2] \in Int /\ OriginX \in Int /\ OriginY \in Int /\ Scale \in Int
      /\ Scale \div 2 \in Int
  BY GridAssumption DEF GridCell
<1>2. c[1] * Scale \in Int /\ c[2] * Scale \in Int
  BY <1>1
<1> QED BY <1>1, <1>2 DEF Center, Points

(* The cells of a region lie on the grid, and none is missed for the box.  *)
LEMMA BoxHolds ==
  ASSUME NEW polygon \in Seq(Points), Len(polygon) >= 3
  PROVE  /\ Box(polygon) \subseteq GridCell
         /\ \A c \in GridCell :
              \/ Between(Center(c), polygon, 1) /\ Between(Center(c), polygon, 2)
              \/ NearVertex(Center(c), polygon)
              => c \in Box(polygon)
<1> DEFINE at(k) == {polygon[i][k] : i \in 1 .. Len(polygon)}
<1>1. PICK l1 \in Int, g1 \in Int, l2 \in Int, g2 \in Int :
        /\ l1 = Least(at(1)) /\ g1 = Greatest(at(1)) /\ l2 = Least(at(2)) /\ g2 = Greatest(at(2))
        /\ \A i \in 1 .. Len(polygon) : /\ l1 <= polygon[i][1] /\ polygon[i][1] <= g1
                                        /\ l2 <= polygon[i][2] /\ polygon[i][2] <= g2
  <2>1. \A k \in {1, 2} : /\ Least(at(k)) \in Int /\ Greatest(at(k)) \in Int
                          /\ \A i \in 1 .. Len(polygon) :
                               Least(at(k)) <= polygon[i][k] /\ polygon[i][k] <= Greatest(at(k))
    BY Extent
  <2> HIDE DEF at
  <2> QED BY <2>1
<1>2. PICK lastX \in Nat, lastY \in Nat : lastX = Width - 1 /\ lastY = Height - 1
  BY GridAssumption
<1>3. PICK h \in Nat : h = Scale \div 2 /\ h < Scale
  BY GridAssumption
<1>4. Scale \in Nat \ {0} /\ OriginX \in Int /\ OriginY \in Int /\ Radius \in Nat
  BY GridAssumption
<1>5. /\ (l1 - Radius) - OriginX \in Int /\ (l2 - Radius) - OriginY \in Int
      /\ (g1 + Radius) - OriginX \in Int /\ (g2 + Radius) - OriginY \in Int
  BY <1>4
<1>6. PICK x1, x2, y1, y2 :
        /\ x1 = Clamp(((l1 - Radius) - OriginX) \div Scale, lastX)
        /\ x2 = Clamp(((g1 + Radius) - OriginX) \div Scale, lastX)
        /\ y1 = Clamp(((l2 - Radius) - OriginY) \div Scale, lastY)
        /\ y2 = Clamp(((g2 + Radius) - OriginY) \div Scale, lastY)
  OBVIOUS
<1>7. Box(polygon) = (x1 .. x2) \X (y1 .. y2)
  <2>1. ClampedCell(<<Least(at(1)) - Radius, Least(at(2)) - Radius>>) = <<x1, y1>>
    <3>1. WorldToCell(<<l1 - Radius, l2 - Radius>>)
            = <<((l1 - Radius) - OriginX) \div Scale, ((l2 - Radius) - OriginY) \div Scale>>
      BY Zenon DEF WorldToCell
    <3> QED BY <1>1, <1>2, <1>6, <3>1 DEF ClampedCell
  <2>2. ClampedCell(<<Greatest(at(1)) + Radius, Greatest(at(2)) + Radius>>) = <<x2, y2>>
    <3>1. WorldToCell(<<g1 + Radius, g2 + Radius>>)
            = <<((g1 + Radius) - OriginX) \div Scale, ((g2 + Radius) - OriginY) \div Scale>>
      BY Zenon DEF WorldToCell
    <3> QED BY <1>1, <1>2, <1>6, <3>1 DEF ClampedCell
  <2>3. PICK low, high :
          /\ low = ClampedCell(<<Least(at(1)) - Radius, Least(at(2)) - Radius>>)
          /\ high = ClampedCell(<<Greatest(at(1)) + Radius, Greatest(at(2)) + Radius>>)
    OBVIOUS
  <2>4. Box(polygon) = (low[1] .. high[1]) \X (low[2] .. high[2])
    BY <2>3, Zenon DEF Box
  <2>5. low = <<x1, y1>> /\ high = <<x2, y2>>
    BY <2>1, <2>2, <2>3, Zenon
  <2> HIDE DEF at
  <2> QED BY <2>4, <2>5
<1>8. x1 \in 0 .. lastX /\ x2 \in 0 .. lastX /\ y1 \in 0 .. lastY /\ y2 \in 0 .. lastY
  <2>1. \A n \in Int, last \in Nat : Clamp(n, last) \in 0 .. last
    BY DEF Clamp
  <2>2. \A n \in Int : n \div Scale \in Int
    BY <1>4, RoundedDown
  <2> QED BY <1>5, <1>6, <2>1, <2>2
<1>9. Box(polygon) \subseteq GridCell
  BY <1>2, <1>7, <1>8 DEF GridCell
<1>10. ASSUME NEW c \in GridCell, NEW p \in Points, p = Center(c),
              l1 - Radius <= p[1], p[1] <= g1 + Radius,
              l2 - Radius <= p[2], p[2] <= g2 + Radius
       PROVE  c \in Box(polygon)
  <2>1. PICK i \in 0 .. lastX, j \in 0 .. lastY : c = <<i, j>>
    BY <1>2 DEF GridCell
  <2>2. p[1] = OriginX + i * Scale + h /\ p[2] = OriginY + j * Scale + h
    BY <1>3, <1>10, <2>1 DEF Center
  <2>3. i \in x1 .. x2
    <3>1. PICK low \in Int, high \in Int : low = l1 - Radius /\ high = g1 + Radius
      BY <1>4
    <3>2. low <= OriginX + i * Scale + h /\ OriginX + i * Scale + h <= high
      BY <1>10, <2>2, <3>1, Zenon
    <3>3. i \in Clamp((low - OriginX) \div Scale, lastX)
                 .. Clamp((high - OriginX) \div Scale, lastX)
      BY <1>3, <1>4, <3>2, CellBetween
    <3> QED BY <1>6, <3>1, <3>3, Zenon
  <2>4. j \in y1 .. y2
    <3>1. PICK low \in Int, high \in Int : low = l2 - Radius /\ high = g2 + Radius
      BY <1>4
    <3>2. low <= OriginY + j * Scale + h /\ OriginY + j * Scale + h <= high
      BY <1>10, <2>2, <3>1, Zenon
    <3>3. j \in Clamp((low - OriginY) \div Scale, lastY)
                 .. Clamp((high - OriginY) \div Scale, lastY)
      BY <1>3, <1>4, <3>2, CellBetween
    <3> QED BY <1>6, <3>1, <3>3, Zenon
  <2> QED BY <1>7, <2>1, <2>3, <2>4
<1>11. ASSUME NEW c \in GridCell,
              Between(Center(c), polygon, 1), Between(Center(c), polygon, 2)
       PROVE  c \in Box(polygon)
  <2>1. PICK p \in Points : p = Center(c) /\ p[1] \in Int /\ p[2] \in Int
    BY CenterTyped DEF Points
  <2>2. \A i \in 1 .. Len(polygon) : polygon[i][1] \in Int /\ polygon[i][2] \in Int
    BY DEF Points
  <2>3. PICK i \in 1 .. Len(polygon), j \in 1 .. Len(polygon) :
          polygon[i][1] <= p[1] /\ p[1] < polygon[j][1]
    BY <1>11, <2>1 DEF Between
  <2>4. PICK k \in 1 .. Len(polygon), m \in 1 .. Len(polygon) :
          polygon[k][2] <= p[2] /\ p[2] < polygon[m][2]
    BY <1>11, <2>1 DEF Between
  <2>5. /\ l1 - Radius <= p[1] /\ p[1] <= g1 + Radius
        /\ l2 - Radius <= p[2] /\ p[2] <= g2 + Radius
    <3>1. l1 <= polygon[i][1] /\ polygon[j][1] <= g1 /\ l2 <= polygon[k][2] /\ polygon[m][2] <= g2
      BY <1>1
    <3>2. /\ polygon[i][1] \in Int /\ polygon[j][1] \in Int
          /\ polygon[k][2] \in Int /\ polygon[m][2] \in Int
      BY <2>2
    <3>3. PICK a \in Int, b \in Int, r \in Nat : a = p[1] /\ b = p[2] /\ r = Radius
      BY <1>4, <2>1
    <3>4. l1 <= a /\ a <= g1 /\ l2 <= b /\ b <= g2
      <4>1. PICK q \in Int, s \in Int, t \in Int, u \in Int :
              /\ q = polygon[i][1] /\ s = polygon[j][1]
              /\ t = polygon[k][2] /\ u = polygon[m][2]
        BY <3>2
      <4>2. /\ l1 <= q /\ q <= a /\ a < s /\ s <= g1
            /\ l2 <= t /\ t <= b /\ b < u /\ u <= g2
        BY <2>3, <2>4, <3>1, <3>3, <4>1, Zenon
      <4> QED BY <4>2
    <3>5. l1 - r <= a /\ a <= g1 + r /\ l2 - r <= b /\ b <= g2 + r
      BY <3>4
    <3> QED BY <3>3, <3>5, Zenon
  <2> QED BY <1>10, <2>1, <2>5
<1>12. ASSUME NEW c \in GridCell, NearVertex(Center(c), polygon)
       PROVE  c \in Box(polygon)
  <2>1. PICK p \in Points : p = Center(c) /\ p[1] \in Int /\ p[2] \in Int
    BY CenterTyped DEF Points
  <2>2. PICK i \in 1 .. Len(polygon) : SquaredDistance(p, polygon[i]) <= Radius * Radius
    BY <1>12, <2>1 DEF NearVertex
  <2>3. PICK v \in Int, w \in Int : v = polygon[i][1] /\ w = polygon[i][2]
    <3>1. polygon[i][1] \in Int /\ polygon[i][2] \in Int
      BY DEF Points
    <3> QED BY <3>1
  <2>4. (p[1] - v) * (p[1] - v) + (p[2] - w) * (p[2] - w) <= Radius * Radius
    BY <2>2, <2>3, Zenon DEF SquaredDistance
  <2>5. PICK a \in Int, b \in Int : a = p[1] - v /\ b = p[2] - w
    BY <2>1
  <2>6. a * a + b * b <= Radius * Radius
    BY <2>4, <2>5, Zenon
  <2>7. b * b + a * a <= Radius * Radius
    <3>1. a * a \in Int /\ b * b \in Int
      OBVIOUS
    <3>2. a * a + b * b = b * b + a * a
      BY <3>1
    <3> QED BY <2>6, <3>2, Zenon
  <2>8. -Radius <= a /\ a <= Radius /\ -Radius <= b /\ b <= Radius
    BY <1>4, <2>6, <2>7, WithinRadius
  <2>9. l1 <= v /\ v <= g1 /\ l2 <= w /\ w <= g2
    BY <1>1, <2>3
  <2>10. /\ l1 - Radius <= p[1] /\ p[1] <= g1 + Radius
         /\ l2 - Radius <= p[2] /\ p[2] <= g2 + Radius
    <3>1. PICK e \in Int, f \in Int, r \in Nat : e = p[1] /\ f = p[2] /\ r = Radius
      BY <1>4, <2>1
    <3>2. a = e - v /\ b = f - w /\ -r <= a /\ a <= r /\ -r <= b /\ b <= r
      BY <2>5, <2>8, <3>1, Zenon
    <3>3. l1 - r <= e /\ e <= g1 + r /\ l2 - r <= f /\ f <= g2 + r
      BY <2>9, <3>2
    <3> QED BY <3>1, <3>3, Zenon
  <2> QED BY <1>10, <2>1, <2>10
<1> QED BY <1>9, <1>11, <1>12

-----------------------------------------------------------------------------
(* The masks.                                                              *)

(* The cells of a region are those of its polygon, but for centres on an   *)
(* edge.                                                                   *)
LEMMA RegionFilled ==
  ASSUME NEW polygon \in Polygon, Len(polygon) > 2 => ConvexPolygon(polygon)
  PROVE  /\ CellsGrown[polygon] \subseteq RegionCells(polygon)
         /\ \A c \in RegionCells(polygon) \ CellsGrown[polygon] :
              Len(polygon) > 2 /\ OnBorder(Center(c), polygon)
<1>1. polygon \in Seq(Points) /\ Len(polygon) \in Nat
  BY ScanAssumption DEF Points
<1>2. \A c : c \in CellsGrown[polygon] <=>
               /\ c \in GridCell /\ Len(polygon) > 2
               /\ WithinEdges(Center(c), polygon) \/ NearVertex(Center(c), polygon)
  BY DEF CellsGrown, CellsWithin
<1>3. CASE Len(polygon) < 3
  <2>1. RegionCells(polygon) = {}
    BY <1>3 DEF RegionCells
  <2> QED BY <1>1, <1>2, <1>3, <2>1
<1>4. CASE ~(Len(polygon) < 3)
  <2>1. Len(polygon) >= 3 /\ Len(polygon) > 2 /\ ConvexPolygon(polygon)
    BY <1>1, <1>4
  <2>2. \A c : c \in RegionCells(polygon) <=>
                 /\ c \in Box(polygon)
                 /\ InPolygon(Center(c), polygon) \/ NearVertex(Center(c), polygon)
    BY <1>4 DEF RegionCells
  <2>3. ASSUME NEW c \in GridCell
        PROVE  /\ WithinEdges(Center(c), polygon) => InPolygon(Center(c), polygon)
               /\ InPolygon(Center(c), polygon) =>
                    /\ WithinEdges(Center(c), polygon) \/ OnBorder(Center(c), polygon)
                    /\ Between(Center(c), polygon, 1) /\ Between(Center(c), polygon, 2)
    <3>1. Center(c) \in Points
      BY CenterTyped
    <3> QED BY <1>1, <2>1, <3>1, ConvexFilled
  <2>4. /\ Box(polygon) \subseteq GridCell
        /\ \A c \in GridCell :
             \/ Between(Center(c), polygon, 1) /\ Between(Center(c), polygon, 2)
             \/ NearVertex(Center(c), polygon)
             => c \in Box(polygon)
    BY <1>1, <2>1, BoxHolds
  <2>5. ASSUME NEW c \in CellsGrown[polygon] PROVE c \in RegionCells(polygon)
    BY <1>2, <2>2, <2>3, <2>4
  <2>6. ASSUME NEW c \in RegionCells(polygon) \ CellsGrown[polygon]
        PROVE  OnBorder(Center(c), polygon)
    BY <1>2, <2>1, <2>2, <2>3, <2>4
  <2> QED BY <2>1, <2>5, <2>6
<1> QED BY <1>3, <1>4

(* The mask is the one of the region and the map at hand.                  *)
MaskInv ==
  /\ raw # NoMap => raw \in RawMap
  /\ latestRegions # NoRegions => \E polygon \in Polygon : latestRegions = {RegionOf[polygon]}
  /\ raw # NoMap /\ latestRegions # NoRegions /\ raw.geometry \notin Degenerate
       => candidate = DynamicMask(latestRegions, raw.geometry)

(* At the start there is neither a map nor a region.                       *)
LEMMA MaskStart == ScanInit => MaskInv
BY DEF ScanInit, Init, MaskInv

(* With the transforms known, every handler keeps the mask at hand.        *)
LEMMA MaskStep ==
  ASSUME TransformsMayFail = FALSE, MaskInv, [ScanNext]_scanVars
  PROVE  MaskInv'
<1>1. CASE UNCHANGED <<raw, latestRegions, candidate>>
  BY <1>1 DEF MaskInv, DynamicMask, Footprints
<1>2. CASE ReceiveMap
  <2>1. PICK map \in RawMap, dynOk \in Transformed(latestRegions) :
          \E travOk : OnRawMap(map, dynOk, travOk)
    BY <1>2 DEF ReceiveMap
  <2>2. latestRegions' = latestRegions /\ raw' = map /\ map # NoMap
    BY <2>1, MessageAssumption DEF OnRawMap, NewGeometry, SameGeometry
  <2>3. ASSUME latestRegions # NoRegions, map.geometry \notin Degenerate
        PROVE  candidate' = DynamicMask(latestRegions, map.geometry)
    <3>1. dynOk = latestRegions
      BY <2>1, <2>3 DEF Transformed
    <3>2. CASE GeometryChanged(map)
      BY <2>1, <2>3, <3>1, <3>2 DEF OnRawMap, NewGeometry
    <3>3. CASE ~GeometryChanged(map)
      <4>1. raw # NoMap /\ raw.geometry = map.geometry
        BY <3>3 DEF GeometryChanged
      <4>2. candidate' = candidate
        BY <2>1, <3>3 DEF OnRawMap, SameGeometry, masks
      <4> QED BY <2>3, <4>1, <4>2 DEF MaskInv
    <3> QED BY <3>2, <3>3
  <2> QED BY <2>2, <2>3 DEF MaskInv, DynamicMask, Footprints
<1>3. ASSUME NEW polygon \in Polygon, ReceiveRegion(polygon) PROVE MaskInv'
  <2>1. /\ latestRegions' = {RegionOf[polygon]} /\ raw' = raw
        /\ raw # NoMap => RebuildMasks({RegionOf[polygon]}, {})
    BY <1>3 DEF ReceiveRegion, OnSemanticRegions
  <2>2. raw # NoMap /\ raw.geometry \notin Degenerate
          => candidate' = DynamicMask({RegionOf[polygon]}, raw.geometry)
    BY <2>1 DEF RebuildMasks
  <2> QED BY <2>1, <2>2 DEF MaskInv, DynamicMask, Footprints
<1>4. CASE (\E pose \in Pose : BeginScan(pose)) \/ (\E point \in Target : BeginRay(point))
             \/ VisitCell \/ EndScan \/ UNCHANGED scanVars
  BY <1>1, <1>4 DEF BeginScan, BeginRay, VisitCell, EndScan, scanVars, vars, inputs, masks
<1> QED BY <1>2, <1>3, <1>4 DEF ScanNext


(* The mask of one region is the cells of its polygon.                     *)
LEMMA MaskOfPolygon ==
  ASSUME MaskInv, "person" \in DynamicLabels, NEW polygon \in Polygon,
         raw # NoMap, latestRegions = {RegionOf[polygon]}, raw.geometry \notin Degenerate
  PROVE  candidate = RegionCells(polygon)
<1>1. RegionOf[polygon] \in Region
  BY RegionAssumption
<1>2. latestRegions # NoRegions
  BY <1>1, MessageAssumption
<1>3. raw.geometry \in Geometry
  BY MessageAssumption DEF MaskInv, MapMessage
<1>4. candidate = DynamicMask({RegionOf[polygon]}, raw.geometry)
  BY <1>2 DEF MaskInv
<1>5. /\ RegionOf[polygon].label = "person"
      /\ RegionOf[polygon].footprint[raw.geometry] = RegionCells(polygon)
  BY <1>3 DEF RegionOf
<1>6. {r \in {RegionOf[polygon]} : r.label \in DynamicLabels} = {RegionOf[polygon]}
  BY <1>5
<1>7. UNION {r.footprint[raw.geometry] : r \in {RegionOf[polygon]}} = RegionCells(polygon)
  BY <1>5
<1> QED BY <1>4, <1>6, <1>7 DEF DynamicMask, Footprints

(* The mask lacks no cell whose centre is within a convex polygon or near  *)
(* a vertex, and has no other cells but those with a centre on an edge.    *)
MaskCoversPolygon ==
  \A polygon \in Polygon :
    OnlyRegion(polygon)
      => /\ CellsGrown[polygon] \subseteq candidate
         /\ \A c \in candidate \ CellsGrown[polygon] : OnBorder(Center(c), polygon)

(* The masks of fillRegionCellsLocked on a map of any size, for convex     *)
(* polygons of any position and size: the clamped box and the crossing     *)
(* rule decide only on the cells whose centre is on an edge.               *)
THEOREM MasksCoverPolygons ==
  ASSUME TransformsMayFail = FALSE, "person" \in DynamicLabels,
         \A polygon \in Polygon : Len(polygon) > 2 => ConvexPolygon(polygon)
  PROVE  ScanSpec => []MaskCoversPolygon
<1>1. MaskInv /\ [ScanNext]_scanVars => MaskInv'
  BY MaskStep
<1>2. MaskInv => MaskCoversPolygon
  BY MaskOfPolygon, RegionFilled DEF MaskCoversPolygon, OnlyRegion
<1> QED BY <1>1, <1>2, MaskStart, PTL DEF ScanSpec

(* With no centre on an edge, the masks are exactly the polygons, grown at *)
(* their vertices by the confidence radius.                                *)
THEOREM MasksAreGrownPolygons ==
  ASSUME TransformsMayFail = FALSE, "person" \in DynamicLabels,
         \A polygon \in Polygon : Len(polygon) > 2 =>
           ConvexPolygon(polygon) /\ \A c \in GridCell : ~OnBorder(Center(c), polygon)
  PROVE  ScanSpec => []MaskIsGrownPolygon
<1>1. MaskInv /\ [ScanNext]_scanVars => MaskInv'
  BY MaskStep
<1>2. ASSUME NEW polygon \in Polygon PROVE RegionCells(polygon) = CellsGrown[polygon]
  <2>1. RegionCells(polygon) \subseteq GridCell
    <3>1. polygon \in Seq(Points)
      BY ScanAssumption DEF Points
    <3>2. CASE Len(polygon) < 3
      BY <3>2 DEF RegionCells
    <3>3. CASE ~(Len(polygon) < 3)
      <4>1. Box(polygon) \subseteq GridCell
        BY <3>1, <3>3, BoxHolds
      <4> QED BY <3>3, <4>1 DEF RegionCells
    <3> QED BY <3>2, <3>3
  <2> QED BY <2>1, RegionFilled
<1>3. MaskInv => MaskIsGrownPolygon
  BY <1>2, MaskOfPolygon DEF MaskIsGrownPolygon, OnlyRegion
<1> QED BY <1>1, <1>3, MaskStart, PTL DEF ScanSpec

=============================================================================
