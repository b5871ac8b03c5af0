------------------------------ MODULE Numbers -------------------------------
(***************************************************************************)
(* Facts about numbers: remainders, for the proofs about sequence numbers, *)
(* timestamps and sizes of a limited width, and the greatest and the least *)
(* of finitely many, for those about times and figures.                    *)
(***************************************************************************)
EXTENDS Integers, FiniteSetsExt, FiniteSetTheorems, WellFoundedInduction, TLAPS

(* A positive multiple of a number is not below it. *)
LEMMA PositiveMultiple ==
    ASSUME NEW m \in Nat \ {0}, NEW n \in Int, n >= 1
    PROVE  m * n >= m
BY Z3

(* The quotient and the remainder are determined. *)
LEMMA ModuloUnique ==
    ASSUME NEW m \in Nat \ {0}, NEW a \in Int, NEW q \in Int, NEW r \in 0 .. m - 1,
           a = m * q + r
    PROVE  a % m = r
<1> DEFINE Q == a \div m
           R == a % m
<1>1. a = m * Q + R /\ R \in 0 .. m - 1 /\ Q \in Int
  BY Z3
<1>2. m * (q - Q) = R - r /\ m * (Q - q) = r - R
  BY <1>1, Z3
<1>3. ~(q - Q >= 1)
  BY <1>1, <1>2, PositiveMultiple
<1>4. ~(Q - q >= 1)
  BY <1>1, <1>2, PositiveMultiple
<1>5. QED
  BY <1>1, <1>3, <1>4

(* Quotient and remainder exist. *)
LEMMA DivisionWithRemainder ==
    ASSUME NEW a \in Int, NEW m \in Nat \ {0}
    PROVE  \E q \in Int : \E r \in 0 .. m - 1 : a = m * q + r /\ a % m = r
<1>1. a = m * (a \div m) + (a % m) /\ a % m \in 0 .. m - 1 /\ a \div m \in Int
  BY Z3
<1>2. QED
  BY <1>1

(* A multiple leaves nothing. *)
LEMMA MultipleModulo ==
    ASSUME NEW m \in Nat \ {0}, NEW a \in Int, NEW q \in Int, a = m * q
    PROVE  a % m = 0
<1>1. PICK r \in 0 .. m - 1 : r = 0 /\ a = m * q + r
  OBVIOUS
<1>2. QED
  BY <1>1, ModuloUnique

(* A sum may be reduced early. *)
LEMMA SumModulo ==
    ASSUME NEW m \in Nat \ {0}, NEW a \in Int, NEW b \in Int
    PROVE  ((a % m) + b) % m = (a + b) % m
<1>1. PICK q \in Int : \E r \in 0 .. m - 1 : a = m * q + r /\ a % m = r
  BY DivisionWithRemainder
<1>2. PICK r \in 0 .. m - 1 : a = m * q + r /\ a % m = r
  BY <1>1
<1>3. PICK c \in Int : c = r + b
  OBVIOUS
<1>4. PICK t \in Int : \E s \in 0 .. m - 1 : c = m * t + s /\ c % m = s
  BY DivisionWithRemainder
<1>5. PICK s \in 0 .. m - 1 : c = m * t + s /\ c % m = s
  BY <1>4
<1>6. PICK n \in Int, d \in Int : n = q + t /\ d = a + b
  OBVIOUS
<1>7. m * n = m * q + m * t
  BY <1>6, Z3
<1>8. d = m * n + s
  BY <1>2, <1>3, <1>5, <1>6, <1>7, Z3
<1>9. d % m = s
  BY <1>8, ModuloUnique
<1>10. QED
  BY <1>2, <1>3, <1>5, <1>6, <1>9, Zenon

(* A successor may be reduced early. *)
LEMMA NextModulo ==
    ASSUME NEW a \in Int, NEW m \in Nat \ {0}
    PROVE  ((a % m) + 1) % m = (a + 1) % m
<1>1. 1 \in Int
  OBVIOUS
<1>2. QED
  BY <1>1, SumModulo

(* Numbers below the modulus are their own remainders. *)
LEMMA SmallModulo ==
    ASSUME NEW m \in Nat \ {0}, NEW a \in 0 .. m - 1
    PROVE  a % m = a
<1>1. PICK q \in Int, r \in 0 .. m - 1 : q = 0 /\ r = a /\ a = m * q + r
  OBVIOUS
<1>2. QED
  BY <1>1, ModuloUnique

(* Adding a multiple does not change the remainder. *)
LEMMA AddMultiple ==
    ASSUME NEW m \in Nat \ {0}, NEW a \in Int, NEW n \in Int
    PROVE  (a + m * n) % m = a % m
<1>1. PICK q \in Int : \E r \in 0 .. m - 1 : a = m * q + r /\ a % m = r
  BY DivisionWithRemainder
<1>2. PICK r \in 0 .. m - 1 : a = m * q + r /\ a % m = r
  BY <1>1
<1>3. PICK t \in Int, c \in Int : t = q + n /\ c = a + m * n
  BY Z3
<1>4. c = m * t + r
  BY <1>2, <1>3, Z3
<1>5. c % m = r
  BY <1>4, ModuloUnique
<1>6. QED
  BY <1>2, <1>3, <1>5, Zenon

(* A difference may be taken of remainders. *)
LEMMA DifferenceModulo ==
    ASSUME NEW m \in Nat \ {0}, NEW a \in Int, NEW b \in Int
    PROVE  ((a % m) - (b % m)) % m = (a - b) % m
<1>1. PICK q \in Int : \E r \in 0 .. m - 1 : b = m * q + r /\ b % m = r
  BY DivisionWithRemainder
<1>2. PICK r \in 0 .. m - 1 : b = m * q + r /\ b % m = r
  BY <1>1
<1>3. PICK p \in 0 .. m - 1 : p = a % m
  BY Z3
<1>4. PICK c \in Int : c = -r
  OBVIOUS
<1>5. (p + c) % m = (a + c) % m
  BY <1>3, <1>4, SumModulo
<1>6. PICK d \in Int : d = a - b
  OBVIOUS
<1>7. a + c = d + m * q
  BY <1>2, <1>4, <1>6, Z3
<1>8. (d + m * q) % m = d % m
  BY <1>6, AddMultiple
<1>9. p + c = p - r
  BY <1>3, <1>4
<1>10. (p - r) % m = d % m
  BY <1>5, <1>7, <1>8, <1>9, Zenon
<1>11. QED
  BY <1>2, <1>3, <1>6, <1>10, Zenon

(* A quotient does not fall when its dividend rises. *)
LEMMA QuotientMonotone ==
    ASSUME NEW m \in Nat \ {0}, NEW a \in Int, NEW b \in Int, a <= b
    PROVE  a \div m <= b \div m
<1>1. PICK q \in Int, t \in Int : q = a \div m /\ t = b \div m
  BY Z3
<1>2. m * q <= a /\ b < m * t + m
  BY <1>1, Z3
<1>3. ~(q - t >= 1)
  <2>1. ASSUME q - t >= 1 PROVE FALSE
    <3>1. m * (q - t) >= m
      BY <1>1, <2>1, PositiveMultiple
    <3>2. m * (q - t) = m * q - m * t
      BY <1>1, Z3
    <3>3. QED
      BY <1>2, <3>1, <3>2, Z3
  <2>2. QED
    BY <2>1
<1>4. QED
  BY <1>1, <1>3

-----------------------------------------------------------------------------
(* The greatest and the least of finitely many numbers.                    *)

Greatest(m, S) == m \in S /\ \A x \in S : m >= x

(* A finite set of times has a latest one. *)
LEMMA FiniteHasGreatest ==
    ASSUME NEW S \in SUBSET Int, IsFiniteSet(S), S # {}
    PROVE  \E m \in S : Greatest(m, S)
<1> DEFINE Without == {A \in FiniteSubsetsOf(S) : A # {} /\ ~ \E m \in A : Greatest(m, A)}
<1>1. SUFFICES ASSUME Without # {} PROVE FALSE
  BY DEF FiniteSubsetsOf
<1>2. PICK A \in Without : \A B \in Without : ~(<<B, A>> \in StrictSubsetOrdering(S))
  <2>1. Without \subseteq FiniteSubsetsOf(S)
    OBVIOUS
  <2>2. QED
    BY <1>1, <2>1, FS_StrictSubsetOrderingWellFounded, WFMin
<1>3. A \in SUBSET S /\ IsFiniteSet(A) /\ A # {}
  BY DEF FiniteSubsetsOf
<1>4. PICK x \in A : x \in Int
  BY <1>3
<1>5. CASE A = {x}
  BY <1>4, <1>5 DEF Greatest
<1>6. CASE A # {x}
  <2> DEFINE B == A \ {x}
  <2>1. B \in SUBSET S /\ B # {} /\ IsFiniteSet(B) /\ B \subseteq A /\ B # A
    BY <1>3, <1>4, <1>6, FS_Subset
  <2>2. <<B, A>> \in StrictSubsetOrdering(S)
    BY <1>3, <2>1 DEF StrictSubsetOrdering
  <2>3. B \notin Without
    BY <1>2, <2>2
  <2>4. PICK m \in B : Greatest(m, B)
    BY <2>1, <2>3 DEF FiniteSubsetsOf
  <2>5. m \in Int /\ \A y \in A : y \in Int /\ (y = x \/ m >= y)
    BY <1>3, <2>1, <2>4 DEF Greatest
  <2>6. Greatest(m, A) \/ Greatest(x, A)
    BY <1>4, <2>1, <2>5 DEF Greatest
  <2>7. QED
    BY <1>4, <2>1, <2>6
<1>7. QED
  BY <1>5, <1>6

LEMMA MaxIsGreatest ==
    ASSUME NEW S \in SUBSET Int, IsFiniteSet(S), S # {}
    PROVE  Max(S) \in S /\ \A x \in S : Max(S) >= x
BY FiniteHasGreatest DEF Max, Greatest

LEMMA FiniteImage ==
    ASSUME NEW S, IsFiniteSet(S), NEW f, DOMAIN f = S, f = [x \in S |-> f[x]]
    PROVE  IsFiniteSet({f[x] : x \in S})
<1> DEFINE T == {f[x] : x \in S}
<1>1. f \in Surjection(S, T)
  BY DEF Surjection
<1>2. QED
  BY <1>1, FS_Surjection

(* And the least. *)
LEMMA MinIsLeast ==
    ASSUME NEW S \in SUBSET Int, IsFiniteSet(S), S # {}
    PROVE  Min(S) \in S /\ \A x \in S : Min(S) <= x
<1> DEFINE T == {-x : x \in S}
<1>1. IsFiniteSet(T)
  <2> DEFINE f == [x \in S |-> -x]
  <2>1. IsFiniteSet({f[x] : x \in S})
    BY FiniteImage
  <2>2. {f[x] : x \in S} = T
    OBVIOUS
  <2>3. QED
    BY <2>1, <2>2
<1>2. PICK m \in T : Greatest(m, T)
  <2>1. PICK x \in S : x \in Int
    OBVIOUS
  <2>2. -x \in T
    BY <2>1
  <2>3. \A y \in S : -y \in Int
    OBVIOUS
  <2>4. T \in SUBSET Int
    BY <2>3
  <2>5. QED
    BY <1>1, <2>2, <2>4, FiniteHasGreatest
<1>3. PICK n \in S : m = -n
  OBVIOUS
<1>4. n \in Int /\ \A x \in S : x \in Int /\ n <= x
  <2>1. \A x \in S : x \in Int /\ -x \in T
    OBVIOUS
  <2>2. \A x \in S : m >= -x
    BY <1>2, <2>1 DEF Greatest
  <2>3. QED
    BY <1>3, <2>1, <2>2
<1>5. QED
  BY <1>3, <1>4 DEF Min

(* A value no element passes may join the set. *)
LEMMA MinWithBound ==
    ASSUME NEW S \in SUBSET Int, IsFiniteSet(S), S # {},
           NEW b \in Int, \A x \in S : x <= b
    PROVE  Min(S \cup {b}) = Min(S)
<1>1. Min(S) \in S /\ \A x \in S : Min(S) <= x
  BY MinIsLeast
<1>2. \A x \in S \cup {b} : x \in Int /\ Min(S) <= x
  BY <1>1
<1>3. PICK m \in S : m = Min(S)
  BY <1>1
<1>4. \A y \in S \cup {b} : (\A x \in S \cup {b} : y <= x) => y = m
  BY <1>2, <1>3
<1>5. m \in S \cup {b} /\ \A x \in S \cup {b} : m <= x
  BY <1>2, <1>3
<1>6. Min(S \cup {b}) = m
  BY <1>4, <1>5 DEF Min
<1>7. QED
  BY <1>3, <1>6

LEMMA MaxWithBound ==
    ASSUME NEW S \in SUBSET Int, IsFiniteSet(S), S # {},
           NEW b \in Int, \A x \in S : x >= b
    PROVE  Max(S \cup {b}) = Max(S)
<1>1. Max(S) \in S /\ \A x \in S : Max(S) >= x
  BY MaxIsGreatest
<1>2. \A x \in S \cup {b} : x \in Int /\ Max(S) >= x
  BY <1>1
<1>3. PICK m \in S : m = Max(S)
  BY <1>1
<1>4. \A y \in S \cup {b} : (\A x \in S \cup {b} : y >= x) => y = m
  BY <1>2, <1>3
<1>5. m \in S \cup {b} /\ \A x \in S \cup {b} : m >= x
  BY <1>2, <1>3
<1>6. Max(S \cup {b}) = m
  BY <1>4, <1>5 DEF Max
<1>7. QED
  BY <1>3, <1>6

=============================================================================
