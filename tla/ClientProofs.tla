---------------------------- MODULE ClientProofs ----------------------------
(***************************************************************************)
(* What a client relies on, for any number of lines, requests, files and   *)
(* changes by others: a connection gives each request the answer to it or  *)
(* is given up, and an upload replaces nothing that its user has not       *)
(* agreed to and counts every file of a directory once.                    *)
(*                                                                         *)
(* At the end the type invariant of all the small components together,     *)
(* which needs the invariants of TablesProofs and StartupProofs too.       *)
(***************************************************************************)
EXTENDS TablesProofs, StartupProofs, SequenceTheorems

-----------------------------------------------------------------------------
(* Numbers                                                                 *)

\* Every set of numbers that is not empty has a least one.
LEMMA LeastNumber == ASSUME NEW S \in SUBSET Nat, S # {} PROVE \E n \in S : \A m \in S : n <= m
<1> DEFINE upTo == {0 .. n : n \in S}
<1>1. upTo \subseteq FiniteSubsetsOf(Nat)
  <2>1. ASSUME NEW n \in S PROVE 0 .. n \in SUBSET Nat /\ IsFiniteSet(0 .. n)
    BY FS_Interval
  <2> QED BY <2>1 DEF FiniteSubsetsOf
<1>2. upTo # {}
  OBVIOUS
<1>3. PICK x \in upTo : \A y \in upTo : <<y, x>> \notin StrictSubsetOrdering(Nat)
  BY <1>1, <1>2, WFMin, FS_StrictSubsetOrderingWellFounded
<1>4. PICK n \in S : x = 0 .. n
  OBVIOUS
<1>5. ASSUME NEW m \in S, m < n PROVE FALSE
  <2>1. 0 .. m \subseteq 0 .. n /\ n \in 0 .. n /\ n \notin 0 .. m
    BY <1>5
  <2>2. <<0 .. m, x>> \in StrictSubsetOrdering(Nat)
    BY <1>4, <2>1 DEF StrictSubsetOrdering
  <2> QED BY <1>3, <2>2
<1> QED BY <1>5

-----------------------------------------------------------------------------
(* Connection: the units on their way                                      *)

LEMMA ConnMoves == ASSUME [MCNext]_MCVars PROVE Conn!Next \/ UNCHANGED connVars
BY DEF MCNext, MCVars, Others

Piece == [of : Nat \ {0}, at : Nat \ {0}, end : BOOLEAN]

\* Lines one after the other, each to its end, up to the n-th; the first may have begun
\* before.
Flow(s, n) ==
  /\ \A i \in DOMAIN s : s[i].of <= n
  /\ \A i, j \in DOMAIN s : i < j => s[i].of <= s[j].of /\ (s[i].end => s[i].of < s[j].of)
  /\ \A i \in DOMAIN s : \E k \in DOMAIN s : i <= k /\ s[k].end /\ s[k].of = s[i].of
  /\ \A i \in DOMAIN s : i + 1 \in DOMAIN s /\ s[i].end => s[i + 1].of = s[i].of + 1
  /\ s # <<>> => s[Len(s)].of = n

\* The line that comes next.
Upcoming(s, n) == IF s = <<>> THEN n + 1 ELSE s[1].of

LEMMA FirstEndIs ==
  ASSUME NEW s \in Seq(Piece)
  PROVE  /\ Conn!FirstEnd(s) \in 0 .. Len(s)
         /\ Conn!FirstEnd(s) # 0 => s[Conn!FirstEnd(s)].end
         /\ \A i \in DOMAIN s : s[i].end => Conn!FirstEnd(s) # 0 /\ Conn!FirstEnd(s) <= i
<1> DEFINE I == {i \in 1 .. Len(s) : s[i].end}
           m == Conn!FirstEnd(s)
<1>1. m = IF I # {} THEN Min(I) ELSE 0
  BY DEF Conn!FirstEnd, Conn!SelectInSeq, Conn!Min, Min
<1>2. Len(s) \in Nat /\ DOMAIN s = 1 .. Len(s)
  OBVIOUS
<1>3. CASE I = {}
  BY <1>1, <1>2, <1>3
<1>4. CASE I # {}
  <2>1. I \in SUBSET Nat
    OBVIOUS
  <2>2. PICK n \in I : \A i \in I : n <= i
    BY <1>4, <2>1, LeastNumber
  <2>3. Min(I) \in I /\ \A i \in I : Min(I) <= i
    BY <2>2 DEF Min
  <2>4. m \in I /\ \A i \in I : m <= i
    BY <1>1, <1>4, <2>3
  <2> HIDE DEF m
  <2>5. m \in 1 .. Len(s) /\ s[m].end /\ \A i \in DOMAIN s : s[i].end => m <= i
    BY <1>2, <2>4
  <2> QED BY <1>2, <2>5 DEF m
<1> QED BY <1>3, <1>4

LEMMA TextIs ==
  ASSUME NEW n \in Nat \ {0}, NEW units \in Nat \ {0}
  PROVE  /\ Conn!Text(n, units) \in Seq(Piece) /\ Len(Conn!Text(n, units)) = units
         /\ DOMAIN Conn!Text(n, units) = 1 .. units
         /\ \A i \in 1 .. units : /\ Conn!Text(n, units)[i].of = n /\ Conn!Text(n, units)[i].at = i
                                  /\ Conn!Text(n, units)[i].end = (i = units)
<1>1. Conn!Text(n, units) = [i \in 1 .. units |-> [of |-> n, at |-> i, end |-> i = units]]
  BY DEF Conn!Text
<1>2. \A i \in 1 .. units : [of |-> n, at |-> i, end |-> i = units] \in Piece
  BY DEF Piece
<1>3. [i \in 1 .. units |-> [of |-> n, at |-> i, end |-> i = units]] \in Seq(Piece)
  BY <1>2
<1>4. Len([i \in 1 .. units |-> [of |-> n, at |-> i, end |-> i = units]]) = units
  BY <1>3, LenProperties
<1> QED BY <1>1, <1>3, <1>4

LEMMA Joined ==
  ASSUME NEW a \in Seq(Piece), NEW b \in Seq(Piece)
  PROVE  /\ a \o b \in Seq(Piece) /\ Len(a \o b) = Len(a) + Len(b)
         /\ \A i \in 1 .. Len(a) : (a \o b)[i] = a[i]
         /\ \A i \in 1 .. Len(b) : (a \o b)[Len(a) + i] = b[i]
<1>1. a \o b \in Seq(Piece)
  OBVIOUS
<1>2. Len(a \o b) = Len(a) + Len(b)
  OBVIOUS
<1>3. \A i \in 1 .. Len(a) : (a \o b)[i] = a[i]
  OBVIOUS
<1>4. \A i \in 1 .. Len(b) : (a \o b)[Len(a) + i] = b[i]
  OBVIOUS
<1> QED BY <1>1, <1>2, <1>3, <1>4

LEMMA JoinedThrice ==
  ASSUME NEW a \in Seq(Piece), NEW b \in Seq(Piece), NEW c \in Seq(Piece)
  PROVE  a \o (b \o c) = (a \o b) \o c
<1> DEFINE l == a \o (b \o c)
           r == (a \o b) \o c
           ab == a \o b
           bc == b \o c
<1>1. /\ ab \in Seq(Piece) /\ bc \in Seq(Piece) /\ Len(a) \in Nat /\ Len(b) \in Nat /\ Len(c) \in Nat
      /\ Len(ab) = Len(a) + Len(b) /\ Len(bc) = Len(b) + Len(c)
      /\ \A i \in 1 .. Len(a) : ab[i] = a[i]
      /\ \A i \in 1 .. Len(b) : ab[Len(a) + i] = b[i] /\ bc[i] = b[i]
      /\ \A i \in 1 .. Len(c) : bc[Len(b) + i] = c[i]
  BY Joined
<1> HIDE DEF ab, bc
<1>2. /\ a \o bc \in Seq(Piece) /\ ab \o c \in Seq(Piece)
      /\ Len(a \o bc) = Len(a) + Len(bc) /\ Len(ab \o c) = Len(ab) + Len(c)
      /\ \A i \in 1 .. Len(a) : (a \o bc)[i] = a[i]
      /\ \A i \in 1 .. Len(bc) : (a \o bc)[Len(a) + i] = bc[i]
      /\ \A i \in 1 .. Len(ab) : (ab \o c)[i] = ab[i]
      /\ \A i \in 1 .. Len(c) : (ab \o c)[Len(ab) + i] = c[i]
  BY <1>1, Joined
<1>3. l = a \o bc /\ r = ab \o c
  BY DEF ab, bc
<1> HIDE DEF l, r
<1>4. ASSUME NEW i \in 1 .. Len(a) + Len(b) + Len(c) PROVE l[i] = r[i]
  <2>1. CASE i <= Len(a)
    <3>1. i \in 1 .. Len(a) /\ i \in 1 .. Len(ab)
      BY <1>1, <2>1
    <3>2. l[i] = a[i] /\ r[i] = ab[i]
      BY <1>2, <1>3, <3>1
    <3> QED BY <1>1, <3>1, <3>2
  <2>2. CASE i > Len(a) /\ i <= Len(a) + Len(b)
    <3> DEFINE j == i - Len(a)
    <3>1. j \in 1 .. Len(b) /\ j \in 1 .. Len(bc) /\ i \in 1 .. Len(ab) /\ Len(a) + j = i
      BY <1>1, <2>2
    <3> HIDE DEF j
    <3>2. l[Len(a) + j] = bc[j] /\ r[i] = ab[i]
      BY <1>2, <1>3, <3>1
    <3>3. bc[j] = b[j] /\ ab[Len(a) + j] = b[j]
      BY <1>1, <3>1
    <3> QED BY <3>1, <3>2, <3>3
  <2>3. CASE i > Len(a) + Len(b)
    <3> DEFINE j == i - (Len(a) + Len(b))
    <3>1. /\ j \in 1 .. Len(c) /\ Len(b) + j \in 1 .. Len(bc) /\ Len(ab) + j = i
          /\ Len(a) + (Len(b) + j) = i
      BY <1>1, <2>3
    <3> HIDE DEF j
    <3>2. l[Len(a) + (Len(b) + j)] = bc[Len(b) + j] /\ r[Len(ab) + j] = c[j]
      BY <1>2, <1>3, <3>1
    <3>3. bc[Len(b) + j] = c[j]
      BY <1>1, <3>1
    <3> QED BY <3>1, <3>2, <3>3
  <2> QED BY <1>1, <2>1, <2>2, <2>3
<1>5. l \in Seq(Piece) /\ r \in Seq(Piece) /\ Len(l) = Len(r) /\ Len(l) = Len(a) + Len(b) + Len(c)
  BY <1>1, <1>2, <1>3
<1>6. l = r
  BY <1>4, <1>5, SeqEqual
<1> QED BY <1>6 DEF l, r

\* Another line is sent.
LEMMA FlowMore ==
  ASSUME NEW n \in Nat, NEW s \in Seq(Piece), Flow(s, n), NEW units \in Nat \ {0}
  PROVE  /\ Flow(s \o Conn!Text(n + 1, units), n + 1)
         /\ Upcoming(s \o Conn!Text(n + 1, units), n + 1) = Upcoming(s, n)
         /\ s \o Conn!Text(n + 1, units) \in Seq(Piece)
         /\ s \o Conn!Text(n + 1, units) # <<>>
<1> DEFINE text == Conn!Text(n + 1, units)
           all == s \o text
<1>0. n + 1 \in Nat \ {0}
  OBVIOUS
<1>1. /\ text \in Seq(Piece) /\ Len(text) = units
      /\ \A i \in 1 .. units : text[i].of = n + 1 /\ text[i].end = (i = units)
  BY <1>0, TextIs
<1> HIDE DEF text
<1>2. /\ all \in Seq(Piece) /\ Len(all) = Len(s) + units /\ Len(s) \in Nat
      /\ \A i \in 1 .. Len(s) : all[i] = s[i]
      /\ \A i \in 1 .. units : all[Len(s) + i] = text[i]
  <2>1. text \in Seq(Piece) /\ Len(text) = units
    BY <1>1
  <2>2. /\ s \o text \in Seq(Piece) /\ Len(s \o text) = Len(s) + Len(text)
        /\ \A i \in 1 .. Len(s) : (s \o text)[i] = s[i]
        /\ \A i \in 1 .. Len(text) : (s \o text)[Len(s) + i] = text[i]
    BY <2>1, Joined
  <2>3. Len(s) \in Nat
    OBVIOUS
  <2> QED BY <2>1, <2>2, <2>3
<1>3. DOMAIN all = 1 .. Len(s) + units /\ DOMAIN s = 1 .. Len(s)
  BY <1>2
<1>4. all # <<>>
  BY <1>2
<1> HIDE DEF all
<1>5. \A i \in DOMAIN all : i \in Nat /\ (i \in DOMAIN s \/ (i > Len(s) /\ i - Len(s) \in 1 .. units))
  BY <1>2, <1>3
<1>6. \A i \in DOMAIN s : all[i] = s[i] /\ i <= Len(s) /\ i \in DOMAIN all /\ s[i].of \in Nat /\ s[i].of <= n
  <2>1. \A i \in DOMAIN s : s[i] \in Piece
    OBVIOUS
  <2>2. \A i \in DOMAIN s : s[i].of <= n
    BY DEF Flow
  <2>3. \A i \in DOMAIN s : s[i].of \in Nat
    BY <2>1 DEF Piece
  <2>4. \A i \in DOMAIN s : all[i] = s[i] /\ i <= Len(s) /\ i \in DOMAIN all
    BY <1>2, <1>3
  <2> QED BY <2>2, <2>3, <2>4
<1>7. \A i \in DOMAIN all : i > Len(s) => all[i].of = n + 1 /\ all[i].end = (i = Len(s) + units)
  <2>1. ASSUME NEW i \in DOMAIN all, i > Len(s) PROVE all[i].of = n + 1 /\ all[i].end = (i = Len(s) + units)
    <3>1. i - Len(s) \in 1 .. units /\ Len(s) + (i - Len(s)) = i
      BY <1>2, <1>3, <2>1
    <3>2. all[i] = text[i - Len(s)]
      BY <1>2, <3>1
    <3>3. (i - Len(s) = units) <=> (i = Len(s) + units)
      BY <1>2, <1>3
    <3>4. all[i].of = n + 1 /\ all[i].end = (i - Len(s) = units)
      BY <1>1, <3>1, <3>2
    <3> QED BY <3>3, <3>4
  <2> QED BY <2>1
<1>8. \A i \in DOMAIN all : all[i].of <= n + 1
  BY <1>5, <1>6, <1>7
<1>9. ASSUME NEW i \in DOMAIN all, NEW j \in DOMAIN all, i < j
      PROVE  all[i].of <= all[j].of /\ (all[i].end => all[i].of < all[j].of)
  <2>1. CASE j \in DOMAIN s
    <3>1. i \in DOMAIN s
      BY <1>2, <1>3, <1>5, <1>9, <2>1
    <3> QED BY <1>6, <1>9, <2>1, <3>1 DEF Flow
  <2>2. CASE j > Len(s) /\ i \in DOMAIN s
    BY <1>6, <1>7, <2>2
  <2>3. CASE j > Len(s) /\ i > Len(s)
    <3>1. i # Len(s) + units
      BY <1>2, <1>3, <1>9
    <3>2. all[i].of = n + 1 /\ all[j].of = n + 1 /\ all[i].end = (i = Len(s) + units)
      BY <1>7, <2>3
    <3>3. ~all[i].end
      BY <3>1, <3>2, Zenon
    <3> QED BY <3>2, <3>3
  <2> QED BY <1>5, <2>1, <2>2, <2>3
<1>10. ASSUME NEW i \in DOMAIN all
       PROVE  \E k \in DOMAIN all : i <= k /\ all[k].end /\ all[k].of = all[i].of
  <2>1. CASE i \in DOMAIN s
    <3>1. PICK k \in DOMAIN s : i <= k /\ s[k].end /\ s[k].of = s[i].of
      BY <2>1 DEF Flow
    <3> QED BY <1>6, <2>1, <3>1
  <2>2. CASE i > Len(s)
    <3>1. Len(s) + units \in DOMAIN all /\ i <= Len(s) + units /\ Len(s) + units > Len(s)
      BY <1>2, <1>3
    <3> QED BY <1>7, <2>2, <3>1
  <2> QED BY <1>5, <2>1, <2>2
<1>11. ASSUME NEW i \in DOMAIN all, i + 1 \in DOMAIN all, all[i].end
       PROVE  all[i + 1].of = all[i].of + 1
  <2>1. CASE i > Len(s)
    <3>1. i # Len(s) + units
      BY <1>2, <1>3, <1>11
    <3> QED BY <1>7, <1>11, <2>1, <3>1
  <2>2. CASE i \in DOMAIN s /\ i + 1 \in DOMAIN s
    BY <1>6, <1>11, <2>2 DEF Flow
  <2>3. CASE i \in DOMAIN s /\ i + 1 > Len(s)
    <3>1. i = Len(s) /\ s # <<>>
      BY <1>2, <1>3, <2>3
    <3>2. s[i].of = n
      BY <3>1 DEF Flow
    <3> QED BY <1>6, <1>7, <1>11, <2>3, <3>2
  <2> QED BY <1>5, <1>11, <2>1, <2>2, <2>3
<1>12. all[Len(all)].of = n + 1
  <2>1. Len(all) \in DOMAIN all /\ Len(all) > Len(s)
    BY <1>2, <1>3
  <2> QED BY <1>7, <2>1
<1>13. Flow(all, n + 1)
  BY <1>8, <1>9, <1>10, <1>11, <1>12 DEF Flow
<1>14. Upcoming(all, n + 1) = Upcoming(s, n)
  <2>1. CASE s = <<>>
    <3>1. 1 \in DOMAIN all /\ 1 > Len(s)
      BY <1>2, <1>3, <2>1
    <3> QED BY <1>4, <1>7, <2>1, <3>1 DEF Upcoming
  <2>2. CASE s # <<>>
    <3>1. 1 \in DOMAIN s
      BY <1>2, <1>3, <2>2
    <3> QED BY <1>4, <1>6, <2>2, <3>1 DEF Upcoming
  <2> QED BY <2>1, <2>2
<1> QED BY <1>2, <1>4, <1>13, <1>14 DEF all, text

\* The first line is taken to its end; the next one follows.
LEMMA FlowRest ==
  ASSUME NEW n \in Nat, NEW s \in Seq(Piece), Flow(s, n), NEW f \in DOMAIN s, s[f].end,
         \A i \in DOMAIN s : s[i].end => f <= i
  PROVE  /\ SubSeq(s, f + 1, Len(s)) \in Seq(Piece) /\ Flow(SubSeq(s, f + 1, Len(s)), n)
         /\ s # <<>> /\ Upcoming(s, n) \in 1 .. n
         /\ Upcoming(SubSeq(s, f + 1, Len(s)), n) = Upcoming(s, n) + 1
         /\ Upcoming(s, n) = n => SubSeq(s, f + 1, Len(s)) = <<>>
<1> DEFINE rest == SubSeq(s, f + 1, Len(s))
<1>1. Len(s) \in Nat /\ DOMAIN s = 1 .. Len(s) /\ f \in 1 .. Len(s) /\ s # <<>>
  OBVIOUS
<1>2. rest \in Seq(Piece) /\ Len(rest) = Len(s) - f
  BY <1>1, SubSeqProperties
<1>3. \A i \in 1 .. Len(s) - f : rest[i] = s[f + i]
  BY <1>1
<1> HIDE DEF rest
<1>4. DOMAIN rest = 1 .. Len(s) - f
  BY <1>1, <1>2
<1>5. \A i \in DOMAIN rest : rest[i] = s[f + i] /\ f + i \in DOMAIN s /\ i \in Nat
  BY <1>1, <1>3, <1>4
<1>6. \A i \in DOMAIN s : i > f => i - f \in DOMAIN rest /\ f + (i - f) = i
  BY <1>1, <1>4
<1>a. \A i \in DOMAIN s : s[i].of \in Nat \ {0} /\ s[i].of <= n
  <2>1. \A i \in DOMAIN s : s[i] \in Piece
    OBVIOUS
  <2>2. \A i \in DOMAIN s : s[i].of <= n
    BY DEF Flow
  <2> QED BY <2>1, <2>2 DEF Piece
<1>b. \A i, j \in DOMAIN s : i < j => s[i].of <= s[j].of /\ (s[i].end => s[i].of < s[j].of)
  BY DEF Flow
<1>c. \A i \in DOMAIN s : i + 1 \in DOMAIN s /\ s[i].end => s[i + 1].of = s[i].of + 1
  BY DEF Flow
<1>7. s[1].of = s[f].of
  <2>1. 1 \in DOMAIN s
    BY <1>1
  <2>2. PICK k \in DOMAIN s : s[k].end /\ s[k].of = s[1].of
    BY <2>1 DEF Flow
  <2>3. f <= k /\ 1 <= f
    BY <1>1, <2>2
  <2>4. s[f].of <= s[k].of /\ s[1].of <= s[f].of
    <3>1. f = k \/ f < k
      BY <1>1, <2>3
    <3>2. 1 = f \/ 1 < f
      BY <1>1
    <3>3. s[f].of <= s[f].of /\ s[f].of \in Nat
      BY <1>a
    <3>4. s[f].of <= s[k].of
      BY <1>b, <3>1, <3>3
    <3>5. s[1].of <= s[f].of
      BY <1>b, <2>1, <3>2, <3>3
    <3> QED BY <3>4, <3>5
  <2> QED BY <1>a, <2>1, <2>2, <2>4
<1>8. Upcoming(s, n) = s[f].of /\ Upcoming(s, n) \in 1 .. n
  BY <1>1, <1>7, <1>a DEF Upcoming
<1>9. Flow(rest, n)
  <2>1. \A i \in DOMAIN rest : rest[i].of <= n
    BY <1>5, <1>a
  <2>2. ASSUME NEW i \in DOMAIN rest, NEW j \in DOMAIN rest, i < j
        PROVE  rest[i].of <= rest[j].of /\ (rest[i].end => rest[i].of < rest[j].of)
    <3>1. f + i < f + j
      BY <1>1, <1>5, <2>2
    <3>2. /\ rest[i] = s[f + i] /\ f + i \in DOMAIN s
          /\ rest[j] = s[f + j] /\ f + j \in DOMAIN s
      BY <1>5
    <3> QED BY <1>b, <3>1, <3>2
  <2>3. ASSUME NEW i \in DOMAIN rest
        PROVE  \E k \in DOMAIN rest : i <= k /\ rest[k].end /\ rest[k].of = rest[i].of
    <3>1. PICK k \in DOMAIN s : f + i <= k /\ s[k].end /\ s[k].of = s[f + i].of
      BY <1>5 DEF Flow
    <3>2. k > f /\ i <= k - f
      BY <1>1, <1>4, <3>1
    <3> QED BY <1>5, <1>6, <3>1, <3>2
  <2>4. ASSUME NEW i \in DOMAIN rest, i + 1 \in DOMAIN rest, rest[i].end
        PROVE  rest[i + 1].of = rest[i].of + 1
    <3>1. f + (i + 1) = (f + i) + 1
      BY <1>1, <1>5
    <3>2. /\ rest[i] = s[f + i] /\ f + i \in DOMAIN s
          /\ rest[i + 1] = s[f + (i + 1)] /\ f + (i + 1) \in DOMAIN s
      BY <1>5, <2>4
    <3> QED BY <1>c, <2>4, <3>1, <3>2
  <2>5. ASSUME rest # <<>> PROVE rest[Len(rest)].of = n
    <3>1. Len(rest) \in DOMAIN rest /\ f + Len(rest) = Len(s)
      BY <1>1, <1>2, <1>4, <2>5
    <3> QED BY <1>1, <1>5, <3>1 DEF Flow
  <2> QED BY <2>1, <2>2, <2>3, <2>4, <2>5 DEF Flow
<1>10. Upcoming(rest, n) = s[f].of + 1
  <2>1. CASE rest = <<>>
    <3>1. f = Len(s)
      BY <1>1, <1>2, <2>1
    <3>2. s[f].of = n
      BY <1>1, <3>1 DEF Flow
    <3> QED BY <2>1, <3>2 DEF Upcoming
  <2>2. CASE rest # <<>>
    <3>1. 1 \in DOMAIN rest
      BY <1>1, <1>2, <1>4, <2>2
    <3> QED BY <1>5, <2>2, <3>1 DEF Flow, Upcoming
  <2> QED BY <2>1, <2>2
<1>11. ASSUME s[f].of = n PROVE rest = <<>>
  <2>1. ASSUME rest # <<>> PROVE FALSE
    <3>1. 1 \in DOMAIN rest
      BY <1>1, <1>2, <1>4, <2>1
    <3> QED BY <1>5, <1>10, <1>11, <1>a, <2>1, <3>1 DEF Upcoming
  <2> QED BY <2>1
<1> QED BY <1>1, <1>2, <1>8, <1>9, <1>10, <1>11 DEF rest

\* A part of what has arrived moves to the buffer, or leaves it.
LEMMA PartMoves ==
  ASSUME NEW a \in Seq(Piece), NEW b \in Seq(Piece), NEW k \in 1 .. Len(b)
  PROVE  /\ a \o SubSeq(b, 1, k) \in Seq(Piece) /\ SubSeq(b, k + 1, Len(b)) \in Seq(Piece)
         /\ (a \o SubSeq(b, 1, k)) \o SubSeq(b, k + 1, Len(b)) = a \o b
         /\ Len(a \o SubSeq(b, 1, k)) = Len(a) + k /\ Len(SubSeq(b, k + 1, Len(b))) = Len(b) - k
<1> DEFINE c == SubSeq(b, 1, k)
           d == SubSeq(b, k + 1, Len(b))
<1>1. Len(b) \in Nat /\ k \in Nat /\ k <= Len(b) /\ Len(a) \in Nat
  OBVIOUS
<1>2. c \in Seq(Piece) /\ Len(c) = k /\ \A i \in 1 .. k : c[i] = b[i]
  BY <1>1
<1>3. d \in Seq(Piece) /\ Len(d) = Len(b) - k /\ \A i \in 1 .. Len(b) - k : d[i] = b[k + i]
  BY <1>1
<1> HIDE DEF c, d
<1>4. a \o c \in Seq(Piece) /\ Len(a \o c) = Len(a) + k
  BY <1>1, <1>2
<1>5. (a \o c) \o d = a \o b
  <2> DEFINE l == (a \o c) \o d
             r == a \o b
  <2> DEFINE e == a \o c
  <2>0. /\ e \in Seq(Piece) /\ Len(e) = Len(a) + k
        /\ \A i \in 1 .. Len(a) : e[i] = a[i]
        /\ \A i \in 1 .. k : e[Len(a) + i] = c[i]
    BY <1>1, <1>2, <1>4
  <2> HIDE DEF e
  <2>a. /\ e \o d \in Seq(Piece) /\ Len(e \o d) = Len(e) + Len(d)
        /\ \A i \in 1 .. Len(e) : (e \o d)[i] = e[i]
        /\ \A i \in 1 .. Len(d) : (e \o d)[Len(e) + i] = d[i]
    BY <1>3, <2>0, Joined
  <2>b. /\ r \in Seq(Piece) /\ Len(r) = Len(a) + Len(b)
        /\ \A i \in 1 .. Len(a) : r[i] = a[i]
        /\ \A i \in 1 .. Len(b) : r[Len(a) + i] = b[i]
    BY <1>1
  <2>c. l = e \o d
    BY DEF e
  <2> HIDE DEF l, r
  <2>1. l \in Seq(Piece) /\ r \in Seq(Piece) /\ Len(l) = Len(a) + Len(b) /\ Len(r) = Len(a) + Len(b)
    BY <1>1, <1>3, <2>0, <2>a, <2>b, <2>c
  <2>2. ASSUME NEW i \in 1 .. Len(a) + Len(b) PROVE l[i] = r[i]
    <3>1. CASE i <= Len(a)
      <4>1. i \in 1 .. Len(a) /\ i \in 1 .. Len(e)
        BY <1>1, <2>0, <3>1
      <4> QED BY <2>0, <2>a, <2>b, <2>c, <4>1
    <3>2. CASE i > Len(a) /\ i <= Len(a) + k
      <4> DEFINE j == i - Len(a)
      <4>1. j \in 1 .. k /\ Len(a) + j = i /\ i \in 1 .. Len(e) /\ j \in 1 .. Len(b)
        BY <1>1, <2>0, <3>2
      <4> HIDE DEF j
      <4>2. l[i] = e[i] /\ e[i] = c[j] /\ c[j] = b[j] /\ r[i] = b[j]
        BY <1>2, <2>0, <2>a, <2>b, <2>c, <4>1
      <4> QED BY <4>2
    <3>3. CASE i > Len(a) + k
      <4> DEFINE j == i - (Len(a) + k)
      <4>1. /\ j \in 1 .. Len(b) - k /\ Len(e) + j = i /\ Len(a) + (k + j) = i
            /\ k + j \in 1 .. Len(b) /\ j \in 1 .. Len(d)
        BY <1>1, <1>3, <2>0, <3>3
      <4> HIDE DEF j
      <4>2. l[i] = d[j] /\ d[j] = b[k + j] /\ r[i] = b[k + j]
        BY <1>3, <2>a, <2>b, <2>c, <4>1
      <4> QED BY <4>2
    <3> QED BY <1>1, <3>1, <3>2, <3>3
  <2>3. l = r
    BY <2>1, <2>2, SeqEqual
  <2> QED BY <2>3 DEF l, r
<1> QED BY <1>2, <1>3, <1>4, <1>5 DEF c, d

LEMMA PartLeaves ==
  ASSUME NEW a \in Seq(Piece), NEW b \in Seq(Piece), NEW f \in 1 .. Len(a)
  PROVE  /\ SubSeq(a, f + 1, Len(a)) \in Seq(Piece)
         /\ SubSeq(a, f + 1, Len(a)) \o b = SubSeq(a \o b, f + 1, Len(a \o b))
<1> DEFINE c == SubSeq(a, f + 1, Len(a))
           all == a \o b
           d == SubSeq(all, f + 1, Len(all))
<1>1. Len(b) \in Nat /\ f \in Nat /\ f <= Len(a) /\ Len(a) \in Nat
  OBVIOUS
<1>2. c \in Seq(Piece) /\ Len(c) = Len(a) - f /\ \A i \in 1 .. Len(a) - f : c[i] = a[f + i]
  BY <1>1
<1> HIDE DEF c
<1>3. /\ all \in Seq(Piece) /\ Len(all) = Len(a) + Len(b)
      /\ \A i \in 1 .. Len(a) : all[i] = a[i]
      /\ \A i \in 1 .. Len(b) : all[Len(a) + i] = b[i]
  BY <1>1
<1> HIDE DEF all
<1>4. d \in Seq(Piece) /\ Len(d) = Len(all) - f /\ \A i \in 1 .. Len(all) - f : d[i] = all[f + i]
  BY <1>1, <1>3
<1> HIDE DEF d
<1>5. /\ c \o b \in Seq(Piece) /\ Len(c \o b) = Len(a) - f + Len(b)
      /\ \A i \in 1 .. Len(a) - f : (c \o b)[i] = c[i]
      /\ \A i \in 1 .. Len(b) : (c \o b)[Len(a) - f + i] = b[i]
  <2> DEFINE n == Len(a) - f
  <2>1. n \in Nat /\ Len(c) = n /\ c \in Seq(Piece)
    BY <1>1, <1>2
  <2> HIDE DEF n
  <2>2. /\ c \o b \in Seq(Piece) /\ Len(c \o b) = n + Len(b)
        /\ \A i \in 1 .. n : (c \o b)[i] = c[i]
        /\ \A i \in 1 .. Len(b) : (c \o b)[n + i] = b[i]
    <3>1. /\ c \o b \in Seq(Piece) /\ Len(c \o b) = Len(c) + Len(b)
          /\ \A i \in 1 .. Len(c) : (c \o b)[i] = c[i]
          /\ \A i \in 1 .. Len(b) : (c \o b)[Len(c) + i] = b[i]
      BY <2>1, Joined
    <3> QED BY <2>1, <3>1
  <2> QED BY <2>2 DEF n
<1> DEFINE l == c \o b
<1>6. ASSUME NEW i \in 1 .. Len(a) - f + Len(b) PROVE l[i] = d[i]
  <2>1. d[i] = all[f + i]
    BY <1>1, <1>3, <1>4
  <2>2. CASE i <= Len(a) - f
    <3>1. i \in 1 .. Len(a) - f /\ f + i \in 1 .. Len(a)
      BY <1>1, <2>2
    <3> QED BY <1>2, <1>3, <1>5, <2>1, <3>1
  <2>3. CASE i > Len(a) - f
    <3> DEFINE j == i - (Len(a) - f)
    <3>1. j \in 1 .. Len(b) /\ Len(a) - f + j = i /\ Len(a) + j = f + i
      BY <1>1, <2>3
    <3> HIDE DEF j
    <3> QED BY <1>3, <1>5, <2>1, <3>1
  <2>4. i <= Len(a) - f \/ i > Len(a) - f
    BY <1>1
  <2> QED BY <2>2, <2>3, <2>4
<1> HIDE DEF l
<1>7. l = d
  <2>1. l \in Seq(Piece) /\ Len(l) = Len(d) /\ Len(d) = Len(a) - f + Len(b)
    BY <1>1, <1>3, <1>4, <1>5 DEF l
  <2> QED BY <1>4, <1>6, <2>1, SeqEqual
<1> QED BY <1>2, <1>7 DEF l, d, c, all

-----------------------------------------------------------------------------
(* Connection: the inductive invariant                                     *)

LEMMA ConnNumbers == AnswerUnits \in Nat \ {0} /\ FileSizes \subseteq Nat
BY LimitsAssumptions DEF Conn!SizeAssumption

ConnTypes ==
  /\ peer \in {"shell", "other"}
  /\ sent \in Seq(Conn!Line) /\ up \in Seq(Piece) /\ down \in Seq(Piece)
  /\ reader \in [pc : {"recv", "split", "dispatch", "closed"}, buf : Seq(Piece), line : Nat]
  /\ answered \in Seq(Nat)
  /\ shell \in [pc : {"ready", "wait", "gone"}, buf : Seq(Piece), missed : Nat,
                taken : [request : Nat, answer : Nat]]

\* What has been sent and not been split off.
Stream(st, units) == st.buf \o units

\* Line m has had its turn, when lines is what was answered.
Done(m, lines, texts) == (\E i \in DOMAIN lines : lines[i] = m) \/ texts[m].kind = "blank"

\* The line in hand is the one before what comes next, and all before it had their turn.
InTurn(st, units, lines, texts) ==
  LET next == Upcoming(Stream(st, units), Len(texts))
  IN /\ Flow(Stream(st, units), Len(texts))
     /\ st.pc # "dispatch" =>
          /\ \A i \in DOMAIN lines : lines[i] < next
          /\ \A m \in 1 .. Len(texts) : m < next => Done(m, lines, texts)
     /\ st.pc = "dispatch" =>
          /\ st.line \in 1 .. Len(texts) /\ st.line + 1 = next
          /\ \A i \in DOMAIN lines : lines[i] < st.line
          /\ \A m \in 1 .. Len(texts) : m < st.line => Done(m, lines, texts)

OrderInv ==
  /\ \A i, j \in DOMAIN answered : i < j => answered[i] < answered[j]
  /\ \A i \in DOMAIN answered, m \in 1 .. Len(sent) : m < answered[i] => Done(m, answered, sent)
  /\ \A i \in DOMAIN answered : answered[i] <= Len(sent)
  /\ reader.pc # "closed" => InTurn(reader, up, answered, sent)

Quiet(st) == st.pc \in {"recv", "split"}

\* Where the request is: on its way, in hand, answered, or lost with the connection.
Coming == Quiet(reader) /\ Stream(reader, up) # <<>> /\ down = <<>> /\ shell.buf = <<>>
          /\ Upcoming(Stream(reader, up), Len(sent)) = Len(sent)
InHand == /\ reader.pc = "dispatch" /\ reader.line = Len(sent)
          /\ Stream(reader, up) = <<>> /\ down = <<>> /\ shell.buf = <<>>
Answered == /\ Quiet(reader) /\ Stream(reader, up) = <<>>
            /\ shell.buf \o down = Conn!Text(Len(sent), AnswerUnits)
            /\ \A i \in DOMAIN shell.buf : ~shell.buf[i].end
Lost == reader.pc = "closed" /\ down = <<>>

StepInv ==
  peer = "shell" /\ shell.missed = 0 =>
    /\ shell.taken.answer = shell.taken.request
    /\ shell.pc = "ready" => Quiet(reader) /\ Stream(reader, up) = <<>> /\ up = <<>> /\ down = <<>>
    /\ shell.pc = "wait" =>
         /\ sent # <<>> /\ sent[Len(sent)].kind # "blank"
         /\ Coming \/ InHand \/ Answered \/ Lost

ConnInv == ConnTypes /\ OrderInv /\ StepInv

LEMMA StreamIs ==
  ASSUME NEW st, st.buf \in Seq(Piece), NEW units \in Seq(Piece)
  PROVE  /\ Stream(st, units) \in Seq(Piece)
         /\ Stream(st, units) = <<>> <=> st.buf = <<>> /\ units = <<>>
<1>1. Stream(st, units) \in Seq(Piece) /\ Len(Stream(st, units)) = Len(st.buf) + Len(units)
  BY Joined DEF Stream
<1>2. \A s \in Seq(Piece) : s = <<>> <=> Len(s) = 0
  OBVIOUS
<1>3. Len(st.buf) \in Nat /\ Len(units) \in Nat
  OBVIOUS
<1> QED BY <1>1, <1>2, <1>3

LEMMA ConnBegins == ASSUME Conn!Init PROVE ConnInv
<1>1. /\ peer \in {"shell", "other"} /\ sent = <<>> /\ up = <<>> /\ down = <<>> /\ answered = <<>>
      /\ reader = [pc |-> "recv", buf |-> <<>>, line |-> 0]
      /\ shell = [pc |-> "ready", buf |-> <<>>, missed |-> 0, taken |-> [request |-> 0, answer |-> 0]]
  BY DEF Conn!Init, Conn!Untaken
<1>2. ConnTypes
  BY <1>1 DEF ConnTypes
<1>3. Stream(reader, up) = <<>>
  BY <1>1 DEF Stream
<1>4. OrderInv
  BY <1>1, <1>3 DEF OrderInv, InTurn, Flow
<1>5. StepInv
  BY <1>1, <1>3 DEF StepInv, Quiet
<1> QED BY <1>2, <1>4, <1>5 DEF ConnInv

-----------------------------------------------------------------------------
(* Connection: the steps                                                   *)

\* Where nothing but the shell and what is on its way to it changes.
LEMMA OrderStays ==
  ASSUME OrderInv, UNCHANGED <<sent, up, reader, answered>> PROVE OrderInv'
BY DEF OrderInv

LEMMA UnitsIs == ASSUME NEW line \in Conn!Line PROVE Conn!Units(line) \in Nat \ {0}
<1>1. line.size \in Nat
  BY DEF Conn!Line
<1> DEFINE n == 4 * line.size + 2
<1>2. n \in Nat
  BY <1>1
<1> HIDE DEF n
<1>3. n \div 3 \in Nat
  BY <1>2
<1> QED BY <1>3 DEF Conn!Units, Conn!Encoded, n

\* A line is put on its way.
LEMMA ConnPut ==
  ASSUME ConnTypes, OrderInv, NEW line \in Conn!Line, Conn!Put(line), UNCHANGED <<reader, answered>>
  PROVE  /\ sent' \in Seq(Conn!Line) /\ up' \in Seq(Piece) /\ Len(sent') = Len(sent) + 1 /\ Len(sent) \in Nat
         /\ sent'[Len(sent')] = line /\ OrderInv'
         /\ reader.pc # "closed" => Stream(reader, up') # <<>>
         /\ reader.pc # "closed" =>
              Upcoming(Stream(reader, up'), Len(sent')) = Upcoming(Stream(reader, up), Len(sent))
<1> DEFINE n == Len(sent)
           units == Conn!Units(line)
           text == Conn!Text(n + 1, units)
           was == Stream(reader, up)
<1>1. sent' = Append(sent, line) /\ sent \in Seq(Conn!Line) /\ up' = up \o Conn!Text(Len(sent'), units)
  BY DEF Conn!Put, ConnTypes
<1>2. /\ sent' \in Seq(Conn!Line) /\ Len(sent') = n + 1 /\ n \in Nat
      /\ \A m \in 1 .. n : sent'[m] = sent[m]
      /\ sent'[n + 1] = line
  BY <1>1
<1>3. units \in Nat \ {0}
  BY UnitsIs
<1>4. text \in Seq(Piece)
  BY <1>2, <1>3, TextIs
<1>5. up' = up \o text /\ up \in Seq(Piece) /\ reader.buf \in Seq(Piece)
  BY <1>1, <1>2 DEF ConnTypes
<1> HIDE DEF n, units
<1>6. up' \in Seq(Piece) /\ Stream(reader, up') = was \o text /\ was \in Seq(Piece)
  <2>1. reader.buf \o (up \o text) = (reader.buf \o up) \o text
    BY <1>4, <1>5, JoinedThrice
  <2>2. up \o text \in Seq(Piece) /\ reader.buf \o up \in Seq(Piece)
    BY <1>4, <1>5, Joined
  <2> QED BY <1>5, <2>1, <2>2 DEF Stream
<1>7. ASSUME reader.pc # "closed"
      PROVE  /\ Flow(was, n) /\ Flow(was \o text, n + 1) /\ Upcoming(was \o text, n + 1) = Upcoming(was, n)
             /\ was \o text # <<>>
  <2>1. Flow(was, n)
    BY <1>7 DEF OrderInv, InTurn, n
  <2> QED BY <1>2, <1>3, <1>6, <2>1, FlowMore
<1> HIDE DEF was, text
<1>8. ASSUME NEW m \in 1 .. Len(sent'), NEW k \in Nat, m < k, k <= n + 1,
             \A l \in 1 .. n : l < k => Done(l, answered, sent)
      PROVE  Done(m, answered, sent')
  <2>1. m \in 1 .. n
    BY <1>2, <1>8
  <2> QED BY <1>2, <1>8, <2>1 DEF Done
<1>9. \A i \in DOMAIN answered : answered[i] \in Nat /\ answered[i] <= n
  BY DEF ConnTypes, OrderInv, n
<1>10. ASSUME NEW i \in DOMAIN answered, NEW m \in 1 .. Len(sent'), m < answered[i]
       PROVE  Done(m, answered, sent')
  <2>1. m \in 1 .. n
    BY <1>2, <1>9, <1>10
  <2>2. Done(m, answered, sent)
    BY <1>10, <2>1 DEF OrderInv, n
  <2> QED BY <1>2, <2>1, <2>2 DEF Done
<1>11. ASSUME reader.pc # "closed" PROVE InTurn(reader, up', answered, sent')
  <2> DEFINE next == Upcoming(was, n)
  <2>1. InTurn(reader, up, answered, sent) /\ next \in Nat /\ next <= n + 1
    <3>1. was = <<>> \/ (1 \in DOMAIN was /\ was[1] \in Piece)
      BY <1>6
    <3>2. next = IF was = <<>> THEN n + 1 ELSE was[1].of
      BY DEF Upcoming
    <3>3. 1 \in DOMAIN was => was[1].of <= n
      BY <1>7, <1>11 DEF Flow
    <3>4. was[1] \in Piece => was[1].of \in Nat
      BY DEF Piece
    <3>5. next \in Nat /\ next <= n + 1
      BY <1>2, <3>1, <3>2, <3>3, <3>4
    <3> QED BY <1>11, <3>5 DEF OrderInv
  <2>2. Upcoming(Stream(reader, up'), Len(sent')) = next /\ Flow(Stream(reader, up'), Len(sent'))
    BY <1>2, <1>6, <1>7, <1>11
  <2>3. Upcoming(Stream(reader, up), Len(sent)) = next
    BY DEF was, n
  <2> HIDE DEF next
  <2>4. ASSUME reader.pc # "dispatch"
        PROVE  /\ \A i \in DOMAIN answered : answered[i] < next
               /\ \A m \in 1 .. Len(sent') : m < next => Done(m, answered, sent')
    <3>1. /\ \A i \in DOMAIN answered : answered[i] < next
          /\ \A m \in 1 .. n : m < next => Done(m, answered, sent)
      BY <2>1, <2>3, <2>4 DEF InTurn, n
    <3> QED BY <1>8, <2>1, <3>1
  <2>5. ASSUME reader.pc = "dispatch"
        PROVE  /\ reader.line \in 1 .. Len(sent') /\ reader.line + 1 = next
               /\ \A i \in DOMAIN answered : answered[i] < reader.line
               /\ \A m \in 1 .. Len(sent') : m < reader.line => Done(m, answered, sent')
    <3>1. /\ reader.line \in 1 .. n /\ reader.line + 1 = next
          /\ \A i \in DOMAIN answered : answered[i] < reader.line
          /\ \A m \in 1 .. n : m < reader.line => Done(m, answered, sent)
      BY <2>1, <2>3, <2>5 DEF InTurn, n
    <3>2. reader.line \in Nat /\ reader.line <= n + 1 /\ reader.line \in 1 .. Len(sent')
      BY <1>2, <3>1
    <3> QED BY <1>8, <3>1, <3>2
  <2> QED BY <2>2, <2>4, <2>5 DEF InTurn
<1>12. OrderInv'
  <2>1. \A i \in DOMAIN answered : answered[i] <= Len(sent')
    BY <1>2, <1>9
  <2> QED BY <1>10, <1>11, <2>1 DEF OrderInv
<1> QED BY <1>2, <1>6, <1>7, <1>12 DEF n, was

LEMMA ConnAsk == ASSUME ConnInv, NEW line \in Conn!Line, Conn!Ask(line) PROVE ConnInv'
<1>1. /\ peer = "shell" /\ shell.pc = "ready" /\ line.kind \in {"complete", "command", "upload"} /\ Conn!Put(line)
      /\ shell' = [shell EXCEPT !.pc = "wait", !.buf = <<>>] /\ UNCHANGED <<peer, reader, answered, down>>
  BY DEF Conn!Ask
<1>2. ConnTypes /\ OrderInv /\ StepInv
  BY DEF ConnInv
<1>3. /\ sent' \in Seq(Conn!Line) /\ up' \in Seq(Piece) /\ Len(sent') = Len(sent) + 1 /\ Len(sent) \in Nat
      /\ sent'[Len(sent')] = line /\ OrderInv'
      /\ reader.pc # "closed" => Stream(reader, up') # <<>>
      /\ reader.pc # "closed" =>
           Upcoming(Stream(reader, up'), Len(sent')) = Upcoming(Stream(reader, up), Len(sent))
  BY <1>1, <1>2, ConnPut
<1>4. ConnTypes'
  <2>1. <<>> \in Seq(Piece)
    OBVIOUS
  <2>2. shell' \in [pc : {"ready", "wait", "gone"}, buf : Seq(Piece), missed : Nat,
                    taken : [request : Nat, answer : Nat]]
    BY <1>1, <1>2, <2>1 DEF ConnTypes
  <2> QED BY <1>1, <1>2, <1>3, <2>2 DEF ConnTypes
<1>5. ASSUME shell.missed = 0
      PROVE  sent' # <<>> /\ sent'[Len(sent')].kind # "blank" /\ Coming'
  <2>1. Quiet(reader) /\ Stream(reader, up) = <<>> /\ down = <<>> /\ reader.pc # "closed"
    BY <1>1, <1>2, <1>5 DEF StepInv, Quiet
  <2>2. Upcoming(Stream(reader, up'), Len(sent')) = Len(sent')
    BY <1>3, <2>1 DEF Upcoming
  <2>3. sent' # <<>> /\ sent'[Len(sent')].kind # "blank"
    BY <1>1, <1>3
  <2>4. shell'.buf = <<>>
    BY <1>1, <1>2 DEF ConnTypes
  <2> QED BY <1>1, <1>3, <2>1, <2>2, <2>3, <2>4 DEF Coming
<1>6. shell'.pc = "wait" /\ shell'.missed = shell.missed /\ shell'.taken = shell.taken
  BY <1>1, <1>2 DEF ConnTypes
<1>7. StepInv'
  BY <1>1, <1>2, <1>5, <1>6 DEF StepInv
<1> QED BY <1>3, <1>4, <1>7 DEF ConnInv

LEMMA ConnOtherLine == ASSUME ConnInv, NEW line \in Conn!Line, Conn!OtherLine(line) PROVE ConnInv'
<1>1. peer = "other" /\ Conn!Put(line) /\ UNCHANGED <<peer, reader, answered, down, shell>>
  BY DEF Conn!OtherLine
<1>2. ConnTypes /\ OrderInv
  BY DEF ConnInv
<1>3. sent' \in Seq(Conn!Line) /\ up' \in Seq(Piece) /\ OrderInv'
  BY <1>1, <1>2, ConnPut
<1> QED BY <1>1, <1>2, <1>3 DEF ConnInv, ConnTypes, StepInv

LEMMA ConnRecv == ASSUME ConnInv, NEW k \in 1 .. Len(up), Conn!Recv(k) PROVE ConnInv'
<1> DEFINE buf == reader.buf \o SubSeq(up, 1, k)
           rest == SubSeq(up, k + 1, Len(up))
<1>1. /\ reader.pc = "recv" /\ up' = rest /\ UNCHANGED <<peer, sent, answered, down, shell>>
      /\ reader' = IF Conn!TooLong(buf) THEN [pc |-> "closed", buf |-> <<>>, line |-> 0]
                   ELSE [reader EXCEPT !.pc = "split", !.buf = buf]
  BY DEF Conn!Recv
<1>2. ConnTypes /\ OrderInv /\ StepInv
  BY DEF ConnInv
<1>3. buf \in Seq(Piece) /\ rest \in Seq(Piece) /\ buf \o rest = Stream(reader, up)
  <2>1. reader.buf \in Seq(Piece) /\ up \in Seq(Piece)
    BY <1>2 DEF ConnTypes
  <2> QED BY <2>1, PartMoves DEF Stream
<1>4. up # <<>>
  <2>1. up \in Seq(Piece)
    BY <1>2 DEF ConnTypes
  <2> QED BY <2>1
<1>5. Stream(reader, up) # <<>>
  <2>1. up \in Seq(Piece) /\ reader.buf \in Seq(Piece)
    BY <1>2 DEF ConnTypes
  <2> QED BY <1>4, <2>1, StreamIs
<1> HIDE DEF buf, rest
<1>6. CASE Conn!TooLong(buf)
  <2>0. UNCHANGED <<peer, sent, answered, down, shell>> /\ up' = rest /\ reader.pc = "recv"
    BY <1>1
  <2>1. reader' = [pc |-> "closed", buf |-> <<>>, line |-> 0] /\ <<>> \in Seq(Piece)
    BY <1>1, <1>6
  <2>a. /\ reader' \in [pc : {"recv", "split", "dispatch", "closed"}, buf : Seq(Piece), line : Nat]
        /\ reader'.pc = "closed"
    BY <2>1
  <2>2. ConnTypes'
    BY <2>0, <1>2, <1>3, <2>a DEF ConnTypes
  <2>3. OrderInv'
    BY <2>0, <1>2, <2>a DEF OrderInv
  <2>4. StepInv'
    <3>1. shell.missed = 0 /\ peer = "shell" => shell.pc # "ready"
      BY <1>2, <1>5 DEF StepInv
    <3>2. shell.missed = 0 /\ peer = "shell" /\ shell.pc = "wait" => Lost'
      BY <1>2, <1>5, <2>0, <2>a DEF StepInv, Coming, InHand, Answered, Lost
    <3> QED BY <1>2, <2>0, <3>1, <3>2 DEF StepInv
  <2> QED BY <2>2, <2>3, <2>4 DEF ConnInv
<1>7. CASE ~Conn!TooLong(buf)
  <2>1. reader' = [reader EXCEPT !.pc = "split", !.buf = buf]
    BY <1>1, <1>7
  <2>2. /\ reader' \in [pc : {"recv", "split", "dispatch", "closed"}, buf : Seq(Piece), line : Nat]
        /\ reader'.pc = "split" /\ reader'.buf = buf
    BY <1>2, <1>3, <2>1 DEF ConnTypes
  <2>3. Stream(reader', up') = Stream(reader, up)
    BY <1>1, <1>3, <2>2 DEF Stream
  <2>4. ConnTypes'
    BY <1>1, <1>2, <1>3, <2>2 DEF ConnTypes
  <2>5. OrderInv'
    BY <1>1, <1>2, <2>2, <2>3 DEF OrderInv, InTurn
  <2>6. StepInv'
    BY <1>1, <1>2, <1>5, <2>2, <2>3 DEF StepInv, Quiet, Coming, InHand, Answered, Lost
  <2> QED BY <2>4, <2>5, <2>6 DEF ConnInv
<1> QED BY <1>6, <1>7

LEMMA ConnSplit == ASSUME ConnInv, Conn!Split PROVE ConnInv'
<1> DEFINE buf == reader.buf
           f == Conn!FirstEnd(buf)
           n == Len(sent)
           was == Stream(reader, up)
           next == Upcoming(was, n)
<1>1. reader.pc = "split" /\ UNCHANGED <<peer, sent, up, answered, down, shell>>
  BY DEF Conn!Split
<1>2. ConnTypes /\ OrderInv /\ StepInv
  BY DEF ConnInv
<1>3. buf \in Seq(Piece) /\ up \in Seq(Piece) /\ n \in Nat
  BY <1>2 DEF ConnTypes
<1>4. /\ f \in 0 .. Len(buf) /\ (f # 0 => buf[f].end)
      /\ \A i \in DOMAIN buf : buf[i].end => f # 0 /\ f <= i
  BY <1>3, FirstEndIs
<1> HIDE DEF f
<1>5. CASE ~Conn!HasLine(buf)
  <2>1. reader' = [reader EXCEPT !.pc = "recv"]
    BY <1>5 DEF Conn!Split
  <2>2. /\ reader' \in [pc : {"recv", "split", "dispatch", "closed"}, buf : Seq(Piece), line : Nat]
        /\ reader'.pc = "recv" /\ reader'.buf = reader.buf
    BY <1>2, <2>1 DEF ConnTypes
  <2>3. Stream(reader', up') = was
    BY <1>1, <2>2 DEF Stream
  <2>4. ConnTypes'
    BY <1>1, <1>2, <2>2 DEF ConnTypes
  <2>5. OrderInv'
    BY <1>1, <1>2, <2>2, <2>3 DEF OrderInv, InTurn
  <2>6. StepInv'
    BY <1>1, <1>2, <2>2, <2>3 DEF StepInv, Quiet, Coming, InHand, Answered, Lost
  <2> QED BY <2>4, <2>5, <2>6 DEF ConnInv
<1>6. CASE Conn!HasLine(buf)
  <2> DEFINE rest == SubSeq(buf, f + 1, Len(buf))
             l == buf[1].of
             blank == sent[l].kind = "blank"
  <2>1. f \in 1 .. Len(buf) /\ buf # <<>> /\ f \in DOMAIN buf /\ 1 \in DOMAIN buf
    BY <1>3, <1>4, <1>6 DEF Conn!HasLine, f
  <2>2. Conn!Front1(buf)[1] = buf[1]
    <3>1. SubSeq(buf, 1, f)[1] = buf[1]
      BY <1>3, <2>1
    <3> QED BY <3>1 DEF Conn!Front1, f
  <2>3. reader' = [reader EXCEPT !.buf = rest, !.pc = IF blank THEN "split" ELSE "dispatch",
                                 !.line = IF blank THEN 0 ELSE l]
    BY <1>6, <2>2 DEF Conn!Split, Conn!Kept, Conn!Rest, f
  <2>4. /\ was \in Seq(Piece) /\ Len(was) = Len(buf) + Len(up)
        /\ \A i \in 1 .. Len(buf) : was[i] = buf[i]
    BY <1>3, Joined DEF Stream
  <2>5. rest \in Seq(Piece) /\ rest \o up = SubSeq(was, f + 1, Len(was))
    BY <1>3, <2>1, PartLeaves DEF Stream
  <2>6. InTurn(reader, up, answered, sent) /\ Flow(was, n)
    BY <1>1, <1>2 DEF OrderInv, InTurn
  <2> HIDE DEF was, rest
  <2>7. f \in DOMAIN was /\ was[f].end /\ \A i \in DOMAIN was : was[i].end => f <= i
    <3>1. f \in DOMAIN was /\ was[f] = buf[f] /\ Len(buf) \in Nat /\ Len(up) \in Nat /\ f # 0
      BY <1>3, <2>1, <2>4
    <3>2. ASSUME NEW i \in DOMAIN was, was[i].end PROVE f <= i
      <4>1. CASE i <= Len(buf)
        <5>1. i \in 1 .. Len(buf) /\ i \in DOMAIN buf
          BY <1>3, <2>4, <3>1, <4>1
        <5> QED BY <1>4, <2>4, <3>2, <5>1
      <4>2. CASE i > Len(buf)
        BY <1>3, <2>1, <2>4, <3>1, <4>2
      <4> QED BY <2>4, <3>1, <4>1, <4>2
    <3> QED BY <1>4, <3>1, <3>2
  <2> DEFINE after == SubSeq(was, f + 1, Len(was))
  <2>8. /\ after \in Seq(Piece) /\ Flow(after, n) /\ was # <<>> /\ next \in 1 .. n
        /\ Upcoming(after, n) = next + 1 /\ (next = n => after = <<>>)
    BY <1>3, <2>4, <2>6, <2>7, FlowRest
  <2>9. l = next
    <3>1. 1 \in 1 .. Len(buf)
      BY <1>3, <2>1
    <3> QED BY <2>4, <2>8, <3>1 DEF Upcoming
  <2> HIDE DEF after, next, l
  <2>10. /\ reader' \in [pc : {"recv", "split", "dispatch", "closed"}, buf : Seq(Piece), line : Nat]
         /\ reader'.pc = (IF blank THEN "split" ELSE "dispatch") /\ reader'.buf = rest
         /\ (~blank => reader'.line = l)
    <3>1. l \in Nat
      BY <2>8, <2>9
    <3> HIDE DEF blank
    <3> QED BY <1>2, <2>3, <2>5, <3>1 DEF ConnTypes
  <2>11. Stream(reader', up') = after
    BY <1>1, <2>5, <2>10 DEF Stream, after
  <2>12. ConnTypes'
    BY <1>1, <1>2, <2>10 DEF ConnTypes
  <2>13. /\ \A i \in DOMAIN answered : answered[i] < next
         /\ \A m \in 1 .. n : m < next => Done(m, answered, sent)
    BY <1>1, <2>6 DEF InTurn, next, was
  <2>14. InTurn(reader', up', answered, sent)
    <3>1. CASE blank
      <4>1. reader'.pc = "split"
        BY <2>10, <3>1
      <4>2. \A i \in DOMAIN answered : answered[i] < next + 1
        <5>1. \A i \in DOMAIN answered : answered[i] \in Nat
          BY <1>2 DEF ConnTypes
        <5> QED BY <2>8, <2>13, <5>1
      <4>3. ASSUME NEW m \in 1 .. n, m < next + 1 PROVE Done(m, answered, sent)
        <5>1. CASE m = next
          BY <2>9, <3>1, <5>1 DEF Done
        <5>2. CASE m # next
          BY <1>3, <2>8, <2>13, <4>3, <5>2
        <5> QED BY <5>1, <5>2
      <4> QED BY <2>8, <2>11, <4>1, <4>2, <4>3 DEF InTurn
    <3>2. CASE ~blank
      <4>1. reader'.pc = "dispatch" /\ reader'.line = next
        BY <2>9, <2>10, <3>2
      <4> QED BY <2>8, <2>11, <2>13, <4>1 DEF InTurn
    <3> QED BY <3>1, <3>2
  <2>15. OrderInv'
    BY <1>1, <1>2, <2>14 DEF OrderInv
  <2>16. StepInv'
    <3> SUFFICES ASSUME peer = "shell", shell.missed = 0
                 PROVE  /\ shell.taken.answer = shell.taken.request
                        /\ shell.pc = "ready" => Quiet(reader') /\ Stream(reader', up) = <<>> /\ up = <<>> /\ down = <<>>
                        /\ shell.pc = "wait" =>
                             /\ sent # <<>> /\ sent[Len(sent)].kind # "blank" /\ InHand'
      BY <1>1 DEF StepInv
    <3>1. shell.taken.answer = shell.taken.request
      BY <1>2 DEF StepInv
    <3>2. shell.pc # "ready"
      BY <1>2, <2>8 DEF StepInv, was
    <3>3. ASSUME shell.pc = "wait" PROVE sent # <<>> /\ sent[Len(sent)].kind # "blank" /\ InHand'
      <4>1. sent # <<>> /\ sent[Len(sent)].kind # "blank" /\ (Coming \/ InHand \/ Answered \/ Lost)
        BY <1>2, <3>3 DEF StepInv
      <4>2. Coming
        BY <1>1, <2>8, <4>1 DEF InHand, Answered, Lost, was
      <4>3. next = n /\ down = <<>> /\ shell.buf = <<>>
        BY <4>2 DEF Coming, next, was
      <4>4. ~blank
        BY <2>9, <4>1, <4>3
      <4> QED BY <1>1, <2>8, <2>9, <2>10, <2>11, <4>1, <4>3, <4>4 DEF InHand
    <3> QED BY <3>1, <3>2, <3>3
  <2> QED BY <2>12, <2>15, <2>16 DEF ConnInv
<1> QED BY <1>5, <1>6

LEMMA ConnAnswer == ASSUME ConnInv, Conn!Answer PROVE ConnInv'
<1> DEFINE n == Len(sent)
           l == reader.line
<1>1. reader.pc = "dispatch" /\ UNCHANGED <<peer, sent, up, shell>>
  BY DEF Conn!Answer
<1>2. ConnTypes /\ OrderInv /\ StepInv
  BY DEF ConnInv
<1>3. CASE shell.pc = "gone"
  <2>1. reader' = [pc |-> "closed", buf |-> <<>>, line |-> 0] /\ UNCHANGED <<answered, down>>
    BY <1>3 DEF Conn!Answer
  <2>2. ConnTypes'
    BY <1>1, <1>2, <2>1 DEF ConnTypes
  <2>3. OrderInv'
    BY <1>1, <1>2, <2>1 DEF OrderInv
  <2>4. StepInv'
    BY <1>1, <1>2, <1>3, <2>1 DEF StepInv
  <2> QED BY <2>2, <2>3, <2>4 DEF ConnInv
<1>4. CASE shell.pc # "gone"
  <2>1. /\ reader' = [reader EXCEPT !.pc = "split", !.line = 0] /\ answered' = Append(answered, l)
        /\ down' = IF peer = "shell" THEN down \o Conn!Text(l, AnswerUnits) ELSE down
    BY <1>4 DEF Conn!Answer
  <2>2. InTurn(reader, up, answered, sent)
    BY <1>1, <1>2 DEF OrderInv
  <2>3. /\ Flow(Stream(reader, up), n) /\ l \in 1 .. n /\ l + 1 = Upcoming(Stream(reader, up), n)
        /\ \A i \in DOMAIN answered : answered[i] < l
        /\ \A m \in 1 .. n : m < l => Done(m, answered, sent)
    BY <1>1, <2>2 DEF InTurn
  <2>4. /\ reader' \in [pc : {"recv", "split", "dispatch", "closed"}, buf : Seq(Piece), line : Nat]
        /\ reader'.pc = "split" /\ reader'.buf = reader.buf
    BY <1>2, <2>1 DEF ConnTypes
  <2>5. n \in Nat /\ answered \in Seq(Nat) /\ \A i \in DOMAIN answered : answered[i] \in Nat
    BY <1>2 DEF ConnTypes
  <2> DEFINE k == Len(answered)
  <2>6. /\ answered' \in Seq(Nat) /\ Len(answered') = k + 1 /\ k \in Nat
        /\ DOMAIN answered' = 1 .. k + 1 /\ DOMAIN answered = 1 .. k
        /\ \A i \in 1 .. k : answered'[i] = answered[i]
        /\ answered'[k + 1] = l
    BY <2>1, <2>3, <2>5
  <2> HIDE DEF k, l, n
  <2>7. Conn!Text(l, AnswerUnits) \in Seq(Piece) /\ down \in Seq(Piece)
    BY <1>2, <2>3, <2>5, ConnNumbers, TextIs DEF ConnTypes
  <2>8. down' \in Seq(Piece)
    <3>1. down \o Conn!Text(l, AnswerUnits) \in Seq(Piece)
      BY <2>7, Joined
    <3> QED BY <2>1, <2>7, <3>1 DEF l
  <2>9. ConnTypes'
    BY <1>1, <1>2, <2>4, <2>6, <2>8 DEF ConnTypes
  <2>10. \A m \in 1 .. n : Done(m, answered, sent) \/ m = l => Done(m, answered', sent)
    <3>1. ASSUME NEW m \in 1 .. n, Done(m, answered, sent) PROVE Done(m, answered', sent)
      <4>1. \A i \in DOMAIN answered : i \in DOMAIN answered' /\ answered'[i] = answered[i]
        BY <2>6
      <4> QED BY <3>1, <4>1 DEF Done
    <3>2. k + 1 \in DOMAIN answered'
      BY <2>6
    <3> QED BY <2>6, <3>1, <3>2 DEF Done
  <2>11. \A i \in DOMAIN answered' : i \in DOMAIN answered \/ i = k + 1
    BY <2>6
  <2>12. ASSUME NEW i \in DOMAIN answered', NEW j \in DOMAIN answered', i < j
         PROVE  answered'[i] < answered'[j]
    <3>1. i \in DOMAIN answered
      BY <2>6, <2>12
    <3>2. CASE j \in DOMAIN answered
      BY <1>2, <2>6, <2>12, <3>1, <3>2 DEF OrderInv
    <3>3. CASE j = k + 1
      BY <2>3, <2>6, <3>1, <3>3
    <3> QED BY <2>11, <3>2, <3>3
  <2>13. ASSUME NEW i \in DOMAIN answered', NEW m \in 1 .. n, m < answered'[i]
         PROVE  Done(m, answered', sent)
    <3>1. CASE i = k + 1
      BY <2>3, <2>6, <2>10, <2>13, <3>1
    <3>2. CASE i \in DOMAIN answered
      BY <1>2, <2>6, <2>10, <2>13, <3>2 DEF OrderInv, n
    <3> QED BY <2>11, <3>1, <3>2
  <2>14. \A i \in DOMAIN answered' : answered'[i] <= n /\ answered'[i] < l + 1
    <3>1. ASSUME NEW i \in DOMAIN answered PROVE answered'[i] <= n /\ answered'[i] < l + 1
      BY <2>3, <2>5, <2>6
    <3>2. l <= n /\ l < l + 1
      BY <2>3, <2>5
    <3> QED BY <2>6, <2>11, <3>1, <3>2
  <2>15. ASSUME NEW m \in 1 .. n, m < l + 1 PROVE Done(m, answered', sent)
    <3>1. m = l \/ m < l
      BY <2>3, <2>5, <2>15
    <3> QED BY <2>3, <2>10, <3>1
  <2>16. Stream(reader', up') = Stream(reader, up)
    BY <1>1, <2>4 DEF Stream
  <2>17. InTurn(reader', up', answered', sent')
    BY <1>1, <2>3, <2>4, <2>14, <2>15, <2>16 DEF InTurn, n
  <2>18. OrderInv'
    BY <1>1, <2>12, <2>13, <2>14, <2>17 DEF OrderInv, n
  <2>19. StepInv'
    <3> SUFFICES ASSUME peer = "shell", shell.missed = 0
                 PROVE  /\ shell.taken.answer = shell.taken.request
                        /\ shell.pc = "ready" => FALSE
                        /\ shell.pc = "wait" =>
                             /\ sent # <<>> /\ sent[Len(sent)].kind # "blank" /\ Answered'
      BY <1>1 DEF StepInv
    <3>1. shell.taken.answer = shell.taken.request /\ shell.pc # "ready"
      BY <1>1, <1>2 DEF StepInv, Quiet
    <3>2. ASSUME shell.pc = "wait" PROVE sent # <<>> /\ sent[Len(sent)].kind # "blank" /\ Answered'
      <4>1. sent # <<>> /\ sent[Len(sent)].kind # "blank" /\ (Coming \/ InHand \/ Answered \/ Lost)
        BY <1>2, <3>2 DEF StepInv
      <4>2. InHand
        BY <1>1, <4>1 DEF Coming, Answered, Lost, Quiet
      <4>3. l = n /\ Stream(reader, up) = <<>> /\ down = <<>> /\ shell.buf = <<>>
        BY <4>2 DEF InHand, l, n
      <4>4. shell.buf \o down' = Conn!Text(n, AnswerUnits)
        BY <2>1, <2>7, <4>3 DEF l
      <4> QED BY <1>1, <2>4, <2>16, <4>1, <4>3, <4>4 DEF Answered, Quiet, n
    <3> QED BY <3>1, <3>2
  <2> QED BY <2>9, <2>18, <2>19 DEF ConnInv
<1> QED BY <1>3, <1>4

LEMMA ConnHangUp == ASSUME ConnInv, Conn!HangUp PROVE ConnInv'
<1>1. /\ shell.pc = "gone" /\ reader' = [pc |-> "closed", buf |-> <<>>, line |-> 0]
      /\ UNCHANGED <<peer, sent, up, answered, down, shell>>
  BY DEF Conn!HangUp
<1>2. ConnTypes'
  BY <1>1 DEF ConnInv, ConnTypes
<1>3. OrderInv'
  BY <1>1 DEF ConnInv, OrderInv
<1>4. StepInv'
  BY <1>1 DEF ConnInv, StepInv
<1> QED BY <1>2, <1>3, <1>4 DEF ConnInv

\* An error of the shell: nothing is promised any more, or it is gone.
LEMMA ConnFails ==
  ASSUME ConnInv, Conn!SendFails, NEW units \in Seq(Piece), down' = units,
         UNCHANGED <<peer, sent, up, reader, answered>>
  PROVE  ConnInv'
<1>1. ConnTypes /\ OrderInv /\ StepInv
  BY DEF ConnInv
<1>2. /\ shell' \in [pc : {"ready", "wait", "gone"}, buf : Seq(Piece), missed : Nat,
                     taken : [request : Nat, answer : Nat]]
      /\ (shell'.pc = "gone" /\ shell'.missed = shell.missed /\ shell'.taken = shell.taken) \/ shell'.missed # 0
  <2>1. <<>> \in Seq(Piece) /\ shell.missed + 1 \in Nat /\ shell.missed + 1 # 0
    BY <1>1 DEF ConnTypes
  <2>2. CASE Conn!Completing
    <3>1. shell' = [shell EXCEPT !.buf = <<>>, !.pc = "ready", !.missed = shell.missed + 1]
      BY <2>2 DEF Conn!SendFails
    <3> QED BY <1>1, <2>1, <3>1 DEF ConnTypes
  <2>3. CASE ~Conn!Completing
    <3>1. shell' = [shell EXCEPT !.buf = <<>>, !.pc = "gone", !.missed = shell.missed]
      BY <2>3 DEF Conn!SendFails
    <3> QED BY <1>1, <2>1, <3>1 DEF ConnTypes
  <2> QED BY <2>2, <2>3
<1>3. ConnTypes'
  BY <1>1, <1>2 DEF ConnTypes
<1>4. StepInv'
  BY <1>1, <1>2 DEF StepInv
<1> QED BY <1>1, <1>3, <1>4, OrderStays DEF ConnInv

LEMMA ConnTake == ASSUME ConnInv, NEW k \in 1 .. Len(down), Conn!Take(k) PROVE ConnInv'
<1> DEFINE buf == shell.buf \o SubSeq(down, 1, k)
           rest == SubSeq(down, k + 1, Len(down))
           n == Len(sent)
<1>1. shell.pc = "wait" /\ down' = rest /\ UNCHANGED <<peer, sent, up, reader, answered>>
  BY DEF Conn!Take
<1>2. ConnTypes /\ OrderInv /\ StepInv
  BY DEF ConnInv
<1>3. down \in Seq(Piece) /\ shell.buf \in Seq(Piece) /\ n \in Nat /\ Len(down) \in Nat /\ k \in Nat /\ k >= 1
  BY <1>2 DEF ConnTypes
<1>4. /\ buf \in Seq(Piece) /\ rest \in Seq(Piece) /\ buf \o rest = shell.buf \o down
      /\ Len(buf) = Len(shell.buf) + k /\ Len(rest) = Len(down) - k
  BY <1>3, PartMoves
<1>5. /\ \/ ~Conn!HasLine(buf) /\ shell' = [shell EXCEPT !.buf = buf]
         \/ Conn!HasLine(buf) /\ ~Conn!Whole(buf) /\ Conn!SendFails
         \/ /\ Conn!HasLine(buf) /\ Conn!Whole(buf)
            /\ shell' = [shell EXCEPT !.pc = "ready", !.buf = <<>>,
                           !.taken = [request |-> n, answer |-> buf[1].of]]
  BY DEF Conn!Take, Conn!Request
<1> HIDE DEF buf, rest
<1>6. OrderInv'
  BY <1>1, <1>2, OrderStays
<1>7. \A f \in {Conn!FirstEnd(buf)} :
        /\ f \in 0 .. Len(buf) /\ (f # 0 => buf[f].end) /\ (Conn!HasLine(buf) <=> f # 0)
        /\ \A i \in DOMAIN buf : buf[i].end => f # 0 /\ f <= i
  <2>1. Len(buf) \in Nat
    BY <1>4
  <2> QED BY <1>4, <2>1, FirstEndIs DEF Conn!HasLine
\* While the two are in step, what is taken is the text of the answer.
<1>8. ASSUME peer = "shell", shell.missed = 0
      PROVE  /\ Quiet(reader) /\ Stream(reader, up) = <<>> /\ sent # <<>> /\ sent[n].kind # "blank"
             /\ buf \o rest = Conn!Text(n, AnswerUnits) /\ shell.taken.answer = shell.taken.request
             /\ Conn!HasLine(buf) => rest = <<>>
             /\ buf[1].of = n /\ buf[1].at = 1
  <2>1. down # <<>>
    BY <1>3
  <2>2. Answered /\ sent # <<>> /\ sent[n].kind # "blank" /\ shell.taken.answer = shell.taken.request
    BY <1>1, <1>2, <1>8, <2>1 DEF StepInv, Coming, InHand, Lost
  <2>3. buf \o rest = Conn!Text(n, AnswerUnits)
    BY <1>4, <2>2 DEF Answered
  <2>4. n \in Nat \ {0}
    BY <1>2, <2>2 DEF ConnTypes
  <2> DEFINE text == Conn!Text(n, AnswerUnits)
  <2>5. /\ text \in Seq(Piece) /\ Len(text) = AnswerUnits
        /\ \A i \in 1 .. AnswerUnits : text[i].of = n /\ text[i].at = i /\ text[i].end = (i = AnswerUnits)
    BY <2>4, ConnNumbers, TextIs
  <2>6. /\ Len(text) = Len(buf) + Len(rest) /\ Len(buf) \in Nat /\ Len(rest) \in Nat /\ Len(buf) >= 1
        /\ \A i \in 1 .. Len(buf) : text[i] = buf[i]
    <3>1. /\ Len(buf \o rest) = Len(buf) + Len(rest)
          /\ \A i \in 1 .. Len(buf) : (buf \o rest)[i] = buf[i]
      BY <1>4, Joined
    <3>2. Len(buf) \in Nat /\ Len(rest) \in Nat /\ Len(buf) >= 1
      BY <1>3, <1>4
    <3> QED BY <2>3, <3>1, <3>2
  <2> HIDE DEF text
  <2>7. ASSUME Conn!HasLine(buf) PROVE rest = <<>>
    <3>1. PICK f \in 1 .. Len(buf) : buf[f].end
      BY <1>7, <2>6, <2>7
    <3>2. f \in 1 .. AnswerUnits
      BY <2>5, <2>6, ConnNumbers
    <3>3. text[f].end
      BY <2>6, <3>1
    <3>4. text[f].end = (f = AnswerUnits)
      BY <2>5, <3>2
    <3>5. f = AnswerUnits
      BY <3>3, <3>4, Zenon
    <3>6. Len(rest) = 0
      <4>1. Len(buf) \in Nat /\ Len(rest) \in Nat /\ Len(text) = Len(buf) + Len(rest)
        BY <2>6
      <4>2. f <= Len(buf) /\ f \in Nat
        BY <4>1
      <4>3. Len(text) = f
        BY <2>5, <3>5
      <4> QED BY <4>1, <4>2, <4>3
    <3> QED BY <1>4, <3>6
  <2>8. buf[1].of = n /\ buf[1].at = 1
    <3>1. 1 \in 1 .. Len(buf) /\ 1 \in 1 .. AnswerUnits
      BY <2>6, ConnNumbers
    <3> QED BY <2>5, <2>6, <3>1
  <2> QED BY <2>2, <2>3, <2>7, <2>8 DEF Answered
<1>9. CASE ~Conn!HasLine(buf) /\ shell' = [shell EXCEPT !.buf = buf]
  <2>1. /\ shell' \in [pc : {"ready", "wait", "gone"}, buf : Seq(Piece), missed : Nat,
                       taken : [request : Nat, answer : Nat]]
        /\ shell'.pc = "wait" /\ shell'.buf = buf /\ shell'.missed = shell.missed /\ shell'.taken = shell.taken
    BY <1>1, <1>2, <1>4, <1>9 DEF ConnTypes
  <2>2. ConnTypes'
    BY <1>1, <1>2, <1>4, <2>1 DEF ConnTypes
  <2>3. \A i \in DOMAIN buf : ~buf[i].end
    BY <1>7, <1>9
  <2>4. ASSUME peer = "shell", shell.missed = 0 PROVE Answered'
    BY <1>1, <1>8, <2>1, <2>3, <2>4 DEF Answered, Quiet
  <2>5. StepInv'
    BY <1>1, <1>8, <2>1, <2>4 DEF StepInv
  <2> QED BY <1>6, <2>2, <2>5 DEF ConnInv
<1>10. CASE Conn!HasLine(buf) /\ ~Conn!Whole(buf) /\ Conn!SendFails
  BY <1>1, <1>4, <1>10, ConnFails
<1>11. CASE /\ Conn!HasLine(buf) /\ Conn!Whole(buf)
            /\ shell' = [shell EXCEPT !.pc = "ready", !.buf = <<>>,
                           !.taken = [request |-> n, answer |-> buf[1].of]]
  <2>1. buf[1].of \in Nat /\ <<>> \in Seq(Piece)
    <3>1. 1 \in DOMAIN buf
      BY <1>3, <1>4
    <3>2. buf[1] \in Piece
      BY <1>4, <3>1
    <3> QED BY <3>2 DEF Piece
  <2>2. /\ shell' \in [pc : {"ready", "wait", "gone"}, buf : Seq(Piece), missed : Nat,
                       taken : [request : Nat, answer : Nat]]
        /\ shell'.pc = "ready" /\ shell'.buf = <<>> /\ shell'.missed = shell.missed
        /\ shell'.taken.request = n /\ shell'.taken.answer = buf[1].of
    BY <1>2, <1>3, <1>11, <2>1 DEF ConnTypes
  <2>3. ConnTypes'
    BY <1>1, <1>2, <1>4, <2>2 DEF ConnTypes
  <2>4. ASSUME peer = "shell", shell.missed = 0
        PROVE  Quiet(reader') /\ Stream(reader', up') = <<>> /\ up' = <<>> /\ down' = <<>>
    <3>1. up \in Seq(Piece) /\ reader.buf \in Seq(Piece)
      BY <1>2 DEF ConnTypes
    <3> QED BY <1>1, <1>8, <1>11, <2>4, <3>1, StreamIs
  <2>5. StepInv'
    BY <1>1, <1>8, <2>2, <2>4 DEF StepInv
  <2> QED BY <1>6, <2>3, <2>5 DEF ConnInv
<1> QED BY <1>5, <1>9, <1>10, <1>11

LEMMA ConnKeeps == ASSUME ConnInv, [MCNext]_MCVars PROVE ConnInv'
<1>1. CASE UNCHANGED connVars
  BY <1>1 DEF connVars, ConnInv, ConnTypes, OrderInv, StepInv, Coming, InHand, Answered, Lost
<1>2. ASSUME NEW kind \in Conn!Kinds, NEW size \in FileSizes, NEW line,
             line = [kind |-> kind, size |-> IF kind = "upload" THEN size ELSE 0],
             Conn!Ask(line) \/ Conn!OtherLine(line)
      PROVE  ConnInv'
  <2>1. line \in Conn!Line
    BY <1>2, ConnNumbers DEF Conn!Line
  <2> QED BY <1>2, <2>1, ConnAsk, ConnOtherLine
<1>3. ASSUME Conn!Timeout \/ Conn!Closed PROVE ConnInv'
  <2>1. Conn!SendFails /\ down' = down /\ UNCHANGED <<peer, sent, up, reader, answered>>
    BY <1>3 DEF Conn!Timeout, Conn!Closed
  <2>2. down \in Seq(Piece)
    BY DEF ConnInv, ConnTypes
  <2> QED BY <2>1, <2>2, ConnFails
<1>4. ASSUME Conn!Serve PROVE ConnInv'
  BY <1>4, ConnRecv, ConnSplit, ConnAnswer, ConnHangUp DEF Conn!Serve
<1>5. ASSUME Conn!Receive PROVE ConnInv'
  BY <1>3, <1>5, ConnTake DEF Conn!Receive
<1> QED BY <1>1, <1>2, <1>3, <1>4, <1>5, ConnMoves DEF Conn!Next

\* However the bytes arrive, the lines of a connection are answered in the order in
\* which they were sent, each once; and until a completion has failed the shell takes
\* the answer to its own request (_handle_conn, ServerConn.send).
THEOREM ConnectionsInStep == MCSpec => []ConnectionInStep
<1>1. MCInit => ConnInv
  BY ConnBegins DEF MCInit
<1>2. ASSUME ConnInv PROVE ConnectionInStep
  <2>1. Conn!InOrder
    <3>1. ASSUME NEW k \in Conn!ToSet(answered), NEW m \in 1 .. Len(sent), m < k
          PROVE  m \in Conn!ToSet(answered) \/ sent[m].kind = "blank"
      <4>1. PICK i \in DOMAIN answered : k = answered[i]
        BY DEF Conn!ToSet
      <4>2. Done(m, answered, sent)
        BY <1>2, <3>1, <4>1 DEF ConnInv, OrderInv
      <4> QED BY <4>2 DEF Done, Conn!ToSet
    <3> QED BY <1>2, <3>1 DEF ConnInv, OrderInv, Conn!InOrder
  <2>2. Conn!InStep
    BY <1>2 DEF ConnInv, StepInv, Conn!InStep, Conn!AnswerIsOwn
  <2> QED BY <2>1, <2>2 DEF ConnectionInStep
<1> QED BY <1>1, <1>2, ConnKeeps, PTL DEF MCSpec

-----------------------------------------------------------------------------
(* Upload: the inductive invariant                                         *)

LEMMA UploadMoves == ASSUME [MCNext]_MCVars PROVE Up!Next \/ UNCHANGED uploadVars
BY DEF MCNext, MCVars, Others

Files == Up!Paths
Names(s) == {s[i] : i \in DOMAIN s}
Distinct(s) == \A i, j \in DOMAIN s : s[i] = s[j] => i = j

LEMMA WalkIs ==
  /\ Walk \in Seq(Files) /\ Distinct(Walk) /\ Names(Walk) = Files /\ Len(Walk) \in Nat
  /\ Up!Absent \notin Contents
<1>1. /\ Walk \in Seq(Files) /\ Distinct(Walk) /\ Up!Absent \notin Contents
  BY ProcessAssumptions DEF Up!UploadAssumption, Up!IsInjective, Distinct, Files
<1>2. Names(Walk) = Files
  BY DEF Names, Files, Up!Paths, Up!ToSet
<1> QED BY <1>1, <1>2

LEMMA FilesAreFinite == IsFiniteSet(Files)
<1>1. Walk \in [1 .. Len(Walk) -> Files] /\ \A p \in Files : \E i \in 1 .. Len(Walk) : Walk[i] = p
  BY WalkIs DEF Names
<1>2. Walk \in Surjection(1 .. Len(Walk), Files)
  BY <1>1 DEF Surjection
<1>3. IsFiniteSet(1 .. Len(Walk))
  BY WalkIs, FS_Interval
<1> QED BY <1>2, <1>3, FS_Surjection

\* What the command has stored.
Kept(m) == {p \in Files : m[p] # Up!Absent}

\* Before the questions: each file is to be sent, in conflict, stored or failed.
Sending(d, m) ==
  /\ Distinct(d.todo) /\ Names(d.todo) \cap Names(d.conflicts) = {}
  /\ Kept(m) \cap (Names(d.todo) \cup Names(d.conflicts)) = {}
  /\ d.ok + d.failed + Len(d.conflicts) + Len(d.todo) = Len(Walk) /\ d.ok = Cardinality(Kept(m))
  /\ d.over = {}

\* After them: those that were agreed to are stored, failed or still to be overwritten.
Overwriting(d, m, a) ==
  /\ a \subseteq Names(d.conflicts) /\ d.over \subseteq a
  /\ Kept(m) \cap Names(d.conflicts) \subseteq a \ d.over
  /\ d.ok + d.failed + Len(d.conflicts) + Cardinality(d.over) = Len(Walk) + Cardinality(a)
  /\ d.ok = Cardinality(Kept(m))

\* One file: what is stored is what was read.
OneFile(d, m) ==
  /\ d.pc \in {"start", "new", "answer", "end"} /\ d.outcome # "counted" /\ d.over = {}
  /\ d.pc \in {"new", "answer"} => d.bytes \in Contents /\ d.todo # <<>>
  /\ \A p \in Files : m[p] \in {Up!Absent, d.bytes}

Dialogs ==
  [pc : {"start", "new", "choice", "answer", "overwrite", "end"}, kind : {"file", "dir"},
   todo : Seq(Files), conflicts : Seq(Files), over : SUBSET Files,
   bytes : Contents \cup {Up!NotRead}, ok : Nat, failed : Nat, outcome : Up!Outcomes]

UploadTypes ==
  /\ dialog \in Dialogs /\ local \in [Files -> Contents]
  /\ mine \in [Files -> Contents \cup {Up!Absent}] /\ agreed \subseteq Files

\* What a dialog and what it has done have to do with each other.
Agrees(d, m, a, r) ==
  /\ r \subseteq a
  /\ d.pc \in {"start", "new", "choice", "answer"} => a = {}
  /\ d.pc = "start" => d.kind = "file" /\ d.conflicts = <<>> /\ d.ok = 0 /\ d.failed = 0 /\ Kept(m) = {}
  /\ d.kind = "file" => OneFile(d, m)
  /\ d.pc = "answer" => d.kind = "file"
  /\ d.kind = "dir" /\ d.pc \in {"new", "choice"} => Sending(d, m)
  /\ d.pc = "choice" => d.todo = <<>>
  /\ d.pc = "overwrite" => d.kind = "dir" /\ Overwriting(d, m, a)
  /\ d.outcome = "counted" => d.pc = "end" /\ Overwriting(d, m, a) /\ d.over = {}

UploadInv == UploadTypes /\ Agrees(dialog, mine, agreed, replaced)

LEMMA UploadBegins == ASSUME Up!Init PROVE UploadInv
<1>1. /\ dialog = [pc |-> "start", kind |-> "file", todo |-> <<>>, conflicts |-> <<>>, over |-> {},
                   bytes |-> Up!NotRead, ok |-> 0, failed |-> 0, outcome |-> "none"]
      /\ agreed = {} /\ replaced = {} /\ mine = [p \in Files |-> Up!Absent] /\ local \in [Files -> Contents]
  BY DEF Up!Init, Files
<1>2. UploadTypes
  BY <1>1 DEF UploadTypes, Dialogs, Up!Outcomes
<1>3. Kept(mine) = {}
  BY <1>1 DEF Kept
<1>4. OneFile(dialog, mine)
  BY <1>1 DEF OneFile
<1>5. Agrees(dialog, mine, agreed, replaced)
  BY <1>1, <1>3, <1>4 DEF Agrees
<1> QED BY <1>2, <1>5 DEF UploadInv

-----------------------------------------------------------------------------
(* Upload: the steps                                                       *)

\* What is known of a file that is to be sent.
LEMMA HeadIs ==
  ASSUME NEW s \in Seq(Files), s # <<>>
  PROVE  /\ Head(s) \in Files /\ Tail(s) \in Seq(Files) /\ Head(s) \in Names(s)
         /\ Len(Tail(s)) = Len(s) - 1 /\ Len(s) \in Nat \ {0}
         /\ Distinct(s) => Distinct(Tail(s)) /\ Names(Tail(s)) = Names(s) \ {Head(s)}
<1>1. /\ Head(s) = s[1] /\ 1 \in DOMAIN s /\ Tail(s) \in Seq(Files)
      /\ Len(Tail(s)) = Len(s) - 1 /\ Len(s) \in Nat \ {0} /\ DOMAIN s = 1 .. Len(s)
      /\ DOMAIN Tail(s) = 1 .. Len(s) - 1 /\ s[1] \in Files
  OBVIOUS
<1>2. \A i \in 1 .. Len(s) - 1 : Tail(s)[i] = s[i + 1]
  OBVIOUS
<1> DEFINE t == Tail(s)
           n == Len(s)
<1>3. n \in Nat \ {0} /\ DOMAIN s = 1 .. n /\ DOMAIN t = 1 .. n - 1 /\ \A i \in 1 .. n - 1 : t[i] = s[i + 1]
  BY <1>1, <1>2
<1> HIDE DEF t, n
<1>4. ASSUME Distinct(s) PROVE Distinct(t) /\ Names(t) = Names(s) \ {s[1]}
  <2>1. ASSUME NEW i \in DOMAIN t, NEW j \in DOMAIN t, t[i] = t[j] PROVE i = j
    <3>1. i + 1 \in DOMAIN s /\ j + 1 \in DOMAIN s /\ s[i + 1] = s[j + 1] /\ i \in Nat /\ j \in Nat
      BY <1>3, <2>1
    <3>2. i + 1 = j + 1
      BY <1>4, <3>1 DEF Distinct
    <3> QED BY <3>1, <3>2
  <2>2. ASSUME NEW p \in Names(t) PROVE p \in Names(s) /\ p # s[1]
    <3>1. PICK i \in DOMAIN t : p = t[i]
      BY DEF Names
    <3>2. i + 1 \in DOMAIN s /\ p = s[i + 1] /\ i + 1 # 1 /\ 1 \in DOMAIN s
      BY <1>3, <3>1
    <3> QED BY <1>4, <3>2 DEF Distinct, Names
  <2>3. ASSUME NEW p \in Names(s), p # s[1] PROVE p \in Names(t)
    <3>1. PICK i \in DOMAIN s : p = s[i]
      BY DEF Names
    <3>2. i # 1 /\ i - 1 \in DOMAIN t /\ (i - 1) + 1 = i
      BY <1>3, <2>3, <3>1
    <3>3. t[i - 1] = s[i]
      BY <1>3, <3>2
    <3> QED BY <3>1, <3>2, <3>3 DEF Names
  <2> QED BY <2>1, <2>2, <2>3 DEF Distinct
<1> QED BY <1>1, <1>4 DEF t, Names

\* What is stored is one more.
LEMMA OneMoreKept ==
  ASSUME NEW m \in [Files -> Contents \cup {Up!Absent}], NEW p \in Files, NEW content \in Contents
  PROVE  /\ [m EXCEPT ![p] = content] \in [Files -> Contents \cup {Up!Absent}]
         /\ Kept([m EXCEPT ![p] = content]) = Kept(m) \cup {p}
         /\ Cardinality(Kept(m)) \in Nat
         /\ p \notin Kept(m) => Cardinality(Kept([m EXCEPT ![p] = content])) = Cardinality(Kept(m)) + 1
         /\ Cardinality(Kept([m EXCEPT ![p] = content])) <= Cardinality(Kept(m)) + 1
<1>1. Kept([m EXCEPT ![p] = content]) = Kept(m) \cup {p}
  BY WalkIs DEF Kept
<1>2. IsFiniteSet(Kept(m))
  BY FilesAreFinite, FS_Subset DEF Kept
<1>3. Cardinality(Kept(m)) \in Nat
  BY <1>2, FS_CardinalityType
<1>4. p \notin Kept(m) => Cardinality(Kept(m) \cup {p}) = Cardinality(Kept(m)) + 1
  BY <1>2, FS_AddElement
<1>5. p \in Kept(m) => Kept(m) \cup {p} = Kept(m)
  OBVIOUS
<1>6. Cardinality(Kept(m) \cup {p}) <= Cardinality(Kept(m)) + 1
  <2>1. CASE p \in Kept(m)
    <3>1. Cardinality(Kept(m) \cup {p}) = Cardinality(Kept(m))
      BY <1>5, <2>1
    <3> QED BY <1>3, <3>1
  <2>2. CASE p \notin Kept(m)
    <3>1. Cardinality(Kept(m) \cup {p}) = Cardinality(Kept(m)) + 1
      BY <1>4, <2>2
    <3> QED BY <1>3, <3>1
  <2> QED BY <2>1, <2>2
<1>7. [m EXCEPT ![p] = content] \in [Files -> Contents \cup {Up!Absent}]
  OBVIOUS
<1> QED BY <1>1, <1>3, <1>4, <1>6, <1>7

\* A file that goes from what is left to one of the other counts.
LEMMA Recount ==
  ASSUME NEW a \in Nat, NEW b \in Nat, NEW c \in Nat, NEW d \in Nat, NEW total \in Nat, a + b + c + d = total
  PROVE  /\ (a + 1) + b + c + (d - 1) = total /\ a + (b + 1) + c + (d - 1) = total
         /\ a + b + (c + 1) + (d - 1) = total
OBVIOUS

LEMMA NextOverIs ==
  ASSUME dialog.over \subseteq Files, dialog.over # {} PROVE Up!NextOver \in dialog.over
<1> DEFINE I == {i \in 1 .. Len(Walk) : Walk[i] \in dialog.over}
<1>1. I \in SUBSET Nat /\ I # {}
  BY WalkIs DEF Names
<1>2. PICK k \in I : \A i \in I : k <= i
  BY <1>1, LeastNumber
<1>3. Min(I) \in I
  BY <1>2 DEF Min
<1>4. Up!NextOver = Walk[Min(I)]
  BY <1>1 DEF Up!NextOver, Up!SelectInSeq, Up!Min, Min
<1> QED BY <1>3, <1>4

\* A command that ends early counts nothing.
LEMMA UploadEnds ==
  ASSUME UploadInv, NEW kind, kind \in {dialog.kind, "dir"}, dialog.outcome # "counted" \/ dialog.pc # "end",
         NEW outcome \in Up!Outcomes, outcome # "counted",
         dialog' = [dialog EXCEPT !.pc = "end", !.outcome = outcome, !.kind = kind],
         mine' \in [Files -> Contents \cup {Up!Absent}], agreed' \subseteq Files, replaced' \subseteq agreed',
         kind = "file" => \A p \in Files : mine'[p] \in {Up!Absent, dialog.bytes},
         local' = local
  PROVE  UploadInv'
<1>1. UploadTypes /\ Agrees(dialog, mine, agreed, replaced)
  BY DEF UploadInv
<1>2. /\ dialog' \in Dialogs /\ dialog'.pc = "end" /\ dialog'.outcome = outcome /\ dialog'.kind = kind
      /\ dialog'.over = dialog.over /\ dialog'.bytes = dialog.bytes
  BY <1>1 DEF UploadTypes, Dialogs
<1>3. UploadTypes'
  BY <1>1, <1>2 DEF UploadTypes
<1>4. kind = "file" => OneFile(dialog', mine')
  BY <1>1, <1>2 DEF Agrees, OneFile
<1>5. Agrees(dialog', mine', agreed', replaced')
  BY <1>2, <1>4 DEF Agrees
<1> QED BY <1>3, <1>5 DEF UploadInv

LEMMA UploadStartsFile == ASSUME UploadInv, NEW p \in Files, Up!StartFile(p) PROVE UploadInv'
<1>1. dialog.pc = "start" /\ UNCHANGED <<stored, replaced, mine, local, agreed, changes>>
  BY DEF Up!StartFile, Up!NoStore
<1>2. UploadTypes /\ Agrees(dialog, mine, agreed, replaced)
  BY DEF UploadInv
<1>3. /\ dialog.kind = "file" /\ dialog.outcome # "counted" /\ Kept(mine) = {} /\ OneFile(dialog, mine)
      /\ agreed = {} /\ replaced = {}
  BY <1>1, <1>2 DEF Agrees, OneFile
<1>4. CASE dialog' = [dialog EXCEPT !.pc = "new", !.todo = <<p>>, !.bytes = local[p]]
  <2>1. local[p] \in Contents /\ <<p>> \in Seq(Files) /\ <<p>> # <<>>
    BY <1>2 DEF UploadTypes
  <2>2. /\ dialog' \in Dialogs /\ dialog'.pc = "new" /\ dialog'.kind = "file" /\ dialog'.over = dialog.over
        /\ dialog'.bytes \in Contents /\ dialog'.todo # <<>> /\ dialog'.outcome = dialog.outcome
    BY <1>2, <1>3, <1>4, <2>1 DEF UploadTypes, Dialogs
  <2>3. OneFile(dialog', mine')
    <3>1. \A q \in Files : mine[q] = Up!Absent
      BY <1>3 DEF Kept
    <3> QED BY <1>1, <1>3, <2>2, <3>1 DEF OneFile
  <2>4. Agrees(dialog', mine', agreed', replaced')
    BY <1>1, <1>3, <2>2, <2>3 DEF Agrees
  <2>5. UploadTypes'
    BY <1>1, <1>2, <2>2 DEF UploadTypes
  <2> QED BY <2>4, <2>5 DEF UploadInv
<1>5. CASE dialog' = Up!End("failed")
  <2>1. dialog' = [dialog EXCEPT !.pc = "end", !.outcome = "failed", !.kind = dialog.kind]
    BY <1>2, <1>5 DEF Up!End, UploadTypes, Dialogs
  <2>2. "failed" \in Up!Outcomes
    BY DEF Up!Outcomes
  <2> QED BY <1>1, <1>2, <1>3, <2>1, <2>2, UploadEnds DEF UploadTypes, OneFile, Agrees
<1> QED BY <1>4, <1>5 DEF Up!StartFile

LEMMA UploadSendsFile == ASSUME UploadInv, Up!SendFile PROVE UploadInv'
<1> DEFINE p == Head(dialog.todo)
<1>1. dialog.pc = "new" /\ dialog.kind = "file" /\ UNCHANGED <<local, agreed, changes>>
  BY DEF Up!SendFile
<1>2. UploadTypes /\ Agrees(dialog, mine, agreed, replaced) /\ OneFile(dialog, mine)
  BY <1>1 DEF UploadInv, Agrees
<1>3. /\ dialog.bytes \in Contents /\ p \in Files /\ dialog.outcome # "counted" /\ agreed = {} /\ replaced = {}
      /\ \A q \in Files : mine[q] \in {Up!Absent, dialog.bytes}
  <2>1. dialog.todo \in Seq(Files) /\ dialog.todo # <<>>
    BY <1>1, <1>2 DEF UploadTypes, Dialogs, OneFile
  <2>2. p \in Files
    BY <2>1
  <2> QED BY <1>1, <1>2, <2>2 DEF OneFile, Agrees
<1> HIDE DEF p
<1>4. \A outcome : Up!End(outcome) = [dialog EXCEPT !.pc = "end", !.outcome = outcome, !.kind = dialog.kind]
  BY <1>2 DEF Up!End, UploadTypes, Dialogs
<1>5. CASE Up!NoStore /\ dialog' = [dialog EXCEPT !.pc = "answer"]
  <2>1. /\ dialog' \in Dialogs /\ dialog'.pc = "answer" /\ dialog'.kind = "file" /\ dialog'.over = dialog.over
        /\ dialog'.bytes = dialog.bytes /\ dialog'.todo = dialog.todo /\ dialog'.outcome = dialog.outcome
    BY <1>1, <1>2, <1>5 DEF UploadTypes, Dialogs
  <2>2. UNCHANGED <<replaced, mine>>
    BY <1>5 DEF Up!NoStore
  <2>3. OneFile(dialog', mine')
    BY <1>1, <1>2, <2>1, <2>2 DEF OneFile
  <2>4. Agrees(dialog', mine', agreed', replaced')
    BY <1>1, <1>3, <2>1, <2>2, <2>3 DEF Agrees
  <2>5. UploadTypes'
    BY <1>1, <1>2, <2>1, <2>2 DEF UploadTypes
  <2> QED BY <2>4, <2>5 DEF UploadInv
<1>6. CASE Up!NoStore /\ \E outcome \in {"identical", "failed"} : dialog' = Up!End(outcome)
  <2>1. PICK outcome \in Up!Outcomes : outcome # "counted" /\ dialog' = Up!End(outcome)
    BY <1>6 DEF Up!Outcomes
  <2>2. UNCHANGED <<replaced, mine>>
    BY <1>6 DEF Up!NoStore
  <2> QED BY <1>1, <1>2, <1>3, <1>4, <2>1, <2>2, UploadEnds DEF UploadTypes
<1>7. CASE stored[p] = Up!Absent /\ Up!Store(p, dialog.bytes) /\ dialog' = Up!End("stored")
  <2>1. mine' = [mine EXCEPT ![p] = dialog.bytes] /\ replaced' = replaced
    BY <1>7 DEF Up!Store
  <2>2. mine' \in [Files -> Contents \cup {Up!Absent}] /\ \A q \in Files : mine'[q] \in {Up!Absent, dialog.bytes}
    BY <1>2, <1>3, <2>1 DEF UploadTypes
  <2>3. "stored" \in Up!Outcomes
    BY DEF Up!Outcomes
  <2> QED BY <1>1, <1>3, <1>4, <1>7, <2>1, <2>2, <2>3, UploadEnds
<1> QED BY <1>5, <1>6, <1>7 DEF Up!SendFile, Up!Taken, p

LEMMA UploadAnswersFile == ASSUME UploadInv, Up!AnswerFile PROVE UploadInv'
<1> DEFINE p == Head(dialog.todo)
<1>1. dialog.pc = "answer" /\ UNCHANGED <<local, changes>>
  BY DEF Up!AnswerFile
<1>2. UploadTypes /\ Agrees(dialog, mine, agreed, replaced) /\ OneFile(dialog, mine) /\ dialog.kind = "file"
  BY <1>1 DEF UploadInv, Agrees
<1>3. /\ dialog.bytes \in Contents /\ p \in Files /\ dialog.outcome # "counted" /\ agreed = {} /\ replaced = {}
      /\ \A q \in Files : mine[q] \in {Up!Absent, dialog.bytes}
  <2>1. dialog.todo \in Seq(Files) /\ dialog.todo # <<>>
    BY <1>1, <1>2 DEF UploadTypes, Dialogs, OneFile
  <2>2. p \in Files
    BY <2>1
  <2> QED BY <1>1, <1>2, <2>2 DEF OneFile, Agrees
<1> HIDE DEF p
<1>4. \A outcome : Up!End(outcome) = [dialog EXCEPT !.pc = "end", !.outcome = outcome, !.kind = dialog.kind]
  BY <1>2 DEF Up!End, UploadTypes, Dialogs
<1>5. {"canceled", "stored", "failed"} \subseteq Up!Outcomes \ {"counted"}
  BY DEF Up!Outcomes
<1>6. CASE dialog' = Up!End("canceled") /\ Up!NoStore /\ UNCHANGED agreed
  <2>1. UNCHANGED <<replaced, mine>>
    BY <1>6 DEF Up!NoStore
  <2> QED BY <1>1, <1>2, <1>3, <1>4, <1>5, <1>6, <2>1, UploadEnds DEF UploadTypes
<1>7. CASE agreed' = {p} /\ Up!Store(p, dialog.bytes) /\ dialog' = Up!End("stored")
  <2>1. mine' = [mine EXCEPT ![p] = dialog.bytes] /\ replaced' \subseteq replaced \cup {p}
    BY <1>7 DEF Up!Store
  <2>2. mine' \in [Files -> Contents \cup {Up!Absent}] /\ \A q \in Files : mine'[q] \in {Up!Absent, dialog.bytes}
    BY <1>2, <1>3, <2>1 DEF UploadTypes
  <2>3. agreed' \subseteq Files /\ replaced' \subseteq agreed'
    BY <1>3, <1>7, <2>1
  <2> QED BY <1>1, <1>3, <1>4, <1>5, <1>7, <2>2, <2>3, UploadEnds
<1>8. CASE agreed' = {p} /\ Up!NoStore /\ dialog' = Up!End("failed")
  <2>1. UNCHANGED <<replaced, mine>>
    BY <1>8 DEF Up!NoStore
  <2>2. agreed' \subseteq Files /\ replaced' \subseteq agreed'
    BY <1>3, <1>8, <2>1
  <2> QED BY <1>1, <1>2, <1>3, <1>4, <1>5, <1>8, <2>1, <2>2, UploadEnds DEF UploadTypes
<1> QED BY <1>6, <1>7, <1>8 DEF Up!AnswerFile, Up!Resent, p

LEMMA UploadStartsDir == ASSUME UploadInv, Up!StartDir PROVE UploadInv'
<1>1. dialog.pc = "start" /\ UNCHANGED <<stored, replaced, mine, local, agreed, changes>>
  BY DEF Up!StartDir, Up!NoStore
<1>2. UploadTypes /\ Agrees(dialog, mine, agreed, replaced)
  BY DEF UploadInv
<1>3. /\ dialog.kind = "file" /\ dialog.outcome # "counted" /\ Kept(mine) = {} /\ OneFile(dialog, mine)
      /\ agreed = {} /\ replaced = {} /\ dialog.conflicts = <<>> /\ dialog.ok = 0 /\ dialog.failed = 0
      /\ dialog.over = {}
  BY <1>1, <1>2 DEF Agrees, OneFile
<1>4. CASE dialog' = [dialog EXCEPT !.pc = "new", !.kind = "dir", !.todo = Walk]
  <2>1. /\ dialog' \in Dialogs /\ dialog'.pc = "new" /\ dialog'.kind = "dir" /\ dialog'.over = {}
        /\ dialog'.todo = Walk /\ dialog'.conflicts = <<>> /\ dialog'.ok = 0 /\ dialog'.failed = 0
        /\ dialog'.outcome # "counted"
    BY <1>2, <1>3, <1>4, WalkIs DEF UploadTypes, Dialogs
  <2>2. Cardinality(Kept(mine)) = 0 /\ Names(<<>>) = {} /\ Len(<<>>) = 0
    BY <1>3, FS_EmptySet DEF Names
  <2>3. Sending(dialog', mine')
    BY <1>1, <1>3, <2>1, <2>2, WalkIs DEF Sending
  <2>4. Agrees(dialog', mine', agreed', replaced')
    BY <1>1, <1>3, <2>1, <2>3 DEF Agrees
  <2>5. UploadTypes'
    BY <1>1, <1>2, <2>1 DEF UploadTypes
  <2> QED BY <2>4, <2>5 DEF UploadInv
<1>5. CASE dialog' = [Up!End("canceled") EXCEPT !.kind = "dir"]
  <2>1. dialog' = [dialog EXCEPT !.pc = "end", !.outcome = "canceled", !.kind = "dir"]
    BY <1>2, <1>5 DEF Up!End, UploadTypes, Dialogs
  <2>2. "canceled" \in Up!Outcomes
    BY DEF Up!Outcomes
  <2>3. mine' \in [Files -> Contents \cup {Up!Absent}] /\ agreed' \subseteq Files /\ replaced' \subseteq agreed'
    BY <1>1, <1>2, <1>3 DEF UploadTypes
  <2> QED BY <1>1, <1>3, <2>1, <2>2, <2>3, UploadEnds
<1> QED BY <1>4, <1>5 DEF Up!StartDir

LEMMA UploadSendsNext == ASSUME UploadInv, Up!SendNext PROVE UploadInv'
<1> DEFINE p == Head(dialog.todo)
           t == Tail(dialog.todo)
<1>1. dialog.pc = "new" /\ dialog.kind = "dir" /\ dialog.todo # <<>> /\ UNCHANGED <<local, agreed, changes>>
  BY DEF Up!SendNext
<1>2. UploadTypes /\ Agrees(dialog, mine, agreed, replaced) /\ Sending(dialog, mine)
  BY <1>1 DEF UploadInv, Agrees
<1>3. dialog.todo \in Seq(Files) /\ dialog.conflicts \in Seq(Files) /\ dialog.ok \in Nat /\ dialog.failed \in Nat
  BY <1>2 DEF UploadTypes, Dialogs
<1>4. /\ p \in Files /\ t \in Seq(Files) /\ p \in Names(dialog.todo) /\ Len(t) = Len(dialog.todo) - 1
      /\ Len(dialog.todo) \in Nat \ {0}
  BY <1>1, <1>3, HeadIs
<1>5. Distinct(dialog.todo) /\ Distinct(t) /\ Names(t) = Names(dialog.todo) \ {p}
  BY <1>1, <1>2, <1>3, HeadIs DEF Sending
<1>6. agreed = {} /\ replaced = {} /\ dialog.outcome # "counted" /\ p \notin Kept(mine)
      /\ p \notin Names(dialog.conflicts)
  BY <1>1, <1>2, <1>4 DEF Agrees, Sending
<1>7. local[p] \in Contents
  BY <1>2, <1>4 DEF UploadTypes
<1>a. Len(dialog.conflicts) \in Nat /\ Len(t) \in Nat /\ Len(Walk) \in Nat
  BY <1>3, <1>4, WalkIs
<1>b. /\ Names(dialog.todo) \cap Names(dialog.conflicts) = {}
      /\ Kept(mine) \cap (Names(dialog.todo) \cup Names(dialog.conflicts)) = {}
      /\ dialog.ok + dialog.failed + Len(dialog.conflicts) + Len(dialog.todo) = Len(Walk)
      /\ dialog.ok = Cardinality(Kept(mine)) /\ dialog.over = {}
  BY <1>2 DEF Sending
<1>c. LET n == Len(dialog.conflicts)
      IN /\ (dialog.ok + 1) + dialog.failed + n + Len(t) = Len(Walk)
         /\ dialog.ok + (dialog.failed + 1) + n + Len(t) = Len(Walk)
         /\ dialog.ok + dialog.failed + (n + 1) + Len(t) = Len(Walk)
  <2> DEFINE n == Len(dialog.conflicts)
             total == Len(Walk)
             d == Len(dialog.todo)
             e == Len(t)
             ok == dialog.ok
             failed == dialog.failed
  <2>1. ok \in Nat /\ failed \in Nat /\ n \in Nat /\ d \in Nat /\ total \in Nat /\ e = d - 1 /\ ok + failed + n + d = total
    BY <1>3, <1>4, <1>a, <1>b
  <2> HIDE DEF n, total, d, e, ok, failed
  <2>2. /\ (ok + 1) + failed + n + e = total /\ ok + (failed + 1) + n + e = total
        /\ ok + failed + (n + 1) + e = total
    BY <2>1, Recount
  <2> QED BY <2>2 DEF n, total, d, e, ok, failed
<1> HIDE DEF p, t
<1>8. ASSUME dialog' \in Dialogs, dialog'.pc = "new", dialog'.kind = "dir", dialog'.outcome = dialog.outcome,
             Sending(dialog', mine'), replaced' = replaced, mine' \in [Files -> Contents \cup {Up!Absent}]
      PROVE  UploadInv'
  <2>1. Agrees(dialog', mine', agreed', replaced')
    BY <1>1, <1>6, <1>8 DEF Agrees
  <2>2. UploadTypes'
    BY <1>1, <1>2, <1>8 DEF UploadTypes
  <2> QED BY <2>1, <2>2 DEF UploadInv
<1>9. CASE stored[p] = Up!Absent /\ Up!Store(p, local[p]) /\ dialog' = [dialog EXCEPT !.todo = t, !.ok = dialog.ok + 1]
  <2>1. mine' = [mine EXCEPT ![p] = local[p]] /\ replaced' = replaced
    BY <1>9 DEF Up!Store
  <2>2. /\ mine' \in [Files -> Contents \cup {Up!Absent}] /\ Kept(mine') = Kept(mine) \cup {p}
        /\ Cardinality(Kept(mine')) = Cardinality(Kept(mine)) + 1
    BY <1>2, <1>4, <1>6, <1>7, <2>1, OneMoreKept DEF UploadTypes
  <2> DEFINE ok == dialog.ok + 1
  <2>a. ok \in Nat /\ dialog' = [dialog EXCEPT !.todo = t, !.ok = ok] /\ dialog \in Dialogs
    BY <1>2, <1>3, <1>9 DEF UploadTypes
  <2> HIDE DEF ok
  <2>b. /\ dialog' \in Dialogs /\ dialog'.pc = "new" /\ dialog'.kind = "dir" /\ dialog'.outcome = dialog.outcome
        /\ dialog'.todo = t /\ dialog'.conflicts = dialog.conflicts /\ dialog'.ok = ok
        /\ dialog'.failed = dialog.failed /\ dialog'.over = dialog.over
    BY <1>1, <1>4, <2>a DEF Dialogs
  <2>3. /\ dialog' \in Dialogs /\ dialog'.pc = "new" /\ dialog'.kind = "dir" /\ dialog'.outcome = dialog.outcome
        /\ dialog'.todo = t /\ dialog'.conflicts = dialog.conflicts /\ dialog'.ok = dialog.ok + 1
        /\ dialog'.failed = dialog.failed /\ dialog'.over = dialog.over
    BY <2>b DEF ok
  <2>4. dialog'.ok + dialog'.failed + Len(dialog'.conflicts) + Len(dialog'.todo) = Len(Walk)
    BY <1>c, <2>3
  <2>5. Sending(dialog', mine')
    BY <1>5, <1>6, <1>b, <2>2, <2>3, <2>4 DEF Sending
  <2> QED BY <1>8, <2>1, <2>2, <2>3, <2>5
<1>10. CASE Up!NoStore /\ dialog' = [dialog EXCEPT !.todo = t, !.conflicts = Append(dialog.conflicts, p)]
  <2>1. UNCHANGED <<replaced, mine>>
    BY <1>10 DEF Up!NoStore
  <2> DEFINE more == Append(dialog.conflicts, p)
  <2>2. more \in Seq(Files) /\ Len(more) = Len(dialog.conflicts) + 1 /\ Names(more) = Names(dialog.conflicts) \cup {p}
    <3> DEFINE c == dialog.conflicts
    <3>1. c \in Seq(Files) /\ Len(c) \in Nat /\ more = Append(c, p)
      BY <1>3
    <3> HIDE DEF c, more
    <3>2. /\ more \in Seq(Files) /\ Len(more) = Len(c) + 1 /\ \A i \in 1 .. Len(c) : more[i] = c[i]
          /\ more[Len(c) + 1] = p /\ DOMAIN c = 1 .. Len(c) /\ DOMAIN more = 1 .. Len(c) + 1
      BY <1>4, <3>1
    <3>3. Names(more) = Names(c) \cup {p}
      BY <3>1, <3>2 DEF Names
    <3> QED BY <3>2, <3>3 DEF c
  <2> HIDE DEF more
  <2>3. /\ dialog' \in Dialogs /\ dialog'.pc = "new" /\ dialog'.kind = "dir" /\ dialog'.outcome = dialog.outcome
        /\ dialog'.todo = t /\ dialog'.conflicts = more /\ dialog'.ok = dialog.ok
        /\ dialog'.failed = dialog.failed /\ dialog'.over = dialog.over
    BY <1>1, <1>2, <1>3, <1>4, <1>10, <2>2 DEF UploadTypes, Dialogs, more
  <2>4. dialog'.ok + dialog'.failed + Len(dialog'.conflicts) + Len(dialog'.todo) = Len(Walk)
    BY <1>c, <2>2, <2>3
  <2>5. Sending(dialog', mine')
    BY <1>4, <1>5, <1>6, <1>b, <2>1, <2>2, <2>3, <2>4 DEF Sending
  <2> QED BY <1>2, <1>8, <2>1, <2>3, <2>5 DEF UploadTypes
<1>11. CASE Up!NoStore /\ dialog' = [dialog EXCEPT !.todo = t, !.failed = dialog.failed + 1]
  <2>1. UNCHANGED <<replaced, mine>>
    BY <1>11 DEF Up!NoStore
  <2> DEFINE failed == dialog.failed + 1
  <2>a. failed \in Nat /\ dialog' = [dialog EXCEPT !.todo = t, !.failed = failed] /\ dialog \in Dialogs
    BY <1>2, <1>3, <1>11 DEF UploadTypes
  <2> HIDE DEF failed
  <2>b. /\ dialog' \in Dialogs /\ dialog'.pc = "new" /\ dialog'.kind = "dir" /\ dialog'.outcome = dialog.outcome
        /\ dialog'.todo = t /\ dialog'.conflicts = dialog.conflicts /\ dialog'.ok = dialog.ok
        /\ dialog'.failed = failed /\ dialog'.over = dialog.over
    BY <1>1, <1>4, <2>a DEF Dialogs
  <2>3. /\ dialog' \in Dialogs /\ dialog'.pc = "new" /\ dialog'.kind = "dir" /\ dialog'.outcome = dialog.outcome
        /\ dialog'.todo = t /\ dialog'.conflicts = dialog.conflicts /\ dialog'.ok = dialog.ok
        /\ dialog'.failed = dialog.failed + 1 /\ dialog'.over = dialog.over
    BY <2>b DEF failed
  <2>4. dialog'.ok + dialog'.failed + Len(dialog'.conflicts) + Len(dialog'.todo) = Len(Walk)
    BY <1>c, <2>3
  <2>5. Sending(dialog', mine')
    BY <1>5, <1>b, <2>1, <2>3, <2>4 DEF Sending
  <2> QED BY <1>2, <1>8, <2>1, <2>3, <2>5 DEF UploadTypes
<1> QED BY <1>9, <1>10, <1>11 DEF Up!SendNext, Up!Taken, p, t

LEMMA UploadSentAll == ASSUME UploadInv, Up!AllSent PROVE UploadInv'
<1> DEFINE pc == IF dialog.conflicts = <<>> THEN "overwrite" ELSE "choice"
<1>1. /\ dialog.pc = "new" /\ dialog.kind = "dir" /\ dialog.todo = <<>>
      /\ dialog' = [dialog EXCEPT !.pc = pc] /\ UNCHANGED <<local, agreed, changes, stored, replaced, mine>>
  BY DEF Up!AllSent, Up!NoStore
<1>2. UploadTypes /\ Agrees(dialog, mine, agreed, replaced) /\ Sending(dialog, mine)
  BY <1>1 DEF UploadInv, Agrees
<1>3. /\ dialog' \in Dialogs /\ dialog'.pc = pc /\ dialog'.kind = "dir" /\ dialog'.outcome = dialog.outcome
      /\ dialog'.todo = <<>> /\ dialog'.conflicts = dialog.conflicts /\ dialog'.ok = dialog.ok
      /\ dialog'.failed = dialog.failed /\ dialog'.over = dialog.over
  BY <1>1, <1>2 DEF UploadTypes, Dialogs
<1>4. agreed = {} /\ replaced = {} /\ dialog.outcome # "counted" /\ dialog.over = {}
  BY <1>1, <1>2 DEF Agrees, Sending
<1>5. UploadTypes'
  BY <1>1, <1>2, <1>3 DEF UploadTypes
<1>6. CASE dialog.conflicts = <<>>
  <2>1. Cardinality({}) = 0 /\ Names(<<>>) = {} /\ Len(<<>>) = 0
    BY FS_EmptySet DEF Names
  <2>2. dialog.ok \in Nat /\ dialog.failed \in Nat
    BY <1>2 DEF UploadTypes, Dialogs
  <2>a. dialog.ok + dialog.failed = Len(Walk) /\ dialog.ok = Cardinality(Kept(mine))
    BY <1>1, <1>2, <1>6, <2>1, <2>2 DEF Sending
  <2>b. dialog.ok + dialog.failed + 0 + 0 = Len(Walk) + 0
    BY <2>a, <2>2, WalkIs
  <2>c. /\ Len(dialog'.conflicts) = 0 /\ Cardinality(dialog'.over) = 0 /\ Cardinality(agreed') = 0
        /\ Names(dialog'.conflicts) = {} /\ dialog'.over = {} /\ Kept(mine') = Kept(mine)
        /\ dialog'.ok = dialog.ok /\ dialog'.failed = dialog.failed /\ agreed' = {}
    BY <1>1, <1>3, <1>4, <1>6, <2>1
  <2>3. Overwriting(dialog', mine', agreed')
    <3>1. dialog'.ok + dialog'.failed + Len(dialog'.conflicts) + Cardinality(dialog'.over)
          = Len(Walk) + Cardinality(agreed')
      BY <2>b, <2>c
    <3> QED BY <2>a, <2>c, <3>1 DEF Overwriting
  <2>4. Agrees(dialog', mine', agreed', replaced')
    BY <1>1, <1>3, <1>4, <1>6, <2>3 DEF Agrees
  <2> QED BY <1>5, <2>4 DEF UploadInv
<1>7. CASE dialog.conflicts # <<>>
  <2>1. Sending(dialog', mine')
    BY <1>1, <1>2, <1>3 DEF Sending
  <2>2. Agrees(dialog', mine', agreed', replaced')
    BY <1>1, <1>3, <1>4, <1>7, <2>1 DEF Agrees
  <2> QED BY <1>5, <2>2 DEF UploadInv
<1> QED BY <1>6, <1>7

LEMMA UploadChooses == ASSUME UploadInv, Up!Choose PROVE UploadInv'
<1>1. dialog.pc = "choice" /\ UNCHANGED <<stored, replaced, mine, local, changes>>
  BY DEF Up!Choose, Up!NoStore
<1>2. UploadTypes /\ Agrees(dialog, mine, agreed, replaced)
  BY DEF UploadInv
<1>3. /\ dialog.kind = "dir" /\ agreed = {} /\ replaced = {} /\ dialog.outcome # "counted" /\ dialog.todo = <<>>
      /\ Sending(dialog, mine)
  <2>1. dialog.kind # "file"
    BY <1>1, <1>2 DEF Agrees, OneFile
  <2>2. dialog.kind = "dir"
    BY <1>2, <2>1 DEF UploadTypes, Dialogs
  <2> QED BY <1>1, <1>2, <2>2 DEF Agrees
<1>4. CASE dialog' \in {Up!End("aborted"), Up!End("canceled")} /\ UNCHANGED agreed
  <2>1. PICK outcome \in {"aborted", "canceled"} :
          dialog' = [dialog EXCEPT !.pc = "end", !.outcome = outcome, !.kind = dialog.kind]
    BY <1>2, <1>4 DEF Up!End, UploadTypes, Dialogs
  <2>2. outcome \in Up!Outcomes /\ outcome # "counted"
    BY DEF Up!Outcomes
  <2>3. mine' \in [Files -> Contents \cup {Up!Absent}] /\ agreed' \subseteq Files /\ replaced' \subseteq agreed'
    BY <1>1, <1>2, <1>3, <1>4 DEF UploadTypes
  <2> QED BY <1>1, <1>3, <2>1, <2>2, <2>3, UploadEnds
<1>5. ASSUME NEW yes \in SUBSET Up!ToSet(dialog.conflicts), agreed' = yes,
             dialog' = [dialog EXCEPT !.pc = "overwrite", !.over = yes]
      PROVE  UploadInv'
  <2>1. dialog.conflicts \in Seq(Files) /\ dialog.ok \in Nat /\ dialog.failed \in Nat
    BY <1>2 DEF UploadTypes, Dialogs
  <2>2. yes \subseteq Names(dialog.conflicts) /\ Names(dialog.conflicts) \subseteq Files
    BY <1>5, <2>1 DEF Up!ToSet, Names
  <2>3. /\ dialog' \in Dialogs /\ dialog'.pc = "overwrite" /\ dialog'.kind = "dir"
        /\ dialog'.outcome = dialog.outcome /\ dialog'.conflicts = dialog.conflicts
        /\ dialog'.ok = dialog.ok /\ dialog'.failed = dialog.failed /\ dialog'.over = yes
    BY <1>2, <1>3, <1>5, <2>2 DEF UploadTypes, Dialogs
  <2>4. Cardinality(yes) \in Nat /\ Len(dialog.conflicts) \in Nat /\ Len(<<>>) = 0
    BY <2>1, <2>2, FilesAreFinite, FS_Subset, FS_CardinalityType
  <2>5. dialog.ok + dialog.failed + Len(dialog.conflicts) = Len(Walk)
    BY <1>3, <2>1, <2>4 DEF Sending
  <2>6. Overwriting(dialog', mine', agreed')
    BY <1>1, <1>3, <1>5, <2>1, <2>2, <2>3, <2>4, <2>5 DEF Overwriting, Sending
  <2>7. Agrees(dialog', mine', agreed', replaced')
    BY <1>1, <1>3, <2>3, <2>6 DEF Agrees
  <2>8. UploadTypes'
    BY <1>1, <1>2, <1>5, <2>2, <2>3 DEF UploadTypes
  <2> QED BY <2>7, <2>8 DEF UploadInv
<1> QED BY <1>4, <1>5 DEF Up!Choose

LEMMA UploadOverwrites == ASSUME UploadInv, Up!OverwriteNext PROVE UploadInv'
<1> DEFINE p == Up!NextOver
           left == dialog.over \ {p}
<1>1. dialog.pc = "overwrite" /\ dialog.over # {} /\ UNCHANGED <<local, agreed, changes>>
  BY DEF Up!OverwriteNext
<1>2. UploadTypes /\ Agrees(dialog, mine, agreed, replaced) /\ Overwriting(dialog, mine, agreed) /\ dialog.kind = "dir"
  BY <1>1 DEF UploadInv, Agrees
<1>3. /\ dialog.conflicts \in Seq(Files) /\ dialog.ok \in Nat /\ dialog.failed \in Nat /\ dialog.over \subseteq Files
      /\ Len(dialog.conflicts) \in Nat
  <2>1. dialog.conflicts \in Seq(Files) /\ dialog.ok \in Nat /\ dialog.failed \in Nat /\ dialog.over \subseteq Files
    BY <1>2 DEF UploadTypes, Dialogs
  <2> QED BY <2>1
<1>4. p \in dialog.over /\ p \in Files /\ p \in agreed /\ p \in Names(dialog.conflicts)
  BY <1>1, <1>2, <1>3, NextOverIs DEF Overwriting
<1>5. /\ Cardinality(left) = Cardinality(dialog.over) - 1 /\ Cardinality(dialog.over) \in Nat
      /\ Cardinality(agreed) \in Nat
  <2>1. IsFiniteSet(dialog.over) /\ IsFiniteSet(agreed)
    BY <1>2, <1>3, FilesAreFinite, FS_Subset DEF UploadTypes
  <2> QED BY <1>4, <2>1, FS_RemoveElement, FS_CardinalityType
<1>6. p \notin Kept(mine) /\ local[p] \in Contents
  BY <1>2, <1>4 DEF Overwriting, UploadTypes
<1>7. /\ agreed \subseteq Names(dialog.conflicts) /\ dialog.over \subseteq agreed /\ replaced \subseteq agreed
      /\ Kept(mine) \cap Names(dialog.conflicts) \subseteq agreed \ dialog.over
      /\ dialog.ok + dialog.failed + Len(dialog.conflicts) + Cardinality(dialog.over) = Len(Walk) + Cardinality(agreed)
      /\ dialog.ok = Cardinality(Kept(mine)) /\ dialog.outcome # "counted" /\ Len(Walk) \in Nat
  BY <1>1, <1>2, WalkIs DEF Overwriting, Agrees
<1>a. left \subseteq Files
  BY <1>3
<1>b. LET n == Len(dialog.conflicts)
      IN /\ (dialog.ok + 1) + dialog.failed + n + Cardinality(left) = Len(Walk) + Cardinality(agreed)
         /\ dialog.ok + (dialog.failed + 1) + n + Cardinality(left) = Len(Walk) + Cardinality(agreed)
  <2> DEFINE n == Len(dialog.conflicts)
             total == Len(Walk) + Cardinality(agreed)
             d == Cardinality(dialog.over)
             e == Cardinality(left)
             ok == dialog.ok
             failed == dialog.failed
  <2>1. ok \in Nat /\ failed \in Nat /\ n \in Nat /\ d \in Nat /\ total \in Nat /\ e = d - 1 /\ ok + failed + n + d = total
    BY <1>3, <1>5, <1>7
  <2> HIDE DEF n, total, d, e, ok, failed
  <2>2. (ok + 1) + failed + n + e = total /\ ok + (failed + 1) + n + e = total
    BY <2>1, Recount
  <2> QED BY <2>2 DEF n, total, d, e, ok, failed
<1> HIDE DEF p, left
<1>8. ASSUME dialog' \in Dialogs, dialog'.pc = "overwrite", dialog'.kind = "dir", dialog'.outcome = dialog.outcome,
             Overwriting(dialog', mine', agreed), replaced' \subseteq agreed,
             mine' \in [Files -> Contents \cup {Up!Absent}]
      PROVE  UploadInv'
  <2>1. Agrees(dialog', mine', agreed', replaced')
    BY <1>1, <1>7, <1>8 DEF Agrees
  <2>2. UploadTypes'
    BY <1>1, <1>2, <1>8 DEF UploadTypes
  <2> QED BY <2>1, <2>2 DEF UploadInv
<1>9. CASE Up!Store(p, local[p]) /\ dialog' = [dialog EXCEPT !.over = left, !.ok = dialog.ok + 1]
  <2>1. mine' = [mine EXCEPT ![p] = local[p]] /\ replaced' \subseteq agreed
    BY <1>4, <1>7, <1>9 DEF Up!Store
  <2>2. /\ mine' \in [Files -> Contents \cup {Up!Absent}] /\ Kept(mine') = Kept(mine) \cup {p}
        /\ Cardinality(Kept(mine')) = Cardinality(Kept(mine)) + 1
    BY <1>2, <1>4, <1>6, <2>1, OneMoreKept DEF UploadTypes
  <2> DEFINE ok == dialog.ok + 1
  <2>a. ok \in Nat /\ dialog' = [dialog EXCEPT !.over = left, !.ok = ok] /\ dialog \in Dialogs
    BY <1>2, <1>3, <1>9 DEF UploadTypes
  <2> HIDE DEF ok
  <2>b. /\ dialog' \in Dialogs /\ dialog'.pc = "overwrite" /\ dialog'.kind = "dir" /\ dialog'.outcome = dialog.outcome
        /\ dialog'.conflicts = dialog.conflicts /\ dialog'.ok = ok
        /\ dialog'.failed = dialog.failed /\ dialog'.over = left
    BY <1>1, <1>2, <1>a, <2>a DEF Dialogs
  <2>3. /\ dialog' \in Dialogs /\ dialog'.pc = "overwrite" /\ dialog'.kind = "dir" /\ dialog'.outcome = dialog.outcome
        /\ dialog'.conflicts = dialog.conflicts /\ dialog'.ok = dialog.ok + 1
        /\ dialog'.failed = dialog.failed /\ dialog'.over = left
    BY <2>b DEF ok
  <2>4. dialog'.ok + dialog'.failed + Len(dialog'.conflicts) + Cardinality(dialog'.over) = Len(Walk) + Cardinality(agreed)
    BY <1>b, <2>3
  <2>5. Overwriting(dialog', mine', agreed)
    BY <1>4, <1>7, <2>2, <2>3, <2>4 DEF Overwriting, left
  <2> QED BY <1>8, <2>1, <2>2, <2>3, <2>5
<1>10. CASE Up!NoStore /\ dialog' = [dialog EXCEPT !.over = left, !.failed = dialog.failed + 1]
  <2>1. UNCHANGED <<replaced, mine>>
    BY <1>10 DEF Up!NoStore
  <2> DEFINE failed == dialog.failed + 1
  <2>a. failed \in Nat /\ dialog' = [dialog EXCEPT !.over = left, !.failed = failed] /\ dialog \in Dialogs
    BY <1>2, <1>3, <1>10 DEF UploadTypes
  <2> HIDE DEF failed
  <2>b. /\ dialog' \in Dialogs /\ dialog'.pc = "overwrite" /\ dialog'.kind = "dir" /\ dialog'.outcome = dialog.outcome
        /\ dialog'.conflicts = dialog.conflicts /\ dialog'.ok = dialog.ok
        /\ dialog'.failed = failed /\ dialog'.over = left
    BY <1>1, <1>2, <1>a, <2>a DEF Dialogs
  <2>3. /\ dialog' \in Dialogs /\ dialog'.pc = "overwrite" /\ dialog'.kind = "dir" /\ dialog'.outcome = dialog.outcome
        /\ dialog'.conflicts = dialog.conflicts /\ dialog'.ok = dialog.ok
        /\ dialog'.failed = dialog.failed + 1 /\ dialog'.over = left
    BY <2>b DEF failed
  <2>4. dialog'.ok + dialog'.failed + Len(dialog'.conflicts) + Cardinality(dialog'.over) = Len(Walk) + Cardinality(agreed)
    BY <1>b, <2>3
  <2>5. Overwriting(dialog', mine', agreed)
    BY <1>4, <1>7, <2>1, <2>3, <2>4 DEF Overwriting, left
  <2> QED BY <1>2, <1>7, <1>8, <2>1, <2>3, <2>5 DEF UploadTypes
<1> QED BY <1>9, <1>10 DEF Up!OverwriteNext, p, left

LEMMA UploadFinishes == ASSUME UploadInv, Up!Finish PROVE UploadInv'
<1>1. /\ dialog.pc = "overwrite" /\ dialog.over = {} /\ dialog' = Up!End("counted")
      /\ UNCHANGED <<local, agreed, changes, stored, replaced, mine>>
  BY DEF Up!Finish, Up!NoStore
<1>2. UploadTypes /\ Agrees(dialog, mine, agreed, replaced) /\ Overwriting(dialog, mine, agreed) /\ dialog.kind = "dir"
  BY <1>1 DEF UploadInv, Agrees
<1>3. /\ dialog' \in Dialogs /\ dialog'.pc = "end" /\ dialog'.kind = "dir"
      /\ dialog'.conflicts = dialog.conflicts /\ dialog'.ok = dialog.ok
      /\ dialog'.failed = dialog.failed /\ dialog'.over = dialog.over
  BY <1>1, <1>2 DEF UploadTypes, Dialogs, Up!End, Up!Outcomes
<1>4. Overwriting(dialog', mine', agreed')
  BY <1>1, <1>2, <1>3 DEF Overwriting
<1>5. Agrees(dialog', mine', agreed', replaced')
  BY <1>1, <1>2, <1>3, <1>4 DEF Agrees
<1>6. UploadTypes'
  BY <1>1, <1>2, <1>3 DEF UploadTypes
<1> QED BY <1>5, <1>6 DEF UploadInv

LEMMA UploadBreaks == ASSUME UploadInv, Up!Break PROVE UploadInv'
<1>1. /\ dialog.pc \in {"new", "choice", "answer", "overwrite"} /\ dialog' = Up!End("broken")
      /\ UNCHANGED <<local, agreed, changes>>
  BY DEF Up!Break
<1>2. UploadTypes /\ Agrees(dialog, mine, agreed, replaced)
  BY DEF UploadInv
<1>3. /\ dialog' = [dialog EXCEPT !.pc = "end", !.outcome = "broken", !.kind = dialog.kind]
      /\ "broken" \in Up!Outcomes /\ dialog.pc # "end"
  BY <1>1, <1>2 DEF Up!End, UploadTypes, Dialogs, Up!Outcomes
<1>4. ASSUME mine' \in [Files -> Contents \cup {Up!Absent}], replaced' \subseteq agreed,
             dialog.kind = "file" => \A q \in Files : mine'[q] \in {Up!Absent, dialog.bytes}
      PROVE  UploadInv'
  <2>1. agreed' \subseteq Files /\ replaced' \subseteq agreed'
    BY <1>1, <1>2, <1>4 DEF UploadTypes
  <2> QED BY <1>1, <1>3, <1>4, <2>1, UploadEnds
<1>5. replaced \subseteq agreed /\ (dialog.kind = "file" => OneFile(dialog, mine))
  BY <1>2 DEF Agrees
<1>6. CASE Up!NoStore
  BY <1>2, <1>4, <1>5, <1>6 DEF Up!NoStore, UploadTypes, OneFile
<1>7. ASSUME dialog.pc = "new", dialog.todo # <<>>, NEW p, p = Head(dialog.todo), ~Up!Taken(p),
             Up!Store(p, IF dialog.kind = "file" THEN dialog.bytes ELSE local[p])
      PROVE  UploadInv'
  <2>1. p \in Files
    <3>1. dialog.todo \in Seq(Files)
      BY <1>2 DEF UploadTypes, Dialogs
    <3> QED BY <1>7, <3>1
  <2>2. (dialog.kind = "file" => dialog.bytes \in Contents) /\ local[p] \in Contents
    BY <1>2, <1>5, <1>7, <2>1 DEF UploadTypes, OneFile
  <2>3. replaced' = replaced
    BY <1>7 DEF Up!Store, Up!Taken
  <2>4. CASE dialog.kind = "file"
    <3>1. mine' = [mine EXCEPT ![p] = dialog.bytes]
      BY <1>7, <2>4 DEF Up!Store
    <3> QED BY <1>2, <1>4, <1>5, <2>1, <2>2, <2>3, <2>4, <3>1 DEF UploadTypes, OneFile
  <2>5. CASE dialog.kind # "file"
    <3>1. mine' = [mine EXCEPT ![p] = local[p]]
      BY <1>7, <2>5 DEF Up!Store
    <3> QED BY <1>2, <1>4, <1>5, <2>1, <2>2, <2>3, <2>5, <3>1 DEF UploadTypes
  <2> QED BY <2>4, <2>5
<1>8. ASSUME dialog.pc = "overwrite", dialog.over # {}, NEW p, p = Up!NextOver, Up!Store(p, local[p])
      PROVE  UploadInv'
  <2>1. dialog.over \subseteq agreed /\ dialog.over \subseteq Files /\ dialog.kind = "dir"
    BY <1>2, <1>8 DEF UploadTypes, Dialogs, Agrees, Overwriting
  <2>2. p \in agreed /\ p \in Files
    BY <1>8, <2>1, NextOverIs
  <2>3. mine' = [mine EXCEPT ![p] = local[p]] /\ replaced' \subseteq replaced \cup {p} /\ local[p] \in Contents
    BY <1>2, <1>8, <2>2 DEF Up!Store, UploadTypes
  <2> QED BY <1>2, <1>4, <1>5, <2>1, <2>2, <2>3 DEF UploadTypes
<1> QED BY <1>6, <1>7, <1>8 DEF Up!Break

LEMMA UploadKeeps == ASSUME UploadInv, [MCNext]_MCVars PROVE UploadInv'
<1>1. CASE UNCHANGED uploadVars
  BY <1>1 DEF uploadVars, UploadInv, UploadTypes
<1>2. ASSUME NEW p \in Files, NEW content \in Contents \cup {Up!Absent}, Up!Change(p, content) PROVE UploadInv'
  <2>1. UNCHANGED <<dialog, agreed, replaced, mine>> /\ local' \in [Files -> Contents]
    BY <1>2 DEF Up!Change, UploadInv, UploadTypes
  <2> QED BY <2>1 DEF UploadInv, UploadTypes
<1>3. ASSUME Up!UploadFile PROVE UploadInv'
  BY <1>3, UploadStartsFile, UploadSendsFile, UploadAnswersFile DEF Up!UploadFile, Files
<1>4. ASSUME Up!UploadDir PROVE UploadInv'
  BY <1>4, UploadStartsDir, UploadSendsNext, UploadSentAll, UploadChooses, UploadOverwrites, UploadFinishes
     DEF Up!UploadDir
<1> QED BY <1>1, <1>2, <1>3, <1>4, UploadBreaks, UploadMoves DEF Up!Next, Files

\* Whoever stores and removes files meanwhile, and whatever fails: an upload replaces
\* nothing that its user has not agreed to, stores one file as it was compared, and
\* counts every file of a directory once (cmd_vfs_send).
THEOREM UploadsAreHonest == MCSpec => []UploadsHold
<1>1. MCInit => UploadInv
  BY UploadBegins DEF MCInit
<1>2. ASSUME UploadInv PROVE UploadsHold
  <2>1. UploadTypes /\ Agrees(dialog, mine, agreed, replaced)
    BY <1>2 DEF UploadInv
  <2>2. Up!ReplacedAsAgreed
    BY <2>1 DEF Agrees, Up!ReplacedAsAgreed
  <2>3. Up!StoredAsCompared
    BY <2>1 DEF Agrees, OneFile, Up!StoredAsCompared, Files
  <2>4. ASSUME dialog.outcome = "counted"
        PROVE  /\ dialog.ok + dialog.failed + Up!Skipped = Len(Walk)
               /\ dialog.ok = Up!Cardinality({p \in Up!Paths : mine[p] # Up!Absent})
               /\ \A p \in Up!ToSet(dialog.conflicts) \ agreed : mine[p] = Up!Absent
    <3>1. Overwriting(dialog, mine, agreed) /\ dialog.over = {}
      BY <2>1, <2>4 DEF Agrees
    <3>2. \A S : Up!Cardinality(S) = Cardinality(S)
      BY DEF Up!Cardinality, Cardinality
    <3>3. dialog.ok = Up!Cardinality({p \in Up!Paths : mine[p] # Up!Absent})
      BY <3>1, <3>2 DEF Overwriting, Kept, Files
    <3>4. /\ dialog.ok \in Nat /\ dialog.failed \in Nat /\ dialog.conflicts \in Seq(Files)
          /\ IsFiniteSet(agreed)
      BY <2>1, FilesAreFinite, FS_Subset DEF UploadTypes, Dialogs
    <3>5. Len(dialog.conflicts) \in Nat /\ Cardinality(agreed) \in Nat /\ Cardinality({}) = 0
      BY <3>4, FS_CardinalityType, FS_EmptySet
    <3>6. Up!Skipped = Len(dialog.conflicts) - Cardinality(agreed)
      BY <3>2 DEF Up!Skipped
    <3>7. dialog.ok + dialog.failed + Len(dialog.conflicts) = Len(Walk) + Cardinality(agreed)
      BY <3>1, <3>4, <3>5, WalkIs DEF Overwriting
    <3>8. dialog.ok + dialog.failed + Up!Skipped = Len(Walk)
      <4> DEFINE ok == dialog.ok
                 failed == dialog.failed
                 n == Len(dialog.conflicts)
                 a == Cardinality(agreed)
                 total == Len(Walk)
                 skipped == Up!Skipped
      <4>1. /\ ok \in Nat /\ failed \in Nat /\ n \in Nat /\ a \in Nat /\ total \in Nat
            /\ skipped = n - a /\ ok + failed + n = total + a
        BY <3>4, <3>5, <3>6, <3>7, WalkIs
      <4> HIDE DEF ok, failed, n, a, total, skipped
      <4>2. ok + failed + skipped = total
        BY <4>1
      <4> QED BY <4>2 DEF ok, failed, total, skipped
    <3>9. \A p \in Up!ToSet(dialog.conflicts) \ agreed : mine[p] = Up!Absent
      <4>1. \A p \in Names(dialog.conflicts) : p \in Files
        BY <3>4 DEF Names
      <4> QED BY <3>1, <4>1 DEF Overwriting, Kept, Up!ToSet, Names
    <3> QED BY <3>3, <3>8, <3>9
  <2>5. Up!CountsTrue
    BY <2>4 DEF Up!CountsTrue
  <2> QED BY <2>2, <2>3, <2>5 DEF UploadsHold
<1> QED BY <1>1, <1>2, UploadKeeps, PTL DEF MCSpec

-----------------------------------------------------------------------------
(* Types: the limits and the bucket                                        *)

LEMMA LimitsTyped == ASSUME LimitInv PROVE Limits!TypeOK
BY DEF LimitInv, LimitTypes, LoginsOK, ListOK, Times, Limits!TypeOK, Limits!NoTime

\* No session makes more requests than there are.
CommandBound == commands \in 0 .. MaxCommands

LEMMA CommandsBegin == ASSUME Bucket!Init PROVE CommandBound
BY LimitsAssumptions DEF Bucket!Init, CommandBound, Bucket!BucketAssumption

LEMMA CommandsKeep == ASSUME CommandBound, [MCNext]_MCVars PROVE CommandBound'
<1>1. MaxCommands \in Nat
  BY LimitsAssumptions DEF Bucket!BucketAssumption
<1> QED BY <1>1, BucketMoves
        DEF CommandBound, Bucket!Next, Bucket!ReadClock, Bucket!TakeToken, Bucket!ClearBucket, Bucket!Tick, bucketVars

LEMMA BucketTyped == ASSUME BucketInv, CommandBound PROVE Bucket!TypeOK
<1>1. /\ bucketNow \in Nat /\ command \in [Threads -> {-1} \cup 0 .. bucketNow] /\ granted \in Seq(0 .. bucketNow)
      /\ bucket.tokens \in Int /\ commands \in 0 .. MaxCommands /\ Capacity \in Nat \ {0}
  BY BucketNumbers DEF BucketInv, CommandBound
<1>2. {-1} \cup 0 .. bucketNow = -1 .. bucketNow
  BY <1>1
<1>3. bucket.last \in -1 .. bucketNow /\ bucket.tokens < Capacity
  <2>1. CASE bucket = Bucket!NoBucket
    BY <1>1, <2>1 DEF Bucket!NoBucket, Bucket!NoTime
  <2>2. CASE bucket # Bucket!NoBucket
    BY <1>1, <2>2 DEF BucketInv
  <2> QED BY <2>1, <2>2
<1> QED BY <1>1, <1>2, <1>3 DEF Bucket!TypeOK, Bucket!NoTime

-----------------------------------------------------------------------------
(* Types: the web login and the upload                                     *)

LEMMA WebTyped == ASSUME WebInv PROVE Web!TypeOK
<1>1. WebTypes
  BY DEF WebInv
<1>2. DOMAIN sessions \subseteq 1 .. tokens /\ file \in 0 .. tokens /\ lost \cup stray \subseteq 1 .. tokens
      /\ alone \in BOOLEAN /\ webNow \in Nat
  BY <1>1 DEF WebTypes, SessionsOK
<1>3. \A k \in DOMAIN pending : k \in 0 .. keys /\ pending[k].token \in 1 .. tokens
  BY <1>1 DEF WebTypes, PendingOK, Entry
<1>4. \A b \in Browsers : browser[b].pc \in {"idle", "tls", "put"} /\ browser[b].token \in 0 .. tokens
  BY <1>1 DEF WebTypes, Request
<1>5. ASSUME NEW c \in Clients
      PROVE  /\ client[c] \in Web!ClientState /\ client[c].token \in 0 .. tokens
             /\ client[c].pc \in {"whoami", "prompt"} => client[c].token # 0
             /\ client[c].pc = "poll" => client[c].key # 0
  <2>1. client[c] \in Process(keys, tokens, webNow) /\ keys \in Nat /\ tokens \in Nat
    BY <1>1 DEF WebTypes
  <2>2. 0 .. keys \subseteq Nat /\ 0 .. tokens \subseteq Nat
    BY <2>1
  <2> QED BY <2>1, <2>2 DEF Process, Web!ClientState
<1> QED BY <1>2, <1>3, <1>4, <1>5 DEF Web!TypeOK, Web!NoToken, Web!NoKey

\* A dialogue has an outcome when it has ended, and no file is counted twice.
DialogEnds ==
  /\ stored \in [Files -> Contents \cup {Up!Absent, Up!Bare}] /\ changes \in 0 .. MaxChanges
  /\ dialog.pc = "end" <=> dialog.outcome # "none"
  /\ dialog.ok + dialog.failed <= Len(Walk)

LEMMA DialogBegins == ASSUME Up!Init PROVE DialogEnds
<1>1. MaxChanges \in Nat /\ Len(Walk) \in Nat
  BY ProcessAssumptions, WalkIs DEF Up!UploadAssumption
<1> QED BY <1>1 DEF Up!Init, DialogEnds, Files

LEMMA SeqDomainIs == ASSUME NEW n \in Nat PROVE IsFiniteSet(1 .. n) /\ Cardinality(1 .. n) = n
<1>1. 1 \in Int /\ n \in Int /\ (1 > n => n = 0) /\ n - 1 + 1 = n
  OBVIOUS
<1> QED BY <1>1, FS_Interval

\* What has been counted is no more than what there was to count.
LEMMA CountsFit ==
  ASSUME NEW d \in Dialogs, NEW m, NEW a \in SUBSET Files, NEW r, Agrees(d, m, a, r),
         d.kind = "dir", d.pc \in {"new", "overwrite"}
  PROVE  d.ok + d.failed <= Len(Walk)
<1>1. /\ d.ok \in Nat /\ d.failed \in Nat /\ d.conflicts \in Seq(Files) /\ d.todo \in Seq(Files)
      /\ a \subseteq Files /\ d.over \subseteq Files
  BY DEF Dialogs
<1>2. Len(d.conflicts) \in Nat /\ Len(d.todo) \in Nat /\ Len(Walk) \in Nat
  BY <1>1, WalkIs
<1>3. CASE d.pc = "new"
  <2>1. d.ok + d.failed + Len(d.conflicts) + Len(d.todo) = Len(Walk)
    BY <1>3 DEF Agrees, Sending
  <2> QED BY <1>1, <1>2, <2>1
<1>4. CASE d.pc = "overwrite"
  <2>1. /\ a \subseteq Names(d.conflicts)
        /\ d.ok + d.failed + Len(d.conflicts) + Cardinality(d.over) = Len(Walk) + Cardinality(a)
    BY <1>4 DEF Agrees, Overwriting
  <2>2. Cardinality(a) <= Len(d.conflicts) /\ Cardinality(a) \in Nat
    <3> DEFINE s == d.conflicts
    <3>1. s \in [1 .. Len(s) -> Files] /\ s \in [1 .. Len(s) -> Names(s)] /\ \A p \in Names(s) : \E i \in 1 .. Len(s) : s[i] = p
      BY <1>1 DEF Names
    <3>2. s \in Surjection(1 .. Len(s), Names(s))
      BY <3>1 DEF Surjection
    <3>3. IsFiniteSet(1 .. Len(s)) /\ Cardinality(1 .. Len(s)) = Len(s)
      BY <1>2, SeqDomainIs
    <3>4. IsFiniteSet(Names(s)) /\ Cardinality(Names(s)) <= Len(s)
      BY <3>2, <3>3, FS_Surjection
    <3>5. IsFiniteSet(a) /\ Cardinality(a) <= Cardinality(Names(s))
      BY <2>1, <3>4, FS_Subset
    <3>6. Cardinality(a) \in Nat /\ Cardinality(Names(s)) \in Nat
      BY <3>4, <3>5, FS_CardinalityType
    <3> QED BY <1>2, <3>4, <3>5, <3>6
  <2>3. Cardinality(d.over) \in Nat
    BY <1>1, FilesAreFinite, FS_Subset, FS_CardinalityType
  <2> DEFINE ok == d.ok
             failed == d.failed
             n == Len(d.conflicts)
             over == Cardinality(d.over)
             yes == Cardinality(a)
             total == Len(Walk)
  <2>4. /\ ok \in Nat /\ failed \in Nat /\ n \in Nat /\ over \in Nat /\ yes \in Nat /\ total \in Nat
        /\ ok + failed + n + over = total + yes /\ yes <= n
    BY <1>1, <1>2, <2>1, <2>2, <2>3
  <2> HIDE DEF ok, failed, n, over, yes, total
  <2>5. ok + failed <= total
    BY <2>4
  <2> QED BY <2>5 DEF ok, failed, total
<1> QED BY <1>3, <1>4

-----------------------------------------------------------------------------
(* Types: the steps of an upload                                           *)

\* A step does not end the dialogue without an outcome, and counts only files of a
\* directory.
Steady ==
  /\ dialog'.pc = "end" <=> dialog'.outcome # "none"
  /\ \/ dialog'.ok = dialog.ok /\ dialog'.failed = dialog.failed
     \/ dialog'.kind = "dir" /\ dialog'.pc \in {"new", "overwrite"}

\* A step puts at most one file on the server, which it has read.
StoresOne ==
  \/ stored' = stored
  \/ \E p \in Files, content \in Contents \cup {Up!Absent} : stored' = [stored EXCEPT ![p] = content]

LEMMA StoreIsOne ==
  ASSUME NEW p \in Files, NEW content \in Contents, Up!Store(p, content) PROVE StoresOne
BY DEF Up!Store, StoresOne

LEMMA EndIsSteady ==
  ASSUME dialog \in Dialogs, NEW outcome \in Up!Outcomes \ {"none"}, dialog' = Up!End(outcome) PROVE Steady
BY DEF Up!End, Dialogs, Steady

LEMMA FileIsSteady ==
  ASSUME UploadInv, DialogEnds, Up!UploadFile PROVE Steady /\ StoresOne /\ changes' = changes
<1>1. dialog \in Dialogs /\ local \in [Files -> Contents] /\ Agrees(dialog, mine, agreed, replaced)
  BY DEF UploadInv, UploadTypes
<1>2. dialog.pc # "end" => dialog.outcome = "none"
  BY DEF DialogEnds
<1>3. \A o \in {"identical", "stored", "failed", "canceled"} : o \in Up!Outcomes \ {"none"}
  BY DEF Up!Outcomes
<1>4. ASSUME NEW p \in Files, Up!StartFile(p) PROVE Steady /\ StoresOne /\ changes' = changes
  <2>1. dialog.pc = "start" /\ UNCHANGED <<stored, changes>>
    BY <1>4 DEF Up!StartFile, Up!NoStore
  <2>2. CASE dialog' = [dialog EXCEPT !.pc = "new", !.todo = <<p>>, !.bytes = local[p]]
    BY <1>1, <1>2, <2>1, <2>2 DEF Dialogs, Steady, StoresOne
  <2>3. CASE dialog' = Up!End("failed")
    BY <1>1, <1>3, <2>1, <2>3, EndIsSteady DEF StoresOne
  <2> QED BY <1>4, <2>2, <2>3 DEF Up!StartFile
<1>5. ASSUME dialog.pc \in {"new", "answer"}, dialog.kind = "file"
      PROVE  dialog.bytes \in Contents /\ Head(dialog.todo) \in Files
  <2>1. dialog.bytes \in Contents /\ dialog.todo # <<>> /\ dialog.todo \in Seq(Files)
    BY <1>1, <1>5 DEF Agrees, OneFile, Dialogs
  <2> QED BY <2>1, HeadIs
<1>6. CASE Up!SendFile
  <2> DEFINE p == Head(dialog.todo)
  <2>1. /\ dialog.pc = "new" /\ dialog.kind = "file" /\ UNCHANGED changes
        /\ \/ Up!NoStore /\ dialog' \in {Up!End("identical"), [dialog EXCEPT !.pc = "answer"], Up!End("failed")}
           \/ Up!Store(p, dialog.bytes) /\ dialog' = Up!End("stored")
    BY <1>6 DEF Up!SendFile
  <2>2. p \in Files /\ dialog.bytes \in Contents
    BY <1>5, <2>1
  <2> HIDE DEF p
  <2>3. ASSUME dialog' = [dialog EXCEPT !.pc = "answer"] PROVE Steady
    BY <1>1, <1>2, <2>1, <2>3 DEF Dialogs, Steady
  <2>4. Steady
    BY <1>1, <1>3, <2>1, <2>3, EndIsSteady
  <2>5. StoresOne
    BY <2>1, <2>2, StoreIsOne DEF Up!NoStore, StoresOne
  <2> QED BY <2>1, <2>4, <2>5
<1>7. CASE Up!AnswerFile
  <2> DEFINE p == Head(dialog.todo)
  <2>1. /\ dialog.pc = "answer" /\ UNCHANGED changes
        /\ \/ Up!NoStore /\ dialog' \in {Up!End("canceled"), Up!End("failed")}
           \/ Up!Store(p, dialog.bytes) /\ dialog' = Up!End("stored")
    BY <1>7 DEF Up!AnswerFile, Up!Resent
  <2>2. p \in Files /\ dialog.bytes \in Contents
    BY <1>1, <1>5, <2>1 DEF Agrees
  <2> HIDE DEF p
  <2>3. Steady
    BY <1>1, <1>3, <2>1, EndIsSteady
  <2>4. StoresOne
    BY <2>1, <2>2, StoreIsOne DEF Up!NoStore, StoresOne
  <2> QED BY <2>1, <2>3, <2>4
<1> QED BY <1>4, <1>6, <1>7 DEF Up!UploadFile, Files

LEMMA DirIsSteady ==
  ASSUME UploadInv, DialogEnds, Up!UploadDir PROVE Steady /\ StoresOne /\ changes' = changes
<1>1. dialog \in Dialogs /\ local \in [Files -> Contents] /\ Agrees(dialog, mine, agreed, replaced)
  BY DEF UploadInv, UploadTypes
<1>2. dialog.pc # "end" => dialog.outcome = "none"
  BY DEF DialogEnds
<1>3. \A o \in {"aborted", "canceled", "counted"} : o \in Up!Outcomes \ {"none"}
  BY DEF Up!Outcomes
<1>4. CASE Up!StartDir
  <2>1. /\ dialog.pc = "start" /\ UNCHANGED <<stored, changes>>
        /\ \/ dialog' = [dialog EXCEPT !.pc = "new", !.kind = "dir", !.todo = Walk]
           \/ dialog' = [Up!End("canceled") EXCEPT !.kind = "dir"]
    BY <1>4 DEF Up!StartDir, Up!NoStore
  <2>2. CASE dialog' = [dialog EXCEPT !.pc = "new", !.kind = "dir", !.todo = Walk]
    BY <1>1, <1>2, <2>1, <2>2 DEF Dialogs, Steady, StoresOne
  <2>3. CASE dialog' = [Up!End("canceled") EXCEPT !.kind = "dir"]
    BY <1>1, <2>1, <2>3 DEF Dialogs, Steady, StoresOne, Up!End
  <2> QED BY <2>1, <2>2, <2>3
<1>5. CASE Up!SendNext
  <2> DEFINE p == Head(dialog.todo)
             rest == [dialog EXCEPT !.todo = Tail(@)]
  <2>1. /\ dialog.pc = "new" /\ dialog.kind = "dir" /\ dialog.todo # <<>> /\ UNCHANGED changes
        /\ \/ Up!Store(p, local[p]) /\ dialog' = [rest EXCEPT !.ok = @ + 1]
           \/ Up!NoStore /\ dialog' = [rest EXCEPT !.conflicts = Append(@, p)]
           \/ Up!NoStore /\ dialog' = [rest EXCEPT !.failed = @ + 1]
    BY <1>5 DEF Up!SendNext
  <2>2. p \in Files /\ local[p] \in Contents
    BY <1>1, <2>1, HeadIs DEF Dialogs
  <2>3. dialog'.pc = "new" /\ dialog'.kind = "dir" /\ dialog'.outcome = dialog.outcome
    BY <1>1, <2>1 DEF Dialogs
  <2> HIDE DEF p, rest
  <2>4. Steady
    BY <1>2, <2>1, <2>3 DEF Steady
  <2>5. StoresOne
    BY <2>1, <2>2, StoreIsOne DEF Up!NoStore, StoresOne
  <2> QED BY <2>1, <2>4, <2>5
<1>6. CASE Up!AllSent
  BY <1>1, <1>2, <1>6 DEF Up!AllSent, Up!NoStore, Dialogs, Steady, StoresOne
<1>7. CASE Up!Choose
  <2>1. /\ dialog.pc = "choice" /\ UNCHANGED <<stored, changes>>
        /\ \/ dialog' \in {Up!End("aborted"), Up!End("canceled")}
           \/ \E yes : dialog' = [dialog EXCEPT !.pc = "overwrite", !.over = yes]
    BY <1>7 DEF Up!Choose, Up!NoStore
  <2>2. ASSUME NEW yes, dialog' = [dialog EXCEPT !.pc = "overwrite", !.over = yes] PROVE Steady
    BY <1>1, <1>2, <2>1, <2>2 DEF Dialogs, Steady
  <2>3. Steady
    BY <1>1, <1>3, <2>1, <2>2, EndIsSteady
  <2> QED BY <2>1, <2>3 DEF StoresOne
<1>8. CASE Up!OverwriteNext
  <2> DEFINE p == Up!NextOver
             rest == [dialog EXCEPT !.over = @ \ {p}]
  <2>1. /\ dialog.pc = "overwrite" /\ dialog.over # {} /\ UNCHANGED changes
        /\ \/ Up!Store(p, local[p]) /\ dialog' = [rest EXCEPT !.ok = @ + 1]
           \/ Up!NoStore /\ dialog' = [rest EXCEPT !.failed = @ + 1]
    BY <1>8 DEF Up!OverwriteNext
  <2>2. dialog.over \subseteq Files /\ dialog.kind = "dir"
    BY <1>1, <2>1 DEF Dialogs, Agrees
  <2>3. p \in Files /\ local[p] \in Contents
    BY <1>1, <2>1, <2>2, NextOverIs
  <2> HIDE DEF p
  <2>4. dialog'.pc = "overwrite" /\ dialog'.kind = "dir" /\ dialog'.outcome = dialog.outcome
    BY <1>1, <2>1, <2>2 DEF Dialogs
  <2> HIDE DEF rest
  <2>5. Steady
    BY <1>2, <2>1, <2>4 DEF Steady
  <2>6. StoresOne
    BY <2>1, <2>3, StoreIsOne DEF Up!NoStore, StoresOne
  <2> QED BY <2>1, <2>5, <2>6
<1>9. CASE Up!Finish
  <2>1. dialog' = Up!End("counted") /\ UNCHANGED <<stored, changes>>
    BY <1>9 DEF Up!Finish, Up!NoStore
  <2> QED BY <1>1, <1>3, <2>1, EndIsSteady DEF StoresOne
<1> QED BY <1>4, <1>5, <1>6, <1>7, <1>8, <1>9 DEF Up!UploadDir

LEMMA BreakIsSteady ==
  ASSUME UploadInv, DialogEnds, Up!Break PROVE Steady /\ StoresOne /\ changes' = changes
<1>1. dialog \in Dialogs /\ local \in [Files -> Contents] /\ Agrees(dialog, mine, agreed, replaced)
  BY DEF UploadInv, UploadTypes
<1> DEFINE p == Head(dialog.todo)
           q == Up!NextOver
           content == IF dialog.kind = "file" THEN dialog.bytes ELSE local[p]
<1>2. /\ dialog' = Up!End("broken") /\ UNCHANGED changes
      /\ \/ Up!NoStore
         \/ dialog.pc = "new" /\ dialog.todo # <<>> /\ Up!Store(p, content)
         \/ dialog.over # {} /\ Up!Store(q, local[q])
  BY DEF Up!Break
<1>3. Steady
  BY <1>1, <1>2, EndIsSteady DEF Up!Outcomes
<1>4. dialog.todo # <<>> => p \in Files
  BY <1>1, HeadIs DEF Dialogs
<1>5. dialog.over # {} => q \in Files
  BY <1>1, NextOverIs DEF Dialogs
<1> HIDE DEF p, q
<1>6. dialog.pc = "new" /\ p \in Files => content \in Contents
  BY <1>1 DEF Agrees, OneFile
<1>7. q \in Files => local[q] \in Contents
  BY <1>1
<1> HIDE DEF content
<1>8. Up!NoStore => StoresOne
  BY DEF Up!NoStore, StoresOne
<1>9. StoresOne
  BY <1>2, <1>4, <1>5, <1>6, <1>7, <1>8, StoreIsOne
<1> QED BY <1>2, <1>3, <1>9

LEMMA DialogKeeps == ASSUME UploadInv, UploadInv', DialogEnds, [MCNext]_MCVars PROVE DialogEnds'
<1>1. dialog \in Dialogs /\ dialog' \in Dialogs /\ agreed' \subseteq Files /\ Agrees(dialog', mine', agreed', replaced')
  BY DEF UploadInv, UploadTypes
<1>2. /\ stored \in [Files -> Contents \cup {Up!Absent, Up!Bare}] /\ changes \in 0 .. MaxChanges
      /\ dialog.pc = "end" <=> dialog.outcome # "none"
      /\ dialog.ok + dialog.failed <= Len(Walk)
  BY DEF DialogEnds
<1>3. MaxChanges \in Nat
  BY ProcessAssumptions DEF Up!UploadAssumption
<1>4. CASE UNCHANGED uploadVars
  BY <1>2, <1>4 DEF uploadVars, DialogEnds
<1>5. ASSUME Up!Next PROVE Steady /\ StoresOne /\ changes' \in 0 .. MaxChanges
  <2>1. ASSUME NEW p \in Files, NEW content \in Contents \cup {Up!Absent}, Up!Change(p, content)
        PROVE  Steady /\ StoresOne /\ changes' \in 0 .. MaxChanges
    <3>1. /\ changes < MaxChanges /\ changes' = changes + 1 /\ dialog' = dialog
          /\ stored' = stored \/ stored' = [stored EXCEPT ![p] = content]
      BY <2>1 DEF Up!Change
    <3>2. changes' \in 0 .. MaxChanges
      BY <1>2, <1>3, <3>1
    <3>3. StoresOne
      BY <3>1 DEF StoresOne
    <3> QED BY <1>2, <3>1, <3>2, <3>3 DEF Steady
  <2> QED BY <1>2, <1>5, <2>1, FileIsSteady, DirIsSteady, BreakIsSteady DEF Up!Next, Files
<1>6. ASSUME Up!Next PROVE DialogEnds'
  <2>1. dialog'.ok + dialog'.failed <= Len(Walk)
    <3>1. CASE dialog'.ok = dialog.ok /\ dialog'.failed = dialog.failed
      BY <1>2, <3>1
    <3>2. CASE dialog'.kind = "dir" /\ dialog'.pc \in {"new", "overwrite"}
      BY <1>1, <3>2, CountsFit
    <3> QED BY <1>5, <1>6, <3>1, <3>2 DEF Steady
  <2>2. stored' \in [Files -> Contents \cup {Up!Absent, Up!Bare}]
    <3>1. StoresOne
      BY <1>5, <1>6
    <3> QED BY <1>2, <3>1 DEF StoresOne
  <2> QED BY <1>5, <1>6, <2>1, <2>2 DEF DialogEnds, Steady
<1> QED BY <1>4, <1>6, UploadMoves

LEMMA UploadTyped == ASSUME UploadInv, DialogEnds PROVE Up!TypeOK
<1>1. dialog \in Dialogs /\ local \in [Files -> Contents] /\ mine \in [Files -> Contents \cup {Up!Absent}]
      /\ agreed \subseteq Files /\ replaced \subseteq agreed
  BY DEF UploadInv, UploadTypes, Agrees
<1>2. \A s \in Seq(Files) : Up!ToSet(s) \subseteq Files
  BY DEF Up!ToSet
<1>3. /\ dialog.pc \in {"start", "new", "choice", "answer", "overwrite", "end"}
      /\ dialog.kind \in {"file", "dir"} /\ dialog.outcome \in Up!Outcomes
      /\ Up!ToSet(dialog.todo) \cup Up!ToSet(dialog.conflicts) \cup dialog.over \subseteq Files
  BY <1>1, <1>2 DEF Dialogs
<1>4. (dialog.pc = "end") = (dialog.outcome # "none")
  BY DEF DialogEnds
<1> QED BY <1>1, <1>3, <1>4 DEF DialogEnds, Up!TypeOK, Files

-----------------------------------------------------------------------------
(* Types: the connection                                                   *)

\* The units of some lines.
UnitsOf(lines) == [of : lines, at : Nat \ {0}, end : BOOLEAN]

\* What has been sent is of lines that were sent, what comes back is of lines that
\* were answered, and what is kept for the next recv holds no line.
ConnMore ==
  /\ Len(sent) <= MaxLines
  /\ up \in Seq(UnitsOf(1 .. Len(sent))) /\ reader.buf \in Seq(UnitsOf(1 .. Len(sent)))
  /\ reader.line \in 0 .. Len(sent)
  /\ reader.pc = "recv" => \A i \in DOMAIN reader.buf : ~reader.buf[i].end
  /\ Names(answered) \subseteq 1 .. Len(sent)
  /\ down \in Seq(UnitsOf(Names(answered))) /\ shell.buf \in Seq(UnitsOf(Names(answered)))
  /\ shell.taken.answer \in {0} \cup Names(answered)

LEMMA PartsOf ==
  ASSUME NEW S, NEW a \in Seq(S), NEW b \in Seq(S), NEW k \in 1 .. Len(b)
  PROVE  /\ a \o SubSeq(b, 1, k) \in Seq(S) /\ SubSeq(b, k + 1, Len(b)) \in Seq(S)
<1>1. Len(b) \in Nat /\ k \in Nat
  OBVIOUS
<1>2. SubSeq(b, 1, k) \in Seq(S)
  BY <1>1
<1>3. a \o SubSeq(b, 1, k) \in Seq(S)
  BY <1>2
<1>4. SubSeq(b, k + 1, Len(b)) \in Seq(S)
  BY <1>1
<1> QED BY <1>3, <1>4

LEMMA MoreUnits ==
  ASSUME NEW L, NEW K, L \subseteq K, NEW s \in Seq(UnitsOf(L)) PROVE s \in Seq(UnitsOf(K))
<1>1. UnitsOf(L) \subseteq UnitsOf(K)
  BY DEF UnitsOf
<1> QED BY <1>1

LEMMA TextOf ==
  ASSUME NEW L, NEW n \in L, n \in Nat \ {0}, NEW units \in Nat \ {0} PROVE Conn!Text(n, units) \in Seq(UnitsOf(L))
<1>1. \A i \in 1 .. units : [of |-> n, at |-> i, end |-> i = units] \in UnitsOf(L)
  BY DEF UnitsOf
<1> QED BY <1>1 DEF Conn!Text

LEMMA MoreBegins == ASSUME Conn!Init PROVE ConnMore
<1>1. MaxLines \in Nat
  BY LimitsAssumptions DEF Conn!SizeAssumption
<1>2. /\ sent = <<>> /\ up = <<>> /\ down = <<>> /\ answered = <<>>
      /\ reader = [pc |-> "recv", buf |-> <<>>, line |-> 0]
      /\ shell = [pc |-> "ready", buf |-> <<>>, missed |-> 0, taken |-> [request |-> 0, answer |-> 0]]
  BY DEF Conn!Init, Conn!Untaken
<1>3. \A S : <<>> \in Seq(S)
  OBVIOUS
<1> QED BY <1>1, <1>2, <1>3 DEF ConnMore, Names

LEMMA MorePut ==
  ASSUME ConnInv, ConnMore, NEW line \in Conn!Line, Conn!Put(line),
         UNCHANGED <<reader, answered, down>>, shell'.taken = shell.taken, shell'.buf \in {shell.buf, <<>>}
  PROVE  ConnMore'
<1> DEFINE n == Len(sent)
           units == Conn!Units(line)
<1>1. /\ n < MaxLines /\ sent' = Append(sent, line) /\ up' = up \o Conn!Text(Len(sent'), units)
      /\ sent \in Seq(Conn!Line) /\ units \in Nat \ {0}
  BY UnitsIs DEF Conn!Put, ConnInv, ConnTypes
<1>2. Len(sent') = n + 1 /\ n \in Nat /\ MaxLines \in Nat
  BY <1>1, LimitsAssumptions DEF Conn!SizeAssumption
<1>3. /\ up \in Seq(UnitsOf(1 .. n)) /\ reader.buf \in Seq(UnitsOf(1 .. n)) /\ reader.line \in 0 .. n
      /\ Names(answered) \subseteq 1 .. n
      /\ shell.buf \in Seq(UnitsOf(Names(answered)))
  BY DEF ConnMore
<1> HIDE DEF n, units
<1>4. 1 .. n \subseteq 1 .. n + 1 /\ n + 1 \in 1 .. n + 1 /\ n + 1 \in Nat \ {0} /\ n + 1 <= MaxLines
  BY <1>1, <1>2
<1>5. up \in Seq(UnitsOf(1 .. n + 1)) /\ reader.buf \in Seq(UnitsOf(1 .. n + 1))
  <2> DEFINE old == 1 .. n
             new == 1 .. n + 1
  <2>1. old \subseteq new /\ up \in Seq(UnitsOf(old)) /\ reader.buf \in Seq(UnitsOf(old))
    BY <1>3, <1>4
  <2> HIDE DEF old, new
  <2>2. up \in Seq(UnitsOf(new)) /\ reader.buf \in Seq(UnitsOf(new))
    BY <2>1, MoreUnits
  <2> QED BY <2>2 DEF new
<1>6. Conn!Text(n + 1, units) \in Seq(UnitsOf(1 .. n + 1))
  BY <1>1, <1>4, TextOf
<1>7. up' \in Seq(UnitsOf(1 .. n + 1))
  <2> DEFINE units1 == UnitsOf(1 .. n + 1)
             text == Conn!Text(n + 1, units)
  <2>1. up' = up \o text /\ up \in Seq(units1) /\ text \in Seq(units1)
    BY <1>1, <1>2, <1>5, <1>6
  <2> HIDE DEF units1, text
  <2>2. up' \in Seq(units1)
    BY <2>1
  <2> QED BY <2>2 DEF units1
<1>8. reader.line \in 0 .. n + 1 /\ Names(answered) \subseteq 1 .. n + 1
  BY <1>2, <1>3, <1>4
<1>9. shell'.buf \in Seq(UnitsOf(Names(answered)))
  <2>1. <<>> \in Seq(UnitsOf(Names(answered)))
    OBVIOUS
  <2> QED BY <1>3, <2>1
<1> QED BY <1>2, <1>4, <1>5, <1>7, <1>8, <1>9 DEF ConnMore

LEMMA MoreRecv == ASSUME ConnInv, ConnMore, NEW k \in 1 .. Len(up), Conn!Recv(k) PROVE ConnMore'
<1> DEFINE buf == reader.buf \o SubSeq(up, 1, k)
           lines == 1 .. Len(sent)
<1>1. /\ up' = SubSeq(up, k + 1, Len(up)) /\ UNCHANGED <<peer, sent, answered, down, shell>>
      /\ \/ reader' = [pc |-> "closed", buf |-> <<>>, line |-> 0]
         \/ reader' = [reader EXCEPT !.pc = "split", !.buf = buf]
  BY DEF Conn!Recv
<1>2. /\ up \in Seq(UnitsOf(lines)) /\ reader.buf \in Seq(UnitsOf(lines)) /\ reader.line \in 0 .. Len(sent)
      /\ Len(sent) \in Nat
  BY DEF ConnMore, ConnInv, ConnTypes
<1>3. buf \in Seq(UnitsOf(lines)) /\ up' \in Seq(UnitsOf(lines)) /\ <<>> \in Seq(UnitsOf(lines))
  BY <1>1, <1>2, PartsOf
<1> HIDE DEF buf
<1>4. reader'.buf \in Seq(UnitsOf(lines)) /\ reader'.line \in 0 .. Len(sent) /\ reader'.pc # "recv"
  <2>1. reader \in [pc : {"recv", "split", "dispatch", "closed"}, buf : Seq(Piece), line : Nat]
    BY DEF ConnInv, ConnTypes
  <2> DEFINE kept == Seq(UnitsOf(lines))
             known == 0 .. Len(sent)
  <2>2. buf \in kept /\ <<>> \in kept /\ reader.line \in known /\ 0 \in known
    BY <1>2, <1>3
  <2> HIDE DEF kept, known
  <2>3. CASE reader' = [pc |-> "closed", buf |-> <<>>, line |-> 0]
    <3>1. reader'.buf = <<>> /\ reader'.line = 0 /\ reader'.pc = "closed"
      BY <2>3
    <3> QED BY <2>2, <3>1 DEF kept, known
  <2>4. CASE reader' = [reader EXCEPT !.pc = "split", !.buf = buf]
    <3>1. reader'.buf = buf /\ reader'.line = reader.line /\ reader'.pc = "split"
      BY <2>1, <2>4
    <3> QED BY <2>2, <3>1 DEF kept, known
  <2> QED BY <1>1, <2>3, <2>4
<1> QED BY <1>1, <1>3, <1>4 DEF ConnMore

LEMMA MoreSplit == ASSUME ConnInv, ConnMore, Conn!Split PROVE ConnMore'
<1> DEFINE buf == reader.buf
           f == Conn!FirstEnd(buf)
           lines == 1 .. Len(sent)
<1>1. UNCHANGED <<peer, sent, up, answered, down, shell>>
  BY DEF Conn!Split
<1>2. /\ buf \in Seq(Piece) /\ buf \in Seq(UnitsOf(lines)) /\ reader.line \in 0 .. Len(sent) /\ Len(sent) \in Nat
      /\ reader \in [pc : {"recv", "split", "dispatch", "closed"}, buf : Seq(Piece), line : Nat]
  BY DEF ConnInv, ConnTypes, ConnMore
<1>3. /\ f \in 0 .. Len(buf)
      /\ \A i \in DOMAIN buf : buf[i].end => f # 0
  BY <1>2, FirstEndIs
<1>4. CASE ~Conn!HasLine(buf)
  <2>1. f = 0
    BY <1>2, <1>3, <1>4 DEF Conn!HasLine
  <2>2. reader'.pc = "recv" /\ reader'.buf = buf /\ reader'.line = reader.line
    BY <1>2, <1>4 DEF Conn!Split
  <2> QED BY <1>1, <1>2, <1>3, <2>1, <2>2 DEF ConnMore
<1>5. CASE Conn!HasLine(buf)
  <2> DEFINE rest == SubSeq(buf, f + 1, Len(buf))
             l == Conn!Front1(buf)[1].of
  <2>1. f \in 1 .. Len(buf)
    BY <1>2, <1>3, <1>5 DEF Conn!HasLine
  <2>2. rest \in Seq(UnitsOf(lines))
    BY <1>2, <2>1, PartsOf
  <2>3. l \in lines
    <3>1. Conn!Front1(buf)[1] = buf[1] /\ 1 \in DOMAIN buf
      BY <1>2, <2>1 DEF Conn!Front1
    <3>2. buf[1] \in UnitsOf(lines)
      BY <1>2, <3>1
    <3> QED BY <3>1, <3>2 DEF UnitsOf
  <2>4. \/ reader' = [reader EXCEPT !.buf = rest, !.pc = "split", !.line = 0]
        \/ reader' = [reader EXCEPT !.buf = rest, !.pc = "dispatch", !.line = l]
    BY <1>5 DEF Conn!Split, Conn!Kept, Conn!Rest
  <2> HIDE DEF rest, l
  <2>5. reader'.buf \in Seq(UnitsOf(lines)) /\ reader'.line \in 0 .. Len(sent) /\ reader'.pc # "recv"
    <3> DEFINE kept == Seq(UnitsOf(lines))
               known == 0 .. Len(sent)
    <3>1. rest \in kept /\ 0 \in known /\ l \in known
      BY <1>2, <2>2, <2>3
    <3> HIDE DEF kept, known
    <3>2. reader'.buf \in kept /\ reader'.line \in known /\ reader'.pc # "recv"
      BY <1>2, <2>4, <3>1
    <3> QED BY <3>2 DEF kept, known
  <2> QED BY <1>1, <2>5 DEF ConnMore
<1> QED BY <1>4, <1>5

LEMMA MoreAnswer == ASSUME ConnInv, ConnMore, Conn!Answer PROVE ConnMore'
<1> DEFINE l == reader.line
<1>1. reader.pc = "dispatch" /\ UNCHANGED <<peer, sent, up, shell>>
  BY DEF Conn!Answer
<1>2. /\ reader \in [pc : {"recv", "split", "dispatch", "closed"}, buf : Seq(Piece), line : Nat]
      /\ answered \in Seq(Nat) /\ Len(sent) \in Nat /\ reader.buf \in Seq(UnitsOf(1 .. Len(sent)))
  BY DEF ConnInv, ConnTypes, ConnMore
<1>3. l \in 1 .. Len(sent) /\ l \in Nat \ {0}
  <2>1. l \in 1 .. Len(sent)
    BY <1>1 DEF ConnInv, OrderInv, InTurn
  <2> QED BY <1>2, <2>1
<1>4. CASE reader' = [pc |-> "closed", buf |-> <<>>, line |-> 0] /\ UNCHANGED <<answered, down>>
  <2>1. <<>> \in Seq(UnitsOf(1 .. Len(sent))) /\ 0 \in 0 .. Len(sent)
    BY <1>2
  <2> QED BY <1>1, <1>4, <2>1 DEF ConnMore
<1>5. CASE /\ reader' = [reader EXCEPT !.pc = "split", !.line = 0] /\ answered' = Append(answered, l)
           /\ down' \in {down, down \o Conn!Text(l, AnswerUnits)}
  <2> DEFINE n == Len(answered)
  <2>1. /\ n \in Nat /\ Len(answered') = n + 1 /\ answered'[n + 1] = l /\ answered' \in Seq(Nat)
        /\ \A i \in 1 .. n : answered'[i] = answered[i]
    BY <1>2, <1>3, <1>5
  <2> HIDE DEF n, l
  <2>2. DOMAIN answered' = 1 .. n + 1 /\ DOMAIN answered = 1 .. n
    BY <1>2, <2>1 DEF n
  <2>3. \A i \in 1 .. n : i \in 1 .. n + 1
    BY <2>1
  <2>4. n + 1 \in 1 .. n + 1 /\ \A i \in 1 .. n + 1 : i \in 1 .. n \/ i = n + 1
    BY <2>1
  <2>5. Names(answered) \subseteq Names(answered') /\ l \in Names(answered')
    BY <2>1, <2>2, <2>3, <2>4 DEF Names
  <2>6. Names(answered') \subseteq 1 .. Len(sent)
    BY <1>3, <2>1, <2>2, <2>4 DEF Names, ConnMore
  <2>7. /\ down \in Seq(UnitsOf(Names(answered'))) /\ shell.buf \in Seq(UnitsOf(Names(answered')))
    BY <2>5, MoreUnits DEF ConnMore
  <2>8. Conn!Text(l, AnswerUnits) \in Seq(UnitsOf(Names(answered')))
    BY <1>3, <2>5, ConnNumbers, TextOf
  <2>9. down' \in Seq(UnitsOf(Names(answered')))
    <3> DEFINE units == UnitsOf(Names(answered'))
               text == Conn!Text(l, AnswerUnits)
    <3>1. down' \in {down, down \o text} /\ down \in Seq(units) /\ text \in Seq(units)
      BY <1>5, <2>7, <2>8 DEF l
    <3> HIDE DEF units, text
    <3>2. down \o text \in Seq(units)
      BY <3>1
    <3>3. down' \in Seq(units)
      BY <3>1, <3>2, Zenon
    <3> QED BY <3>3 DEF units
  <2>10. reader'.buf = reader.buf /\ reader'.line = 0 /\ reader'.pc # "recv"
    BY <1>2, <1>5
  <2>11. 0 \in 0 .. Len(sent) /\ shell.taken.answer \in {0} \cup Names(answered')
    BY <1>2, <2>5 DEF ConnMore
  <2> QED BY <1>1, <2>6, <2>7, <2>9, <2>10, <2>11 DEF ConnMore
<1> QED BY <1>4, <1>5 DEF Conn!Answer

LEMMA MoreFails ==
  ASSUME ConnInv, ConnMore, Conn!SendFails, down' \in Seq(UnitsOf(Names(answered))),
         UNCHANGED <<peer, sent, up, reader, answered>>
  PROVE  ConnMore'
<1>1. shell \in [pc : {"ready", "wait", "gone"}, buf : Seq(Piece), missed : Nat,
                 taken : [request : Nat, answer : Nat]]
  BY DEF ConnInv, ConnTypes
<1>2. shell'.buf = <<>> /\ shell'.taken = shell.taken
  BY <1>1 DEF Conn!SendFails
<1> QED BY <1>2 DEF ConnMore

LEMMA MoreTake == ASSUME ConnInv, ConnMore, NEW k \in 1 .. Len(down), Conn!Take(k) PROVE ConnMore'
<1> DEFINE buf == shell.buf \o SubSeq(down, 1, k)
           units == UnitsOf(Names(answered))
<1>1. down' = SubSeq(down, k + 1, Len(down)) /\ UNCHANGED <<peer, sent, up, reader, answered>>
  BY DEF Conn!Take
<1>2. /\ shell \in [pc : {"ready", "wait", "gone"}, buf : Seq(Piece), missed : Nat,
                    taken : [request : Nat, answer : Nat]]
      /\ down \in Seq(units) /\ shell.buf \in Seq(units)
  BY DEF ConnInv, ConnTypes, ConnMore
<1>3. buf \in Seq(units) /\ down' \in Seq(units) /\ Len(buf) = Len(shell.buf) + k
  BY <1>1, <1>2, PartsOf
<1>4. buf[1].of \in Names(answered)
  <2>1. Len(shell.buf) \in Nat /\ k \in Nat /\ k >= 1
    BY <1>2
  <2> HIDE DEF buf
  <2>2. 1 \in DOMAIN buf
    <3>1. Len(buf) >= 1 /\ Len(buf) \in Nat /\ DOMAIN buf = 1 .. Len(buf)
      BY <1>3, <2>1
    <3> QED BY <3>1
  <2>3. buf[1] \in units
    <3> HIDE DEF units
    <3> QED BY <1>3, <2>2
  <2> QED BY <2>3 DEF UnitsOf
<1>5. \/ shell' = [shell EXCEPT !.buf = buf]
      \/ Conn!SendFails
      \/ shell' = [shell EXCEPT !.pc = "ready", !.buf = <<>>,
                     !.taken = [request |-> Len(sent), answer |-> buf[1].of]]
  BY DEF Conn!Take, Conn!Request
<1> HIDE DEF buf
<1>6. ASSUME ~Conn!SendFails PROVE shell'.buf \in Seq(units) /\ shell'.taken.answer \in {0} \cup Names(answered)
  <2>1. shell.taken.answer \in {0} \cup Names(answered)
    BY DEF ConnMore
  <2> DEFINE kept == Seq(units)
             known == {0} \cup Names(answered)
  <2>2. /\ buf \in kept /\ <<>> \in kept /\ shell.buf \in kept
        /\ buf[1].of \in known /\ shell.taken.answer \in known
    BY <1>2, <1>3, <1>4, <2>1
  <2> HIDE DEF kept, known
  <2>3. shell'.buf \in kept /\ shell'.taken.answer \in known
    <3>1. CASE shell' = [shell EXCEPT !.buf = buf]
      <4>1. shell'.buf = buf /\ shell'.taken = shell.taken
        BY <1>2, <3>1
      <4> QED BY <2>2, <4>1
    <3>2. CASE shell' = [shell EXCEPT !.pc = "ready", !.buf = <<>>,
                           !.taken = [request |-> Len(sent), answer |-> buf[1].of]]
      <4>1. shell'.buf = <<>> /\ shell'.taken.answer = buf[1].of
        BY <1>2, <3>2
      <4> QED BY <2>2, <4>1
    <3> QED BY <1>5, <1>6, <3>1, <3>2
  <2> QED BY <2>3 DEF kept, known
<1>7. CASE Conn!SendFails
  BY <1>1, <1>3, <1>7, MoreFails
<1>8. CASE ~Conn!SendFails
  BY <1>1, <1>3, <1>6, <1>8 DEF ConnMore
<1> QED BY <1>7, <1>8

LEMMA MoreKeeps == ASSUME ConnInv, ConnMore, [MCNext]_MCVars PROVE ConnMore'
<1>1. CASE UNCHANGED connVars
  BY <1>1 DEF connVars, ConnMore
<1>2. shell \in [pc : {"ready", "wait", "gone"}, buf : Seq(Piece), missed : Nat,
                 taken : [request : Nat, answer : Nat]]
  BY DEF ConnInv, ConnTypes
<1>3. ASSUME NEW kind \in Conn!Kinds, NEW size \in FileSizes, NEW line,
             line = [kind |-> kind, size |-> IF kind = "upload" THEN size ELSE 0],
             Conn!Ask(line) \/ Conn!OtherLine(line)
      PROVE  ConnMore'
  <2>1. line \in Conn!Line
    BY <1>3, ConnNumbers DEF Conn!Line
  <2>2. Conn!Put(line) /\ UNCHANGED <<reader, answered, down>>
    BY <1>3 DEF Conn!Ask, Conn!OtherLine
  <2>3. shell' = shell \/ shell' = [shell EXCEPT !.pc = "wait", !.buf = <<>>]
    BY <1>3 DEF Conn!Ask, Conn!OtherLine
  <2>4. shell'.taken = shell.taken /\ shell'.buf \in {shell.buf, <<>>}
    BY <1>2, <2>3
  <2> QED BY <2>1, <2>2, <2>4, MorePut
<1>4. ASSUME Conn!Timeout \/ Conn!Closed PROVE ConnMore'
  <2>1. Conn!SendFails /\ UNCHANGED <<peer, sent, up, reader, answered, down>>
    BY <1>4 DEF Conn!Timeout, Conn!Closed
  <2>2. down' \in Seq(UnitsOf(Names(answered)))
    BY <2>1 DEF ConnMore
  <2> QED BY <2>1, <2>2, MoreFails
<1>5. CASE Conn!HangUp
  <2>1. reader' = [pc |-> "closed", buf |-> <<>>, line |-> 0] /\ UNCHANGED <<peer, sent, up, answered, down, shell>>
    BY <1>5 DEF Conn!HangUp
  <2>2. Len(sent) \in Nat
    BY DEF ConnInv, ConnTypes
  <2>3. <<>> \in Seq(UnitsOf(1 .. Len(sent))) /\ 0 \in 0 .. Len(sent)
    BY <2>2
  <2> QED BY <2>1, <2>3 DEF ConnMore
<1>6. ASSUME Conn!Serve PROVE ConnMore'
  BY <1>5, <1>6, MoreRecv, MoreSplit, MoreAnswer DEF Conn!Serve
<1>7. ASSUME Conn!Receive PROVE ConnMore'
  BY <1>4, <1>7, MoreTake DEF Conn!Receive
<1> QED BY <1>1, <1>3, <1>4, <1>6, <1>7, ConnMoves DEF Conn!Next

LEMMA ConnTyped == ASSUME ConnInv, ConnMore PROVE Conn!TypeOK
<1>1. /\ peer \in {"shell", "other"} /\ sent \in Seq(Conn!Line) /\ Len(sent) \in Nat
      /\ reader.pc \in {"recv", "split", "dispatch", "closed"}
      /\ shell.pc \in {"ready", "wait", "gone"} /\ shell.missed \in Nat
  BY DEF ConnInv, ConnTypes
<1>2. 1 .. Len(sent) \subseteq 1 .. MaxLines /\ Len(sent) <= MaxLines
  BY <1>1, LimitsAssumptions DEF ConnMore, Conn!SizeAssumption
<1>3. Names(answered) \subseteq 1 .. MaxLines /\ Names(answered) = Conn!ToSet(answered)
  BY <1>2 DEF ConnMore, Names, Conn!ToSet
<1>4. UnitsOf(1 .. MaxLines) = Conn!Unit
  BY DEF UnitsOf, Conn!Unit
<1>5. \A s \in {up, down, reader.buf, shell.buf} : s \in Seq(Conn!Unit)
  BY <1>2, <1>3, <1>4, MoreUnits DEF ConnMore
<1> QED BY <1>1, <1>2, <1>3, <1>5 DEF ConnMore, Conn!TypeOK

-----------------------------------------------------------------------------
(* Types: the theorem                                                      *)

\* Whichever component moves, its dictionaries, lists, buckets, buffers, processes and
\* files hold what they should: the times of the lists and of the requests are no later
\* than the clock, no lock is for longer than a lockout, a bucket never gets above its capacity,
\* a recv finds no line left over, a client that asks who it is has a token, a dialogue
\* that has ended has an outcome, and no file is counted twice.
THEOREM TablesAreTyped == MCSpec => []TablesTypeOK
<1> DEFINE Typed == /\ LimitInv /\ BucketInv /\ CommandBound /\ ConnInv /\ ConnMore
                    /\ WebInv /\ UploadInv /\ DialogEnds /\ StartInv
<1>1. StartupAssumption
  BY ProcessAssumptions
<1>2. ASSUME MCInit PROVE Typed
  BY <1>1, <1>2, LimitBegins, BucketBegins, CommandsBegin, ConnBegins, MoreBegins,
     WebBegins, UploadBegins, DialogBegins, StartBegins
     DEF MCInit
<1>3. ASSUME Typed, [MCNext]_MCVars PROVE Typed'
  <2>1. [Next]_vars
    BY <1>3 DEF MCNext, MCVars, Others
  <2>2. LimitInv' /\ BucketInv' /\ CommandBound'
    BY <1>3, LimitKeeps, BucketKeeps, CommandsKeep
  <2>3. ConnInv' /\ ConnMore' /\ WebInv'
    BY <1>3, ConnKeeps, MoreKeeps, WebKeeps
  <2>4. UploadInv' /\ DialogEnds'
    BY <1>3, UploadKeeps, DialogKeeps
  <2>5. StartInv'
    BY <1>1, <1>3, <2>1, StartKeeps
  <2> QED BY <2>2, <2>3, <2>4, <2>5
<1>4. ASSUME Typed PROVE TablesTypeOK
  BY <1>1, <1>4, LimitsTyped, BucketTyped, ConnTyped, WebTyped, UploadTyped, StartIsTyped
     DEF TablesTypeOK
<1> QED BY <1>2, <1>3, <1>4, PTL DEF MCSpec

=============================================================================
