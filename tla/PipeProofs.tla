----------------------------- MODULE PipeProofs -----------------------------
(***************************************************************************)
(* For every PIPESIZE, every width of the counters and every number of     *)
(* processes: a pipe is a first-in first-out queue of bytes, is given back *)
(* once and not under anybody, and nobody sleeps on it without a reason.   *)
(***************************************************************************)
EXTENDS Pipe, FiniteSetTheorems, SequenceTheorems, TLAPS

Calls ==
  {Idle} \cup [name : {"write"}, bytes : Seq(Bytes)] \cup [name : {"read"}, n : 1 .. MaxCount]
  \cup [name : {"close"}, end : Ends]

Types ==
  /\ op \in [Procs -> Calls] /\ fds \in [Procs -> SUBSET Ends] /\ ref \in [Ends -> Nat]
  /\ asleep \in [Procs -> {None, "nread", "nwrite"}] /\ killed \in [Procs -> BOOLEAN]
  /\ readopen \in BOOLEAN /\ writeopen \in BOOLEAN /\ freed \in BOOLEAN /\ gaveUp \in BOOLEAN

\* The counters are at most PIPESIZE apart, wherever they are.
Ring ==
  /\ nread \in 0 .. Width - 1 /\ nwrite \in 0 .. Width - 1 /\ Used <= PIPESIZE
  /\ data \in [0 .. PIPESIZE - 1 -> Bytes]

\* A process in a call has the end open that it uses; one that closes an end for
\* good is alone, and nobody has that end open.
Callers ==
  /\ \A p \in Procs :
       /\ op[p].name = "write" => "w" \in fds[p]
       /\ op[p].name = "read" => "r" \in fds[p]
       /\ op[p].name = "close" => ref[op[p].end] = 0
  /\ \A p, q \in Procs :
       op[p].name = "close" /\ op[q].name = "close" /\ op[p].end = op[q].end => p = q

PipeInv == Types /\ Ring /\ Callers /\ FreedLast /\ SleepsForReason

-----------------------------------------------------------------------------
(* Remainders.                                                             *)

\* A remainder is smaller than the divisor.
LEMMA ModRange ==
  ASSUME NEW m \in Nat \ {0}, NEW x \in Int
  PROVE  x % m \in 0 .. m - 1
OBVIOUS

\* The remainder of a number that is given with its quotient.
LEMMA ModOf ==
  ASSUME NEW m \in Nat \ {0}, NEW a \in Int, NEW r \in 0 .. m - 1
  PROVE  (m * a + r) % m = r
BY SMTT(60)

\* Every number has a quotient.
LEMMA Quotient ==
  ASSUME NEW m \in Nat \ {0}, NEW x \in Int
  PROVE  \E a \in Int : x = m * a + (x % m)
<1>1. x \div m \in Int /\ x = m * (x \div m) + (x % m)
  OBVIOUS
<1> QED
  BY <1>1, Zenon

\* Multiples of the divisor do not matter.
LEMMA ModShift ==
  ASSUME NEW m \in Nat \ {0}, NEW x \in Int, NEW k \in Int
  PROVE  (x + m * k) % m = x % m
<1>1. PICK a \in Int : x = m * a + (x % m)
  BY Quotient, Zenon
<1> DEFINE r == x % m
           d == m * a
           e == m * k
<1>2. r \in 0 .. m - 1 /\ d \in Int /\ e \in Int /\ x = d + r /\ m * (a + k) = d + e
  BY <1>1, ModRange
<1>3. a + k \in Int
  OBVIOUS
<1> HIDE DEF r, d, e
<1>4. x + e = m * (a + k) + r
  BY <1>2
<1>5. (m * (a + k) + r) % m = r
  BY <1>2, <1>3, ModOf
<1>6. (x + e) % m = r
  BY <1>4, <1>5, Zenon
<1> QED
  BY <1>6 DEF r, e

\* Numbers less than the divisor apart have different remainders.
LEMMA ModApart ==
  ASSUME NEW m \in Nat \ {0}, NEW x \in Int, NEW y \in Int, x < y, y - x < m
  PROVE  x % m # y % m
<1> SUFFICES ASSUME x % m = y % m PROVE FALSE
  OBVIOUS
<1>1. PICK a \in Int : x = m * a + (x % m)
  BY Quotient, Zenon
<1>2. PICK b \in Int : y = m * b + (y % m)
  BY Quotient, Zenon
<1>3. x % m \in Int /\ m * a \in Int /\ m * b \in Int /\ m * (b - a) = m * b - m * a
  BY ModRange
<1>4. m * (b - a) > 0 /\ m * (b - a) < m
  BY <1>1, <1>2, <1>3
<1>5. b - a >= 1 => m * (b - a) >= m
  OBVIOUS
<1>6. b - a <= 0 => m * (b - a) <= 0
  OBVIOUS
<1> QED
  BY <1>4, <1>5, <1>6

\* Remainders close to the divisor.
LEMMA ModNear ==
  ASSUME NEW m \in Nat \ {0}, NEW x \in Int
  PROVE  /\ 0 <= x /\ x < m => x % m = x
         /\ m <= x /\ x < 2 * m => x % m = x - m
         /\ -m <= x /\ x < 0 => x % m = x + m
OBVIOUS

\* Moving a counter by k moves its distance from another.
LEMMA Forward ==
  ASSUME NEW m \in Nat \ {0}, NEW x \in Int, NEW y \in Int, NEW k \in Int,
         ((x - y) % m) + k \in 0 .. m - 1
  PROVE  (((x + k) % m) - y) % m = ((x - y) % m) + k
<1> DEFINE u == (x - y) % m
           n == (x + k) % m
<1>0. x - y \in Int /\ x + k \in Int
  OBVIOUS
<1>1. PICK a \in Int : x - y = m * a + u
  BY <1>0, Quotient, Zenon
<1>2. PICK b \in Int : x + k = m * b + n
  BY <1>0, Quotient, Zenon
<1>3. u \in Int /\ n \in Int /\ u + k \in 0 .. m - 1
  BY ModRange
<1>4. m * a \in Int /\ m * b \in Int /\ m * (a - b) = m * a - m * b /\ a - b \in Int
  OBVIOUS
<1> HIDE DEF u, n
<1>5. n - y = m * (a - b) + (u + k)
  BY <1>1, <1>2, <1>3, <1>4
<1>6. (m * (a - b) + (u + k)) % m = u + k
  BY <1>3, <1>4, ModOf, Zenon
<1>7. (n - y) % m = u + k
  BY <1>5, <1>6, Zenon
<1> QED
  BY <1>7 DEF u, n

\* A counter that wraps at a multiple of the size of the ring finds the same slot.
LEMMA Slots ==
  ASSUME NEW m \in Nat \ {0}, NEW c \in Nat \ {0}, c % m = 0, NEW x \in Int, NEW i \in Int
  PROVE  ((x % c) + i) % m = (x + i) % m
<1> DEFINE n == x % c
<1>1. PICK a \in Int : x = c * a + n
  BY Quotient, Zenon
<1>0. c \in Int
  OBVIOUS
<1>2. PICK b \in Int : c = m * b + (c % m)
  BY <1>0, Quotient, Zenon
<1>3. c = m * b
  BY <1>2
<1>4. c * a = m * (b * a) /\ b * a \in Int /\ n \in Int /\ c * a \in Int
  BY <1>3, ModRange
<1> HIDE DEF n
<1>5. x + i = (n + i) + m * (b * a) /\ n + i \in Int
  BY <1>1, <1>4
<1>6. ((n + i) + m * (b * a)) % m = (n + i) % m
  BY <1>4, <1>5, ModShift, Zenon
<1>7. (x + i) % m = (n + i) % m
  BY <1>5, <1>6, Zenon
<1> QED
  BY <1>7 DEF n

-----------------------------------------------------------------------------
(* The ring.                                                               *)

\* What is used of the ring, and what is in it.
LEMMA Filled ==
  ASSUME Ring
  PROVE  /\ Used \in 0 .. PIPESIZE /\ (Empty <=> Used = 0)
         /\ Contents \in Seq(Bytes) /\ Len(Contents) = Used
         /\ \A i \in Int : (nread + i) % PIPESIZE \in 0 .. PIPESIZE - 1
<1>1. /\ PIPESIZE \in Nat \ {0} /\ Width \in Nat \ {0}
      /\ nread \in 0 .. Width - 1 /\ nwrite \in 0 .. Width - 1
  BY PipeAssumption DEF Ring
<1>2. Used \in 0 .. PIPESIZE
  <2>1. nwrite - nread \in Int
    BY <1>1
  <2>2. Used \in 0 .. Width - 1 /\ Used <= PIPESIZE
    BY <1>1, <2>1, ModRange DEF Used, Ring
  <2> QED
    BY <1>1, <2>2
<1>3. Empty <=> Used = 0
  <2> DEFINE x == nwrite - nread
  <2>1. x \in Int /\ x < Width /\ -Width <= x /\ (x = 0 <=> nread = nwrite)
    BY <1>1
  <2> HIDE DEF x
  <2>2. (0 <= x => x % Width = x) /\ (x < 0 => x % Width = x + Width)
    BY <1>1, <2>1, ModNear, Zenon
  <2>3. x % Width = 0 <=> x = 0
    <3>1. CASE 0 <= x
      BY <2>2, <3>1
    <3>2. CASE x < 0
      <4>1. x = -Width => x % Width = 0
        BY <2>2, <3>2, <1>1
      <4>2. x # -Width
        BY <1>1 DEF x
      <4> QED
        BY <2>1, <2>2, <3>2, <4>2, <1>1
    <3> QED
      BY <2>1, <3>1, <3>2
  <2> QED
    BY <2>1, <2>3 DEF x, Used, Empty
<1>4. \A i \in Int : (nread + i) % PIPESIZE \in 0 .. PIPESIZE - 1
  <2> TAKE i \in Int
  <2>1. nread + i \in Int
    BY <1>1
  <2> QED
    BY <1>1, <2>1, ModRange
<1>5. \A i \in 1 .. Used : data[(nread + i - 1) % PIPESIZE] \in Bytes
  <2> TAKE i \in 1 .. Used
  <2>1. i - 1 \in Int /\ nread + i - 1 = nread + (i - 1)
    BY <1>1, <1>2
  <2>2. (nread + i - 1) % PIPESIZE \in 0 .. PIPESIZE - 1
    BY <2>1, <1>4
  <2> QED
    BY <2>2 DEF Ring
<1>6. Contents \in Seq(Bytes) /\ Len(Contents) = Used
  <2> DEFINE e(i) == data[(nread + i - 1) % PIPESIZE]
  <2>1. \A i \in 1 .. Used : e(i) \in Bytes
    BY <1>5
  <2>2. Contents = [i \in 1 .. Used |-> e(i)]
    BY DEF Contents
  <2> HIDE DEF e
  <2> QED
    BY <1>2, <2>1, <2>2
<1> QED
  BY <1>2, <1>3, <1>4, <1>6

\* Writing k bytes appends them.
LEMMA Written ==
  ASSUME Ring, NEW bytes \in Seq(Bytes), NEW k \in 0 .. Len(bytes), Used + k <= PIPESIZE,
         data' = Stored(bytes, k), nwrite' = Advance(nwrite, k), nread' = nread
  PROVE  Ring' /\ Used' = Used + k /\ Contents' = Contents \o SubSeq(bytes, 1, k)
<1> DEFINE P == PIPESIZE
           u == Used
           at(n) == (nwrite + n - 1) % P
           from(i) == (nread + i - 1) % P
<1>1. /\ P \in Nat \ {0} /\ Width \in Nat \ {0} /\ P < Width /\ Width % P = 0
      /\ nread \in 0 .. Width - 1 /\ nwrite \in 0 .. Width - 1
      /\ data \in [0 .. P - 1 -> Bytes] /\ k \in Int /\ Len(bytes) \in Nat
  BY PipeAssumption DEF Ring
<1>2. u \in 0 .. P /\ u + k \in 0 .. P /\ k \in 0 .. P
  <2>1. u \in 0 .. P /\ u + k <= P
    BY Filled
  <2> HIDE DEF u, P
  <2> QED
    BY <1>1, <2>1
<1>3. Used' = u + k
  <2>1. /\ nread \in Int /\ nwrite \in Int /\ k \in Int /\ Width \in Nat \ {0}
        /\ ((nwrite - nread) % Width) + k \in 0 .. Width - 1
    BY <1>1, <1>2 DEF Used
  <2>2. (((nwrite + k) % Width) - nread) % Width = ((nwrite - nread) % Width) + k
    BY <2>1, Forward, ZenonT(40)
  <2> QED
    BY <2>2 DEF Used, Advance
<1>4. nwrite' \in 0 .. Width - 1
  <2>1. nwrite + k \in Int
    BY <1>1
  <2> QED
    BY <1>1, <2>1, ModRange, Zenon DEF Advance
<1>5. \A n \in 1 .. k : at(n) = from(u + n)
  <2> TAKE n \in 1 .. k
  <2>1. /\ nwrite - nread \in Int /\ nread + n - 1 \in Int
        /\ (nwrite - nread) + (nread + n - 1) = nwrite + n - 1
    BY <1>1
  <2>2. (((nwrite - nread) % Width) + (nread + n - 1)) % PIPESIZE
          = ((nwrite - nread) + (nread + n - 1)) % PIPESIZE
    <3>1. PIPESIZE \in Nat \ {0} /\ Width \in Nat \ {0} /\ Width % PIPESIZE = 0
      BY <1>1
    <3> DEFINE x == nwrite - nread
               d == nread + n - 1
    <3>2. x \in Int /\ d \in Int
      BY <2>1
    <3> HIDE DEF P, x, d
    <3>3. ((x % Width) + d) % PIPESIZE = (x + d) % PIPESIZE
      BY <3>1, <3>2, Slots, ZenonT(40)
    <3> QED
      BY <3>3 DEF x, d
  <2>3. ((nwrite - nread) % Width) + (nread + n - 1) = nread + (u + n) - 1
    BY <1>1, <1>2 DEF Used
  <2> QED
    BY <2>1, <2>2, <2>3, Zenon
<1>6. \A i, j \in 1 .. u + k : from(i) = from(j) => i = j
  <2>1. ASSUME NEW i \in 1 .. u + k, NEW j \in 1 .. u + k, i < j PROVE from(i) # from(j)
    <3>1. /\ nread + i - 1 \in Int /\ nread + j - 1 \in Int
          /\ nread + i - 1 < nread + j - 1 /\ (nread + j - 1) - (nread + i - 1) < P
      BY <1>1, <1>2, <2>1
    <3> QED
      BY <1>1, <3>1, ModApart, Zenon
  <2> QED
    BY <1>2, <2>1
<1>7. \A i \in 1 .. u + k : from(i) \in 0 .. P - 1
  <2> TAKE i \in 1 .. u + k
  <2>1. nread + i - 1 \in Int
    BY <1>1, <1>2
  <2> QED
    BY <1>1, <2>1, ModRange, Zenon
<1> HIDE DEF at, from, u, P
<1>8. \A i \in 0 .. P - 1 : (\A n \in 1 .. k : at(n) # i) => data'[i] = data[i]
  <2> TAKE i \in 0 .. P - 1
  <2> HAVE \A n \in 1 .. k : at(n) # i
  <2>1. {n \in 1 .. k : (nwrite + n - 1) % PIPESIZE = i} = {}
    BY DEF at, P
  <2> QED
    BY <1>1, <2>1 DEF Stored
<1>9. \A n \in 1 .. k : data'[at(n)] = bytes[n]
  <2> TAKE n \in 1 .. k
  <2>1. \A m \in 1 .. k : at(m) = at(n) => m = n
    <3> TAKE m \in 1 .. k
    <3>1. u + n \in 1 .. u + k /\ u + m \in 1 .. u + k /\ (u + m = u + n => m = n)
      BY <1>1, <1>2
    <3> QED
      BY <1>5, <1>6, <3>1
  <2> DEFINE js == {m \in 1 .. k : (nwrite + m - 1) % PIPESIZE = at(n)}
  <2>2. js = {n}
    BY <2>1 DEF at, P
  <2>3. Max(js) = n
    <3>1. n \in Int /\ n >= n
      BY <1>1
    <3> QED
      BY <2>2, <3>1, Zenon DEF Max
  <2>4. at(n) \in DOMAIN data
    <3>1. u + n \in 1 .. u + k
      BY <1>1, <1>2
    <3> QED
      BY <1>1, <1>5, <1>7, <3>1
  <2> QED
    BY <2>2, <2>3, <2>4, Zenon DEF Stored
<1>10. data' \in [0 .. P - 1 -> Bytes]
  <2>1. \A i \in 0 .. P - 1 : data'[i] \in Bytes
    <3> TAKE i \in 0 .. P - 1
    <3>1. CASE \A n \in 1 .. k : at(n) # i
      BY <1>1, <1>8, <3>1
    <3>2. CASE \E n \in 1 .. k : at(n) = i
      <4>1. PICK n \in 1 .. k : at(n) = i
        BY <3>2
      <4>2. n \in 1 .. Len(bytes)
        BY <1>1
      <4>3. bytes[n] \in Bytes
        BY <4>2
      <4> QED
        BY <1>9, <4>1, <4>3, Zenon
    <3> QED
      BY <3>1, <3>2
  <2>2. DOMAIN data = 0 .. P - 1
    BY <1>1
  <2> QED
    BY <2>1, <2>2 DEF Stored
<1>11. Ring'
  <2>1. Used' <= PIPESIZE
    BY <1>2, <1>3 DEF P
  <2>2. data' \in [0 .. PIPESIZE - 1 -> Bytes]
    BY <1>10 DEF P
  <2> QED
    BY <1>1, <1>4, <2>1, <2>2, Zenon DEF Ring
<1>12. \A i \in 1 .. u : data'[from(i)] = data[from(i)]
  <2> TAKE i \in 1 .. u
  <2>1. i \in 1 .. u + k
    BY <1>1, <1>2
  <2>2. ASSUME NEW n \in 1 .. k PROVE at(n) # from(i)
    <3>1. u + n \in 1 .. u + k /\ u + n # i
      BY <1>1, <1>2
    <3> QED
      BY <1>5, <1>6, <2>1, <3>1
  <2> QED
    BY <1>7, <1>8, <2>1, <2>2
<1>13. Contents' = Contents \o SubSeq(bytes, 1, k)
  <2> DEFINE new == SubSeq(bytes, 1, k)
             old == Contents
  <2>1. old \in Seq(Bytes) /\ Len(old) = u /\ \A i \in 1 .. u : old[i] = data[from(i)]
    BY Filled, <1>2 DEF Contents, from, u, P
  <2>2. new \in Seq(Bytes) /\ Len(new) = k /\ \A i \in 1 .. k : new[i] = bytes[i]
    BY <1>1
  <2>3. (Contents \in Seq(Bytes) /\ Len(Contents) = Used)'
    <3>1. (Ring => Contents \in Seq(Bytes) /\ Len(Contents) = Used)'
      BY Filled, PTL
    <3> QED
      BY <3>1, <1>11
  <2>4. Contents' \in Seq(Bytes) /\ Len(Contents') = u + k
    BY <2>3, <1>3 DEF u
  <2>5. \A i \in 1 .. u + k : Contents'[i] = data'[from(i)]
    BY <1>3 DEF Contents, from, P, u
  <2> HIDE DEF new, old
  <2>6. \A i \in 1 .. u : Contents'[i] = old[i]
    <3> TAKE i \in 1 .. u
    <3>1. i \in 1 .. u + k
      BY <1>2
    <3> QED
      BY <2>1, <2>5, <1>12, <3>1, Zenon
  <2>7. \A n \in 1 .. k : Contents'[u + n] = new[n]
    <3> TAKE n \in 1 .. k
    <3>1. u + n \in 1 .. u + k
      BY <1>1, <1>2
    <3> QED
      BY <2>2, <2>5, <1>5, <1>9, <3>1
  <2>8. \A i \in 1 .. u + k : Contents'[i] = (old \o new)[i]
    <3> TAKE i \in 1 .. u + k
    <3>1. (old \o new)[i] = IF i <= u THEN old[i] ELSE new[i - u]
      BY <2>1, <2>2, ConcatProperties
    <3>2. CASE i <= u
      BY <2>6, <3>1, <3>2, <1>2
    <3>3. CASE i > u
      <4>1. u \in Int /\ k \in Int /\ i \in Int /\ i <= u + k
        BY <1>1, <1>2
      <4>2. i - u \in 1 .. k /\ u + (i - u) = i
        BY <3>3, <4>1
      <4> QED
        BY <2>7, <3>1, <3>3, <4>1, <4>2
    <3>4. i <= u \/ i > u
      BY <1>2
    <3> QED
      BY <3>2, <3>3, <3>4, Zenon
  <2>9. old \o new \in Seq(Bytes) /\ Len(old \o new) = u + k
    BY <2>1, <2>2, ConcatProperties, Zenon
  <2>10. Contents' = old \o new
    BY <2>4, <2>8, <2>9, SeqEqual, Zenon
  <2> QED
    BY <2>10 DEF old, new
<1> QED
  BY <1>3, <1>11, <1>13 DEF u

\* Reading k bytes takes them from the front.
LEMMA Taken ==
  ASSUME Ring, NEW k \in 0 .. Used,
         nread' = Advance(nread, k), data' = data, nwrite' = nwrite
  PROVE  /\ Ring' /\ Used' = Used - k
         /\ [i \in 1 .. k |-> data[(nread + i - 1) % PIPESIZE]] = SubSeq(Contents, 1, k)
         /\ Contents' = SubSeq(Contents, k + 1, Len(Contents))
<1> DEFINE u == Used
           from(i) == (nread + i - 1) % PIPESIZE
<1>1. /\ PIPESIZE \in Nat \ {0} /\ Width \in Nat \ {0} /\ PIPESIZE < Width
      /\ Width % PIPESIZE = 0 /\ nread \in 0 .. Width - 1 /\ nwrite \in 0 .. Width - 1
  BY PipeAssumption DEF Ring
<1>2. u \in 0 .. PIPESIZE /\ k \in 0 .. PIPESIZE /\ k <= u /\ k \in Int
  <2>1. u \in 0 .. PIPESIZE /\ k \in 0 .. u
    BY Filled, Zenon
  <2> HIDE DEF u
  <2> QED
    BY <1>1, <2>1
<1>3. Used' = u - k
  <2> DEFINE n == (nread + k) % Width
  <2>1. nwrite - nread \in Int /\ nread + k \in Int
    BY <1>1, <1>2
  <2>2. PICK a \in Int : nwrite - nread = Width * a + u
    BY <1>1, <2>1, Quotient, Zenon DEF Used
  <2>3. PICK b \in Int : nread + k = Width * b + n
    BY <1>1, <2>1, Quotient, Zenon
  <2>4. n \in Int
    BY <1>1, <2>1, ModRange
  <2>5. /\ Width * a \in Int /\ Width * b \in Int /\ a + b \in Int
        /\ Width * (a + b) = Width * a + Width * b
    BY <1>1
  <2> HIDE DEF u, n
  <2>6. nwrite - n = Width * (a + b) + (u - k) /\ u - k \in 0 .. Width - 1
    BY <1>1, <1>2, <2>2, <2>3, <2>4, <2>5
  <2>7. (Width * (a + b) + (u - k)) % Width = u - k
    BY <1>1, <2>5, <2>6, ModOf, Zenon
  <2>8. (nwrite - n) % Width = u - k
    BY <2>6, <2>7, Zenon
  <2> QED
    BY <2>8 DEF n, Used, Advance
<1>4. nread' \in 0 .. Width - 1
  <2>1. nread + k \in Int
    BY <1>1, <1>2
  <2> QED
    BY <1>1, <2>1, ModRange DEF Advance
<1>5. Ring'
  <2>1. Used' <= PIPESIZE
    BY <1>1, <1>2, <1>3
  <2> QED
    BY <1>1, <1>4, <2>1 DEF Ring
<1>6. Contents \in Seq(Bytes) /\ Len(Contents) = u /\ \A i \in 1 .. u : Contents[i] = data[from(i)]
  BY Filled DEF Contents
<1>7. \A i \in 1 .. u - k : (nread' + i - 1) % PIPESIZE = from(k + i)
  <2> TAKE i \in 1 .. u - k
  <2>1. /\ PIPESIZE \in Nat \ {0} /\ Width \in Nat \ {0} /\ Width % PIPESIZE = 0
        /\ nread + k \in Int /\ i - 1 \in Int
    BY <1>1, <1>2
  <2>2. (((nread + k) % Width) + (i - 1)) % PIPESIZE = ((nread + k) + (i - 1)) % PIPESIZE
    <3> DEFINE x == nread + k
               d == i - 1
    <3>1. x \in Int /\ d \in Int
      BY <2>1
    <3> HIDE DEF x, d
    <3>2. ((x % Width) + d) % PIPESIZE = (x + d) % PIPESIZE
      <4>1. PIPESIZE \in Nat \ {0} /\ Width \in Nat \ {0} /\ Width % PIPESIZE = 0
        BY <2>1
      <4> QED
        BY <3>1, <4>1, Slots, ZenonT(40)
    <3> QED
      BY <3>2 DEF x, d
  <2>3. (nread + k) + (i - 1) = nread + (k + i) - 1
    BY <1>1, <1>2
  <2>4. ((nread + k) % Width) + (i - 1) = nread' + i - 1
    BY <1>4, <1>1 DEF Advance
  <2> QED
    BY <2>2, <2>3, <2>4, Zenon
<1> HIDE DEF u, from
<1>8. [i \in 1 .. k |-> data[(nread + i - 1) % PIPESIZE]] = SubSeq(Contents, 1, k)
  <2> DEFINE head == SubSeq(Contents, 1, k)
             taken == [i \in 1 .. k |-> data[(nread + i - 1) % PIPESIZE]]
  <2>1. head \in Seq(Bytes) /\ Len(head) = k /\ \A i \in 1 .. k : head[i] = Contents[i]
    BY <1>2, <1>6
  <2>2. \A i \in 1 .. k : Contents[i] = data[from(i)] /\ Contents[i] \in Bytes
    <3> TAKE i \in 1 .. k
    <3>1. i \in 1 .. u
      BY <1>2
    <3> QED
      BY <1>6, <3>1
  <2>3. \A i \in 1 .. k : data[(nread + i - 1) % PIPESIZE] = head[i]
    BY <2>1, <2>2 DEF from
  <2> HIDE DEF head
  <2>4. head = [i \in 1 .. k |-> head[i]]
    BY <2>1
  <2> QED
    BY <2>3, <2>4 DEF head
<1>9. Contents' = SubSeq(Contents, k + 1, Len(Contents))
  <2> DEFINE tail == SubSeq(Contents, k + 1, u)
  <2>1. /\ tail \in Seq(Bytes) /\ Len(tail) = u - k
        /\ \A i \in 1 .. u - k : tail[i] = Contents[k + i]
    BY <1>2, <1>6
  <2>2. Contents' \in Seq(Bytes) /\ Len(Contents') = u - k
    <3>1. (Ring => Contents \in Seq(Bytes) /\ Len(Contents) = Used)'
      BY Filled, PTL
    <3> QED
      BY <3>1, <1>5, <1>3
  <2>3. \A i \in 1 .. u - k : Contents'[i] = data[(nread' + i - 1) % PIPESIZE]
    BY <1>3 DEF Contents
  <2>4. \A i \in 1 .. u - k : Contents'[i] = tail[i]
    <3> TAKE i \in 1 .. u - k
    <3>1. k + i \in 1 .. u
      BY <1>2
    <3> HIDE DEF tail
    <3> QED
      BY <1>6, <1>7, <2>1, <2>3, <3>1, Zenon
  <2> HIDE DEF tail
  <2>5. Contents' = tail
    BY <2>1, <2>2, <2>4, SeqEqual
  <2> QED
    BY <2>5, <1>6 DEF tail
<1> QED
  BY <1>3, <1>5, <1>8, <1>9 DEF u

-----------------------------------------------------------------------------
(* The calls and the open files.                                           *)

\* The smaller of two numbers.
LEMMA MinTwo ==
  ASSUME NEW a \in Int, NEW b \in Int
  PROVE  Min({a, b}) \in {a, b} /\ Min({a, b}) <= a /\ Min({a, b}) <= b
<1>1. \E x \in {a, b} : \A y \in {a, b} : x <= y
  OBVIOUS
<1>2. Min({a, b}) \in {a, b} /\ \A y \in {a, b} : Min({a, b}) <= y
  BY <1>1, Zenon DEF Min
<1> QED
  BY <1>2

\* What a call is, by its name.
LEMMA CallOf ==
  ASSUME NEW c \in Calls
  PROVE  /\ c.name \in {"idle", "write", "read", "close"} /\ (c = Idle <=> c.name = "idle")
         /\ c.name = "write" => c.bytes \in Seq(Bytes)
         /\ c.name = "read" => c.n \in 1 .. MaxCount
         /\ c.name = "close" => c.end \in Ends
BY DEF Calls, Idle

Holders(e) == {p \in Procs : e \in fds[p]}

\* An end that a process has open is open.
LEMMA OpenEnd ==
  ASSUME Types, FreedLast, NEW p \in Procs, NEW e \in Ends, e \in fds[p]
  PROVE  /\ ref[e] \in Nat \ {0} /\ (e = "r" => readopen) /\ (e = "w" => writeopen) /\ ~freed
<1>1. IsFiniteSet(Holders(e)) /\ p \in Holders(e)
  BY PipeAssumption, FS_Subset DEF Holders
<1>2. Cardinality(Holders(e)) # 0
  BY <1>1, FS_EmptySet
<1>3. ref[e] \in Nat /\ ref[e] = Cardinality(Holders(e))
  BY DEF Types, FreedLast, Holders
<1>4. ref[e] \in Nat \ {0} /\ ref[e] > 0
  BY <1>2, <1>3
<1>5. (e = "r" => readopen) /\ (e = "w" => writeopen)
  BY <1>4, Zenon DEF FreedLast
<1>6. ~freed
  BY <1>5, Zenon DEF FreedLast, Ends
<1> QED
  BY <1>4, <1>5, <1>6

\* A process that has an end open may start or end a call on it.
LEMMA Calling ==
  ASSUME Types, Callers, FreedLast, NEW p \in Procs, NEW e \in Ends, e \in fds[p],
         op[p].name # "close", NEW c \in Calls, c.name # "close",
         c.name = "write" => e = "w", c.name = "read" => e = "r",
         op' = [op EXCEPT ![p] = c], UNCHANGED <<readopen, writeopen, freed, ref, fds>>
  PROVE  Callers' /\ FreedLast'
<1>1. op \in [Procs -> Calls]
  BY DEF Types
<1>2. op'[p] = c /\ \A q \in Procs : q # p => op'[q] = op[q]
  BY <1>1
<1>3. \A q \in Procs : op'[q].name = "close" => q # p /\ op'[q] = op[q]
  BY <1>2
<1>4. \A q \in Procs : op[q].name = "close" => op'[q] = op[q]
  BY <1>2
<1>5. \A x : Closing(x)' <=> Closing(x)
  BY <1>3, <1>4 DEF Closing
<1>6. ~freed
  BY OpenEnd
<1>7. Callers'
  <2>1. ASSUME NEW q \in Procs
        PROVE  /\ op'[q].name = "write" => "w" \in fds[q]
               /\ op'[q].name = "read" => "r" \in fds[q]
               /\ op'[q].name = "close" => ref[op'[q].end] = 0
    <3>1. CASE q = p
      BY <1>2, <3>1
    <3>2. CASE q # p
      BY <1>2, <3>2, Zenon DEF Callers
    <3> QED
      BY <3>1, <3>2, Zenon
  <2>2. \A q, s \in Procs :
          op'[q].name = "close" /\ op'[s].name = "close" /\ op'[q].end = op'[s].end => q = s
    BY <1>3 DEF Callers
  <2> QED
    BY <2>1, <2>2, Zenon DEF Callers
<1>8. FreedLast'
  <2>0. readopen' = readopen /\ writeopen' = writeopen /\ freed' = freed
    OBVIOUS
  <2>1. (readopen' <=> readopen) /\ (writeopen' <=> writeopen) /\ (freed' <=> freed)
    BY <2>0
  <2>7. ref' = ref /\ fds' = fds
    OBVIOUS
  <2>2. \A x \in Ends : ref'[x] = Cardinality({q \in Procs : x \in fds'[q]})
    BY <2>7, Zenon DEF FreedLast
  <2>3. readopen' <=> ref'["r"] > 0 \/ Closing("r")'
    BY <2>1, <2>7, <1>5, Zenon DEF FreedLast
  <2>4. writeopen' <=> ref'["w"] > 0 \/ Closing("w")'
    BY <2>1, <2>7, <1>5, Zenon DEF FreedLast
  <2>5. freed' <=> ~readopen' /\ ~writeopen'
    BY <2>1, Zenon DEF FreedLast
  <2>6. \A q \in Procs : op'[q] # Idle => ~freed'
    BY <2>1, <1>6, Zenon
  <2> QED
    BY <2>2, <2>3, <2>4, <2>5, <2>6, Zenon DEF FreedLast
<1> QED
  BY <1>7, <1>8

\* A step that leaves the bytes alone and hands out nothing.
LEMMA Quiet ==
  ASSUME Ring, UNCHANGED <<data, nread, nwrite>>, got' = <<>>
  PROVE  Ring' /\ Used' = Used /\ (Empty' <=> Empty) /\ Stream!Put
<1>1. Ring' /\ Used' = Used /\ (Empty' <=> Empty) /\ Contents' = Contents
  BY DEF Ring, Used, Empty, Contents
<1>2. Contents \in Seq(Bytes) /\ Len(Contents) <= PIPESIZE /\ PIPESIZE \in Nat
  BY Filled, PipeAssumption
<1>3. Contents' = Contents \o <<>> /\ <<>> \in [1 .. 0 -> Bytes] /\ 0 \in 0 .. PIPESIZE
  BY <1>1, <1>2
<1>4. Len(Contents') <= PIPESIZE
  BY <1>1, <1>2
<1> QED
  BY <1>1, <1>3, <1>4, Zenon DEF Stream!Put

-----------------------------------------------------------------------------
(* The steps.                                                              *)

\* Only the sleepers on chan are woken.
LEMMA Woken ==
  ASSUME Types, NEW chan
  PROVE  /\ wakeup(chan) \in [Procs -> {None, "nread", "nwrite"}]
         /\ \A q \in Procs : wakeup(chan)[q] # None => wakeup(chan)[q] = asleep[q] /\ asleep[q] # chan
BY DEF Types, wakeup

\* pipewrite.
LEMMA WriteStep ==
  ASSUME PipeInv, NEW p \in Procs, NEW bytes \in Seq(Bytes), "w" \in fds[p],
         op[p].name # "close", pipewrite(p, bytes)
  PROVE  PipeInv' /\ Stream!Put
<1> DEFINE k == Min({Room, Len(bytes)})
           rest == SubSeq(bytes, k + 1, Len(bytes))
<1>1. Types /\ Ring /\ Callers /\ FreedLast /\ SleepsForReason
  BY DEF PipeInv
<1>2. Used \in 0 .. PIPESIZE /\ PIPESIZE \in Nat /\ Room \in 0 .. PIPESIZE /\ Room = PIPESIZE - Used
  <2>1. Used \in 0 .. PIPESIZE
    BY <1>1, Filled
  <2> QED
    BY <2>1, PipeAssumption DEF Room
<1>3. Len(bytes) \in Nat
  OBVIOUS
<1>4. k \in {Room, Len(bytes)} /\ k <= Room /\ k <= Len(bytes)
  <2>1. Room \in Int /\ Len(bytes) \in Int
    BY <1>2, <1>3
  <2> QED
    BY <2>1, MinTwo, Zenon
<1>5. /\ data' = Stored(bytes, k) /\ nwrite' = Advance(nwrite, k) /\ nread' = nread
      /\ got' = <<>> /\ killed' = killed
      /\ readopen' = readopen /\ writeopen' = writeopen /\ freed' = freed
      /\ ref' = ref /\ fds' = fds
  BY DEF pipewrite
<1>6. \/ /\ rest = <<>> /\ asleep' = wakeup("nread") /\ gaveUp' = FALSE
         /\ op' = [op EXCEPT ![p] = Idle]
      \/ /\ gaveUp' = (gaveUp \/ k > 0) /\ asleep' = asleep
         /\ op' = [op EXCEPT ![p] = Idle]
      \/ /\ rest # <<>> /\ ~(~readopen \/ killed[p])
         /\ asleep' = [wakeup("nread") EXCEPT ![p] = "nwrite"] /\ gaveUp' = FALSE
         /\ op' = [op EXCEPT ![p] = [name |-> "write", bytes |-> rest]]
  BY Zenon DEF pipewrite, FullWakes
<1> HIDE DEF k
<1>7. k \in 0 .. Len(bytes) /\ Used + k <= PIPESIZE /\ k \in 0 .. PIPESIZE
  BY <1>2, <1>3, <1>4
<1>8. rest \in Seq(Bytes) /\ (rest # <<>> => Used + k = PIPESIZE)
  BY <1>2, <1>3, <1>4, <1>7
<1> HIDE DEF rest
<1>9. Ring' /\ Used' = Used + k /\ Contents' = Contents \o SubSeq(bytes, 1, k)
  BY <1>1, <1>5, <1>7, Written, Zenon
<1>10. PICK c \in Calls : /\ c.name # "close" /\ (c.name = "write" => "w" = "w") /\ c.name # "read"
                          /\ op' = [op EXCEPT ![p] = c]
  <2>1. Idle \in Calls /\ Idle.name = "idle"
    BY DEF Calls, Idle
  <2>2. [name |-> "write", bytes |-> rest] \in Calls
    BY <1>8 DEF Calls
  <2>3. [name |-> "write", bytes |-> rest].name = "write"
    OBVIOUS
  <2>4. op' = [op EXCEPT ![p] = Idle] \/ op' = [op EXCEPT ![p] = [name |-> "write", bytes |-> rest]]
    BY <1>6, Zenon
  <2> QED
    BY <2>1, <2>2, <2>3, <2>4
<1>11. Callers' /\ FreedLast'
  BY <1>1, <1>5, <1>10, Calling, Zenon DEF Ends
<1>12. Types'
  <2>1. op' \in [Procs -> Calls]
    BY <1>1, <1>10 DEF Types
  <2>2. asleep' \in [Procs -> {None, "nread", "nwrite"}]
    BY <1>1, <1>6, Woken DEF Types
  <2>3. gaveUp' \in BOOLEAN
    <3>1. (gaveUp \/ k > 0) \in BOOLEAN /\ FALSE \in BOOLEAN
      OBVIOUS
    <3> QED
      BY <1>6, <3>1, Zenon
  <2>4. /\ fds' \in [Procs -> SUBSET Ends] /\ ref' \in [Ends -> Nat]
        /\ killed' \in [Procs -> BOOLEAN]
        /\ readopen' \in BOOLEAN /\ writeopen' \in BOOLEAN /\ freed' \in BOOLEAN
    BY <1>1, <1>5, Zenon DEF Types
  <2> QED
    BY <2>1, <2>2, <2>3, <2>4, Zenon DEF Types
<1>13. SleepsForReason'
  <2>1. (readopen' <=> readopen) /\ (writeopen' <=> writeopen)
    BY <1>5, Zenon
  <2>2. writeopen
    BY <1>1, OpenEnd DEF Ends
  <2>3. ASSUME NEW q \in Procs, asleep'[q] = "nwrite" PROVE Used' = PIPESIZE /\ readopen'
    <3>1. CASE asleep[q] = "nwrite"
      <4>1. Used = PIPESIZE /\ readopen
        BY <1>1, <3>1, Zenon DEF SleepsForReason
      <4>2. k = 0
        BY <4>1, <1>2, <1>7
      <4> QED
        BY <4>1, <4>2, <1>2, <1>9, <2>1
    <3>2. CASE asleep[q] # "nwrite"
      <4>1. None # "nwrite"
        BY PipeAssumption
      <4>2. wakeup("nread")[q] # "nwrite"
        BY <1>1, <3>2, <4>1, Woken
      <4>3. rest # <<>> /\ ~(~readopen \/ killed[p])
        <5>1. asleep' # wakeup("nread") /\ asleep' # asleep
          BY <2>3, <3>2, <4>2
        <5> QED
          BY <1>6, <5>1, Zenon
      <4> QED
        BY <1>8, <1>9, <2>1, <4>3
    <3> QED
      BY <3>1, <3>2
  <2>4. ASSUME NEW q \in Procs, asleep'[q] = "nread" PROVE writeopen' /\ (Empty' \/ gaveUp')
    <3>1. None # "nread" /\ "nread" # "nwrite"
      BY PipeAssumption
    <3>2. wakeup("nread")[q] # "nread"
      BY <1>1, <3>1, Woken
    <3>3. /\ asleep' # wakeup("nread")
          /\ asleep' # [wakeup("nread") EXCEPT ![p] = "nwrite"]
      BY <2>4, <3>1, <3>2, <1>1, Woken, Zenon
    <3>4. (gaveUp' = (gaveUp \/ k > 0)) /\ asleep' = asleep
      BY <1>6, <3>3, Zenon
    <3>5. Empty \/ gaveUp
      BY <1>1, <2>4, <3>4 DEF SleepsForReason
    <3>6. CASE k > 0
      BY <2>1, <2>2, <3>4, <3>6, Zenon
    <3>7. CASE gaveUp
      BY <2>1, <2>2, <3>4, <3>7, Zenon
    <3>8. CASE k = 0 /\ Empty
      <4>1. Used = 0
        BY <1>1, <3>8, Filled
      <4>2. Used' = 0
        BY <1>9, <3>8, <4>1
      <4>3. (Ring => (Empty <=> Used = 0))'
        BY Filled, PTL
      <4> QED
        BY <1>9, <2>1, <2>2, <4>2, <4>3
    <3> QED
      BY <3>5, <3>6, <3>7, <3>8, <1>7
  <2> QED
    BY <2>3, <2>4, Zenon DEF SleepsForReason
<1>14. Stream!Put
  <2>1. (Ring => Len(Contents) = Used)'
    BY Filled, PTL
  <2>2. Len(Contents') = Used' /\ Used' <= PIPESIZE
    BY <1>2, <1>7, <1>9, <2>1
  <2>3. Len(Contents') <= PIPESIZE
    BY <2>2
  <2>4. SubSeq(bytes, 1, k) \in [1 .. k -> Bytes]
    <3> DEFINE new == SubSeq(bytes, 1, k)
    <3>1. new \in Seq(Bytes) /\ Len(new) = k
      BY <1>3, <1>7
    <3> HIDE DEF new
    <3>2. new \in [1 .. k -> Bytes]
      BY <3>1
    <3> QED
      BY <3>2 DEF new
  <2>5. \E x \in [1 .. k -> Bytes] : Contents' = Contents \o x
    BY <1>9, <2>4, Zenon
  <2>6. \E m \in 0 .. PIPESIZE : \E x \in [1 .. m -> Bytes] : Contents' = Contents \o x
    BY <1>7, <2>5, Zenon
  <2> QED
    BY <1>5, <2>3, <2>6, Zenon DEF Stream!Put
<1> QED
  BY <1>9, <1>11, <1>12, <1>13, <1>14 DEF PipeInv

\* piperead.
LEMMA ReadStep ==
  ASSUME PipeInv, NEW p \in Procs, NEW n \in 1 .. MaxCount, "r" \in fds[p],
         op[p].name # "close", piperead(p, n)
  PROVE  PipeInv' /\ (Stream!Put \/ Stream!Get)
<1> DEFINE k == Min({n, Used})
<1>1. Types /\ Ring /\ Callers /\ FreedLast /\ SleepsForReason
  BY DEF PipeInv
<1>2. /\ data' = data /\ nwrite' = nwrite /\ killed' = killed
      /\ readopen' = readopen /\ writeopen' = writeopen /\ freed' = freed
      /\ ref' = ref /\ fds' = fds /\ gaveUp' = gaveUp
  BY Zenon DEF piperead
<1>3. \/ /\ Empty /\ writeopen /\ got' = <<>> /\ nread' = nread
         /\ \/ asleep' = asleep /\ op' = [op EXCEPT ![p] = Idle]
            \/ /\ asleep' = [asleep EXCEPT ![p] = "nread"]
               /\ op' = [op EXCEPT ![p] = [name |-> "read", n |-> n]]
      \/ /\ ~(Empty /\ writeopen) /\ nread' = Advance(nread, k)
         /\ got' = [i \in 1 .. k |-> data[(nread + i - 1) % PIPESIZE]]
         /\ asleep' = wakeup("nwrite") /\ op' = [op EXCEPT ![p] = Idle]
  BY Zenon DEF piperead, NothingToRead
<1>4. k \in 0 .. Used
  <2>1. Used \in 0 .. PIPESIZE /\ Used \in Int /\ n \in Int /\ PIPESIZE \in Nat /\ n >= 1
    BY <1>1, Filled, PipeAssumption
  <2>2. k \in {n, Used} /\ k <= n /\ k <= Used
    BY <2>1, MinTwo, Zenon
  <2> HIDE DEF k
  <2> QED
    BY <2>1, <2>2
<1> HIDE DEF k
<1>5. PICK c \in Calls : c.name # "close" /\ c.name # "write" /\ op' = [op EXCEPT ![p] = c]
  <2>1. Idle \in Calls /\ Idle.name = "idle"
    BY DEF Calls, Idle
  <2>2. [name |-> "read", n |-> n] \in Calls
    BY DEF Calls
  <2>3. [name |-> "read", n |-> n].name = "read"
    BY Zenon
  <2>4. op' = [op EXCEPT ![p] = Idle] \/ op' = [op EXCEPT ![p] = [name |-> "read", n |-> n]]
    BY <1>3, Zenon
  <2> QED
    BY <2>1, <2>2, <2>3, <2>4
<1>6. Callers' /\ FreedLast'
  BY <1>1, <1>2, <1>5, Calling, Zenon DEF Ends
<1>7. Types'
  <2>1. op' \in [Procs -> Calls]
    BY <1>1, <1>5 DEF Types
  <2>2. asleep' \in [Procs -> {None, "nread", "nwrite"}]
    BY <1>1, <1>3, Woken DEF Types
  <2>3. /\ fds' \in [Procs -> SUBSET Ends] /\ ref' \in [Ends -> Nat]
        /\ killed' \in [Procs -> BOOLEAN]
        /\ readopen' \in BOOLEAN /\ writeopen' \in BOOLEAN /\ freed' \in BOOLEAN
        /\ gaveUp' \in BOOLEAN
    BY <1>1, <1>2, Zenon DEF Types
  <2> QED
    BY <2>1, <2>2, <2>3, Zenon DEF Types
<1>8. (readopen' <=> readopen) /\ (writeopen' <=> writeopen) /\ (gaveUp' <=> gaveUp)
  BY <1>2
<1>9. None # "nwrite" /\ None # "nread"
  BY PipeAssumption, Zenon
<1>10. CASE Empty /\ writeopen /\ got' = <<>> /\ nread' = nread
  <2>1. Ring' /\ Used' = Used /\ (Empty' <=> Empty) /\ Stream!Put
    BY <1>1, <1>2, <1>10, Quiet, Zenon
  <2>2. \A q \in Procs : asleep'[q] = "nwrite" => asleep[q] = "nwrite"
    BY <1>1, <1>3, <1>9, Woken, Zenon DEF Types
  <2>3. SleepsForReason'
    BY <1>1, <1>8, <1>10, <2>1, <2>2, Zenon DEF SleepsForReason
  <2> QED
    BY <1>6, <1>7, <2>1, <2>3, Zenon DEF PipeInv
<1>11. CASE /\ ~(Empty /\ writeopen) /\ nread' = Advance(nread, k)
            /\ got' = [i \in 1 .. k |-> data[(nread + i - 1) % PIPESIZE]]
            /\ asleep' = wakeup("nwrite")
  <2>1. /\ Ring' /\ got' = SubSeq(Contents, 1, k)
        /\ Contents' = SubSeq(Contents, k + 1, Len(Contents))
    BY <1>1, <1>2, <1>4, <1>11, Taken, Zenon
  <2>2. k \in 0 .. Len(Contents)
    BY <1>1, <1>4, Filled
  <2>3. Stream!Get
    BY <2>1, <2>2, Zenon DEF Stream!Get
  <2>4. \A q \in Procs : asleep'[q] # "nwrite" /\ (asleep'[q] = "nread" => asleep[q] = "nread")
    BY <1>1, <1>9, <1>11, Woken
  <2>5. \A q \in Procs : asleep'[q] = "nread" => writeopen' /\ gaveUp'
    BY <1>1, <1>8, <1>11, <2>4, Zenon DEF SleepsForReason
  <2>6. SleepsForReason'
    BY <2>4, <2>5, Zenon DEF SleepsForReason
  <2> QED
    BY <1>6, <1>7, <2>1, <2>3, <2>6 DEF PipeInv
<1> QED
  BY <1>3, <1>10, <1>11, Zenon

\* What fork and fileclose do to the number of processes that have an end open.
LEMMA HeldBy ==
  ASSUME Types, FreedLast, NEW e \in Ends
  PROVE  /\ IsFiniteSet(Holders(e)) /\ ref[e] = Cardinality(Holders(e)) /\ ref[e] \in Nat
         /\ \A p \in Procs : p \notin Holders(e) =>
              Cardinality(Holders(e) \cup {p}) = ref[e] + 1
         /\ \A p \in Holders(e) : Cardinality(Holders(e) \ {p}) = ref[e] - 1
<1>1. IsFiniteSet(Holders(e))
  BY PipeAssumption, FS_Subset DEF Holders
<1>2. ref[e] = Cardinality(Holders(e)) /\ ref[e] \in Nat
  BY DEF Types, FreedLast, Holders
<1> QED
  BY <1>1, <1>2, FS_AddElement, FS_RemoveElement

\* fork.
LEMMA ForkStep ==
  ASSUME PipeInv, NEW p \in Procs, NEW np \in Procs, fork(p, np)
  PROVE  PipeInv' /\ Stream!Put
<1>1. Types /\ Ring /\ Callers /\ FreedLast /\ SleepsForReason
  BY DEF PipeInv
<1>2. /\ fds[p] # {} /\ op[np] = Idle /\ fds[np] = {} /\ fds' = [fds EXCEPT ![np] = fds[p]]
      /\ ref' = Dup(fds[p]) /\ got' = <<>>
      /\ UNCHANGED <<data, nread, nwrite, readopen, writeopen, freed, op, asleep, killed, gaveUp>>
  BY DEF fork, pipe
<1>3. Ring' /\ Used' = Used /\ (Empty' <=> Empty) /\ Stream!Put
  BY <1>1, <1>2, Quiet
<1>4. Types'
  BY <1>1, <1>2 DEF Types, Dup
<1>5. /\ (readopen' <=> readopen) /\ (writeopen' <=> writeopen) /\ (freed' <=> freed)
      /\ (gaveUp' <=> gaveUp) /\ op' = op /\ asleep' = asleep
  BY <1>2
<1>6. SleepsForReason'
  BY <1>1, <1>3, <1>5, Zenon DEF SleepsForReason
<1>7. \A e \in Ends : ref'[e] = (IF e \in fds[p] THEN ref[e] + 1 ELSE ref[e])
  BY <1>2 DEF Dup
<1>8. \A e \in Ends : e \in fds[p] => ref[e] \in Nat \ {0}
  BY <1>1, OpenEnd
<1>9. \A e \in Ends : ref[e] \in Nat /\ (ref'[e] > 0 <=> ref[e] > 0) /\ (ref[e] = 0 => ref'[e] = 0)
  <2> TAKE e \in Ends
  <2>1. ref[e] \in Nat
    BY <1>1 DEF Types
  <2> QED
    BY <1>7, <1>8, <2>1
<1>10. \A e \in Ends : ref'[e] = Cardinality({q \in Procs : e \in fds'[q]})
  <2> TAKE e \in Ends
  <2>1. CASE e \in fds[p]
    <3>1. np \notin Holders(e) /\ {q \in Procs : e \in fds'[q]} = Holders(e) \cup {np}
      BY <1>1, <1>2, <2>1 DEF Types, Holders
    <3>2. Cardinality(Holders(e) \cup {np}) = ref[e] + 1
      BY <1>1, <3>1, HeldBy, Zenon
    <3> QED
      BY <1>7, <2>1, <3>1, <3>2, Zenon
  <2>2. CASE e \notin fds[p]
    <3>1. {q \in Procs : e \in fds'[q]} = Holders(e)
      BY <1>1, <1>2, <2>2, Zenon DEF Types, Holders
    <3>2. Cardinality(Holders(e)) = ref[e]
      BY <1>1, HeldBy
    <3> QED
      BY <1>7, <2>2, <3>1, <3>2, Zenon
  <2> QED
    BY <2>1, <2>2
<1>11. FreedLast'
  <2>1. readopen' <=> ref'["r"] > 0 \/ Closing("r")'
    BY <1>1, <1>5, <1>9, Zenon DEF FreedLast, Closing, Ends
  <2>2. writeopen' <=> ref'["w"] > 0 \/ Closing("w")'
    BY <1>1, <1>5, <1>9, Zenon DEF FreedLast, Closing, Ends
  <2>3. freed' <=> ~readopen' /\ ~writeopen'
    BY <1>1, <1>5, Zenon DEF FreedLast
  <2>4. \A q \in Procs : op'[q] # Idle => ~freed'
    BY <1>1, <1>5, Zenon DEF FreedLast
  <2> QED
    BY <1>10, <2>1, <2>2, <2>3, <2>4, Zenon DEF FreedLast
<1>12. Callers'
  <2>1. ASSUME NEW q \in Procs
        PROVE  /\ op[q].name = "write" => "w" \in fds'[q]
               /\ op[q].name = "read" => "r" \in fds'[q]
               /\ op[q].name = "close" => ref'[op[q].end] = 0
    <3>1. op[q] \in Calls
      BY <1>1 DEF Types
    <3>2. op[q].name = "close" => op[q].end \in Ends /\ ref[op[q].end] = 0
      BY <1>1, <3>1, CallOf, Zenon DEF Callers
    <3>3. op[q].name = "close" => ref'[op[q].end] = 0
      BY <3>2, <1>9, Zenon
    <3>4. CASE q = np
      BY <1>2, <3>3, <3>4 DEF Idle
    <3>5. CASE q # np
      <4>1. fds'[q] = fds[q]
        BY <1>1, <1>2, <3>5, Zenon DEF Types
      <4> QED
        BY <1>1, <3>3, <4>1, Zenon DEF Callers
    <3> QED
      BY <3>4, <3>5, Zenon
  <2>2. \A q, s \in Procs :
          op[q].name = "close" /\ op[s].name = "close" /\ op[q].end = op[s].end => q = s
    BY <1>1, Zenon DEF Callers
  <2> QED
    BY <1>5, <2>1, <2>2, Zenon DEF Callers
<1> QED
  BY <1>3, <1>4, <1>6, <1>11, <1>12 DEF PipeInv

\* kill.
LEMMA KillStep ==
  ASSUME PipeInv, NEW p \in Procs, kill(p)
  PROVE  PipeInv' /\ Stream!Put
<1>1. Types /\ Ring /\ Callers /\ FreedLast /\ SleepsForReason
  BY DEF PipeInv
<1>2. /\ killed' = [killed EXCEPT ![p] = TRUE] /\ asleep' = [asleep EXCEPT ![p] = None]
      /\ got' = <<>>
      /\ UNCHANGED <<data, nread, nwrite, readopen, writeopen, freed, ref, fds, op, gaveUp>>
  BY Zenon DEF kill, pipe
<1>3. Ring' /\ Used' = Used /\ (Empty' <=> Empty) /\ Stream!Put
  BY <1>1, <1>2, Quiet
<1>4. Types'
  BY <1>1, <1>2 DEF Types
<1>5. /\ (readopen' <=> readopen) /\ (writeopen' <=> writeopen) /\ (freed' <=> freed)
      /\ (gaveUp' <=> gaveUp) /\ op' = op /\ ref' = ref /\ fds' = fds
  BY <1>2
<1>6. \A q \in Procs : \A c \in {"nread", "nwrite"} : asleep'[q] = c => asleep[q] = c
  BY <1>1, <1>2, PipeAssumption, Zenon DEF Types
<1>7. SleepsForReason'
  BY <1>1, <1>3, <1>5, <1>6, Zenon DEF SleepsForReason
<1>8. Callers'
  BY <1>1, <1>5, Zenon DEF Callers
<1>9. FreedLast'
  BY <1>1, <1>5, Zenon DEF FreedLast, Closing
<1> QED
  BY <1>3, <1>4, <1>7, <1>8, <1>9 DEF PipeInv

\* fileclose.
LEMMA CloseStep ==
  ASSUME PipeInv, NEW p \in Procs, NEW e \in Ends, fileclose(p, e)
  PROVE  PipeInv' /\ Stream!Put
<1>1. Types /\ Ring /\ Callers /\ FreedLast /\ SleepsForReason
  BY DEF PipeInv
<1>2. /\ op[p] = Idle /\ e \in fds[p] /\ fds' = [fds EXCEPT ![p] = fds[p] \ {e}]
      /\ ref' = [ref EXCEPT ![e] = ref[e] - 1]
      /\ op' = (IF ref[e] = 1 THEN [op EXCEPT ![p] = [name |-> "close", end |-> e]] ELSE op)
      /\ got' = <<>> /\ UNCHANGED <<data, nread, nwrite, readopen, writeopen, freed, asleep, gaveUp>>
  BY Zenon DEF fileclose, pipe
<1>3. Ring' /\ Used' = Used /\ (Empty' <=> Empty) /\ Stream!Put
  BY <1>1, <1>2, Quiet, Zenon
<1>4. /\ (readopen' <=> readopen) /\ (writeopen' <=> writeopen) /\ (freed' <=> freed)
      /\ (gaveUp' <=> gaveUp) /\ asleep' = asleep
  BY <1>2, Zenon
<1>5. SleepsForReason'
  BY <1>1, <1>3, <1>4, Zenon DEF SleepsForReason
<1>6. /\ ref[e] \in Nat \ {0} /\ (e = "r" => readopen) /\ (e = "w" => writeopen) /\ ~freed
  BY <1>1, <1>2, OpenEnd, Zenon
<1>7. Types'
  <2>1. [name |-> "close", end |-> e] \in Calls
    BY DEF Calls
  <2>2. op' \in [Procs -> Calls]
    BY <1>1, <1>2, <2>1, Zenon DEF Types
  <2>3. fds' \in [Procs -> SUBSET Ends] /\ ref' \in [Ends -> Nat]
    BY <1>1, <1>2, <1>6 DEF Types
  <2>4. killed' \in [Procs -> BOOLEAN]
    <3>1. killed' = killed \/ killed' = [killed EXCEPT ![p] = FALSE]
      BY Zenon DEF fileclose
    <3> QED
      BY <1>1, <3>1, Zenon DEF Types
  <2>5. /\ asleep' = asleep /\ readopen' = readopen /\ writeopen' = writeopen
        /\ freed' = freed /\ gaveUp' = gaveUp
    BY <1>2, Zenon
  <2> QED
    BY <1>1, <2>2, <2>3, <2>4, <2>5, Zenon DEF Types
<1>8. ref'[e] = ref[e] - 1 /\ \A x \in Ends : x # e => ref'[x] = ref[x]
  BY <1>1, <1>2, Zenon DEF Types
<1>9. fds'[p] = fds[p] \ {e} /\ \A q \in Procs : q # p => fds'[q] = fds[q]
  BY <1>1, <1>2, Zenon DEF Types
<1>10. \A q \in Procs : q # p => op'[q] = op[q]
  BY <1>1, <1>2, Zenon DEF Types
<1>11. \/ ref[e] = 1 /\ op'[p] = [name |-> "close", end |-> e]
       \/ ref[e] # 1 /\ op'[p] = op[p]
  BY <1>1, <1>2, Zenon DEF Types
<1>12. \A q \in Procs : op[q].name = "close" => op[q].end \in Ends /\ op[q].end # e /\ q # p
  <2> TAKE q \in Procs
  <2>1. op[q] \in Calls
    BY <1>1 DEF Types
  <2> QED
    BY <1>1, <1>2, <1>6, <2>1, CallOf, Zenon DEF Callers, Idle
<1>13. \A x \in Ends : x # e => (Closing(x)' <=> Closing(x))
  <2> TAKE x \in Ends
  <2> HAVE x # e
  <2>1. ASSUME Closing(x) PROVE Closing(x)'
    BY <1>10, <1>12, <2>1, Zenon DEF Closing
  <2>2. ASSUME Closing(x)' PROVE Closing(x)
    <3>1. PICK q \in Procs : op'[q].name = "close" /\ op'[q].end = x
      BY <2>2, Zenon DEF Closing
    <3>2. q # p
      <4>1. op'[p] = op[p] => op'[p].name # "close"
        BY <1>2 DEF Idle
      <4>2. op'[p] = [name |-> "close", end |-> e] => op'[p].end = e
        OBVIOUS
      <4> QED
        BY <1>11, <3>1, <4>1, <4>2, Zenon
    <3> QED
      BY <1>10, <3>1, <3>2, Zenon DEF Closing
  <2> QED
    BY <2>1, <2>2
<1>14. ref'[e] > 0 \/ Closing(e)'
  <2>1. CASE ref[e] = 1
    <3>1. op'[p].name = "close" /\ op'[p].end = e
      BY <1>11, <2>1
    <3> QED
      BY <3>1 DEF Closing
  <2>2. CASE ref[e] # 1
    BY <1>6, <1>8, <2>2
  <2> QED
    BY <2>1, <2>2
<1>15. \A x \in Ends : ref'[x] = Cardinality({q \in Procs : x \in fds'[q]})
  <2> TAKE x \in Ends
  <2>1. CASE x = e
    <3>1. p \in Holders(e) /\ {q \in Procs : e \in fds'[q]} = Holders(e) \ {p}
      BY <1>2, <1>9, Zenon DEF Holders
    <3>2. Cardinality(Holders(e) \ {p}) = ref[e] - 1
      BY <1>1, <3>1, HeldBy, Zenon
    <3> QED
      BY <1>8, <2>1, <3>1, <3>2, Zenon
  <2>2. CASE x # e
    <3>1. {q \in Procs : x \in fds'[q]} = {q \in Procs : x \in fds[q]}
      BY <1>9, <2>2, Zenon
    <3> QED
      BY <1>1, <1>8, <2>2, <3>1, Zenon DEF FreedLast
  <2> QED
    BY <2>1, <2>2
<1>16. FreedLast'
  <2>1. readopen' <=> ref'["r"] > 0 \/ Closing("r")'
    <3>1. CASE e = "r"
      BY <1>4, <1>6, <1>14, <3>1, Zenon
    <3>2. CASE e # "r"
      BY <1>1, <1>4, <1>8, <1>13, <3>2, Zenon DEF FreedLast, Ends
    <3> QED
      BY <3>1, <3>2
  <2>2. writeopen' <=> ref'["w"] > 0 \/ Closing("w")'
    <3>1. CASE e = "w"
      BY <1>4, <1>6, <1>14, <3>1, Zenon
    <3>2. CASE e # "w"
      BY <1>1, <1>4, <1>8, <1>13, <3>2, Zenon DEF FreedLast, Ends
    <3> QED
      BY <3>1, <3>2
  <2>3. freed' <=> ~readopen' /\ ~writeopen'
    BY <1>1, <1>4, Zenon DEF FreedLast
  <2>4. \A q \in Procs : op'[q] # Idle => ~freed'
    BY <1>4, <1>6, Zenon
  <2> QED
    BY <1>15, <2>1, <2>2, <2>3, <2>4, Zenon DEF FreedLast
<1>17. Callers'
  <2>1. ASSUME NEW q \in Procs
        PROVE  /\ op'[q].name = "write" => "w" \in fds'[q]
               /\ op'[q].name = "read" => "r" \in fds'[q]
               /\ op'[q].name = "close" => ref'[op'[q].end] = 0
    <3>1. CASE q = p
      BY <1>2, <1>8, <1>11, <3>1 DEF Idle
    <3>2. CASE q # p
      <4>1. op'[q] = op[q] /\ fds'[q] = fds[q]
        BY <1>9, <1>10, <3>2, Zenon
      <4>2. op[q].name = "close" => ref'[op[q].end] = 0
        BY <1>1, <1>8, <1>12, Zenon DEF Callers
      <4> QED
        BY <1>1, <4>1, <4>2, Zenon DEF Callers
    <3> QED
      BY <3>1, <3>2, Zenon
  <2>2. ASSUME NEW q \in Procs, NEW s \in Procs, op'[q].name = "close", op'[s].name = "close",
               op'[q].end = op'[s].end, q # s
        PROVE  FALSE
    <3>1. op[p].name # "close"
      BY <1>2 DEF Idle
    <3>2. \A x \in Procs : x = p /\ op'[x].name = "close" => op'[x].end = e
      BY <1>11, <3>1
    <3>3. CASE q = p
      BY <1>10, <1>12, <2>2, <3>2, <3>3, Zenon
    <3>4. CASE s = p
      BY <1>10, <1>12, <2>2, <3>2, <3>4, Zenon
    <3>5. CASE q # p /\ s # p
      BY <1>1, <1>10, <2>2, <3>5, Zenon DEF Callers
    <3> QED
      BY <3>3, <3>4, <3>5
  <2> QED
    BY <2>1, <2>2, Zenon DEF Callers
<1> QED
  BY <1>3, <1>5, <1>7, <1>16, <1>17 DEF PipeInv

\* pipeclose.
LEMMA PipecloseStep ==
  ASSUME PipeInv, NEW p \in Procs, pipeclose(p)
  PROVE  PipeInv' /\ Stream!Put
<1> DEFINE e == op[p].end
<1>1. Types /\ Ring /\ Callers /\ FreedLast /\ SleepsForReason
  BY DEF PipeInv
<1>2. op[p].name = "close" /\ e \in Ends /\ ref[e] = 0
  <2>1. op[p].name = "close" /\ op[p] \in Calls
    BY <1>1, Zenon DEF pipeclose, Types
  <2> QED
    BY <1>1, <2>1, CallOf, Zenon DEF Callers
<1>3. /\ writeopen' = (writeopen /\ e # "w") /\ readopen' = (readopen /\ e # "r")
      /\ asleep' = wakeup(IF e = "w" THEN "nread" ELSE "nwrite")
      /\ freed' = BothClosed(e) /\ op' = [op EXCEPT ![p] = Idle] /\ got' = <<>>
      /\ UNCHANGED <<data, nread, nwrite, ref, fds, killed, gaveUp>>
  BY Zenon DEF pipeclose
<1>4. Ring' /\ Used' = Used /\ (Empty' <=> Empty) /\ Stream!Put
  BY <1>1, <1>3, Quiet, Zenon
<1> HIDE DEF e
<1>5. /\ (writeopen' <=> writeopen /\ e # "w") /\ (readopen' <=> readopen /\ e # "r")
      /\ (freed' <=> BothClosed(e)) /\ (gaveUp' <=> gaveUp)
  BY <1>3, Zenon
<1>6. op'[p] = Idle /\ \A q \in Procs : q # p => op'[q] = op[q]
  BY <1>1, <1>3, Zenon DEF Types
<1>7. ref' = ref /\ fds' = fds
  BY <1>3
<1>8. Types'
  <2>1. op' \in [Procs -> Calls]
    BY <1>1, <1>3, Zenon DEF Types, Calls
  <2>2. asleep' \in [Procs -> {None, "nread", "nwrite"}]
    BY <1>1, <1>3, Woken, Zenon
  <2>3. readopen' \in BOOLEAN /\ writeopen' \in BOOLEAN /\ freed' \in BOOLEAN
    BY <1>1, <1>3, Zenon DEF Types, BothClosed
  <2>4. killed' = killed /\ gaveUp' = gaveUp
    BY <1>3, Zenon
  <2> QED
    BY <1>1, <1>7, <2>1, <2>2, <2>3, <2>4, Zenon DEF Types
<1>9. SleepsForReason'
  <2>1. None # "nread" /\ None # "nwrite"
    BY PipeAssumption
  <2>2. ASSUME NEW q \in Procs, asleep'[q] = "nwrite"
        PROVE  asleep[q] = "nwrite" /\ e = "w"
    BY <1>1, <1>2, <1>3, <2>1, <2>2, Woken DEF Ends
  <2>3. ASSUME NEW q \in Procs, asleep'[q] = "nread"
        PROVE  asleep[q] = "nread" /\ e # "w"
    BY <1>1, <1>2, <1>3, <2>1, <2>3, Woken
  <2>4. ASSUME NEW q \in Procs, asleep'[q] = "nwrite" PROVE Used' = PIPESIZE /\ readopen'
    <3>1. Used = PIPESIZE /\ readopen /\ e = "w"
      BY <1>1, <2>2, <2>4, Zenon DEF SleepsForReason
    <3>2. e # "r"
      BY <3>1
    <3> QED
      BY <1>4, <1>5, <3>1, <3>2, Zenon
  <2>5. ASSUME NEW q \in Procs, asleep'[q] = "nread" PROVE writeopen' /\ (Empty' \/ gaveUp')
    <3>1. writeopen /\ (Empty \/ gaveUp) /\ e # "w"
      BY <1>1, <2>3, <2>5, Zenon DEF SleepsForReason
    <3> QED
      BY <1>4, <1>5, <3>1, Zenon
  <2> QED
    BY <2>4, <2>5, Zenon DEF SleepsForReason
<1>10. \A x : x = e => ~Closing(x)'
  <2>1. ASSUME NEW q \in Procs, op'[q].name = "close", op'[q].end = e PROVE FALSE
    <3>1. q # p
      BY <1>6, <2>1 DEF Idle
    <3>2. op[q].name = "close" /\ op[q].end = op[p].end
      BY <1>6, <2>1, <3>1, Zenon DEF e
    <3> QED
      BY <1>1, <1>2, <3>1, <3>2, Zenon DEF Callers
  <2> QED
    BY <2>1 DEF Closing
<1>11. \A x : x # e => (Closing(x)' <=> Closing(x))
  <2> TAKE x
  <2> HAVE x # e
  <2>1. op'[p].name # "close" /\ op[p].end # x
    BY <1>6 DEF Idle, e
  <2> QED
    BY <1>6, <2>1, Zenon DEF Closing
<1>12. Callers'
  <2>1. \A q \in Procs : op'[q].name # "idle" => op'[q] = op[q]
    BY <1>6 DEF Idle
  <2> QED
    BY <1>1, <1>7, <2>1, Zenon DEF Callers
<1>13. readopen' <=> ref'["r"] > 0 \/ Closing("r")'
  <2>1. CASE e = "r"
    <3>1. ~(ref'["r"] > 0)
      BY <1>2, <1>7, <2>1
    <3> QED
      BY <1>5, <1>10, <2>1, <3>1, Zenon
  <2>2. CASE e # "r"
    BY <1>1, <1>5, <1>7, <1>11, <2>2, Zenon DEF FreedLast
  <2> QED
    BY <2>1, <2>2
<1>14. writeopen' <=> ref'["w"] > 0 \/ Closing("w")'
  <2>1. CASE e = "w"
    <3>1. ~(ref'["w"] > 0)
      BY <1>2, <1>7, <2>1
    <3> QED
      BY <1>5, <1>10, <2>1, <3>1, Zenon
  <2>2. CASE e # "w"
    BY <1>1, <1>5, <1>7, <1>11, <2>2, Zenon DEF FreedLast
  <2> QED
    BY <2>1, <2>2
<1>15. freed' <=> ~readopen' /\ ~writeopen'
  <2>1. CASE e = "w"
    <3>1. e # "r"
      BY <2>1
    <3> QED
      BY <1>5, <2>1, <3>1, Zenon DEF BothClosed
  <2>2. CASE e = "r"
    <3>1. e # "w"
      BY <2>2
    <3> QED
      BY <1>5, <2>2, <3>1, Zenon DEF BothClosed
  <2> QED
    BY <1>2, <2>1, <2>2, Zenon DEF Ends
<1>16. \A x \in Ends : ref'[x] = Cardinality({q \in Procs : x \in fds'[q]})
  BY <1>1, <1>7, Zenon DEF FreedLast
<1>17. ASSUME NEW q \in Procs, op'[q] # Idle PROVE ~freed'
  <2>1. q # p /\ op'[q] = op[q] /\ op'[q] \in Calls
    BY <1>6, <1>8, <1>17, Zenon DEF Types
  <2>2. op'[q].name \in {"write", "read", "close"}
    BY <1>17, <2>1, CallOf, Zenon
  <2>3. CASE op'[q].name = "write"
    <3>1. ref'["w"] > 0
      BY <1>1, <1>7, <2>1, <2>3, OpenEnd DEF Callers, Ends
    <3> QED
      BY <1>14, <1>15, <3>1, Zenon
  <2>4. CASE op'[q].name = "read"
    <3>1. ref'["r"] > 0
      BY <1>1, <1>7, <2>1, <2>4, OpenEnd DEF Callers, Ends
    <3> QED
      BY <1>13, <1>15, <3>1, Zenon
  <2>5. CASE op'[q].name = "close"
    <3>1. op'[q].end \in {"r", "w"}
      BY <2>1, <2>5, CallOf, Zenon DEF Ends
    <3>2. Closing("r")' \/ Closing("w")'
      BY <2>5, <3>1, Zenon DEF Closing
    <3> QED
      BY <1>13, <1>14, <1>15, <3>2, Zenon
  <2> QED
    BY <2>2, <2>3, <2>4, <2>5, Zenon
<1>18. FreedLast'
  BY <1>13, <1>14, <1>15, <1>16, <1>17, Zenon DEF FreedLast
<1> QED
  BY <1>4, <1>8, <1>9, <1>12, <1>18 DEF PipeInv

-----------------------------------------------------------------------------
(* The results.                                                            *)

\* pipealloc.
LEMMA Begun ==
  ASSUME Init
  PROVE  PipeInv /\ Contents = <<>>
<1>1. /\ data \in [0 .. PIPESIZE - 1 -> Bytes] /\ nread = 0 /\ nwrite = 0
      /\ readopen = TRUE /\ writeopen = TRUE /\ freed = FALSE /\ gaveUp = FALSE
      /\ ref = [e \in Ends |-> 1] /\ fds = [p \in Procs |-> IF p = First THEN Ends ELSE {}]
      /\ op = [p \in Procs |-> Idle] /\ asleep = [p \in Procs |-> None]
      /\ killed = [p \in Procs |-> FALSE]
  BY DEF Init
<1>2. /\ PIPESIZE \in Nat \ {0} /\ Width \in Nat \ {0} /\ First \in Procs
      /\ None # "nread" /\ None # "nwrite"
  BY PipeAssumption
<1>3. Used = 0
  <2>1. 0 % Width = 0
    BY <1>2, ModNear
  <2>2. nwrite - nread = 0
    BY <1>1
  <2> QED
    BY <2>1, <2>2 DEF Used
<1>4. Ring
  BY <1>1, <1>2, <1>3 DEF Ring
<1>5. Types
  BY <1>1, Zenon DEF Types, Calls
<1>6. \A p \in Procs : op[p] = Idle /\ op[p].name = "idle" /\ asleep[p] = None
  BY <1>1, Zenon DEF Idle
<1>7. Callers /\ SleepsForReason
  BY <1>2, <1>6, Zenon DEF Callers, SleepsForReason
<1>8. FreedLast
  <2>1. \A e \in Ends : ref[e] = 1 /\ {p \in Procs : e \in fds[p]} = {First}
    BY <1>1, <1>2, Zenon
  <2>2. \A e \in Ends : ref[e] = Cardinality({p \in Procs : e \in fds[p]})
    BY <2>1, FS_Singleton, Zenon
  <2>3. ref["r"] > 0 /\ ref["w"] > 0
    BY <2>1 DEF Ends
  <2>4. readopen /\ writeopen /\ ~freed
    BY <1>1
  <2> QED
    BY <1>6, <2>2, <2>3, <2>4, Zenon DEF FreedLast
<1>9. Contents = <<>>
  <2>1. Contents \in Seq(Bytes) /\ Len(Contents) = 0
    BY <1>3, <1>4, Filled
  <2> QED
    BY <2>1
<1> QED
  BY <1>4, <1>5, <1>7, <1>8, <1>9 DEF PipeInv

\* Every step keeps the invariant and is a step of the byte stream.
LEMMA Step ==
  ASSUME PipeInv, Next
  PROVE  PipeInv' /\ (Stream!Put \/ Stream!Get)
<1>1. PICK p \in Procs :
        \/ \E bytes \in Messages[p] : Write(p, bytes)
        \/ \E n \in 1 .. MaxCount : Read(p, n)
        \/ WriteOn(p) \/ ReadOn(p) \/ pipeclose(p) \/ kill(p)
        \/ \E np \in Procs : fork(p, np)
        \/ \E e \in Ends : fileclose(p, e)
  BY Zenon DEF Next
<1>2. op[p] \in Calls /\ Callers
  BY DEF PipeInv, Types
<1>3. ASSUME NEW bytes \in Messages[p], Write(p, bytes) PROVE PipeInv' /\ Stream!Put
  <2>1. bytes \in Seq(Bytes)
    BY PipeAssumption
  <2>2. "w" \in fds[p] /\ op[p].name # "close" /\ pipewrite(p, bytes)
    BY <1>3 DEF Write, MayCall, Idle
  <2> QED
    BY <2>1, <2>2, WriteStep, Zenon
<1>4. ASSUME NEW n \in 1 .. MaxCount, Read(p, n) PROVE PipeInv' /\ (Stream!Put \/ Stream!Get)
  <2>1. "r" \in fds[p] /\ op[p].name # "close" /\ piperead(p, n)
    BY <1>4 DEF Read, MayCall, Idle
  <2> QED
    BY <2>1, ReadStep, Zenon
<1>5. ASSUME WriteOn(p) PROVE PipeInv' /\ Stream!Put
  <2>1. op[p].name = "write" /\ pipewrite(p, op[p].bytes)
    BY <1>5, Zenon DEF WriteOn
  <2>2. op[p].bytes \in Seq(Bytes) /\ "w" \in fds[p] /\ op[p].name # "close"
    BY <1>2, <2>1, CallOf, Zenon DEF Callers
  <2> QED
    BY <2>1, <2>2, WriteStep, Zenon
<1>6. ASSUME ReadOn(p) PROVE PipeInv' /\ (Stream!Put \/ Stream!Get)
  <2>1. op[p].name = "read" /\ piperead(p, op[p].n)
    BY <1>6, Zenon DEF ReadOn
  <2>2. op[p].n \in 1 .. MaxCount /\ "r" \in fds[p] /\ op[p].name # "close"
    BY <1>2, <2>1, CallOf, Zenon DEF Callers
  <2> QED
    BY <2>1, <2>2, ReadStep, Zenon
<1> QED
  BY <1>1, <1>3, <1>4, <1>5, <1>6, PipecloseStep, KillStep, ForkStep, CloseStep, Zenon

\* PipeInv is an invariant of pipes.
THEOREM PipeInvariant == Spec => []PipeInv
<1>1. Init => PipeInv
  BY Begun
<1>2. PipeInv /\ [Next]_vars => PipeInv'
  <2>1. PipeInv /\ UNCHANGED vars => PipeInv'
    <3> SUFFICES ASSUME PipeInv, UNCHANGED vars PROVE PipeInv'
      OBVIOUS
    <3>1. /\ UNCHANGED vars
          /\ Types /\ Ring /\ Callers /\ FreedLast /\ SleepsForReason
      BY Zenon DEF PipeInv
    <3>2. Types' /\ Ring'
      BY <3>1, Zenon DEF vars, Types, Ring, Used
    <3>3. Callers'
      BY <3>1, Zenon DEF vars, Callers, Closing
    <3>4. FreedLast'
      BY <3>1 DEF vars, FreedLast, Closing
    <3>5. SleepsForReason'
      BY <3>1 DEF vars, SleepsForReason, Empty, Used
    <3> QED
      BY <3>2, <3>3, <3>4, <3>5, Zenon DEF PipeInv
  <2> QED
    BY <2>1, Step
<1> QED
  BY <1>1, <1>2, PTL DEF Spec

\* A pipe is given back once, when both ends are closed, and never under a process
\* that reads, writes or closes it.
THEOREM AlwaysFreedLast == Spec => []FreedLast
<1>1. PipeInv => FreedLast
  BY DEF PipeInv
<1> QED
  BY <1>1, PipeInvariant, PTL

\* Nobody sleeps on a pipe without a reason.
THEOREM AlwaysSleepsForReason == Spec => []SleepsForReason
<1>1. PipeInv => SleepsForReason
  BY DEF PipeInv
<1> QED
  BY <1>1, PipeInvariant, PTL

\* The ring buffer with its wrapping counters implements the queue of bytes.
THEOREM RingIsStream == Spec => StreamSpec
<1>1. Init => Stream!Init
  BY Begun, Zenon DEF Stream!Init, Init
<1>2. PipeInv /\ [Next]_vars => [Stream!Next]_<<Contents, got>>
  <2>1. UNCHANGED vars => UNCHANGED <<Contents, got>>
    BY DEF vars, Contents, Used
  <2> QED
    BY <2>1, Step DEF Stream!Next
<1> QED
  BY <1>1, <1>2, PipeInvariant, PTL DEF Spec, StreamSpec, Stream!Spec
=============================================================================
