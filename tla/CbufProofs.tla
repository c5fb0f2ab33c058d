----------------------------- MODULE CbufProofs ------------------------------
(***************************************************************************)
(* lib/cbuf: the buffer is a queue of bytes, and no reader sleeps next to  *)
(* bytes it could read.  The remainders of the source are replaced once,   *)
(* in the first lemmas, by the additions and the one wrap they stand for;  *)
(* then come the two loops, and then one lemma for each call.              *)
(***************************************************************************)
EXTENDS Cbuf, TLAPS

\* Remainders.
LEMMA Quotient ==
    ASSUME NEW n \in Nat \ {0}, NEW q \in Int, NEW r \in 0..n - 1
    PROVE  (n * q + r) % n = r
<1> DEFINE a == n * q + r
<1>0. n * q \in Int /\ a \in Int
  OBVIOUS
<1>1. PICK p \in Int, m \in 0..n - 1 : a = n * p + m /\ a % n = m
  <2>1. a = n * (a \div n) + (a % n) /\ a % n \in 0..n - 1 /\ a \div n \in Int
    BY <1>0
  <2>2. QED BY <2>1, ZenonT(30)
<1>2. n * (p - q) = r - m
  BY <1>1
<1>3. CASE p - q >= 1
  <2>1. n * (p - q) >= n
    BY <1>3
  <2>2. QED BY <1>2, <2>1
<1>4. CASE p - q <= -1
  <2>1. n * (p - q) <= -n
    BY <1>4
  <2>2. QED BY <1>2, <2>1
<1>5. CASE p - q = 0
  BY <1>1, <1>5
<1>6. QED BY <1>3, <1>4, <1>5

LEMMA Wrap ==
    ASSUME NEW n \in Nat \ {0}, NEW U \in Nat \ {0}, U % n = 0, NEW r \in 1..n - 1
    PROVE  (U - r) % n = n - r
<1> DEFINE k == U \div n
<1>1. k \in Int /\ U = n * k
  OBVIOUS
<1>2. PICK j \in Int, m \in 0..n - 1 : j = k - 1 /\ m = n - r
  BY <1>1
<1>3. U - r = n * j + m
  BY <1>1, <1>2
<1>4. (n * j + m) % n = m
  BY Quotient
<1>5. QED BY <1>2, <1>3, <1>4

LEMMA Remainder ==
    ASSUME NEW n \in Nat \ {0}, NEW r \in 0..n - 1
    PROVE  r % n = r /\ (r + n) % n = r
OBVIOUS

\* A sequence is its length and its elements.
LEMMA SameSequence ==
    ASSUME NEW S, NEW s \in Seq(S), NEW t \in Seq(S), Len(s) = Len(t),
           \A i \in 1..Len(s) : s[i] = t[i]
    PROVE  s = t
OBVIOUS

-----------------------------------------------------------------------------

Buffer ==
    {b \in [head : Nat, tail : Nat, len : Lens \cup {LenMax}, buf : [0..LenMax - 1 -> Byte],
            signaled : BOOLEAN, is_reset : BOOLEAN] : b.head < b.len /\ b.tail < b.len}

\* The number of bytes from index t to index h, and an index past the end.
Distance(h, t, len) == IF h >= t THEN h - t ELSE h - t + len
Around(x, len) == IF x < len THEN x ELSE x - len

\* What is free in one piece behind the head h.
Piece(h, t, len) == IF h >= t THEN len - h - (IF t = 0 THEN 1 ELSE 0) ELSE t - h - 1

\* The number of bytes held, and the index of the i-th of them.
Held(b) == Distance(b.head, b.tail, b.len)
At(b, i) == Around(b.tail + i - 1, b.len)

\* The arithmetic of two indexes of a circle.
LEMMA HeadForward ==
    ASSUME NEW len \in Nat, NEW h \in 0..len - 1, NEW t \in 0..len - 1,
           NEW n \in 0..len - Distance(h, t, len) - 1
    PROVE  Distance(Around(h + n, len), t, len) = Distance(h, t, len) + n
BY DEF Distance, Around

LEMMA TailForward ==
    ASSUME NEW len \in Nat, NEW h \in 0..len - 1, NEW t \in 0..len - 1,
           NEW n \in 0..Distance(h, t, len)
    PROVE  /\ Distance(h, Around(t + n, len), len) = Distance(h, t, len) - n
           /\ \A i \in 1..Distance(h, t, len) - n :
                 Around(Around(t + n, len) + i - 1, len) = Around(t + (n + i) - 1, len)
<1>1. Distance(h, Around(t + n, len), len) = Distance(h, t, len) - n
  BY DEF Distance, Around
<1>2. ASSUME NEW i \in 1..Distance(h, t, len) - n
      PROVE  Around(Around(t + n, len) + i - 1, len) = Around(t + (n + i) - 1, len)
  BY DEF Distance, Around
<1>3. QED BY <1>1, <1>2

LEMMA PieceIsNat ==
    ASSUME NEW len \in Nat, NEW h \in 0..len - 1, NEW t \in 0..len - 1
    PROVE  Piece(h, t, len) \in Nat
BY DEF Piece

\* That piece is not held, and it is where the next bytes go.
LEMMA PieceIsFree ==
    ASSUME NEW len \in Nat, NEW h \in 0..len - 1, NEW t \in 0..len - 1, NEW n \in 0..Piece(h, t, len)
    PROVE  n \in 0..len - Distance(h, t, len) - 1 /\ h + n <= len
BY DEF Distance, Piece

LEMMA PieceIsApart ==
    ASSUME NEW len \in Nat, NEW h \in 0..len - 1, NEW t \in 0..len - 1, NEW n \in 0..Piece(h, t, len),
           NEW i \in 1..Distance(h, t, len)
    PROVE  Around(t + i - 1, len) \in 0..len - 1 /\ Around(t + i - 1, len) \notin h..(h + n - 1)
BY DEF Distance, Around, Piece

LEMMA PieceIsNext ==
    ASSUME NEW len \in Nat, NEW h \in 0..len - 1, NEW t \in 0..len - 1, NEW n \in 0..Piece(h, t, len),
           NEW i \in 1..n
    PROVE  Around(t + (Distance(h, t, len) + i) - 1, len) = h + i - 1
BY DEF Distance, Around, Piece

\* What is held in one piece from the tail t on.
HeldPiece(h, t, len) == IF h > t THEN h - t ELSE len - t

LEMMA PieceIsHeld ==
    ASSUME NEW len \in Nat, NEW h \in 0..len - 1, NEW t \in 0..len - 1, h # t
    PROVE  HeldPiece(h, t, len) \in 0..Distance(h, t, len) /\ t + HeldPiece(h, t, len) <= len
BY DEF Distance, HeldPiece

LEMMA LengthFacts ==
    ASSUME NEW b \in Buffer
    PROVE  /\ b.len \in 1..LenMax /\ UINT \in Nat \ {0} /\ 2 * b.len <= UINT /\ UINT % b.len = 0
           /\ b.head \in 0..b.len - 1 /\ b.tail \in 0..b.len - 1
           /\ b.len \in Nat \ {0} /\ LenMax \in Nat
<1>1. b.len \in Lens \cup {LenMax} /\ b.head \in Nat /\ b.tail \in Nat /\ b.head < b.len /\ b.tail < b.len
  BY DEF Buffer
<1>2. b.len \in 1..LenMax /\ LenMax \in Nat
  <2>1. LenMax \in Nat \ {0} /\ Lens \subseteq 1..LenMax
    BY LengthAssumption
  <2>2. CASE b.len \in Lens
    BY <2>1, <2>2, ZenonT(30)
  <2>3. CASE b.len = LenMax
    BY <2>1, <2>3
  <2>4. QED BY <1>1, <2>2, <2>3
<1>3. UINT % b.len = 0 /\ UINT \in Nat /\ 2 * LenMax <= UINT
  BY <1>1, WidthAssumption
<1>4. 2 * b.len <= UINT /\ UINT # 0
  BY <1>2, <1>3
<1>5. QED BY <1>1, <1>2, <1>3, <1>4

\* INC_POINTER: with an increment of at most the length, one wrap at most.
LEMMA IncWraps ==
    ASSUME NEW b \in Buffer, NEW p \in 0..b.len - 1, NEW k \in 0..b.len
    PROVE  INC_POINTER(b, p, k) = Around(p + k, b.len) /\ Around(p + k, b.len) \in 0..b.len - 1
<1>0. b.len \in Nat \ {0} /\ UINT \in Nat \ {0} /\ 2 * b.len <= UINT
  BY LengthFacts
<1>1. p + k \in 0..UINT - 1
  BY <1>0
<1>2. (p + k) % UINT = p + k
  BY <1>0, <1>1, Remainder
<1>3. CASE p + k < b.len
  <2>1. p + k \in 0..b.len - 1
    BY <1>0, <1>3
  <2>2. (p + k) % b.len = p + k
    BY <1>0, <2>1, Remainder
  <2>3. QED BY <1>2, <1>3, <2>1, <2>2 DEF INC_POINTER, Around
<1>4. CASE p + k >= b.len
  <2>1. PICK r \in 0..b.len - 1 : r + b.len = p + k
    <3>1. p + k - b.len \in 0..b.len - 1 /\ (p + k - b.len) + b.len = p + k
      BY <1>0, <1>4
    <3>2. QED BY <3>1
  <2>2. (r + b.len) % b.len = r
    BY <1>0, Remainder
  <2>3. QED BY <1>0, <1>2, <1>4, <2>1, <2>2 DEF INC_POINTER, Around
<1>5. QED BY <1>0, <1>3, <1>4

\* A difference of indexes, taken in unsigned arithmetic.
LEMMA DifferenceWraps ==
    ASSUME NEW b \in Buffer, NEW x \in 0..b.len - 1, NEW y \in 0..b.len - 1
    PROVE  ((x - y) % UINT) % b.len = IF x >= y THEN x - y ELSE x - y + b.len
<1>0. b.len \in Nat \ {0} /\ UINT \in Nat \ {0} /\ 2 * b.len <= UINT /\ UINT % b.len = 0
  BY LengthFacts
<1>1. CASE x >= y
  <2>1. PICK r \in 0..b.len - 1 : r = x - y
    BY <1>0, <1>1
  <2>2. r \in 0..UINT - 1
    BY <1>0
  <2>3. r % UINT = r /\ r % b.len = r
    BY <1>0, <2>2, Remainder
  <2>4. QED BY <1>1, <2>1, <2>3
<1>2. CASE x < y
  <2>1. PICK r \in 1..b.len - 1 : r = y - x
    BY <1>0, <1>2
  <2>2. PICK s \in 0..UINT - 1 : s = UINT - r
    BY <1>0
  <2>3. (UINT * (-1) + s) % UINT = s
    BY <1>0, Quotient
  <2>4. x - y = UINT * (-1) + s
    BY <1>0, <2>1, <2>2
  <2>5. (UINT - r) % b.len = b.len - r
    BY <1>0, Wrap
  <2>6. QED BY <1>0, <1>2, <2>1, <2>2, <2>3, <2>4, <2>5
<1>3. QED BY <1>0, <1>1, <1>2

LEMMA UsedExact ==
    ASSUME NEW b \in Buffer
    PROVE  /\ Held(b) \in 0..b.len - 1
           /\ cbuf_space_used(b) = Held(b)
           /\ cbuf_space_avail(b) = b.len - Held(b) - 1
           /\ Held(b) = 0 <=> b.head = b.tail
<1>1. b.len \in Nat \ {0} /\ b.head \in 0..b.len - 1 /\ b.tail \in 0..b.len - 1
  BY LengthFacts
<1>2. cbuf_space_used(b) = Held(b)
  BY <1>1, DifferenceWraps DEF cbuf_space_used, Held, Distance
<1>3. QED BY <1>1, <1>2 DEF Held, Distance, cbuf_space_avail

LEMMA ContentsExact ==
    ASSUME NEW b \in Buffer
    PROVE  /\ Contents(b) \in Seq(Byte)
           /\ Len(Contents(b)) = Held(b)
           /\ \A i \in 1..Held(b) : /\ At(b, i) \in 0..b.len - 1
                                     /\ Contents(b)[i] = b.buf[At(b, i)]
<1>1. b.len \in Nat \ {0} /\ b.head \in 0..b.len - 1 /\ b.tail \in 0..b.len - 1 /\ b.len <= LenMax
      /\ LenMax \in Nat /\ b.buf \in [0..LenMax - 1 -> Byte]
  BY LengthFacts DEF Buffer
<1>2. Held(b) \in 0..b.len - 1
  BY UsedExact
<1>3. (b.head + b.len - b.tail) % b.len = Held(b)
  <2>1. CASE b.head >= b.tail
    <3>1. PICK r \in 0..b.len - 1 : r = b.head - b.tail
      BY <1>1, <2>1
    <3>2. (r + b.len) % b.len = r
      BY <1>1, Remainder
    <3>3. b.head + b.len - b.tail = r + b.len
      BY <1>1, <3>1
    <3>4. QED BY <2>1, <3>1, <3>2, <3>3 DEF Held, Distance
  <2>2. CASE b.head < b.tail
    <3>1. PICK r \in 0..b.len - 1 : r = b.head + b.len - b.tail
      BY <1>1, <2>2
    <3>2. r % b.len = r
      BY <1>1, Remainder
    <3>3. Held(b) = r
      BY <1>1, <2>2, <3>1 DEF Held, Distance
    <3>4. QED BY <3>1, <3>2, <3>3
  <2>3. QED BY <1>1, <2>1, <2>2
<1>4. ASSUME NEW i \in 1..Held(b)
      PROVE  (b.tail + i - 1) % b.len = At(b, i) /\ At(b, i) \in 0..b.len - 1
  <2>1. CASE b.tail + i - 1 < b.len
    <3>1. PICK r \in 0..b.len - 1 : r = b.tail + i - 1
      BY <1>1, <1>2, <2>1
    <3>2. r % b.len = r
      BY <1>1, Remainder
    <3>3. QED BY <2>1, <3>1, <3>2 DEF At, Around
  <2>2. CASE b.tail + i - 1 >= b.len
    <3>1. PICK r \in 0..b.len - 1 : r + b.len = b.tail + i - 1
      <4>1. b.tail + i - 1 - b.len \in 0..b.len - 1 /\ (b.tail + i - 1 - b.len) + b.len = b.tail + i - 1
        <5>1. /\ b.len \in Nat /\ b.tail \in Nat /\ i \in Nat
              /\ b.tail < b.len /\ 1 <= i /\ i < b.len /\ b.len <= b.tail + i - 1
          BY <1>1, <1>2, <2>2
        <5>2. QED BY <5>1
      <4>2. QED BY <4>1
    <3>2. (r + b.len) % b.len = r
      BY <1>1, Remainder, SMTT(30)
    <3>3. At(b, i) = r
      BY <1>1, <1>2, <2>2, <3>1 DEF At, Around
    <3>4. QED BY <3>1, <3>2, <3>3
  <2>3. QED BY <1>1, <1>2, <2>1, <2>2
<1>5. Contents(b) = [i \in 1..Held(b) |-> b.buf[(b.tail + i - 1) % b.len]]
  BY <1>3 DEF Contents
<1>6. \A i \in 1..Held(b) : b.buf[At(b, i)] \in Byte
  BY <1>1, <1>4
<1>7. Contents(b) = [i \in 1..Held(b) |-> b.buf[At(b, i)]]
  BY <1>4, <1>5
<1>8. Contents(b) \in [1..Held(b) -> Byte]
  BY <1>6, <1>7
<1>9. Contents(b) \in Seq(Byte) /\ Len(Contents(b)) = Held(b)
  BY <1>2, <1>8
<1>10. ASSUME NEW i \in 1..Held(b) PROVE Contents(b)[i] = b.buf[At(b, i)]
  BY <1>7
<1>11. QED BY <1>4, <1>9, <1>10

-----------------------------------------------------------------------------

\* d is b with n more bytes at its end.
Grown(b, d, n) ==
    /\ d \in Buffer /\ n \in Nat
    /\ d.len = b.len /\ d.tail = b.tail
    /\ Held(d) = Held(b) + n
    /\ \A i \in 1..Held(b) : d.buf[At(b, i)] = b.buf[At(b, i)]

\* The bytes are the first n of data, where data says what to store.
Wrote(b, d, data, n) ==
    /\ Grown(b, d, n) /\ n <= Len(data)
    /\ d.signaled = b.signaled /\ d.is_reset = b.is_reset
    /\ \A i \in 1..n : data[i] # KEEP => d.buf[At(b, Held(b) + i)] = data[i]

\* d is b without its first n bytes.
Shrunk(b, d, n) ==
    /\ d \in Buffer /\ n \in 0..Held(b)
    /\ d.len = b.len /\ d.head = b.head /\ d.buf = b.buf
    /\ Held(d) = Held(b) - n
    /\ \A i \in 1..Held(d) : At(d, i) = At(b, n + i)
    /\ d.signaled = b.signaled /\ d.is_reset = b.is_reset

\* The head moves on, over at most the free space.
LEMMA HeadMoves ==
    ASSUME NEW b \in Buffer, NEW n \in 0..b.len - Held(b) - 1, NEW f \in [0..LenMax - 1 -> Byte],
           \A i \in 1..Held(b) : f[At(b, i)] = b.buf[At(b, i)]
    PROVE  Grown(b, [b EXCEPT !.buf = f, !.head = INC_POINTER(b, b.head, n)], n)
<1> DEFINE d == [b EXCEPT !.buf = f, !.head = INC_POINTER(b, b.head, n)]
<1>1. b.len \in Nat \ {0} /\ b.head \in 0..b.len - 1 /\ b.tail \in 0..b.len - 1
  BY LengthFacts
<1>2. Held(b) \in 0..b.len - 1
  BY UsedExact
<1>3. n \in 0..b.len
  BY <1>1, <1>2
<1>4. INC_POINTER(b, b.head, n) = Around(b.head + n, b.len) /\ INC_POINTER(b, b.head, n) \in 0..b.len - 1
  BY <1>1, <1>3, IncWraps, SMTT(30)
<1>5. d = [b EXCEPT !.buf = f, !.head = Around(b.head + n, b.len)]
  BY <1>4
<1>6. d.len = b.len /\ d.tail = b.tail /\ d.buf = f /\ d.head = Around(b.head + n, b.len) /\ d \in Buffer
  <2>1. d.len = b.len /\ d.tail = b.tail /\ d.buf = f /\ d.head = Around(b.head + n, b.len)
    BY <1>5, ZenonT(30) DEF Buffer
  <2>2. Around(b.head + n, b.len) \in Nat /\ Around(b.head + n, b.len) < b.len
    BY <1>1, <1>4
  <2>3. QED BY <1>5, <2>1, <2>2, ZenonT(30) DEF Buffer
<1> HIDE DEF d
<1>7. Held(d) = Held(b) + n
  BY <1>1, <1>6, HeadForward DEF Held
<1>8. Grown(b, d, n)
  BY <1>2, <1>6, <1>7 DEF Grown
<1>9. QED BY <1>8 DEF d

\* The tail moves on, over at most the bytes held.
LEMMA TailMoves ==
    ASSUME NEW b \in Buffer, NEW n \in 0..Held(b)
    PROVE  Shrunk(b, [b EXCEPT !.tail = INC_POINTER(b, b.tail, n)], n)
<1> DEFINE d == [b EXCEPT !.tail = INC_POINTER(b, b.tail, n)]
<1>1. b.len \in Nat \ {0} /\ b.head \in 0..b.len - 1 /\ b.tail \in 0..b.len - 1
  BY LengthFacts
<1>2. Held(b) \in 0..b.len - 1
  BY UsedExact
<1>3. n \in 0..b.len
  BY <1>1, <1>2
<1>4. INC_POINTER(b, b.tail, n) = Around(b.tail + n, b.len) /\ INC_POINTER(b, b.tail, n) \in 0..b.len - 1
  BY <1>1, <1>3, IncWraps
<1>5. d \in Buffer
  BY <1>1, <1>4 DEF Buffer
<1>6. d.len = b.len /\ d.head = b.head /\ d.buf = b.buf /\ d.tail = Around(b.tail + n, b.len)
      /\ d.signaled = b.signaled /\ d.is_reset = b.is_reset
  BY <1>4 DEF Buffer
<1> HIDE DEF d
<1>7. Held(d) = Held(b) - n
  BY <1>1, <1>6, TailForward DEF Held
<1>8. ASSUME NEW i \in 1..Held(d) PROVE At(d, i) = At(b, n + i)
  BY <1>1, <1>6, <1>7, TailForward DEF At, Held
<1>9. Shrunk(b, d, n)
  BY <1>5, <1>6, <1>7, <1>8 DEF Shrunk
<1>10. QED BY <1>9 DEF d

\* What is left of a sequence after its first k elements.
Left(s, k) == SubSeq(s, k + 1, Len(s))

LEMMA LeftOf ==
    ASSUME NEW S, NEW s \in Seq(S), NEW k \in 0..Len(s)
    PROVE  /\ Left(s, k) \in Seq(S)
           /\ Len(Left(s, k)) = Len(s) - k
           /\ \A i \in 1..Len(s) - k : Left(s, k)[i] = s[k + i]
BY DEF Left

LEMMA LeftTwice ==
    ASSUME NEW S, NEW s \in Seq(S), NEW n \in 0..Len(s), NEW m \in 0..Len(Left(s, n))
    PROVE  n + m \in 0..Len(s) /\ Left(Left(s, n), m) = Left(s, n + m)
<1> DEFINE r == Left(s, n)
<1>1. r \in Seq(S) /\ Len(r) = Len(s) - n /\ \A i \in 1..Len(s) - n : r[i] = s[n + i]
  BY LeftOf
<1>2. n \in Nat /\ m \in Nat /\ Len(s) \in Nat /\ n <= Len(s) /\ m <= Len(s) - n
  BY <1>1
<1> HIDE DEF r
<1>3. PICK k \in 0..Len(s) : k = n + m
  BY <1>2
<1> DEFINE x == Left(r, m)
           y == Left(s, k)
<1>4. x \in Seq(S) /\ Len(x) = Len(r) - m /\ \A i \in 1..Len(r) - m : x[i] = r[m + i]
  <2>1. m \in 0..Len(r)
    BY <1>1, <1>2
  <2>2. r \in Seq(S)
    BY <1>1
  <2>3. QED BY <2>1, <2>2, LeftOf, ZenonT(30)
<1>5. y \in Seq(S) /\ Len(y) = Len(s) - k /\ \A i \in 1..Len(s) - k : y[i] = s[k + i]
  BY LeftOf
<1> HIDE DEF x, y
<1>6. ASSUME NEW i \in 1..Len(x) PROVE x[i] = y[i]
  <2>1. m + i \in 1..Len(s) - n /\ n + (m + i) = k + i /\ i \in 1..Len(s) - k /\ i \in 1..Len(r) - m
    BY <1>1, <1>2, <1>3, <1>4
  <2>2. x[i] = r[m + i]
    BY <1>4, <2>1, SMTT(30)
  <2>3. r[m + i] = s[n + (m + i)]
    BY <1>1, <2>1
  <2>4. y[i] = s[k + i]
    BY <1>5, <2>1, ZenonT(30)
  <2>5. QED BY <2>1, <2>2, <2>3, <2>4, SMTT(30)
<1>7. Len(x) = Len(y)
  BY <1>1, <1>2, <1>3, <1>4, <1>5
<1>8. x = y
  BY <1>4, <1>5, <1>6, <1>7, SameSequence, SMTT(30)
<1>9. QED BY <1>2, <1>3, <1>8 DEF x, y, r

\* One pass of the loop of cbuf_write_wo_lock() stores a prefix of the data
\* behind the bytes held, and never reaches the tail.
LEMMA PassWrites ==
    ASSUME NEW b \in Buffer, NEW data \in Seq(Byte \cup {KEEP})
    PROVE  \E n \in 0..Len(data), d \in Buffer :
              /\ Wrote(b, d, data, n)
              /\ WritePass([b |-> b, rest |-> data]) = [b |-> d, rest |-> Left(data, n)]
<1>1. b.len \in Nat \ {0} /\ b.head \in 0..b.len - 1 /\ b.tail \in 0..b.len - 1 /\ b.len <= LenMax
      /\ LenMax \in Nat /\ b.buf \in [0..LenMax - 1 -> Byte]
  BY LengthFacts DEF Buffer
<1>2. Held(b) \in 0..b.len - 1 /\ cbuf_space_avail(b) = b.len - Held(b) - 1
  BY UsedExact
<1>3. CASE data = <<>> \/ cbuf_space_avail(b) = 0
  <2>1. WritePass([b |-> b, rest |-> data]) = [b |-> b, rest |-> data]
    BY <1>3 DEF WritePass
  <2>2. Left(data, 0) = data
    BY DEF Left
  <2>3. Wrote(b, b, data, 0)
    BY <1>2 DEF Wrote, Grown
  <2>4. 0 \in 0..Len(data)
    OBVIOUS
  <2>5. QED BY <2>1, <2>2, <2>3, <2>4
<1>4. CASE ~(data = <<>> \/ cbuf_space_avail(b) = 0)
  <2> DEFINE n == cbuf_get_contiguous_space(b, Len(data))
             part == SubSeq(data, 1, n)
             f == Stored(b, b.head, part)
             d == [b EXCEPT !.buf = f, !.head = INC_POINTER(b, b.head, n)]
  <2>0. n \in 0..Piece(b.head, b.tail, b.len) /\ n <= Len(data)
    <3>1. Piece(b.head, b.tail, b.len) \in Nat
      BY <1>1, PieceIsNat, ZenonT(30)
    <3>2. n = smallest(Len(data), Piece(b.head, b.tail, b.len))
      BY DEF cbuf_get_contiguous_space, Piece
    <3>3. Len(data) \in Nat
      OBVIOUS
    <3>4. QED BY <3>1, <3>2, <3>3 DEF smallest
  <2> HIDE DEF n
  <2>1. /\ n \in 0..b.len - Held(b) - 1 /\ b.head + n <= b.len /\ n <= Len(data)
        /\ \A i \in 1..Held(b) : At(b, i) \in 0..b.len - 1 \ b.head..(b.head + n - 1)
        /\ \A i \in 1..n : At(b, Held(b) + i) = b.head + i - 1
    <3>0. b.len \in Nat /\ b.head \in 0..b.len - 1 /\ b.tail \in 0..b.len - 1
      BY <1>1
    <3>1. n \in 0..b.len - Held(b) - 1 /\ b.head + n <= b.len
      BY <2>0, <3>0, PieceIsFree DEF Held
    <3>2. ASSUME NEW i \in 1..Held(b) PROVE At(b, i) \in 0..b.len - 1 /\ At(b, i) \notin b.head..(b.head + n - 1)
      BY <2>0, <3>0, PieceIsApart, ZenonT(30) DEF Held, At
    <3>3. ASSUME NEW i \in 1..n PROVE At(b, Held(b) + i) = b.head + i - 1
      BY <2>0, <3>0, PieceIsNext DEF Held, At
    <3>4. QED BY <2>0, <3>1, <3>2, <3>3
  <2>2. part \in Seq(Byte \cup {KEEP}) /\ Len(part) = n /\ \A i \in 1..n : part[i] = data[i] /\ data[i] \in Byte \cup {KEEP}
    BY <2>1
  <2> HIDE DEF part
  <2>3. f = [i \in 0..LenMax - 1 |-> IF i \in b.head..(b.head + n - 1) /\ part[i - b.head + 1] # KEEP
                                    THEN part[i - b.head + 1] ELSE b.buf[i]]
    BY <1>1, <2>2 DEF Stored
  <2>4. f \in [0..LenMax - 1 -> Byte]
    <3>1. ASSUME NEW i \in 0..LenMax - 1, i \in b.head..(b.head + n - 1), part[i - b.head + 1] # KEEP
          PROVE  part[i - b.head + 1] \in Byte
      <4>1. i - b.head + 1 \in 1..n
        <5>1. b.head \in Nat /\ n \in Nat /\ i \in Int /\ b.head <= i /\ i <= b.head + n - 1
          BY <1>1, <2>1, <3>1
        <5>2. QED BY <5>1
      <4>2. QED BY <2>2, <3>1, <4>1
    <3>2. QED BY <1>1, <2>3, <3>1
  <2>5. ASSUME NEW i \in 1..Held(b) PROVE f[At(b, i)] = b.buf[At(b, i)]
    <3>1. At(b, i) \in 0..LenMax - 1 /\ At(b, i) \notin b.head..(b.head + n - 1)
      BY <1>1, <2>1, SMTT(30)
    <3>2. QED BY <2>3, <3>1
  <2>6. ASSUME NEW i \in 1..n, data[i] # KEEP PROVE f[At(b, Held(b) + i)] = data[i]
    <3>1. At(b, Held(b) + i) = b.head + i - 1
      BY <2>1
    <3>2. b.head + i - 1 \in 0..LenMax - 1 /\ b.head + i - 1 \in b.head..(b.head + n - 1)
          /\ (b.head + i - 1) - b.head + 1 = i
      <4>1. /\ b.head \in Nat /\ n \in Nat /\ i \in Nat /\ LenMax \in Nat
            /\ 1 <= i /\ i <= n /\ b.head + n <= b.len /\ b.len <= LenMax /\ b.len \in Nat
        BY <1>1, <2>1
      <4>2. QED BY <4>1, SMTT(30)
    <3>3. QED BY <2>2, <2>3, <2>6, <3>1, <3>2
  <2> HIDE DEF f
  <2>7. Grown(b, d, n)
    BY <2>1, <2>4, <2>5, HeadMoves, ZenonT(30)
  <2>8. d.signaled = b.signaled /\ d.is_reset = b.is_reset /\ d.buf = f /\ d \in Buffer
    BY <2>7 DEF Buffer, Grown
  <2>9. Wrote(b, d, data, n)
    BY <2>1, <2>6, <2>7, <2>8 DEF Wrote
  <2>10. WritePass([b |-> b, rest |-> data]) = [b |-> d, rest |-> Left(data, n)]
    BY <1>4 DEF WritePass, Left, n, part, f
  <2> HIDE DEF d
  <2>11. n \in 0..Len(data)
    BY <2>0
  <2>12. QED BY <2>8, <2>9, <2>10, <2>11
<1>5. QED BY <1>3, <1>4, ZenonT(30)

\* The second pass goes on where the first one stopped.
LEMMA WroteTwice ==
    ASSUME NEW b \in Buffer, NEW d \in Buffer, NEW e \in Buffer, NEW data \in Seq(Byte \cup {KEEP}),
           NEW n \in 0..Len(data), NEW m \in 0..Len(Left(data, n)),
           Wrote(b, d, data, n), Wrote(d, e, Left(data, n), m)
    PROVE  Wrote(b, e, data, n + m)
<1> DEFINE rest == Left(data, n)
<1>1. rest \in Seq(Byte \cup {KEEP}) /\ Len(rest) = Len(data) - n /\ \A i \in 1..Len(rest) : rest[i] = data[n + i]
  BY LeftOf
<1>2. Held(b) \in Nat /\ Held(d) = Held(b) + n /\ Held(e) = Held(d) + m /\ m <= Len(rest)
  BY UsedExact DEF Wrote, Grown
<1> HIDE DEF rest
<1>3. n + m \in 0..Len(data) /\ m \in Nat /\ n \in Nat
  BY <1>1, <1>2
<1>4. d.len = b.len /\ d.tail = b.tail /\ e.len = b.len /\ e.tail = b.tail
      /\ e.signaled = b.signaled /\ e.is_reset = b.is_reset
  BY DEF Wrote, Grown
<1>5. \A i \in Nat : At(d, i) = At(b, i)
  BY <1>4 DEF At
<1>6. ASSUME NEW i \in 1..Held(b) PROVE e.buf[At(b, i)] = b.buf[At(b, i)]
  <2>1. d.buf[At(b, i)] = b.buf[At(b, i)]
    BY DEF Wrote, Grown
  <2>2. i \in 1..Held(d) /\ At(d, i) = At(b, i)
    BY <1>2, <1>5
  <2>3. e.buf[At(d, i)] = d.buf[At(d, i)]
    BY <2>2 DEF Wrote, Grown
  <2>4. QED BY <2>1, <2>2, <2>3
<1>7. Grown(b, e, n + m)
  BY <1>2, <1>3, <1>4, <1>6 DEF Grown
<1>8. ASSUME NEW i \in 1..n + m, data[i] # KEEP PROVE e.buf[At(b, Held(b) + i)] = data[i]
  <2>1. CASE i <= n
    <3>1. i \in 1..n /\ Held(b) + i \in 1..Held(d)
      BY <1>2, <2>1
    <3>2. e.buf[At(d, Held(b) + i)] = d.buf[At(d, Held(b) + i)]
      BY <3>1 DEF Wrote, Grown
    <3>3. d.buf[At(b, Held(b) + i)] = data[i]
      BY <1>8, <3>1 DEF Wrote
    <3>4. QED BY <1>2, <1>5, <3>1, <3>2, <3>3, SMTT(30)
  <2>2. CASE i > n
    <3>1. PICK j \in 1..m : n + j = i
      <4>1. i - n \in 1..m /\ n + (i - n) = i
        BY <2>2
      <4>2. QED BY <4>1
    <3>2. rest[j] = data[i]
      <4>1. j \in 1..Len(rest)
        BY <1>1, <1>2
      <4>2. QED BY <1>1, <3>1, <4>1, ZenonT(30)
    <3>5. Held(d) + j = Held(b) + i /\ Held(b) + i \in Nat
      <4>1. n \in Nat /\ j \in Nat
        OBVIOUS
      <4>2. Held(d) + j = Held(b) + (n + j) /\ Held(b) + (n + j) \in Nat
        <5>1. Held(b) \in Nat /\ Held(d) = Held(b) + n
          BY <1>2
        <5>2. QED BY <4>1, <5>1
      <4>3. QED BY <3>1, <4>2
    <3>3. e.buf[At(d, Held(d) + j)] = rest[j]
      BY <1>8, <3>2 DEF Wrote, rest
    <3>4. QED BY <1>5, <3>2, <3>3, <3>5
  <2>3. QED BY <2>1, <2>2
<1>9. QED BY <1>3, <1>4, <1>7, <1>8 DEF Wrote

\* cbuf_write_wo_lock() stores a prefix of the data behind the bytes held, and
\* then signals the event if there is one and anything to read.
LEMMA WriteWrites ==
    ASSUME NEW b \in Buffer, NEW data \in Seq(Byte \cup {KEEP})
    PROVE  \E n \in 0..Len(data), d \in Buffer :
              /\ Wrote(b, d, data, n)
              /\ cbuf_write_wo_lock(b, data) = [b |-> [d EXCEPT !.signaled = Signaled(d)],
                                                rest |-> Left(data, n)]
<1>1. PICK n \in 0..Len(data), d \in Buffer :
         /\ Wrote(b, d, data, n)
         /\ WritePass([b |-> b, rest |-> data]) = [b |-> d, rest |-> Left(data, n)]
  BY PassWrites, ZenonT(30)
<1>2. Left(data, n) \in Seq(Byte \cup {KEEP})
  BY LeftOf
<1>3. PICK m \in 0..Len(Left(data, n)), e \in Buffer :
         /\ Wrote(d, e, Left(data, n), m)
         /\ WritePass([b |-> d, rest |-> Left(data, n)]) = [b |-> e, rest |-> Left(Left(data, n), m)]
  BY <1>2, PassWrites, ZenonT(30)
<1>4. n + m \in 0..Len(data) /\ Left(Left(data, n), m) = Left(data, n + m)
  BY LeftTwice
<1>5. Wrote(b, e, data, n + m)
  BY <1>1, <1>3, WroteTwice
<1>6. WritePass(WritePass([b |-> b, rest |-> data])) = [b |-> e, rest |-> Left(data, n + m)]
  BY <1>1, <1>3, <1>4
<1>7. cbuf_write_wo_lock(b, data) = [b |-> [e EXCEPT !.signaled = Signaled(e)], rest |-> Left(data, n + m)]
  <2> DEFINE left == Left(data, n + m)
             s == WritePass(WritePass([b |-> b, rest |-> data]))
  <2>1. cbuf_write_wo_lock(b, data) = [s EXCEPT !.b.signaled = Signaled(s.b)]
    BY DEF cbuf_write_wo_lock
  <2>2. s = [b |-> e, rest |-> left]
    BY <1>6
  <2> HIDE DEF s, left
  <2>3. s.b = e
    BY <2>2
  <2>4. [s EXCEPT !.b.signaled = Signaled(s.b)] = [b |-> [e EXCEPT !.signaled = Signaled(e)], rest |-> left]
    BY <2>2, <2>3
  <2>5. QED BY <2>1, <2>4 DEF left
<1>8. QED BY <1>4, <1>5, <1>7, ZenonT(30)

-----------------------------------------------------------------------------

\* One pass of the loop of cbuf_read_wo_lock() takes bytes from the front.
LEMMA PassReads ==
    ASSUME NEW b \in Buffer, NEW want \in Nat, NEW out \in Seq(Byte)
    PROVE  \E n \in 0..want, d \in Buffer, x \in Seq(Byte) :
              /\ Shrunk(b, d, n)
              /\ Len(x) = n /\ \A i \in 1..n : x[i] = b.buf[At(b, i)]
              /\ ReadPass([b |-> b, want |-> want, out |-> out]) = [b |-> d, want |-> want - n, out |-> out \o x]
<1>1. b.len \in Nat \ {0} /\ b.head \in 0..b.len - 1 /\ b.tail \in 0..b.len - 1 /\ b.len <= LenMax
      /\ LenMax \in Nat /\ b.buf \in [0..LenMax - 1 -> Byte]
  BY LengthFacts DEF Buffer
<1>2. Held(b) \in 0..b.len - 1
  BY UsedExact
<1>3. CASE want = 0 \/ b.tail = b.head
  <2>1. ReadPass([b |-> b, want |-> want, out |-> out]) = [b |-> b, want |-> want - 0, out |-> out \o <<>>]
    BY <1>3 DEF ReadPass
  <2>2. Shrunk(b, b, 0)
    BY <1>2 DEF Shrunk
  <2>3. <<>> \in Seq(Byte) /\ Len(<<>>) = 0 /\ 0 \in 0..want
    OBVIOUS
  <2>4. \A i \in 1..0 : <<>>[i] = b.buf[At(b, i)]
    OBVIOUS
  <2>5. QED BY <2>1, <2>2, <2>3, <2>4, ZenonT(30)
<1>4. CASE ~(want = 0 \/ b.tail = b.head)
  <2> DEFINE n == cbuf_get_contiguous_used(b, want)
             d == [b EXCEPT !.tail = INC_POINTER(b, b.tail, n)]
             x == [i \in 1..n |-> b.buf[b.tail + i - 1]]
  <2>1. n \in 0..want /\ n \in 0..Held(b) /\ b.tail + n <= b.len
    <3>1. n = smallest(want, HeldPiece(b.head, b.tail, b.len))
      BY DEF cbuf_get_contiguous_used, HeldPiece
    <3>2. b.len \in Nat /\ b.head # b.tail
      BY <1>1, <1>4
    <3>3. HeldPiece(b.head, b.tail, b.len) \in 0..Held(b) /\ b.tail + HeldPiece(b.head, b.tail, b.len) <= b.len
      BY <1>1, <3>2, PieceIsHeld, ZenonT(30) DEF Held
    <3>4. HeldPiece(b.head, b.tail, b.len) \in Nat /\ b.tail \in Nat /\ Held(b) \in Nat
      BY <1>1, <1>2, <3>3
    <3>5. QED BY <3>1, <3>2, <3>3, <3>4 DEF smallest
  <2>2. ReadPass([b |-> b, want |-> want, out |-> out]) = [b |-> d, want |-> want - n, out |-> out \o x]
    BY <1>4 DEF ReadPass
  <2> HIDE DEF n
  <2>3. Shrunk(b, d, n) /\ d \in Buffer
    BY <2>1, TailMoves DEF Shrunk
  <2>4. ASSUME NEW i \in 1..n PROVE b.buf[b.tail + i - 1] \in Byte /\ At(b, i) = b.tail + i - 1
    <3>1. b.tail + i - 1 \in 0..LenMax - 1 /\ b.tail + i - 1 < b.len
      <4>1. /\ b.tail \in Nat /\ n \in Nat /\ i \in Nat /\ LenMax \in Nat
            /\ 1 <= i /\ i <= n /\ b.tail + n <= b.len /\ b.len <= LenMax /\ b.len \in Nat
        BY <1>1, <2>1
      <4>2. QED BY <4>1, SMTT(30)
    <3>2. QED BY <1>1, <3>1 DEF At, Around
  <2>5. x \in [1..n -> Byte]
    BY <2>4
  <2>6. x \in Seq(Byte) /\ Len(x) = n
    BY <2>1, <2>5
  <2>7. \A i \in 1..n : x[i] = b.buf[At(b, i)]
    BY <2>4
  <2> HIDE DEF d, x
  <2>8. QED BY <2>1, <2>2, <2>3, <2>6, <2>7, ZenonT(30)
<1>5. QED BY <1>3, <1>4, ZenonT(30)

LEMMA ShrunkTwice ==
    ASSUME NEW b \in Buffer, NEW d \in Buffer, NEW e \in Buffer, NEW n \in Nat, NEW m \in Nat,
           Shrunk(b, d, n), Shrunk(d, e, m)
    PROVE  Shrunk(b, e, n + m)
<1>1. Held(b) \in Nat /\ n <= Held(b) /\ Held(d) = Held(b) - n /\ m <= Held(d) /\ Held(e) = Held(d) - m
  BY UsedExact DEF Shrunk
<1>2. n + m \in 0..Held(b) /\ Held(e) = Held(b) - (n + m)
  BY <1>1
<1>3. e.len = b.len /\ e.head = b.head /\ e.buf = b.buf /\ e.signaled = b.signaled /\ e.is_reset = b.is_reset
  BY DEF Shrunk
<1>4. ASSUME NEW i \in 1..Held(e) PROVE At(e, i) = At(b, (n + m) + i)
  <2>1. m + i \in 1..Held(d) /\ n + (m + i) = (n + m) + i
    BY <1>1
  <2>2. At(e, i) = At(d, m + i)
    BY DEF Shrunk
  <2>3. At(d, m + i) = At(b, n + (m + i))
    BY <2>1 DEF Shrunk
  <2>4. QED BY <2>1, <2>2, <2>3
<1>5. QED BY <1>2, <1>3, <1>4 DEF Shrunk

\* The first n bytes of b.
Front(b, n) == SubSeq(Contents(b), 1, n)

\* cbuf_read_wo_lock() takes up to n bytes from the front, in order, and
\* unsignals the event when it has emptied the buffer.
LEMMA ReadReads ==
    ASSUME NEW b \in Buffer, NEW want \in Nat
    PROVE  \E n \in 0..want, d \in Buffer :
              /\ Shrunk(b, d, n)
              /\ cbuf_read_wo_lock(b, want) =
                    [b |-> [d EXCEPT !.signaled = @ /\ (d.tail # d.head \/ Front(b, n) = <<>>)],
                     want |-> want - n, out |-> Front(b, n)]
<1> DEFINE s0 == [b |-> b, want |-> want, out |-> <<>>]
<1>0. <<>> \in Seq(Byte)
  OBVIOUS
<1>1. PICK n \in 0..want, d \in Buffer, x \in Seq(Byte) :
         /\ Shrunk(b, d, n)
         /\ Len(x) = n /\ \A i \in 1..n : x[i] = b.buf[At(b, i)]
         /\ ReadPass(s0) = [b |-> d, want |-> want - n, out |-> <<>> \o x]
  BY <1>0, PassReads, ZenonT(30)
<1>2. want - n \in Nat /\ <<>> \o x \in Seq(Byte) /\ <<>> \o x = x
  OBVIOUS
<1>3. PICK m \in 0..want - n, e \in Buffer, y \in Seq(Byte) :
         /\ Shrunk(d, e, m)
         /\ Len(y) = m /\ \A i \in 1..m : y[i] = d.buf[At(d, i)]
         /\ ReadPass([b |-> d, want |-> want - n, out |-> <<>> \o x])
               = [b |-> e, want |-> (want - n) - m, out |-> (<<>> \o x) \o y]
  BY <1>2, PassReads, ZenonT(30)
<1>4. n \in Nat /\ m \in Nat /\ n + m \in 0..want /\ (want - n) - m = want - (n + m)
  BY <1>2
<1>5. Shrunk(b, e, n + m)
  BY <1>1, <1>3, <1>4, ShrunkTwice
<1>6. x \o y = Front(b, n + m)
  <2> DEFINE f == Front(b, n + m)
  <2>1. Contents(b) \in Seq(Byte) /\ Len(Contents(b)) = Held(b) /\ \A i \in 1..Held(b) : Contents(b)[i] = b.buf[At(b, i)]
    BY ContentsExact
  <2>2. n + m \in 0..Held(b) /\ Held(d) = Held(b) - n /\ m <= Held(d) /\ Held(b) \in Nat
    BY <1>1, <1>3, <1>5, UsedExact DEF Shrunk
  <2>3. f \in Seq(Byte) /\ Len(f) = n + m /\ \A i \in 1..n + m : f[i] = Contents(b)[i]
    BY <2>1, <2>2, SMTT(30) DEF Front
  <2>4. x \o y \in Seq(Byte) /\ Len(x \o y) = n + m
    <3>1. x \o y \in Seq(Byte) /\ Len(x \o y) = Len(x) + Len(y)
      OBVIOUS
    <3>2. QED BY <1>1, <1>3, <3>1
  <2>5. ASSUME NEW i \in 1..n + m PROVE (x \o y)[i] = b.buf[At(b, i)]
    <3>1. CASE i <= n
      <4>1. i \in 1..n
        BY <1>4, <3>1
      <4>2. (x \o y)[i] = x[i]
        BY <1>1, <1>3, <4>1
      <4>3. QED BY <1>1, <4>1, <4>2
    <3>2. CASE i > n
      <4>1. PICK j \in 1..m : n + j = i
        <5>1. i - n \in 1..m /\ n + (i - n) = i
          BY <1>4, <3>2
        <5>2. QED BY <5>1
      <4>2. (x \o y)[i] = y[j]
        BY <1>1, <1>3, <4>1, SMTT(30)
      <4>3. j \in 1..Held(d)
        BY <2>2, <4>1
      <4>4. At(d, j) = At(b, n + j) /\ d.buf = b.buf
        BY <1>1, <4>3 DEF Shrunk
      <4>5. QED BY <1>3, <4>1, <4>2, <4>4, SMTT(30)
    <3>3. i <= n \/ i > n
      BY <1>4
    <3>4. QED BY <3>1, <3>2, <3>3, ZenonT(30)
  <2> HIDE DEF f
  <2>6. ASSUME NEW i \in 1..n + m PROVE (x \o y)[i] = f[i]
    <3>1. i \in 1..Held(b)
      BY <1>4, <2>2
    <3>2. QED BY <2>1, <2>3, <2>5, <3>1, ZenonT(30)
  <2>7. x \o y = f
    BY <2>3, <2>4, <2>6, SameSequence, SMTT(30)
  <2>8. QED BY <2>7 DEF f
<1>7. ReadPass(ReadPass(s0)) = [b |-> e, want |-> want - (n + m), out |-> Front(b, n + m)]
  BY <1>1, <1>2, <1>3, <1>4, <1>6, ZenonT(30)
<1>8. cbuf_read_wo_lock(b, want) =
         [b |-> [e EXCEPT !.signaled = @ /\ (e.tail # e.head \/ Front(b, n + m) = <<>>)],
          want |-> want - (n + m), out |-> Front(b, n + m)]
  <2> DEFINE s == ReadPass(ReadPass(s0))
             w == want - (n + m)
             f == Front(b, n + m)
  <2>1. cbuf_read_wo_lock(b, want) = [s EXCEPT !.b.signaled = @ /\ (s.b.tail # s.b.head \/ s.out = <<>>)]
    BY DEF cbuf_read_wo_lock
  <2>2. s = [b |-> e, want |-> w, out |-> f]
    BY <1>7
  <2> HIDE DEF s, w, f
  <2>3. s.b = e /\ s.out = f
    BY <2>2
  <2>4. [s EXCEPT !.b.signaled = @ /\ (s.b.tail # s.b.head \/ s.out = <<>>)]
        = [b |-> [e EXCEPT !.signaled = @ /\ (e.tail # e.head \/ f = <<>>)], want |-> w, out |-> f]
    BY <2>2, <2>3
  <2>5. QED BY <2>1, <2>4 DEF w, f
<1>9. QED BY <1>4, <1>5, <1>8, ZenonT(30)

-----------------------------------------------------------------------------

\* Neither the event nor is_reset is part of the contents.
LEMMA SameBytes ==
    ASSUME NEW b \in Buffer, NEW d \in Buffer,
           d.head = b.head, d.tail = b.tail, d.len = b.len, d.buf = b.buf
    PROVE  Contents(d) = Contents(b) /\ Held(d) = Held(b)
BY DEF Contents, Held

\* The bytes of d behind those of b.
Back(b, d) == Left(Contents(d), Held(b))

LEMMA GrownContents ==
    ASSUME NEW b \in Buffer, NEW d, NEW n, Grown(b, d, n)
    PROVE  /\ Contents(d) = Contents(b) \o Back(b, d)
           /\ Back(b, d) \in [1..n -> Byte]
           /\ n \in Nat /\ Held(b) + n < LenMax
<1>1. d \in Buffer /\ n \in Nat /\ Held(d) = Held(b) + n /\ d.tail = b.tail /\ d.len = b.len
  BY DEF Grown
<1>2. Contents(b) \in Seq(Byte) /\ Len(Contents(b)) = Held(b) /\ \A i \in 1..Held(b) : Contents(b)[i] = b.buf[At(b, i)]
  BY ContentsExact
<1>3. Contents(d) \in Seq(Byte) /\ Len(Contents(d)) = Held(d) /\ \A i \in 1..Held(d) : Contents(d)[i] = d.buf[At(d, i)]
  BY <1>1, ContentsExact
<1>4. Held(b) \in Nat /\ Held(d) < LenMax /\ Held(b) \in 0..Held(d)
  BY <1>1, UsedExact, LengthFacts
<1> DEFINE x == Back(b, d)
           p == Contents(b)
           q == Contents(d)
<1>5. x \in Seq(Byte) /\ Len(x) = n /\ \A i \in 1..n : x[i] = q[Held(b) + i]
  <2>1. Held(b) \in 0..Len(q) /\ Len(q) - Held(b) = n
    BY <1>1, <1>3, <1>4
  <2>2. QED BY <1>3, <2>1, LeftOf, ZenonT(30) DEF Back
<1>6. x \in [1..n -> Byte]
  BY <1>5
<1> HIDE DEF x, p, q
<1>7. p \o x \in Seq(Byte) /\ Len(p \o x) = Held(d)
  <2>1. p \o x \in Seq(Byte) /\ Len(p \o x) = Len(p) + Len(x)
    BY <1>2, <1>5 DEF p
  <2>2. QED BY <1>1, <1>2, <1>5, <2>1 DEF p
<1>8. ASSUME NEW i \in 1..Held(d) PROVE q[i] = (p \o x)[i]
  <2>1. CASE i <= Held(b)
    <3>1. i \in 1..Held(b)
      BY <1>4, <2>1
    <3>2. d.buf[At(b, i)] = b.buf[At(b, i)] /\ At(d, i) = At(b, i)
      BY <1>1, <3>1 DEF Grown, At
    <3>3. q[i] = p[i]
      BY <1>2, <1>3, <3>1, <3>2 DEF p, q
    <3>4. (p \o x)[i] = p[i]
      BY <1>2, <1>5, <3>1 DEF p
    <3>5. QED BY <3>3, <3>4
  <2>2. CASE i > Held(b)
    <3>1. PICK j \in 1..n : Held(b) + j = i
      <4>1. i - Held(b) \in 1..n /\ Held(b) + (i - Held(b)) = i
        BY <1>1, <1>4, <2>2
      <4>2. QED BY <4>1
    <3>2. (p \o x)[i] = x[j]
      <4>1. p \in Seq(Byte) /\ x \in Seq(Byte) /\ Len(p) + j = i /\ j \in 1..Len(x)
        BY <1>2, <1>5, <3>1 DEF p
      <4>2. (p \o x)[Len(p) + j] = x[j]
        BY <4>1
      <4>3. QED BY <4>1, <4>2
    <3>3. QED BY <1>5, <3>1, <3>2
  <2>3. i <= Held(b) \/ i > Held(b)
    BY <1>4
  <2>4. QED BY <2>1, <2>2, <2>3, ZenonT(30)
<1>9. q = p \o x
  BY <1>3, <1>7, <1>8, SameSequence, SMTT(30) DEF q
<1>10. QED BY <1>1, <1>4, <1>6, <1>9 DEF p, q, x

\* Where all of the data is stored, the bytes behind are those of the data.
LEMMA WroteContents ==
    ASSUME NEW b \in Buffer, NEW d, NEW data \in Seq(Byte), NEW n \in 0..Len(data), Wrote(b, d, data, n)
    PROVE  Back(b, d) = SubSeq(data, 1, n)
<1>1. Grown(b, d, n)
  BY DEF Wrote
<1>2. d \in Buffer /\ n \in Nat /\ Held(d) = Held(b) + n /\ d.tail = b.tail /\ d.len = b.len
  BY <1>1 DEF Grown
<1>3. Contents(d) \in Seq(Byte) /\ Len(Contents(d)) = Held(d) /\ \A i \in 1..Held(d) : Contents(d)[i] = d.buf[At(d, i)]
  BY <1>2, ContentsExact
<1>4. Held(b) \in Nat
  BY UsedExact
<1> DEFINE x == Back(b, d)
           y == SubSeq(data, 1, n)
<1>5. x \in Seq(Byte) /\ Len(x) = n /\ \A i \in 1..n : x[i] = Contents(d)[Held(b) + i]
  <2>1. Held(b) \in 0..Len(Contents(d)) /\ Len(Contents(d)) - Held(b) = n
    BY <1>2, <1>3, <1>4
  <2>2. QED BY <1>3, <2>1, LeftOf, ZenonT(30) DEF Back
<1>6. y \in Seq(Byte) /\ Len(y) = n /\ \A i \in 1..n : y[i] = data[i] /\ data[i] \in Byte
  OBVIOUS
<1> HIDE DEF x, y
<1>7. ASSUME NEW i \in 1..n PROVE x[i] = y[i]
  <2>1. Held(b) + i \in 1..Held(d)
    BY <1>2, <1>4
  <2>2. x[i] = d.buf[At(b, Held(b) + i)]
    BY <1>2, <1>3, <1>5, <2>1 DEF At
  <2>3. data[i] # KEEP
    BY <1>6, ByteAssumption
  <2>4. QED BY <1>6, <2>2, <2>3 DEF Wrote
<1>8. x = y
  BY <1>5, <1>6, <1>7, SameSequence
<1>9. QED BY <1>8 DEF x, y

LEMMA ShrunkContents ==
    ASSUME NEW b \in Buffer, NEW d, NEW n, Shrunk(b, d, n)
    PROVE  Contents(d) = Left(Contents(b), n)
<1>1. d \in Buffer /\ n \in 0..Held(b) /\ Held(d) = Held(b) - n /\ d.buf = b.buf
      /\ \A i \in 1..Held(d) : At(d, i) = At(b, n + i)
  BY DEF Shrunk
<1>2. Contents(b) \in Seq(Byte) /\ Len(Contents(b)) = Held(b) /\ \A i \in 1..Held(b) : Contents(b)[i] = b.buf[At(b, i)]
  BY ContentsExact
<1>3. Contents(d) \in Seq(Byte) /\ Len(Contents(d)) = Held(d) /\ \A i \in 1..Held(d) : Contents(d)[i] = d.buf[At(d, i)]
  BY <1>1, ContentsExact
<1>4. Held(b) \in Nat
  BY UsedExact
<1> DEFINE x == Left(Contents(b), n)
<1>5. x \in Seq(Byte) /\ Len(x) = Held(d) /\ \A i \in 1..Held(d) : x[i] = Contents(b)[n + i]
  <2>1. n \in 0..Len(Contents(b)) /\ Len(Contents(b)) - n = Held(d)
    BY <1>1, <1>2
  <2>2. QED BY <1>2, <2>1, LeftOf, ZenonT(30)
<1> HIDE DEF x
<1>6. ASSUME NEW i \in 1..Held(d) PROVE Contents(d)[i] = x[i]
  <2>1. n + i \in 1..Held(b)
    BY <1>1, <1>4
  <2>2. QED BY <1>1, <1>2, <1>3, <1>5, <2>1, ZenonT(30)
<1>7. Contents(d) = x
  BY <1>3, <1>5, <1>6, SameSequence
<1>8. QED BY <1>7 DEF x

-----------------------------------------------------------------------------

\* The steps of the queue of bytes.
LEMMA PutStep ==
    ASSUME c \in Buffer, NEW n, Grown(c, c', n), io' = [op |-> "put", bytes |-> Back(c, c')]
    PROVE  Q!Next
<1>1. /\ Contents(c') = Contents(c) \o Back(c, c')
      /\ Back(c, c') \in [1..n -> Byte] /\ n \in Nat /\ Held(c) + n < LenMax
  BY GrownContents
<1>2. Len(Contents(c)) = Held(c) /\ Held(c) \in Nat
  BY ContentsExact, UsedExact
<1>3. n \in 0..LenMax
  BY <1>1, <1>2, LengthAssumption
<1>4. Q!Put
  BY <1>1, <1>2, <1>3, ZenonT(30) DEF Q!Put
<1>5. QED BY <1>4 DEF Q!Next

LEMMA GetStep ==
    ASSUME c \in Buffer, NEW n \in 1..Held(c), Contents(c') = Left(Contents(c), n),
           io' = [op |-> "get", bytes |-> Front(c, n)]
    PROVE  Q!Next
<1>1. Len(Contents(c)) = Held(c)
  BY ContentsExact
<1>2. Q!Get
  BY <1>1, ZenonT(30) DEF Q!Get, Left, Front
<1>3. QED BY <1>2 DEF Q!Next

LEMMA CutStep ==
    ASSUME c \in Buffer, NEW n \in 0..Held(c), Contents(c') = Left(Contents(c), n) \/ Contents(c') = Front(c, n),
           io' = None
    PROVE  Q!Next
<1>1. Len(Contents(c)) = Held(c)
  BY ContentsExact
<1>2. Q!Cut
  BY <1>1 DEF Q!Cut, Q!None, None, Left, Front
<1>3. QED BY <1>2 DEF Q!Next

LEMMA WipeStep ==
    ASSUME c \in Buffer, c' \in Buffer, Held(c') = Held(c), io' = None
    PROVE  Q!Next
<1>1. Len(Contents(c)) = Held(c) /\ Contents(c) \in Seq(Byte)
  BY ContentsExact
<1>2. Len(Contents(c')) = Held(c) /\ Contents(c') \in Seq(Byte)
  BY ContentsExact
<1>3. Contents(c') \in [DOMAIN Contents(c) -> Byte]
  BY <1>1, <1>2
<1>4. Q!Wipe
  BY <1>1, <1>2, <1>3 DEF Q!Wipe, Q!None, None
<1>5. QED BY <1>4 DEF Q!Next

-----------------------------------------------------------------------------

Places == {"idle", "write", "read", "asleep", "retry", "indexes", "zeroed", "flag"}
Reading == {"read", "asleep", "retry"}
WriteArg == [data : Seq(Byte), loop : Int]
ReadArg == [ret : Nat, rem : Nat, loop : Int, block : BOOLEAN, buflen : Nat]

ThreadsOK ==
    /\ pc \in [Thread -> Places]
    /\ DOMAIN arg = Thread
    /\ arg = [t \in DOMAIN arg |-> arg[t]]
    /\ \A t \in Thread : /\ pc[t] = "write" => arg[t] \in WriteArg
                         /\ pc[t] \in Reading => arg[t] \in ReadArg

\* What makes a sleeping reader wake: bytes that software wrote are signaled ...
BytesSignaled(b) ==
    "SW_IS_WRITER" \in flags /\ "no_event" \notin flags /\ b.head # b.tail => b.signaled

\* ... and no reader sleeps on a signaled event.
SleepersUnsignaled ==
    \A t \in Thread : pc[t] = "asleep" => ~c.signaled /\ "no_event" \notin flags

CInv == c \in Buffer /\ ThreadsOK /\ BytesSignaled(c) /\ SleepersUnsignaled

\* What each step has to show.
Kept == CInv' /\ [Q!Next]_(Q!vars)

LEMMA GotoKeeps ==
    ASSUME CInv, NEW b \in Buffer, NEW t \in Thread, NEW to \in Places, NEW a, Goto(b, t, to, a),
           flags' = flags, c' \in Buffer, c'.signaled => b.signaled,
           to = "write" => a \in WriteArg, to \in Reading => a \in ReadArg,
           to = "asleep" => ~c'.signaled /\ "no_event" \notin flags
    PROVE  ThreadsOK' /\ SleepersUnsignaled'
<1>1. pc' = [Wake(b) EXCEPT ![t] = to] /\ arg' = [arg EXCEPT ![t] = a]
  BY DEF Goto
<1>2. \A u \in Thread : /\ pc'[u] = IF u = t THEN to ELSE Wake(b)[u]
                        /\ arg'[u] = IF u = t THEN a ELSE arg[u]
  BY <1>1 DEF CInv, ThreadsOK, Wake
<1>3. \A u \in Thread : /\ Wake(b)[u] \in Places
                        /\ Wake(b)[u] = "write" => pc[u] = "write"
                        /\ Wake(b)[u] \in Reading => pc[u] \in Reading
                        /\ Wake(b)[u] = "asleep" => pc[u] = "asleep" /\ ~(~c.signaled /\ b.signaled)
  BY DEF CInv, ThreadsOK, Wake, Places, Reading
<1>4. pc' \in [Thread -> Places] /\ DOMAIN arg' = Thread /\ arg' = [u \in DOMAIN arg' |-> arg'[u]]
  BY <1>1, <1>2, <1>3, ZenonT(30) DEF CInv, ThreadsOK, Wake
<1>5. ASSUME NEW u \in Thread
      PROVE  /\ pc'[u] = "write" => arg'[u] \in WriteArg
             /\ pc'[u] \in Reading => arg'[u] \in ReadArg
  BY <1>2, <1>3 DEF CInv, ThreadsOK
<1>6. ASSUME NEW u \in Thread, pc'[u] = "asleep" PROVE ~c'.signaled /\ "no_event" \notin flags'
  BY <1>2, <1>3, <1>6 DEF CInv, SleepersUnsignaled
<1>7. QED BY <1>4, <1>5, <1>6 DEF ThreadsOK, SleepersUnsignaled

LEMMA GoesKeeps ==
    ASSUME CInv, NEW b \in Buffer, Goes(b), flags' = flags, c' \in Buffer, c'.signaled => b.signaled
    PROVE  ThreadsOK' /\ SleepersUnsignaled'
<1>1. pc' = Wake(b) /\ arg' = arg
  BY DEF Goes
<1>2. \A u \in Thread : /\ pc'[u] \in Places
                        /\ pc'[u] = "write" => pc[u] = "write"
                        /\ pc'[u] \in Reading => pc[u] \in Reading
                        /\ pc'[u] = "asleep" => pc[u] = "asleep" /\ ~(~c.signaled /\ b.signaled)
  BY <1>1 DEF CInv, ThreadsOK, Wake, Places, Reading
<1>3. pc' \in [Thread -> Places]
  BY <1>1, <1>2 DEF Wake
<1>4. ThreadsOK'
  BY <1>1, <1>2, <1>3 DEF CInv, ThreadsOK
<1>5. ASSUME NEW u \in Thread, pc'[u] = "asleep" PROVE ~c'.signaled /\ "no_event" \notin flags'
  BY <1>2, <1>5 DEF CInv, SleepersUnsignaled
<1>6. QED BY <1>4, <1>5 DEF SleepersUnsignaled

\* A field that is not part of the contents.
LEMMA SameGrown ==
    ASSUME NEW b \in Buffer, NEW d, NEW n, Grown(b, d, n), NEW e \in Buffer,
           e.head = d.head, e.tail = d.tail, e.len = d.len, e.buf = d.buf
    PROVE  Grown(b, e, n) /\ Back(b, e) = Back(b, d)
<1>1. d \in Buffer
  BY DEF Grown
<1>2. Contents(e) = Contents(d) /\ Held(e) = Held(d)
  BY <1>1, SameBytes
<1>3. QED BY <1>2 DEF Grown, Back

\* What a locked write does.
LEMMA WriteOutcome ==
    ASSUME NEW b \in Buffer, NEW data \in Seq(Byte \cup {KEEP}), NEW s, s = cbuf_write_wo_lock(b, data)
    PROVE  \E n \in 0..Len(data) :
              /\ s.b \in Buffer /\ Grown(b, s.b, n)
              /\ s.rest = Left(data, n)
              /\ data \in Seq(Byte) => Back(b, s.b) = SubSeq(data, 1, n)
              /\ BytesSignaled(s.b)
<1>1. PICK n \in 0..Len(data), d \in Buffer :
         /\ Wrote(b, d, data, n)
         /\ s = [b |-> [d EXCEPT !.signaled = Signaled(d)], rest |-> Left(data, n)]
  BY WriteWrites
<1> DEFINE e == [d EXCEPT !.signaled = Signaled(d)]
<1>2. s.b = e /\ s.rest = Left(data, n)
  BY <1>1
<1>3. d.signaled \in BOOLEAN /\ Signaled(d) \in BOOLEAN
  BY DEF Signaled, Buffer
<1>4. e \in Buffer /\ e.head = d.head /\ e.tail = d.tail /\ e.len = d.len /\ e.buf = d.buf /\ e.signaled = Signaled(d)
  BY <1>3 DEF Buffer
<1> HIDE DEF e
<1>5. Grown(b, d, n)
  BY <1>1 DEF Wrote
<1>6. Grown(b, e, n) /\ Back(b, e) = Back(b, d)
  BY <1>4, <1>5, SameGrown
<1>7. data \in Seq(Byte) => Back(b, d) = SubSeq(data, 1, n)
  BY <1>1, WroteContents
<1>8. BytesSignaled(e)
  BY <1>4, ZenonT(30) DEF BytesSignaled, Signaled
<1>9. QED BY <1>2, <1>4, <1>6, <1>7, <1>8

\* What a locked read does.
LEMMA ReadOutcome ==
    ASSUME NEW b \in Buffer, NEW want \in Nat, NEW s, s = cbuf_read_wo_lock(b, want), BytesSignaled(b)
    PROVE  \E n \in 0..want :
              /\ s.b \in Buffer /\ n \in 0..Held(b)
              /\ Contents(s.b) = Left(Contents(b), n)
              /\ s.out = Front(b, n) /\ Len(s.out) = n
              /\ s.b.signaled => b.signaled
              /\ BytesSignaled(s.b)
<1>1. PICK n \in 0..want, d \in Buffer :
         /\ Shrunk(b, d, n)
         /\ s = [b |-> [d EXCEPT !.signaled = @ /\ (d.tail # d.head \/ Front(b, n) = <<>>)],
                 want |-> want - n, out |-> Front(b, n)]
  BY ReadReads, ZenonT(30)
<1> DEFINE sig == d.signaled /\ (d.tail # d.head \/ Front(b, n) = <<>>)
           e == [d EXCEPT !.signaled = sig]
<1>2. s.b = e /\ s.out = Front(b, n)
  BY <1>1
<1>3. d.signaled \in BOOLEAN /\ sig \in BOOLEAN /\ d.signaled = b.signaled
  BY <1>1 DEF Buffer, Shrunk
<1>4. e \in Buffer /\ e.head = d.head /\ e.tail = d.tail /\ e.len = d.len /\ e.buf = d.buf /\ e.signaled = sig
  BY <1>3, ZenonT(30) DEF Buffer
<1> HIDE DEF e
<1>5. Contents(e) = Left(Contents(b), n)
  BY <1>1, <1>4, SameBytes, ShrunkContents
<1>6. n \in 0..Held(b) /\ Held(d) = Held(b) - n /\ Held(b) \in Nat
  BY <1>1, UsedExact DEF Shrunk
<1>7. Len(Front(b, n)) = n
  BY <1>6, ContentsExact DEF Front
<1>8. BytesSignaled(e)
  <2>1. SUFFICES ASSUME "SW_IS_WRITER" \in flags, "no_event" \notin flags, e.head # e.tail PROVE e.signaled
    BY DEF BytesSignaled
  <2>2. Held(d) # 0
    BY <1>4, <2>1, UsedExact
  <2>3. b.head # b.tail
    BY <1>6, <2>2, UsedExact
  <2>4. b.signaled
    BY <2>1, <2>3 DEF BytesSignaled
  <2>5. QED BY <1>3, <1>4, <2>1, <2>4, ZenonT(30)
<1>9. QED BY <1>2, <1>3, <1>4, <1>5, <1>6, <1>7, <1>8

-----------------------------------------------------------------------------

\* Writes.

LEMMA SourceFacts ==
    ASSUME NEW data \in Seq(Byte)
    PROVE  /\ Source(data) \in Seq(Byte \cup {KEEP}) /\ Len(Source(data)) = Len(data)
           /\ "SW_IS_WRITER" \in flags => Source(data) = data
<1>1. CASE "SW_IS_WRITER" \in flags
  BY <1>1 DEF Source
<1>2. CASE "SW_IS_WRITER" \notin flags
  <2>1. Source(data) = [i \in 1..Len(data) |-> KEEP]
    BY <1>2 DEF Source
  <2>2. Len(data) \in Nat
    BY SMTT(30)
  <2>3. QED BY <1>2, <2>1, <2>2
<1>3. QED BY <1>1, <1>2

LEMMA AcceptedFacts ==
    ASSUME NEW b \in Buffer, NEW d
    PROVE  Accepted(b, d) = [op |-> "put", bytes |-> Back(b, d)]
BY ContentsExact, ZenonT(30) DEF Accepted, Back, Left

\* One locked write of a buffer's data.
LEMMA WriteStep ==
    ASSUME CInv, NEW data \in Seq(Byte), NEW s, s = cbuf_write_wo_lock(c, Source(data)), Write(s, data)
    PROVE  /\ c' \in Buffer /\ s.b \in Buffer /\ c'.signaled = s.b.signaled /\ flags' = flags
           /\ BytesSignaled(c)' /\ Q!Next
           /\ \E n \in 0..Len(data) : Len(data) - Len(s.rest) = n
<1>0. c \in Buffer
  BY DEF CInv
<1>1. Source(data) \in Seq(Byte \cup {KEEP}) /\ Len(Source(data)) = Len(data)
      /\ ("SW_IS_WRITER" \in flags => Source(data) = data)
  BY SourceFacts
<1>2. PICK n \in 0..Len(data) :
         /\ s.b \in Buffer /\ Grown(c, s.b, n)
         /\ s.rest = Left(Source(data), n)
         /\ Source(data) \in Seq(Byte) => Back(c, s.b) = SubSeq(Source(data), 1, n)
         /\ BytesSignaled(s.b)
  BY <1>0, <1>1, WriteOutcome, ZenonT(30)
<1>3. Len(s.rest) = Len(data) - n /\ Len(data) - Len(s.rest) = n
  <2>1. Len(Left(Source(data), n)) = Len(data) - n
    BY <1>1, LeftOf
  <2>2. Len(data) \in Nat /\ n \in Nat
    OBVIOUS
  <2>3. QED BY <1>2, <2>1, <2>2
<1>4. c' = [s.b EXCEPT !.is_reset = @ /\ Len(s.rest) = Len(data)] /\ flags' = flags
  BY DEF Write
<1>5. c' \in Buffer /\ c'.head = s.b.head /\ c'.tail = s.b.tail /\ c'.len = s.b.len /\ c'.buf = s.b.buf
      /\ c'.signaled = s.b.signaled
  BY <1>2, <1>4, ZenonT(30) DEF Buffer
<1>6. Grown(c, c', n) /\ Back(c, c') = Back(c, s.b)
  BY <1>0, <1>2, <1>5, SameGrown
<1>7. io' = [op |-> "put", bytes |-> Back(c, c')]
  <2>1. CASE "SW_IS_WRITER" \in flags
    BY <1>1, <1>2, <1>3, <1>6, <2>1, ZenonT(30) DEF Write
  <2>2. CASE "SW_IS_WRITER" \notin flags
    BY <1>0, <1>6, <2>2, AcceptedFacts DEF Write
  <2>3. QED BY <2>1, <2>2
<1>8. Q!Next
  BY <1>0, <1>6, <1>7, PutStep
<1>9. BytesSignaled(c)'
  BY <1>2, <1>4, <1>5 DEF BytesSignaled
<1>10. QED BY <1>2, <1>3, <1>4, <1>5, <1>8, <1>9

LEMMA DataFacts ==
    ASSUME NEW m, NEW data \in Data(m)
    PROVE  data \in Seq(Byte)
<1>1. PICK n \in 1..m : data \in [1..n -> Byte]
  BY DEF Data
<1>2. n \in Nat
  OBVIOUS
<1>3. QED BY <1>1, <1>2

LEMMA WriteKeeps ==
    ASSUME CInv, NEW data \in Seq(Byte), cbuf_write(data)
    PROVE  Kept
<1> DEFINE s == cbuf_write_wo_lock(c, Source(data))
<1>1. Write(s, data) /\ Goes(s.b)
  BY DEF cbuf_write
<1> HIDE DEF s
<1>2. c' \in Buffer /\ s.b \in Buffer /\ c'.signaled = s.b.signaled /\ flags' = flags /\ BytesSignaled(c)' /\ Q!Next
  BY <1>1, WriteStep DEF s
<1>3. ThreadsOK' /\ SleepersUnsignaled'
  BY <1>1, <1>2, GoesKeeps
<1>4. QED BY <1>2, <1>3 DEF Kept, CInv

\* A step that leaves the buffer, its flags and its history alone.
LEMMA IdleKeeps ==
    ASSUME CInv, UNCHANGED <<c, flags, io>>, NEW t \in Thread, NEW to \in Places, NEW a, Goto(c, t, to, a),
           to = "write" => a \in WriteArg, to \in Reading => a \in ReadArg,
           to = "asleep" => ~c.signaled /\ "no_event" \notin flags
    PROVE  Kept
<1>1. c \in Buffer /\ c' \in Buffer /\ flags' = flags /\ c' = c /\ io' = io
  BY DEF CInv
<1>2. ThreadsOK' /\ SleepersUnsignaled'
  BY <1>1, GotoKeeps
<1>3. BytesSignaled(c)'
  BY <1>1 DEF CInv, BytesSignaled
<1>4. Contents(c)' = Contents(c)
  BY <1>1 DEF Contents
<1>5. QED BY <1>1, <1>2, <1>3, <1>4 DEF Kept, CInv, Q!vars

LEMMA WriteChunksKeeps ==
    ASSUME CInv, NEW t \in Thread, NEW data \in Seq(Byte), cbuf_write_chunks(t, data)
    PROVE  Kept
<1> DEFINE a == [data |-> data, loop |-> (Len(data) + MAX_CHUNK - 1) \div MAX_CHUNK]
<1>1. UNCHANGED <<c, flags, io>> /\ Goto(c, t, "write", a)
  BY DEF cbuf_write_chunks
<1>2. (Len(data) + MAX_CHUNK - 1) \div MAX_CHUNK \in Int
  BY ChunkAssumption
<1>3. a \in WriteArg
  BY <1>2 DEF WriteArg
<1> HIDE DEF a
<1>4. "write" \in Places /\ "write" \notin Reading
  BY DEF Places, Reading
<1>5. QED BY <1>1, <1>3, <1>4, IdleKeeps

LEMMA WriteChunkKeeps ==
    ASSUME CInv, NEW t \in Thread, cbuf_write_chunk(t)
    PROVE  Kept
<1> DEFINE chunk == SubSeq(arg[t].data, 1, smallest(MAX_CHUNK, Len(arg[t].data)))
           s == cbuf_write_wo_lock(c, Source(chunk))
           written == Len(chunk) - Len(s.rest)
           a == [data |-> SubSeq(arg[t].data, written + 1, Len(arg[t].data)), loop |-> arg[t].loop - 1]
<1>1. arg[t].data \in Seq(Byte) /\ arg[t].loop \in Int
  BY DEF CInv, ThreadsOK, WriteArg, cbuf_write_chunk
<1>2. smallest(MAX_CHUNK, Len(arg[t].data)) \in 0..Len(arg[t].data)
  <2>1. Len(arg[t].data) \in Nat /\ MAX_CHUNK \in Nat
    BY <1>1, ChunkAssumption
  <2>2. QED BY <2>1 DEF smallest
<1>3. chunk \in Seq(Byte) /\ Len(chunk) = smallest(MAX_CHUNK, Len(arg[t].data))
  BY <1>1, <1>2, SMTT(30)
<1>4. Write(s, chunk) /\ (Goto(s.b, t, "idle", 0) \/ Goto(s.b, t, "write", a))
  BY ZenonT(30) DEF cbuf_write_chunk
<1> HIDE DEF chunk, s
<1>5. /\ c' \in Buffer /\ s.b \in Buffer /\ c'.signaled = s.b.signaled /\ flags' = flags /\ BytesSignaled(c)' /\ Q!Next
      /\ \E n \in 0..Len(chunk) : written = n
  BY <1>3, <1>4, WriteStep DEF s
<1>6. written \in 0..Len(arg[t].data)
  BY <1>2, <1>3, <1>5
<1> HIDE DEF written
<1>7. a \in WriteArg
  <2>1. SubSeq(arg[t].data, written + 1, Len(arg[t].data)) \in Seq(Byte)
    BY <1>1, <1>6, LeftOf DEF Left
  <2>2. QED BY <1>1, <2>1 DEF WriteArg
<1> HIDE DEF a
<1>8. {"idle", "write"} \subseteq Places /\ "idle" \notin Reading /\ "write" \notin Reading
  BY DEF Places, Reading
<1>9. ThreadsOK' /\ SleepersUnsignaled'
  <2>1. CASE Goto(s.b, t, "idle", 0)
    BY <1>5, <1>8, <2>1, GotoKeeps
  <2>2. CASE Goto(s.b, t, "write", a)
    BY <1>5, <1>7, <1>8, <2>2, GotoKeeps
  <2>3. QED BY <1>4, <2>1, <2>2
<1>10. QED BY <1>5, <1>9 DEF Kept, CInv

LEMMA WriteNullKeeps ==
    ASSUME CInv, NEW n \in Nat, cbuf_write_null(n)
    PROVE  Kept
<1> DEFINE data == Source(ZeroFill(n))
           s == cbuf_write_wo_lock(c, data)
<1>0. c \in Buffer
  BY DEF CInv
<1>1. c' = s.b /\ io' = Accepted(c, s.b) /\ Goes(s.b) /\ flags' = flags
  BY DEF cbuf_write_null
<1>2. data \in Seq(Byte \cup {KEEP})
  <2>1. ZeroFill(n) \in [1..n -> Byte \cup {KEEP}]
    BY ByteAssumption DEF ZeroFill
  <2>2. data \in [1..n -> Byte \cup {KEEP}]
    BY <2>1 DEF Source
  <2>3. QED BY <2>2
<1> HIDE DEF data, s
<1>3. PICK m \in 0..Len(data) : s.b \in Buffer /\ Grown(c, s.b, m) /\ BytesSignaled(s.b)
  BY <1>0, <1>2, WriteOutcome DEF s
<1>4. io' = [op |-> "put", bytes |-> Back(c, c')]
  BY <1>0, <1>1, AcceptedFacts
<1>5. Q!Next
  BY <1>0, <1>1, <1>3, <1>4, PutStep
<1>6. ThreadsOK' /\ SleepersUnsignaled'
  BY <1>1, <1>3, GoesKeeps
<1>7. BytesSignaled(c)'
  BY <1>1, <1>3 DEF BytesSignaled
<1>8. QED BY <1>1, <1>3, <1>5, <1>6, <1>7 DEF Kept, CInv

LEMMA HeadIsFree ==
    ASSUME NEW len \in Nat, NEW h \in 0..len - 1, NEW t \in 0..len - 1
    PROVE  /\ \A i \in 1..Distance(h, t, len) : Around(t + i - 1, len) # h
           /\ Around(t + (Distance(h, t, len) + 1) - 1, len) = h
<1>1. ASSUME NEW i \in 1..Distance(h, t, len) PROVE Around(t + i - 1, len) # h
  BY DEF Distance, Around
<1>2. Around(t + (Distance(h, t, len) + 1) - 1, len) = h
  BY DEF Distance, Around
<1>3. QED BY <1>1, <1>2

LEMMA WriteCharKeeps ==
    ASSUME CInv, NEW ch \in Byte, cbuf_write_char(ch)
    PROVE  Kept
<1> DEFINE f == [c.buf EXCEPT ![c.head] = ch]
           d == [c EXCEPT !.buf = f, !.head = INC_POINTER(c, c.head, 1)]
<1>0. c \in Buffer
  BY DEF CInv
<1>1. c.len \in Nat /\ c.head \in 0..c.len - 1 /\ c.tail \in 0..c.len - 1 /\ c.len <= LenMax
      /\ LenMax \in Nat /\ c.buf \in [0..LenMax - 1 -> Byte] /\ c.head \in 0..LenMax - 1
  BY <1>0, LengthFacts DEF Buffer
<1>2. 1 \in 0..c.len - Held(c) - 1 /\ Held(c) \in Nat
  BY <1>0, <1>1, UsedExact DEF cbuf_write_char
<1>3. f \in [0..LenMax - 1 -> Byte] /\ f[c.head] = ch
  BY <1>1
<1>4. /\ \A i \in 1..Held(c) : At(c, i) # c.head /\ At(c, i) \in 0..LenMax - 1
      /\ At(c, Held(c) + 1) = c.head
  <2>1. ASSUME NEW i \in 1..Held(c) PROVE At(c, i) # c.head
    BY <1>1, HeadIsFree DEF Held, At
  <2>2. ASSUME NEW i \in 1..Held(c) PROVE At(c, i) \in 0..LenMax - 1
    <3>1. At(c, i) \in 0..c.len - 1
      BY <1>0, ContentsExact
    <3>2. QED BY <1>1, <3>1
  <2>3. At(c, Held(c) + 1) = c.head
    BY <1>1, HeadIsFree DEF Held, At
  <2>4. QED BY <2>1, <2>2, <2>3
<1>5. \A i \in 1..Held(c) : f[At(c, i)] = c.buf[At(c, i)]
  BY <1>1, <1>4
<1>6. /\ c' = [d EXCEPT !.signaled = Signaled(d)] /\ Goes(c') /\ flags' = flags
      /\ io' = [op |-> "put", bytes |-> <<ch>>]
  BY SMTT(30) DEF cbuf_write_char
<1> HIDE DEF f
<1>7. Grown(c, d, 1)
  BY <1>0, <1>2, <1>3, <1>5, HeadMoves, ZenonT(30)
<1>8. d \in Buffer /\ d.buf = f /\ d.signaled = c.signaled /\ d.is_reset = c.is_reset
  BY <1>0, <1>7 DEF Grown, Buffer
<1> HIDE DEF d
<1>9. c' \in Buffer /\ c'.head = d.head /\ c'.tail = d.tail /\ c'.len = d.len /\ c'.buf = d.buf /\ c'.signaled = Signaled(d)
  <2>1. Signaled(d) \in BOOLEAN
    BY <1>8 DEF Signaled, Buffer
  <2>2. QED BY <1>6, <1>8, <2>1 DEF Buffer
<1>10. Grown(c, c', 1) /\ Back(c, c') = Back(c, d)
  BY <1>0, <1>7, <1>9, SameGrown
<1>11. Back(c, d) = <<ch>>
  <2>1. <<ch>> \in Seq(Byte) /\ Len(<<ch>>) = 1 /\ <<ch>>[1] = ch /\ 1 \in 0..Len(<<ch>>)
    <3>1. <<ch>> \in Seq(Byte)
      OBVIOUS
    <3>2. Len(<<ch>>) = 1 /\ <<ch>>[1] = ch
      OBVIOUS
    <3>3. QED BY <3>1, <3>2
  <2>2. ASSUME NEW i \in 1..1 PROVE d.buf[At(c, Held(c) + i)] = <<ch>>[i]
    <3>1. i = 1
      OBVIOUS
    <3>2. QED BY <1>3, <1>4, <1>8, <2>1, <3>1
  <2>3. Wrote(c, d, <<ch>>, 1)
    BY <1>7, <1>8, <2>1, <2>2 DEF Wrote
  <2>4. Back(c, d) = SubSeq(<<ch>>, 1, 1)
    BY <1>0, <2>1, <2>3, WroteContents, ZenonT(30)
  <2>5. SubSeq(<<ch>>, 1, 1) = <<ch>>
    <3>1. ASSUME NEW x \in Seq(Byte) PROVE SubSeq(x, 1, Len(x)) = x
      OBVIOUS
    <3>2. QED BY <2>1, <3>1, ZenonT(30)
  <2>6. QED BY <2>4, <2>5
<1>12. Q!Next
  BY <1>0, <1>6, <1>10, <1>11, PutStep
<1>13. ThreadsOK' /\ SleepersUnsignaled'
  BY <1>6, <1>9, GoesKeeps, ZenonT(30)
<1>14. BytesSignaled(c)'
  BY <1>6, <1>9, ZenonT(30) DEF BytesSignaled, Signaled
<1>15. QED BY <1>9, <1>12, <1>13, <1>14 DEF Kept, CInv

-----------------------------------------------------------------------------

\* Reads.

LEMMA ReadStep ==
    ASSUME CInv, NEW want \in Nat, NEW s, s = cbuf_read_wo_lock(c, want), Read(s)
    PROVE  /\ c' \in Buffer /\ s.b = c' /\ flags' = flags
           /\ BytesSignaled(c)' /\ [Q!Next]_(Q!vars)
           /\ Len(s.out) \in 0..want
<1>0. c \in Buffer /\ BytesSignaled(c)
  BY DEF CInv
<1>1. PICK n \in 0..want :
         /\ s.b \in Buffer /\ n \in 0..Held(c)
         /\ Contents(s.b) = Left(Contents(c), n)
         /\ s.out = Front(c, n) /\ Len(s.out) = n
         /\ s.b.signaled => c.signaled
         /\ BytesSignaled(s.b)
  BY <1>0, ReadOutcome, ZenonT(30)
<1>2. c' = s.b /\ flags' = flags /\ io' = IF s.out = <<>> THEN io ELSE [op |-> "get", bytes |-> s.out]
  BY DEF Read
<1>3. [Q!Next]_(Q!vars)
  <2>1. CASE s.out = <<>>
    <3>1. n = 0
      BY <1>1, <2>1
    <3>2. Left(Contents(c), 0) = Contents(c)
      BY <1>0, ContentsExact DEF Left
    <3>3. Contents(c') = Contents(c) /\ io' = io
      BY <1>1, <1>2, <2>1, <3>1, <3>2, SMTT(30)
    <3>4. QED BY <3>3 DEF Q!vars
  <2>2. CASE s.out # <<>>
    <3>1. n # 0
      BY <1>1, <2>2 DEF Front
    <3>2. n \in 1..Held(c)
      BY <1>1, <3>1, SMTT(30)
    <3>3. QED BY <1>0, <1>1, <1>2, <2>2, <3>2, GetStep, SMTT(30)
  <2>3. QED BY <2>1, <2>2
<1>4. BytesSignaled(c)'
  BY <1>1, <1>2 DEF BytesSignaled
<1>5. QED BY <1>1, <1>2, <1>3, <1>4

LEMMA ReadKeeps ==
    ASSUME CInv, NEW n \in Nat, cbuf_read(n)
    PROVE  Kept
<1> DEFINE s == cbuf_read_wo_lock(c, n)
<1>1. Read(s) /\ Goes(s.b)
  BY DEF cbuf_read
<1> HIDE DEF s
<1>2. c' \in Buffer /\ s.b = c' /\ flags' = flags /\ BytesSignaled(c)' /\ [Q!Next]_(Q!vars)
  BY <1>1, ReadStep DEF s
<1>3. ThreadsOK' /\ SleepersUnsignaled'
  BY <1>1, <1>2, GoesKeeps
<1>4. QED BY <1>2, <1>3 DEF Kept, CInv

LEMMA LoopsFacts ==
    ASSUME NEW n \in Nat
    PROVE  Loops(n) \in Int
<1>1. (n + MAX_CHUNK - 1) \div MAX_CHUNK \in Int
  BY ChunkAssumption
<1>2. QED BY <1>1 DEF Loops

LEMMA WaitFacts == Wait \in Places /\ Wait \in Reading /\ (Wait = "asleep" => ~c.signaled /\ "no_event" \notin flags)
BY DEF Wait, Places, Reading

LEMMA ReadStartKeeps ==
    ASSUME CInv, NEW t \in Thread, NEW n \in Nat, NEW block \in BOOLEAN, cbuf_read_start(t, n, block)
    PROVE  Kept
<1> DEFINE a == [ret |-> 0, rem |-> n, loop |-> Loops(n), block |-> block, buflen |-> n]
           to == IF block THEN Wait ELSE "read"
<1>1. UNCHANGED <<c, flags, io>> /\ Goto(c, t, to, a)
  BY DEF cbuf_read_start
<1>2. a \in ReadArg
  BY LoopsFacts DEF ReadArg
<1>3. to \in Places /\ to # "write" /\ (to = "asleep" => ~c.signaled /\ "no_event" \notin flags)
  BY WaitFacts DEF Places, Reading
<1> HIDE DEF a, to
<1>4. QED BY <1>1, <1>2, <1>3, IdleKeeps

LEMMA ReadRetryKeeps ==
    ASSUME CInv, NEW t \in Thread, cbuf_read_retry(t)
    PROVE  Kept
<1>1. UNCHANGED <<c, flags, io>> /\ Goto(c, t, Wait, arg[t]) /\ pc[t] = "retry"
  BY DEF cbuf_read_retry
<1>2. arg[t] \in ReadArg
  BY <1>1 DEF CInv, ThreadsOK, Reading
<1>3. Wait # "write"
  BY DEF Wait
<1>4. QED BY <1>1, <1>2, <1>3, WaitFacts, IdleKeeps, SMTT(30)

LEMMA ReadChunkKeeps ==
    ASSUME CInv, NEW t \in Thread, cbuf_read_chunk(t)
    PROVE  Kept
<1> DEFINE a == arg[t]
           want == IF "USE_MAX_CHUNK_R" \in flags THEN smallest(MAX_CHUNK, a.rem) ELSE a.rem
           s == cbuf_read_wo_lock(c, want)
           n == Len(s.out)
           more == [a EXCEPT !.ret = @ + n, !.rem = @ - n, !.loop = @ - 1]
           again == [a EXCEPT !.rem = a.buflen, !.loop = Loops(a.buflen)]
<1>1. a \in ReadArg
  BY DEF cbuf_read_chunk, CInv, ThreadsOK, Reading
<1>2. want \in Nat /\ want <= a.rem
  BY <1>1, ChunkAssumption DEF ReadArg, smallest
<1>3. /\ Read(s)
      /\ Goto(s.b, t, "read", more) \/ Goto(s.b, t, "retry", again) \/ Goto(s.b, t, "idle", 0)
  BY DEF cbuf_read_chunk
<1> HIDE DEF s, want
<1>4. c' \in Buffer /\ s.b = c' /\ flags' = flags /\ BytesSignaled(c)' /\ [Q!Next]_(Q!vars) /\ n \in 0..want
  BY <1>2, <1>3, ReadStep DEF s
<1> HIDE DEF n
<1>5. more \in ReadArg
  <2>1. a.rem - n \in Nat /\ a.ret + n \in Nat /\ a.loop - 1 \in Int
    BY <1>1, <1>2, <1>4 DEF ReadArg
  <2>2. QED BY <1>1, <2>1, ZenonT(30) DEF ReadArg
<1>6. again \in ReadArg
  <2>1. a.buflen \in Nat /\ Loops(a.buflen) \in Int
    BY <1>1, LoopsFacts DEF ReadArg
  <2>2. QED BY <1>1, <2>1, ZenonT(30) DEF ReadArg
<1> HIDE DEF more, again
<1>7. {"read", "retry", "idle"} \subseteq Places /\ "idle" \notin Reading
  BY DEF Places, Reading
<1>8. ThreadsOK' /\ SleepersUnsignaled'
  <2>1. CASE Goto(s.b, t, "read", more)
    BY <1>4, <1>5, <1>7, <2>1, GotoKeeps
  <2>2. CASE Goto(s.b, t, "retry", again)
    BY <1>4, <1>6, <1>7, <2>2, GotoKeeps
  <2>3. CASE Goto(s.b, t, "idle", 0)
    BY <1>4, <1>7, <2>3, GotoKeeps, SMTT(30)
  <2>4. QED BY <1>3, <2>1, <2>2, <2>3
<1>9. QED BY <1>4, <1>8 DEF Kept, CInv

-----------------------------------------------------------------------------

\* Resets, skips and rewinds.

LEMMA EmptyStep ==
    ASSUME c \in Buffer, c' \in Buffer, c'.head = c'.tail, io' = None
    PROVE  Q!Next
<1>1. Held(c') = 0 /\ Held(c) \in Nat
  BY UsedExact
<1>2. Contents(c') \in Seq(Byte) /\ Len(Contents(c')) = 0
  BY <1>1, ContentsExact
<1>3. Front(c, 0) = <<>>
  BY ContentsExact DEF Front
<1>4. Contents(c') = Front(c, 0) /\ 0 \in 0..Held(c)
  BY <1>1, <1>2, <1>3
<1>5. QED BY <1>4, CutStep

\* A step of a call that ends with the event as it was, or unsignaled.
LEMMA CallKeeps ==
    ASSUME CInv, c' \in Buffer, flags' = flags, c'.signaled => c.signaled, BytesSignaled(c)', Goes(c),
           [Q!Next]_(Q!vars)
    PROVE  Kept
<1>1. ThreadsOK' /\ SleepersUnsignaled'
  BY GoesKeeps DEF CInv
<1>2. QED BY <1>1 DEF Kept, CInv

LEMMA StepKeeps ==
    ASSUME CInv, c' \in Buffer, flags' = flags, c'.signaled => c.signaled, BytesSignaled(c)',
           NEW t \in Thread, NEW to \in Places \ (Reading \cup {"write"}), NEW a, Goto(c, t, to, a),
           [Q!Next]_(Q!vars)
    PROVE  Kept
<1>1. ThreadsOK' /\ SleepersUnsignaled'
  BY GotoKeeps, SMTT(30) DEF CInv, Reading
<1>2. QED BY <1>1 DEF Kept, CInv

LEMMA ResetStep ==
    ASSUME CInv, Becomes(Reset(c))
    PROVE  c' \in Buffer /\ flags' = flags /\ (c'.signaled => c.signaled) /\ BytesSignaled(c)' /\ Q!Next
<1> DEFINE s == cbuf_read_wo_lock(c, c.len)
<1>0. c \in Buffer /\ BytesSignaled(c) /\ c.len \in Nat
  BY LengthFacts DEF CInv
<1>1. c' = s.b /\ io' = None /\ flags' = flags
  BY SMTT(30) DEF Becomes, Reset
<1> HIDE DEF s
<1>2. PICK n \in 0..c.len :
         /\ s.b \in Buffer /\ n \in 0..Held(c)
         /\ Contents(s.b) = Left(Contents(c), n)
         /\ s.b.signaled => c.signaled
         /\ BytesSignaled(s.b)
  BY <1>0, ReadOutcome, ZenonT(30) DEF s
<1>3. Q!Next
  BY <1>0, <1>1, <1>2, CutStep
<1>4. QED BY <1>1, <1>2, <1>3 DEF BytesSignaled

LEMMA ResetKeeps ==
    ASSUME CInv, cbuf_reset
    PROVE  Kept
<1>1. Becomes(Reset(c)) /\ Goes(c)
  BY DEF cbuf_reset
<1>2. QED BY <1>1, ResetStep, CallKeeps

LEMMA AdjustSizeKeeps ==
    ASSUME CInv, NEW len \in Lens, cbuf_adjust_size(len)
    PROVE  Kept
<1>0. c \in Buffer
  BY DEF CInv
<1>1. c' = [c EXCEPT !.head = 0, !.tail = 0, !.len = len] /\ io' = None /\ flags' = flags /\ Goes(c)
  BY DEF cbuf_adjust_size, Becomes
<1>2. len \in Nat /\ 0 < len
  BY LengthAssumption
<1>3. c' \in Buffer /\ c'.head = 0 /\ c'.tail = 0 /\ c'.signaled = c.signaled
  BY <1>0, <1>1, <1>2, ZenonT(30) DEF Buffer
<1>4. Q!Next
  BY <1>0, <1>1, <1>3, EmptyStep
<1>5. BytesSignaled(c)'
  BY <1>3 DEF BytesSignaled
<1>6. QED BY <1>1, <1>3, <1>4, <1>5, CallKeeps

LEMMA RewindKeeps ==
    ASSUME CInv, cbuf_rewind
    PROVE  Kept
<1>0. c \in Buffer
  BY DEF CInv
<1>1. c' = [c EXCEPT !.head = c.tail] /\ io' = None /\ flags' = flags /\ Goes(c)
  BY DEF cbuf_rewind, Becomes
<1>2. c' \in Buffer /\ c'.head = c'.tail /\ c'.signaled = c.signaled
  BY <1>0, <1>1 DEF Buffer
<1>3. Q!Next
  BY <1>0, <1>1, <1>2, EmptyStep
<1>4. BytesSignaled(c)'
  BY <1>2 DEF BytesSignaled
<1>5. QED BY <1>1, <1>2, <1>3, <1>4, CallKeeps

LEMMA SkipReadKeeps ==
    ASSUME CInv, NEW n \in Nat, cbuf_skip(FALSE, n)
    PROVE  Kept
<1>0. c \in Buffer
  BY DEF CInv
<1>1. /\ c' = [c EXCEPT !.tail = INC_POINTER(c, c.tail, n)] /\ io' = None /\ flags' = flags /\ Goes(c)
      /\ n <= cbuf_space_used(c)
  BY DEF cbuf_skip, Becomes
<1>2. n \in 0..Held(c)
  BY <1>0, <1>1, UsedExact
<1>3. Shrunk(c, c', n)
  BY <1>0, <1>1, <1>2, TailMoves
<1>4. Q!Next
  BY <1>0, <1>1, <1>2, <1>3, ShrunkContents, CutStep
<1>5. c' \in Buffer /\ c'.signaled = c.signaled /\ Held(c') = Held(c) - n
  BY <1>3 DEF Shrunk
<1>6. BytesSignaled(c)'
  <2>1. c'.head # c'.tail => c.head # c.tail
    <3>1. Held(c) \in Nat /\ (Held(c) = 0 <=> c.head = c.tail) /\ (Held(c') = 0 <=> c'.head = c'.tail) /\ Held(c') \in Nat
      BY <1>0, <1>5, UsedExact
    <3>2. QED BY <1>2, <1>5, <3>1
  <2>2. QED BY <1>1, <1>5, <2>1 DEF CInv, BytesSignaled
<1>7. QED BY <1>1, <1>4, <1>5, <1>6, CallKeeps

LEMMA SkipWriteKeeps ==
    ASSUME CInv, NEW n \in Nat, "SW_IS_WRITER" \notin flags, cbuf_skip(TRUE, n)
    PROVE  Kept
<1>0. c \in Buffer
  BY DEF CInv
<1>1. /\ c' = [c EXCEPT !.head = INC_POINTER(c, c.head, n)] /\ io' = Accepted(c, c') /\ flags' = flags /\ Goes(c)
      /\ n <= cbuf_space_avail(c)
  BY DEF cbuf_skip
<1>2. n \in 0..c.len - Held(c) - 1
  BY <1>0, <1>1, UsedExact, LengthFacts
<1>3. c' = [c EXCEPT !.buf = c.buf, !.head = INC_POINTER(c, c.head, n)] /\ c.buf \in [0..LenMax - 1 -> Byte]
  BY <1>0, <1>1, ZenonT(30) DEF Buffer
<1>4. Grown(c, c', n)
  BY <1>0, <1>2, <1>3, HeadMoves, ZenonT(30)
<1>5. Q!Next
  BY <1>0, <1>1, <1>4, AcceptedFacts, PutStep
<1>6. c' \in Buffer /\ c'.signaled = c.signaled
  BY <1>0, <1>1, <1>4 DEF Grown, Buffer
<1>7. BytesSignaled(c)'
  BY <1>1 DEF BytesSignaled
<1>8. QED BY <1>1, <1>5, <1>6, <1>7, CallKeeps

LEMMA BothForward ==
    ASSUME NEW len \in Nat, NEW h \in 0..len - 1, NEW t \in 0..len - 1, NEW n \in 0..len
    PROVE  Distance(Around(h + n, len), Around(t + n, len), len) = Distance(h, t, len)
BY DEF Distance, Around

LEMMA TrashKeeps ==
    ASSUME CInv, NEW n \in 0..c.len, cbuf_trash(n)
    PROVE  Kept
<1>0. c \in Buffer
  BY DEF CInv
<1>1. c' = [c EXCEPT !.head = INC_POINTER(c, c.head, n), !.tail = INC_POINTER(c, c.tail, n)]
      /\ io' = None /\ flags' = flags /\ Goes(c)
  BY DEF cbuf_trash, Becomes
<1>2. c.len \in Nat /\ c.head \in 0..c.len - 1 /\ c.tail \in 0..c.len - 1
  BY <1>0, LengthFacts
<1>3. /\ INC_POINTER(c, c.head, n) = Around(c.head + n, c.len) /\ INC_POINTER(c, c.head, n) \in 0..c.len - 1
      /\ INC_POINTER(c, c.tail, n) = Around(c.tail + n, c.len) /\ INC_POINTER(c, c.tail, n) \in 0..c.len - 1
  BY <1>0, <1>2, IncWraps
<1>4. c'.len = c.len /\ c'.head = Around(c.head + n, c.len) /\ c'.tail = Around(c.tail + n, c.len)
      /\ c'.signaled = c.signaled
  BY <1>0, <1>1, <1>3 DEF Buffer
<1>5. c' \in Buffer
  <2>1. c'.head \in Nat /\ c'.tail \in Nat /\ c'.head < c'.len /\ c'.tail < c'.len
    BY <1>2, <1>3, <1>4
  <2>2. QED BY <1>0, <1>1, <2>1, ZenonT(30) DEF Buffer
<1>6. Held(c') = Held(c)
  BY <1>2, <1>4, BothForward DEF Held
<1>7. Q!Next
  BY <1>0, <1>1, <1>5, <1>6, WipeStep
<1>8. c'.head # c'.tail => c.head # c.tail
  BY <1>0, <1>5, <1>6, UsedExact
<1>9. BytesSignaled(c)'
  BY <1>1, <1>4, <1>8 DEF CInv, BytesSignaled
<1>10. QED BY <1>1, <1>4, <1>5, <1>7, <1>9, CallKeeps

LEMMA HeadBack ==
    ASSUME NEW len \in Nat, NEW h \in 0..len - 1, NEW t \in 0..len - 1, NEW k \in 0..Distance(h, t, len)
    PROVE  /\ k \in 0..len - 1 /\ Distance(h, k, len) \in 0..len - 1
           /\ Distance(Distance(h, k, len), t, len) = Distance(h, t, len) - k
BY DEF Distance

LEMMA RewindLenKeeps ==
    ASSUME CInv, NEW n \in Nat, cbuf_rewind_len(n)
    PROVE  Kept
<1>0. c \in Buffer
  BY DEF CInv
<1>1. c' = [c EXCEPT !.head = Rewound(n)] /\ io' = None /\ flags' = flags /\ Goes(c)
  BY DEF cbuf_rewind_len, Becomes
<1>2. c.len \in Nat /\ c.head \in 0..c.len - 1 /\ c.tail \in 0..c.len - 1
  BY <1>0, LengthFacts
<1>3. PICK k \in 0..Held(c) : k = smallest(n, cbuf_space_used(c)) /\ Held(c) \in Nat
  <2>1. cbuf_space_used(c) = Held(c) /\ Held(c) \in Nat
    BY <1>0, UsedExact
  <2>2. smallest(n, cbuf_space_used(c)) \in 0..Held(c)
    BY <2>1 DEF smallest
  <2>3. QED BY <2>1, <2>2
<1>4. /\ k \in 0..c.len - 1 /\ Distance(c.head, k, c.len) \in 0..c.len - 1
      /\ Distance(Distance(c.head, k, c.len), c.tail, c.len) = Held(c) - k
  BY <1>2, HeadBack, SMTT(30) DEF Held
<1>5. Rewound(n) = Distance(c.head, k, c.len)
  BY <1>0, <1>2, <1>3, <1>4, DifferenceWraps DEF Rewound, DEC_POINTER, Distance
<1>6. c'.len = c.len /\ c'.tail = c.tail /\ c'.buf = c.buf /\ c'.head = Distance(c.head, k, c.len)
      /\ c'.signaled = c.signaled
  BY <1>0, <1>1, <1>5 DEF Buffer
<1>7. c' \in Buffer
  BY <1>0, <1>1, <1>2, <1>4, <1>5, SMTT(30) DEF Buffer
<1>8. Held(c') = Held(c) - k
  BY <1>4, <1>6 DEF Held
<1>9. PICK m \in 0..Held(c) : m = Held(c')
  BY <1>3, <1>8
<1>10. Contents(c') = Front(c, m)
  <2> DEFINE x == Contents(c')
             y == Front(c, m)
  <2>1. Contents(c) \in Seq(Byte) /\ Len(Contents(c)) = Held(c) /\ \A i \in 1..Held(c) : Contents(c)[i] = c.buf[At(c, i)]
    BY <1>0, ContentsExact
  <2>2. x \in Seq(Byte) /\ Len(x) = m /\ \A i \in 1..m : x[i] = c'.buf[At(c', i)]
    BY <1>7, <1>9, ContentsExact
  <2>3. y \in Seq(Byte) /\ Len(y) = m /\ \A i \in 1..m : y[i] = Contents(c)[i]
    BY <2>1, SMTT(30) DEF Front
  <2> HIDE DEF x, y
  <2>4. ASSUME NEW i \in 1..m PROVE x[i] = y[i]
    <3>1. i \in 1..Held(c)
      BY <1>3, SMTT(30)
    <3>2. At(c', i) = At(c, i)
      BY <1>6, SMTT(30) DEF At
    <3>3. QED BY <1>6, <2>1, <2>2, <2>3, <3>1, <3>2, SMTT(30)
  <2>5. x = y
    BY <2>2, <2>3, <2>4, SameSequence
  <2>6. QED BY <2>5, SMTT(30) DEF x, y
<1>11. Q!Next
  BY <1>0, <1>1, <1>10, CutStep
<1>12. c'.head # c'.tail => c.head # c.tail
  <2>1. (Held(c) = 0 <=> c.head = c.tail) /\ (Held(c') = 0 <=> c'.head = c'.tail) /\ Held(c') \in Nat
    BY <1>0, <1>7, UsedExact
  <2>2. QED BY <1>3, <1>8, <2>1, SMTT(30)
<1>13. BytesSignaled(c)'
  BY <1>1, <1>6, <1>12 DEF CInv, BytesSignaled
<1>14. QED BY <1>1, <1>6, <1>7, <1>11, <1>13, CallKeeps

LEMMA ResetIndexesKeeps ==
    ASSUME CInv, NEW t \in Thread, cbuf_reset_indexes(t)
    PROVE  Kept
<1>1. Becomes(Reset(c)) /\ Goto(c, t, "indexes", FALSE)
  BY ZenonT(30) DEF cbuf_reset_indexes
<1>2. "indexes" \in Places \ (Reading \cup {"write"})
  BY DEF Places, Reading
<1>3. QED BY <1>1, <1>2, ResetStep, StepKeeps, ZenonT(30)

LEMMA ResetIndexesLockedKeeps ==
    ASSUME CInv, NEW t \in Thread, cbuf_reset_indexes_locked(t)
    PROVE  Kept
<1>0. c \in Buffer
  BY DEF CInv
<1>1. /\ c' = [c EXCEPT !.head = 0, !.tail = 0] /\ io' = None /\ flags' = flags
      /\ Goto(c, t, "flag", 0) \/ Goto(c, t, "idle", 0)
  BY DEF cbuf_reset_indexes_locked, Becomes
<1>2. c.len \in Nat /\ 0 < c.len
  BY <1>0, LengthFacts
<1>3. c' \in Buffer /\ c'.head = 0 /\ c'.tail = 0 /\ c'.signaled = c.signaled
  BY <1>0, <1>1, <1>2, ZenonT(30) DEF Buffer
<1>4. Q!Next
  BY <1>0, <1>1, <1>3, EmptyStep
<1>5. BytesSignaled(c)'
  BY <1>3 DEF BytesSignaled
<1>6. {"flag", "idle"} \subseteq Places \ (Reading \cup {"write"})
  BY DEF Places, Reading
<1>7. CASE Goto(c, t, "flag", 0)
  BY <1>1, <1>3, <1>4, <1>5, <1>6, <1>7, StepKeeps
<1>8. CASE Goto(c, t, "idle", 0)
  BY <1>1, <1>3, <1>4, <1>5, <1>6, <1>8, StepKeeps
<1>9. QED BY <1>1, <1>7, <1>8

LEMMA ResetWithZeroKeeps ==
    ASSUME CInv, NEW t \in Thread, cbuf_reset_with_zero(t)
    PROVE  Kept
<1> DEFINE f == [i \in DOMAIN c.buf |-> IF i < c.len THEN 0 ELSE c.buf[i]]
<1>0. c \in Buffer
  BY DEF CInv
<1>1. c' = [c EXCEPT !.buf = f] /\ io' = None /\ flags' = flags /\ Goto(c, t, "zeroed", 0)
  BY DEF cbuf_reset_with_zero, Becomes
<1>2. f \in [0..LenMax - 1 -> Byte]
  BY <1>0, ByteAssumption, ZenonT(30) DEF Buffer
<1> HIDE DEF f
<1>3. c' \in Buffer /\ c'.head = c.head /\ c'.tail = c.tail /\ c'.len = c.len /\ c'.signaled = c.signaled
  BY <1>0, <1>1, <1>2 DEF Buffer
<1>4. Held(c') = Held(c)
  BY <1>3 DEF Held
<1>5. Q!Next
  BY <1>0, <1>1, <1>3, <1>4, WipeStep
<1>6. BytesSignaled(c)'
  BY <1>1, <1>3 DEF CInv, BytesSignaled
<1>7. "zeroed" \in Places \ (Reading \cup {"write"})
  BY DEF Places, Reading
<1>8. QED BY <1>1, <1>3, <1>5, <1>6, <1>7, StepKeeps

LEMMA ResetWithZeroResetKeeps ==
    ASSUME CInv, NEW t \in Thread, cbuf_reset_with_zero_reset(t)
    PROVE  Kept
<1>1. Becomes(Reset(c)) /\ (Goto(c, t, "flag", 0) \/ Goto(c, t, "indexes", TRUE))
  BY ZenonT(30) DEF cbuf_reset_with_zero_reset
<1>2. {"flag", "indexes"} \subseteq Places \ (Reading \cup {"write"})
  BY DEF Places, Reading
<1>3. CASE Goto(c, t, "flag", 0)
  BY <1>1, <1>2, <1>3, ResetStep, StepKeeps
<1>4. CASE Goto(c, t, "indexes", TRUE)
  BY <1>1, <1>2, <1>4, ResetStep, StepKeeps, ZenonT(30)
<1>5. QED BY <1>1, <1>3, <1>4, ZenonT(30)

LEMMA ResetWithZeroFlagKeeps ==
    ASSUME CInv, NEW t \in Thread, cbuf_reset_with_zero_flag(t)
    PROVE  Kept
<1>0. c \in Buffer
  BY DEF CInv
<1>1. c' = [c EXCEPT !.is_reset = TRUE] /\ flags' = flags /\ io' = io /\ Goto(c, t, "idle", 0)
  BY DEF cbuf_reset_with_zero_flag
<1>2. c' \in Buffer /\ c'.head = c.head /\ c'.tail = c.tail /\ c'.len = c.len /\ c'.buf = c.buf
      /\ c'.signaled = c.signaled
  BY <1>0, <1>1, ZenonT(30) DEF Buffer
<1>3. Contents(c') = Contents(c)
  BY <1>0, <1>2, SameBytes
<1>4. [Q!Next]_(Q!vars)
  BY <1>1, <1>3 DEF Q!vars
<1>5. BytesSignaled(c)'
  BY <1>1, <1>2 DEF CInv, BytesSignaled
<1>6. "idle" \in Places \ (Reading \cup {"write"})
  BY DEF Places, Reading
<1>7. QED BY <1>1, <1>2, <1>4, <1>5, <1>6, StepKeeps

-----------------------------------------------------------------------------

LEMMA InitCInv == Init => CInv /\ Q!Init
<1> SUFFICES ASSUME Init PROVE CInv /\ Q!Init
  OBVIOUS
<1>1. c = [head |-> 0, tail |-> 0, len |-> LenMax, buf |-> [i \in 0..LenMax - 1 |-> 0],
           signaled |-> FALSE, is_reset |-> FALSE]
  BY DEF Init
<1>2. LenMax \in Nat /\ 0 < LenMax
  BY LengthAssumption
<1>3. c \in Buffer
  BY <1>1, <1>2, ByteAssumption, SMTT(30) DEF Buffer
<1>4. ThreadsOK
  BY SMTT(30) DEF Init, ThreadsOK, Places, Reading
<1>5. BytesSignaled(c) /\ SleepersUnsignaled
  BY <1>1, SMTT(30) DEF Init, BytesSignaled, SleepersUnsignaled
<1>6. Held(c) = 0
  BY <1>1, <1>3, UsedExact
<1>7. Contents(c) \in Seq(Byte) /\ Len(Contents(c)) = 0
  BY <1>3, <1>6, ContentsExact, SMTT(30)
<1>8. Q!Init
  BY <1>7 DEF Init, Q!Init, Q!None, None
<1>9. QED BY <1>3, <1>4, <1>5, <1>8 DEF CInv

LEMMA TransferKeeps ==
    ASSUME CInv, Transfer
    PROVE  Kept
<1>0. c.len \in Nat \ {0}
  BY LengthFacts DEF CInv
<1>1. CASE \E data \in Data(c.len - 1) : cbuf_write(data)
  BY <1>1, DataFacts, WriteKeeps
<1>2. CASE \E n \in 1..c.len - 1 : cbuf_write_null(n) \/ cbuf_read(n)
  <2>1. PICK n \in 1..c.len - 1 : cbuf_write_null(n) \/ cbuf_read(n)
    BY <1>2
  <2>2. n \in Nat
    OBVIOUS
  <2>3. QED BY <2>1, <2>2, WriteNullKeeps, ReadKeeps
<1>3. CASE \E ch \in Byte : cbuf_write_char(ch)
  BY <1>3, WriteCharKeeps
<1>4. QED BY <1>1, <1>2, <1>3 DEF Transfer

LEMMA AdjustKeeps ==
    ASSUME CInv, Adjust
    PROVE  Kept
<1>0. c.len \in Nat \ {0}
  BY LengthFacts DEF CInv
<1>1. CASE cbuf_reset
  BY <1>1, ResetKeeps
<1>2. CASE \E len \in Lens : cbuf_adjust_size(len)
  BY <1>2, AdjustSizeKeeps
<1>3. CASE cbuf_rewind
  BY <1>3, RewindKeeps
<1>4. ASSUME NEW n \in 1..c.len - 1,
             \/ cbuf_skip(FALSE, n)
             \/ "SW_IS_WRITER" \notin flags /\ cbuf_skip(TRUE, n)
             \/ cbuf_trash(n)
             \/ cbuf_rewind_len(n)
      PROVE  Kept
  <2>1. n \in Nat /\ n \in 0..c.len
    BY <1>0
  <2>2. QED BY <1>4, <2>1, SkipReadKeeps, SkipWriteKeeps, TrashKeeps, RewindLenKeeps, ZenonT(30)
<1>5. QED BY <1>1, <1>2, <1>3, <1>4, ZenonT(30) DEF Adjust

LEMMA RunKeeps ==
    ASSUME CInv, NEW t \in Thread, Run(t)
    PROVE  Kept
<1>1. CASE \E data \in Data(c.len - 1) : cbuf_write_chunks(t, data)
  BY <1>1, DataFacts, WriteChunksKeeps
<1>2. CASE cbuf_write_chunk(t)
  BY <1>2, WriteChunkKeeps
<1>3. CASE \E n \in 1..c.len - 1, block \in BOOLEAN : cbuf_read_start(t, n, block)
  <2>1. PICK n \in 1..c.len - 1, block \in BOOLEAN : cbuf_read_start(t, n, block)
    BY <1>3
  <2>2. n \in Nat
    BY LengthFacts DEF CInv
  <2>3. QED BY <2>1, <2>2, ReadStartKeeps
<1>4. CASE cbuf_read_chunk(t)
  BY <1>4, ReadChunkKeeps
<1>5. CASE cbuf_read_retry(t)
  BY <1>5, ReadRetryKeeps
<1>6. CASE cbuf_reset_indexes(t) \/ cbuf_reset_indexes_locked(t)
  BY <1>6, ResetIndexesKeeps, ResetIndexesLockedKeeps
<1>7. CASE cbuf_reset_with_zero(t) \/ cbuf_reset_with_zero_reset(t) \/ cbuf_reset_with_zero_flag(t)
  BY <1>7, ResetWithZeroKeeps, ResetWithZeroResetKeeps, ResetWithZeroFlagKeeps
<1>8. QED BY <1>1, <1>2, <1>3, <1>4, <1>5, <1>6, <1>7 DEF Run

LEMMA NextKeeps == CInv /\ [Next]_vars => CInv' /\ [Q!Next]_(Q!vars)
<1> SUFFICES ASSUME CInv, [Next]_vars PROVE Kept
  BY DEF Kept
<1>1. CASE Next
  BY <1>1, TransferKeeps, AdjustKeeps, RunKeeps DEF Next
<1>2. CASE UNCHANGED vars
  <2>1. c' = c /\ flags' = flags /\ pc' = pc /\ arg' = arg /\ io' = io
    BY <1>2 DEF vars
  <2>2. CInv'
    BY <2>1 DEF CInv, ThreadsOK, BytesSignaled, SleepersUnsignaled
  <2>3. Contents(c') = Contents(c)
    BY <2>1
  <2>4. QED BY <2>1, <2>2, <2>3 DEF Kept, Q!vars
<1>3. QED BY <1>1, <1>2

LEMMA CbufInvariant == Spec => []CInv
BY InitCInv, NextKeeps, PTL DEF Spec

(***************************************************************************)
(* lib/cbuf/cbuf.c: whatever the length, the flags and the chunk size, and *)
(* whichever calls interleave between the locked sections, the buffer is a *)
(* queue of bytes: a write appends a prefix of what it was given, reads    *)
(* deliver the oldest bytes in order, and the other calls only drop bytes  *)
(* at either end or wipe them in place.                                    *)
(***************************************************************************)
THEOREM CbufImplementsQueue == Spec => ImplementsQueue
BY InitCInv, NextKeeps, PTL DEF Spec, ImplementsQueue, Q!Spec

(***************************************************************************)
(* cbuf_read(), which waits for the event outside of the lock: no reader   *)
(* sleeps while the buffer holds bytes that software wrote, for any number *)
(* of readers and whatever resets, skips and rewinds come in between.      *)
(***************************************************************************)
THEOREM CbufReadersAwake == Spec => []ReadersAwake
<1>1. CInv => ReadersAwake
  BY DEF CInv, BytesSignaled, SleepersUnsignaled, ReadersAwake
<1>2. QED BY <1>1, CbufInvariant, PTL

LEMMA PeekedBytes ==
    ASSUME NEW b \in Buffer
    PROVE  cbuf_peek(b) = Contents(b)
<1> DEFINE ret == Held(b)
           n == IF ret + b.tail > b.len THEN b.len - b.tail ELSE ret
           x == [i \in 1..n |-> b.buf[b.tail + i - 1]]
           y == [i \in 1..ret - n |-> b.buf[i - 1]]
<1>1. b.len \in Nat /\ b.head \in 0..b.len - 1 /\ b.tail \in 0..b.len - 1 /\ b.len <= LenMax
      /\ LenMax \in Nat /\ b.buf \in [0..LenMax - 1 -> Byte]
  BY LengthFacts DEF Buffer
<1>2. cbuf_space_used(b) = ret /\ ret \in 0..b.len - 1
  BY UsedExact
<1>3. cbuf_peek(b) = x \o y
  BY <1>2 DEF cbuf_peek
<1>4. Contents(b) \in Seq(Byte) /\ Len(Contents(b)) = ret /\ \A i \in 1..ret : Contents(b)[i] = b.buf[At(b, i)]
  BY ContentsExact
<1> HIDE DEF ret
<1>5. n \in 0..ret /\ b.tail + n <= b.len /\ (n # ret => b.tail + n = b.len) /\ ret - n <= b.tail /\ ret - n \in Nat
  BY <1>1, <1>2, SMTT(30)
<1> HIDE DEF n
<1>6. x \in Seq(Byte) /\ Len(x) = n
  <2>1. ASSUME NEW i \in 1..n PROVE b.tail + i - 1 \in 0..LenMax - 1
    BY <1>1, <1>2, <1>5, SMTT(30)
  <2>2. x \in [1..n -> Byte]
    BY <1>1, <2>1
  <2>3. QED BY <1>2, <1>5, <2>2
<1>7. y \in Seq(Byte) /\ Len(y) = ret - n
  <2>1. ASSUME NEW i \in 1..ret - n PROVE i - 1 \in 0..LenMax - 1
    BY <1>1, <1>5
  <2>2. y \in [1..ret - n -> Byte]
    BY <1>1, <2>1
  <2>3. QED BY <1>5, <2>2
<1>8. ASSUME NEW i \in 1..n PROVE x[i] = b.buf[At(b, i)]
  BY <1>1, <1>2, <1>5, SMTT(30) DEF At, Around
<1>9. ASSUME NEW j \in 1..ret - n PROVE y[j] = b.buf[At(b, n + j)]
  <2>1. At(b, n + j) = j - 1
    BY <1>1, <1>2, <1>5, SMTT(30) DEF At, Around
  <2>2. QED BY <2>1
<1> HIDE DEF x, y
<1>10. x \o y \in Seq(Byte) /\ Len(x \o y) = ret
  <2>1. x \o y \in Seq(Byte) /\ Len(x \o y) = Len(x) + Len(y)
    BY <1>6, <1>7
  <2>2. QED BY <1>2, <1>5, <1>6, <1>7, <2>1
<1>11. ASSUME NEW i \in 1..ret PROVE (x \o y)[i] = Contents(b)[i]
  <2>1. CASE i <= n
    <3>1. i \in 1..n
      BY <1>2, <1>5, <2>1
    <3>2. (x \o y)[i] = x[i]
      BY <1>6, <1>7, <3>1
    <3>3. QED BY <1>4, <1>8, <3>1, <3>2
  <2>2. CASE i > n
    <3>1. PICK j \in 1..ret - n : n + j = i
      <4>1. i - n \in 1..ret - n /\ n + (i - n) = i
        BY <1>2, <1>5, <2>2
      <4>2. QED BY <4>1
    <3>2. (x \o y)[Len(x) + j] = y[j]
      BY <1>6, <1>7, <3>1
    <3>3. QED BY <1>4, <1>6, <1>9, <3>1, <3>2, ZenonT(30)
  <2>3. i <= n \/ i > n
    BY <1>2, <1>5
  <2>4. QED BY <2>1, <2>2, <2>3, ZenonT(30)
<1>12. x \o y = Contents(b)
  BY <1>4, <1>10, <1>11, SameSequence
<1>13. QED BY <1>3, <1>12, ZenonT(30) DEF x, y

(***************************************************************************)
(* cbuf_peek() shows the bytes of the queue, in the order in which the     *)
(* next reads deliver them, wherever they wrap around.                     *)
(***************************************************************************)
THEOREM CbufPeekExact == Spec => []PeekExact
<1>1. CInv => PeekExact
  BY PeekedBytes DEF CInv, PeekExact
<1>2. QED BY <1>1, CbufInvariant, PTL

-----------------------------------------------------------------------------

\* A pass that uses up a piece fills the buffer, or goes on at the start of it.
LEMMA PieceFilled ==
    ASSUME NEW len \in Nat, NEW h \in 0..len - 1, NEW t \in 0..len - 1, NEW g,
           g = Around(h + Piece(h, t, len), len)
    PROVE  Distance(g, t, len) = len - 1 \/ (h >= t /\ g < t)
BY DEF Distance, Around, Piece

LEMMA PieceTaken ==
    ASSUME NEW len \in Nat, NEW h \in 0..len - 1, NEW t \in 0..len - 1, NEW g, h # t,
           g = Around(t + HeldPiece(h, t, len), len)
    PROVE  g = h \/ (h < t /\ g < h)
BY DEF Around, HeldPiece

LEMMA WritePassEnds ==
    ASSUME NEW b \in Buffer, NEW data \in Seq(Byte \cup {KEEP})
    PROVE  \E d \in Buffer, left \in Seq(Byte \cup {KEEP}) :
              /\ WritePass([b |-> b, rest |-> data]) = [b |-> d, rest |-> left]
              /\ left = <<>> \/ cbuf_space_avail(d) = 0 \/ (b.head >= b.tail /\ d.head < d.tail)
<1> DEFINE w == WritePass([b |-> b, rest |-> data])
<1>1. PICK n \in 0..Len(data), d \in Buffer : Wrote(b, d, data, n) /\ w = [b |-> d, rest |-> Left(data, n)]
  BY PassWrites, ZenonT(30)
<1>2. Left(data, n) \in Seq(Byte \cup {KEEP})
  BY LeftOf
<1>3. CASE data = <<>> \/ cbuf_space_avail(b) = 0
  <2>1. w = [b |-> b, rest |-> data]
    BY <1>3, SMTT(30) DEF WritePass
  <2>2. QED BY <1>3, <2>1
<1>4. CASE ~(data = <<>> \/ cbuf_space_avail(b) = 0)
  <2> DEFINE k == cbuf_get_contiguous_space(b, Len(data))
             len == b.len
  <2>0. len \in Nat \ {0} /\ b.head \in 0..len - 1 /\ b.tail \in 0..len - 1
    BY LengthFacts
  <2>1. w.b.head = INC_POINTER(b, b.head, k) /\ w.rest = Left(data, k)
    BY <1>4, ZenonT(30) DEF WritePass, Left, Buffer
  <2>2. d.head = INC_POINTER(b, b.head, k) /\ d.tail = b.tail /\ d.len = b.len /\ Left(data, n) = Left(data, k)
    <3>1. w.b = d /\ w.rest = Left(data, n)
      BY <1>1
    <3>2. QED BY <1>1, <2>1, <3>1 DEF Wrote, Grown
  <2>3. k = smallest(Len(data), Piece(b.head, b.tail, len))
    BY DEF cbuf_get_contiguous_space, Piece
  <2>4. CASE k = Len(data)
    <3>1. Left(data, k) = <<>>
      BY <2>4, SMTT(30) DEF Left
    <3>2. QED BY <1>1, <1>2, <2>2, <3>1, ZenonT(30)
  <2>5. CASE k = Piece(b.head, b.tail, len)
    <3>1. k \in 0..len
      <4>1. Piece(b.head, b.tail, len) \in Nat
        BY <2>0, PieceIsNat, ZenonT(30)
      <4>2. k \in 0..Piece(b.head, b.tail, len)
        BY <2>5, <4>1
      <4>3. k \in 0..len - Distance(b.head, b.tail, len) - 1
        BY <2>0, <2>5, <4>2, PieceIsFree
      <4>4. Distance(b.head, b.tail, len) \in Nat
        BY <2>0, SMTT(30) DEF Distance
      <4>5. QED BY <2>0, <4>3, <4>4, SMTT(30)
    <3>2. d.head = Around(b.head + Piece(b.head, b.tail, len), len)
      BY <2>0, <2>2, <2>5, <3>1, IncWraps, SMTT(30)
    <3>3. Distance(d.head, b.tail, len) = len - 1 \/ (b.head >= b.tail /\ d.head < b.tail)
      BY <2>0, <3>2, PieceFilled
    <3>4. cbuf_space_avail(d) = d.len - Held(d) - 1
      BY UsedExact
    <3>5. cbuf_space_avail(d) = 0 \/ (b.head >= b.tail /\ d.head < d.tail)
      BY <2>0, <2>2, <3>3, <3>4, SMTT(30) DEF Held
    <3>6. QED BY <1>1, <1>2, <3>5
  <2>6. QED BY <2>3, <2>4, <2>5, ZenonT(30) DEF smallest
<1>5. QED BY <1>3, <1>4, ZenonT(30)

LEMMA ReadPassEnds ==
    ASSUME NEW b \in Buffer, NEW want \in Nat, NEW out \in Seq(Byte)
    PROVE  \E d \in Buffer, left \in Nat, o \in Seq(Byte) :
              /\ ReadPass([b |-> b, want |-> want, out |-> out]) = [b |-> d, want |-> left, out |-> o]
              /\ left = 0 \/ d.tail = d.head \/ (b.head < b.tail /\ d.tail < d.head)
<1> DEFINE r == ReadPass([b |-> b, want |-> want, out |-> out])
<1>1. PICK n \in 0..want, d \in Buffer, x \in Seq(Byte) :
         /\ Shrunk(b, d, n) /\ r = [b |-> d, want |-> want - n, out |-> out \o x]
  BY PassReads, ZenonT(30)
<1>2. want - n \in Nat /\ out \o x \in Seq(Byte)
  OBVIOUS
<1>3. CASE want = 0 \/ b.tail = b.head
  <2>1. r = [b |-> b, want |-> want, out |-> out]
    BY <1>3 DEF ReadPass
  <2>2. QED BY <1>3, <2>1
<1>4. CASE ~(want = 0 \/ b.tail = b.head)
  <2> DEFINE k == cbuf_get_contiguous_used(b, want)
             len == b.len
  <2>0. len \in Nat \ {0} /\ b.head \in 0..len - 1 /\ b.tail \in 0..len - 1 /\ b.head # b.tail
    BY <1>4, LengthFacts
  <2>1. r.b.tail = INC_POINTER(b, b.tail, k) /\ r.want = want - k
    BY <1>4 DEF ReadPass, Buffer
  <2>2. d.tail = INC_POINTER(b, b.tail, k) /\ d.head = b.head /\ want - n = want - k
    <3>1. r.b = d /\ r.want = want - n
      BY <1>1
    <3>2. QED BY <1>1, <2>1, <3>1 DEF Shrunk
  <2>3. k = smallest(want, HeldPiece(b.head, b.tail, len))
    BY SMTT(30) DEF cbuf_get_contiguous_used, HeldPiece
  <2>4. CASE k = want
    <3>1. want - n = 0
      BY <2>2, <2>4
    <3>2. QED BY <1>1, <1>2, <3>1, ZenonT(30)
  <2>5. CASE k = HeldPiece(b.head, b.tail, len)
    <3>1. k \in 0..len
      BY <2>0, <2>5, SMTT(30) DEF HeldPiece
    <3>2. d.tail = Around(b.tail + HeldPiece(b.head, b.tail, len), len)
      BY <2>0, <2>2, <2>5, <3>1, IncWraps
    <3>3. d.tail = b.head \/ (b.head < b.tail /\ d.tail < b.head)
      BY <2>0, <3>2, PieceTaken, SMTT(30)
    <3>4. QED BY <1>1, <1>2, <2>2, <3>3, ZenonT(30)
  <2>6. QED BY <2>3, <2>4, <2>5, ZenonT(30) DEF smallest
<1>5. QED BY <1>3, <1>4, ZenonT(30)

(***************************************************************************)
(* The loops of cbuf_write_wo_lock() and cbuf_read_wo_lock() end after two *)
(* passes, whatever the indexes: the first one reaches the other index or  *)
(* the end of the buffer, and the second one the other index.  A third     *)
(* pass would change nothing.                                              *)
(***************************************************************************)
THEOREM CbufTwoPasses ==
    ASSUME NEW b \in Buffer, NEW data \in Seq(Byte \cup {KEEP}), NEW n \in Nat
    PROVE  LET s == WritePass(WritePass([b |-> b, rest |-> data]))
               r == ReadPass(ReadPass([b |-> b, want |-> n, out |-> <<>>]))
           IN  WritePass(s) = s /\ ReadPass(r) = r
<1>0. ASSUME NEW p \in Buffer PROVE p.head \in Int /\ p.tail \in Int
  BY DEF Buffer
<1> DEFINE s == WritePass(WritePass([b |-> b, rest |-> data]))
           r == ReadPass(ReadPass([b |-> b, want |-> n, out |-> <<>>]))
<1>1. WritePass(s) = s
  <2>1. PICK d \in Buffer, left \in Seq(Byte \cup {KEEP}) :
           /\ WritePass([b |-> b, rest |-> data]) = [b |-> d, rest |-> left]
           /\ left = <<>> \/ cbuf_space_avail(d) = 0 \/ (b.head >= b.tail /\ d.head < d.tail)
    BY WritePassEnds, ZenonT(30)
  <2>2. PICK e \in Buffer, last \in Seq(Byte \cup {KEEP}) :
           /\ WritePass([b |-> d, rest |-> left]) = [b |-> e, rest |-> last]
           /\ last = <<>> \/ cbuf_space_avail(e) = 0 \/ (d.head >= d.tail /\ e.head < e.tail)
    BY WritePassEnds, ZenonT(30)
  <2>3. s = [b |-> e, rest |-> last]
    BY <2>1, <2>2
  <2>4. last = <<>> \/ cbuf_space_avail(e) = 0
    <3>1. CASE left = <<>> \/ cbuf_space_avail(d) = 0
      <4>1. WritePass([b |-> d, rest |-> left]) = [b |-> d, rest |-> left]
        BY <3>1 DEF WritePass
      <4>2. e = d /\ last = left
        <5>1. [b |-> e, rest |-> last] = [b |-> d, rest |-> left]
          BY <2>2, <4>1
        <5>2. [b |-> e, rest |-> last].b = e /\ [b |-> e, rest |-> last].rest = last
          OBVIOUS
        <5>3. QED BY <5>1, <5>2
      <4>3. QED BY <3>1, <4>2
    <3>2. CASE b.head >= b.tail /\ d.head < d.tail
      <4>1. ~(d.head >= d.tail)
        BY <1>0, <3>2
      <4>2. QED BY <2>2, <4>1
    <3>3. QED BY <2>1, <3>1, <3>2
  <2>5. WritePass([b |-> e, rest |-> last]) = [b |-> e, rest |-> last]
    BY <2>4 DEF WritePass
  <2>6. QED BY <2>3, <2>5
<1>2. ReadPass(r) = r
  <2>0. <<>> \in Seq(Byte)
    BY SMTT(30)
  <2>1. PICK d \in Buffer, left \in Nat, o \in Seq(Byte) :
           /\ ReadPass([b |-> b, want |-> n, out |-> <<>>]) = [b |-> d, want |-> left, out |-> o]
           /\ left = 0 \/ d.tail = d.head \/ (b.head < b.tail /\ d.tail < d.head)
    BY <2>0, ReadPassEnds, ZenonT(30)
  <2>2. PICK e \in Buffer, last \in Nat, p \in Seq(Byte) :
           /\ ReadPass([b |-> d, want |-> left, out |-> o]) = [b |-> e, want |-> last, out |-> p]
           /\ last = 0 \/ e.tail = e.head \/ (d.head < d.tail /\ e.tail < e.head)
    BY ReadPassEnds, ZenonT(30)
  <2>3. r = [b |-> e, want |-> last, out |-> p]
    BY <2>1, <2>2
  <2>4. last = 0 \/ e.tail = e.head
    <3>1. CASE left = 0 \/ d.tail = d.head
      <4>1. ReadPass([b |-> d, want |-> left, out |-> o]) = [b |-> d, want |-> left, out |-> o]
        BY <3>1, SMTT(30) DEF ReadPass
      <4>2. e = d /\ last = left
        <5>1. [b |-> e, want |-> last, out |-> p] = [b |-> d, want |-> left, out |-> o]
          BY <2>2, <4>1
        <5>2. [b |-> e, want |-> last, out |-> p].b = e /\ [b |-> e, want |-> last, out |-> p].want = last
          OBVIOUS
        <5>3. QED BY <5>1, <5>2, SMTT(30)
      <4>3. QED BY <3>1, <4>2
    <3>2. CASE b.head < b.tail /\ d.tail < d.head
      <4>1. ~(d.head < d.tail)
        BY <1>0, <3>2
      <4>2. QED BY <2>2, <4>1
    <3>3. QED BY <2>1, <3>1, <3>2
  <2>5. ReadPass([b |-> e, want |-> last, out |-> p]) = [b |-> e, want |-> last, out |-> p]
    BY <2>4 DEF ReadPass
  <2>6. QED BY <2>3, <2>5
<1>3. QED BY <1>1, <1>2
=============================================================================
