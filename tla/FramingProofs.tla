------------------------------- MODULE FramingProofs -------------------------------
(***************************************************************************)
(* Proofs about frames on a connection, for any messages, any limits, any  *)
(* number of frames under way, cut and damaged anywhere.  All that was     *)
(* ever sent is laid out on a wire W, damage included; what the reader has *)
(* not made into frames starts where a frame of W starts.                  *)
(***************************************************************************)
EXTENDS Framing, SequenceTheorems, WellFoundedInduction, TLAPS

--------------------------------------------------------------------------------
(* Induction over numbers, for properties given as sets.                   *)

LEMMA LeastElement ==
  ASSUME NEW T, T \subseteq Nat, T # {}
  PROVE  \E x \in T : \A y \in T : x <= y
<1>1. \E R : IsWellFoundedOn(R, Nat) /\ \A x, y \in Nat : y < x => <<y, x>> \in R
  <2>1. \A x, y \in Nat : y < x => <<y, x>> \in OpToRel(<, Nat)
    BY DEF OpToRel
  <2> QED
    BY <2>1, NatLessThanWellFounded, Zenon
<1>2. PICK R : IsWellFoundedOn(R, Nat) /\ \A x, y \in Nat : y < x => <<y, x>> \in R
  BY <1>1
<1>3. \E x \in T : \A y \in T : <<y, x>> \notin R
  BY <1>2, WFMin, Zenon
<1>4. PICK x \in T : \A y \in T : <<y, x>> \notin R
  BY <1>3
<1>5. ASSUME NEW y \in T PROVE x <= y
  <2>1. x \in Nat /\ y \in Nat
    OBVIOUS
  <2>2. ~(y < x)
    BY <1>2, <1>4, <2>1, Zenon
  <2> QED
    BY <2>1, <2>2
<1> QED
  BY <1>5

LEMMA SetInduction ==
  ASSUME NEW S, 0 \in S, \A n \in Nat : n \in S => n + 1 \in S
  PROVE  Nat \subseteq S
<1> SUFFICES ASSUME Nat \ S # {} PROVE FALSE
  OBVIOUS
<1>1. PICK x \in Nat \ S : \A y \in Nat \ S : x <= y
  BY LeastElement
<1>2. x # 0 /\ x - 1 \in Nat /\ ~(x <= x - 1) /\ (x - 1) + 1 = x
  OBVIOUS
<1> QED
  BY <1>1, <1>2

--------------------------------------------------------------------------------
(* Where frames start.                                                     *)

MessageSeq(ms) == Len(ms) \in Nat /\ \A i \in 1 .. Len(ms) : Len(ms[i].payload) \in Nat

\* The start that follows a start.
After(ms, start, k) == start + kFrameHeaderSize + Len(ms[k].payload)

LEMMA StartsDef ==
  ASSUME NEW ms, Len(ms) \in Nat
  PROVE  /\ Starts(ms)[1] = 0
         /\ \A k \in 1 .. Len(ms) : Starts(ms)[k + 1] = After(ms, Starts(ms)[k], k)
<1> DEFINE Upto(n, g) == g = [k \in 1 .. n + 1 |-> IF k = 1 THEN 0 ELSE After(ms, g[k - 1], k - 1)]
           S == {n \in Nat : \E g : Upto(n, g)}
<1>1. 0 \in S
  <2> DEFINE g == [k \in 1 .. 0 + 1 |-> 0]
  <2>1. Upto(0, g)
    OBVIOUS
  <2> QED
    BY <2>1
<1>2. ASSUME NEW n \in Nat, n \in S PROVE n + 1 \in S
  <2>1. PICK g : Upto(n, g)
    BY <1>2
  <2> DEFINE h == [k \in 1 .. (n + 1) + 1 |-> IF k = n + 2 THEN After(ms, g[n + 1], n + 1) ELSE g[k]]
  <2>2. ASSUME NEW k \in 1 .. (n + 1) + 1
        PROVE  h[k] = IF k = 1 THEN 0 ELSE After(ms, h[k - 1], k - 1)
    <3>1. CASE k = n + 2
      <4>1. h[k] = After(ms, g[n + 1], n + 1) /\ h[n + 1] = g[n + 1] /\ k # 1 /\ k - 1 = n + 1
        BY <3>1
      <4> QED
        BY <4>1, <3>1
    <3>2. CASE k # n + 2
      <4>1. h[k] = g[k] /\ k \in 1 .. n + 1
        BY <3>2
      <4>2. k # 1 => h[k - 1] = g[k - 1]
        BY <3>2
      <4>3. g[k] = IF k = 1 THEN 0 ELSE After(ms, g[k - 1], k - 1)
        BY <2>1, <4>1
      <4> QED
        BY <4>1, <4>2, <4>3
    <3> QED
      BY <3>1, <3>2
  <2>3. Upto(n + 1, h)
    <3>1. h = [k \in 1 .. (n + 1) + 1 |-> h[k]]
      OBVIOUS
    <3> HIDE DEF h
    <3> QED
      BY <2>2, <3>1
  <2>4. n + 1 \in Nat
    OBVIOUS
  <2>5. \E f : Upto(n + 1, f)
    <3> HIDE DEF Upto
    <3> QED
      BY <2>3
  <2> QED
    BY <2>4, <2>5, Zenon
<1>3. Len(ms) \in S
  <2> HIDE DEF S
  <2> QED
    BY <1>1, <1>2, SetInduction
<1>4. Upto(Len(ms), Starts(ms))
  BY <1>3 DEF Starts, After
<1> DEFINE T == Starts(ms)
<1> HIDE DEF T
<1>5. T[1] = 0
  BY <1>4 DEF T
<1>6. ASSUME NEW k \in 1 .. Len(ms) PROVE T[k + 1] = After(ms, T[k], k)
  <2>1. k + 1 \in 1 .. Len(ms) + 1 /\ k + 1 # 1 /\ (k + 1) - 1 = k
    OBVIOUS
  <2> QED
    BY <1>4, <2>1 DEF T
<1> QED
  BY <1>5, <1>6 DEF T

(* Frames follow each other without overlap.                               *)
LEMMA StartsGrow ==
  ASSUME NEW ms, MessageSeq(ms)
  PROVE  /\ \A k \in 1 .. Len(ms) + 1 : Starts(ms)[k] \in Nat
         /\ \A k \in 1 .. Len(ms) + 1 : \A j \in 1 .. k - 1 :
              After(ms, Starts(ms)[j], j) <= Starts(ms)[k]
<1> DEFINE T == Starts(ms)
           Good(k) == T[k] \in Nat /\ \A j \in 1 .. k - 1 : After(ms, T[j], j) <= T[k]
           S == {n \in Nat : n <= Len(ms) => \A k \in 1 .. n + 1 : Good(k)}
<1>1. T[1] = 0 /\ \A k \in 1 .. Len(ms) : T[k + 1] = After(ms, T[k], k)
  BY StartsDef DEF MessageSeq
<1> HIDE DEF T
<1>2. 0 \in S
  BY <1>1
<1>3. ASSUME NEW n \in Nat, n \in S PROVE n + 1 \in S
  <2> SUFFICES ASSUME n + 1 <= Len(ms) PROVE \A k \in 1 .. (n + 1) + 1 : Good(k)
    OBVIOUS
  <2>1. Len(ms) \in Nat /\ (\A k \in 1 .. n + 1 : Good(k)) /\ n + 1 \in 1 .. Len(ms)
    BY <1>3 DEF MessageSeq
  <2>2. T[n + 2] = T[n + 1] + 7 + Len(ms[n + 1].payload) /\ Len(ms[n + 1].payload) \in Nat
    BY <1>1, <2>1 DEF MessageSeq, After, kFrameHeaderSize
  <2>3. T[n + 1] \in Nat /\ T[n + 2] \in Nat /\ T[n + 1] <= T[n + 2]
    BY <2>1, <2>2
  <2>4. ASSUME NEW j \in 1 .. n + 1 PROVE After(ms, T[j], j) <= T[n + 2]
    <3>1. CASE j = n + 1
      BY <2>2, <2>3, <3>1 DEF After, kFrameHeaderSize
    <3>2. CASE j # n + 1
      <4>1. j \in 1 .. (n + 1) - 1 /\ j + 1 \in 1 .. n + 1 /\ j \in 1 .. Len(ms)
        BY <2>1, <3>2
      <4>2. After(ms, T[j], j) <= T[n + 1]
        BY <2>1, <4>1
      <4>3. T[j + 1] = After(ms, T[j], j) /\ T[j + 1] \in Nat
        BY <1>1, <2>1, <4>1
      <4> QED
        BY <2>1, <2>3, <4>2, <4>3
    <3> QED
      BY <3>1, <3>2
  <2>5. Good(n + 2)
    BY <2>3, <2>4
  <2> QED
    BY <2>1, <2>5
<1>4. Len(ms) \in Nat
  BY DEF MessageSeq
<1>5. Len(ms) \in S
  <2> HIDE DEF S
  <2> QED
    BY <1>2, <1>3, <1>4, SetInduction
<1>6. \A k \in 1 .. Len(ms) + 1 : Good(k)
  BY <1>4, <1>5
<1> QED
  BY <1>6 DEF T

(* A further message leaves the starts of the others where they are.       *)
LEMMA StartsAppend ==
  ASSUME NEW ms, NEW ns, MessageSeq(ms), Len(ns) = Len(ms) + 1,
         \A k \in 1 .. Len(ms) : ns[k] = ms[k]
  PROVE  \A k \in 1 .. Len(ms) + 1 : Starts(ns)[k] = Starts(ms)[k]
<1> DEFINE S == {n \in Nat : n <= Len(ms) => Starts(ns)[n + 1] = Starts(ms)[n + 1]}
<1>1. Len(ms) \in Nat /\ Len(ns) \in Nat
  BY DEF MessageSeq
<1>2. 0 \in S
  BY <1>1, StartsDef
<1>3. ASSUME NEW n \in Nat, n \in S PROVE n + 1 \in S
  <2> SUFFICES ASSUME n + 1 <= Len(ms) PROVE Starts(ns)[(n + 1) + 1] = Starts(ms)[(n + 1) + 1]
    OBVIOUS
  <2>1. n + 1 \in 1 .. Len(ms) /\ n + 1 \in 1 .. Len(ns) /\ n <= Len(ms)
    BY <1>1
  <2>2. Starts(ns)[n + 1] = Starts(ms)[n + 1] /\ ns[n + 1] = ms[n + 1]
    BY <1>3, <2>1
  <2>3. /\ Starts(ns)[(n + 1) + 1] = After(ns, Starts(ns)[n + 1], n + 1)
        /\ Starts(ms)[(n + 1) + 1] = After(ms, Starts(ms)[n + 1], n + 1)
    BY <1>1, <2>1, StartsDef
  <2> QED
    BY <2>2, <2>3 DEF After
<1>4. Nat \subseteq S
  <2> HIDE DEF S
  <2> QED
    BY <1>2, <1>3, SetInduction
<1>5. ASSUME NEW k \in 1 .. Len(ms) + 1 PROVE Starts(ns)[k] = Starts(ms)[k]
  <2>1. k - 1 \in Nat /\ k - 1 <= Len(ms) /\ (k - 1) + 1 = k
    BY <1>1
  <2>2. k - 1 \in S
    BY <1>4, <2>1
  <2> QED
    BY <2>1, <2>2
<1> QED
  BY <1>5

--------------------------------------------------------------------------------
(* The decoder's loop.  What it finds from a place on depends on what it   *)
(* finds further on only.                                                  *)

LEMMA TurnLocal ==
  ASSUME NEW in, Len(in) \in Nat, NEW at \in 0 .. Len(in), NEW g, NEW h,
         \A j \in (at + 1) .. Len(in) : g[j] = h[j]
  PROVE  Turn(in, at, g) = Turn(in, at, h)
<1> DEFINE next == at + kFrameHeaderSize + Length(in, at)
<1>1. CASE /\ ~(Len(in) - at < kFrameHeaderSize)
           /\ HeaderValid(in, at)
           /\ ~(Len(in) - at < kFrameHeaderSize + Length(in, at))
  <2>1. Length(in, at) \in Nat
    BY <1>1, FramingConstants DEF HeaderValid, Length
  <2>2. next \in (at + 1) .. Len(in)
    BY <1>1, <2>1 DEF kFrameHeaderSize
  <2>3. g[next] = h[next]
    BY <2>2
  <2> QED
    BY <1>1, <2>3 DEF Turn
<1>2. CASE ~(/\ ~(Len(in) - at < kFrameHeaderSize)
             /\ HeaderValid(in, at)
             /\ ~(Len(in) - at < kFrameHeaderSize + Length(in, at)))
  BY <1>2 DEF Turn
<1> QED
  BY <1>1, <1>2

LEMMA ParsedDef ==
  ASSUME NEW in, Len(in) \in Nat
  PROVE  \A at \in 0 .. Len(in) : Parsed(in)[at] = Turn(in, at, Parsed(in))
<1> DEFINE N == Len(in)
           Upto(n, g) == g = [at \in (N - n + 1) .. N |-> Turn(in, at, g)]
           S == {n \in Nat : n <= N + 1 => \E g : Upto(n, g)}
<1>1. N \in Nat
  OBVIOUS
<1> HIDE DEF N
<1>2. 0 \in S
  <2> DEFINE g == [at \in (N - 0 + 1) .. N |-> 0]
  <2>1. Upto(0, g)
    BY <1>1
  <2> QED
    BY <2>1
<1>3. ASSUME NEW n \in Nat, n \in S PROVE n + 1 \in S
  <2> SUFFICES ASSUME n + 1 <= N + 1 PROVE \E g : Upto(n + 1, g)
    OBVIOUS
  <2>1. PICK g : Upto(n, g)
    BY <1>1, <1>3
  <2> DEFINE m == N - n
             h == [at \in m .. N |-> IF at = m THEN Turn(in, m, g) ELSE g[at]]
  <2>2. m \in 0 .. N /\ N - (n + 1) + 1 = m /\ N - n + 1 = m + 1
    BY <1>1
  <2>3. \A i \in (m + 1) .. N : h[i] = g[i]
    BY <1>1, <2>2
  <2>4. \A i \in (m + 1) .. N : g[i] = Turn(in, i, g)
    <3> HIDE DEF m
    <3> QED
      BY <2>1, <2>2
  <2>5. ASSUME NEW i \in m .. N PROVE h[i] = Turn(in, i, h)
    <3>1. i \in 0 .. N
      BY <1>1, <2>2
    <3>2. \A j \in (i + 1) .. N : g[j] = h[j]
      BY <1>1, <2>2, <2>3
    <3>3. Turn(in, i, g) = Turn(in, i, h)
      <4> HIDE DEF h, m
      <4> QED
        BY <1>1, <3>1, <3>2, TurnLocal DEF N
    <3>4. h[i] = Turn(in, i, g)
      <4>1. CASE i = m
        BY <4>1
      <4>2. CASE i # m
        <5>1. i \in (m + 1) .. N
          BY <1>1, <2>2, <4>2
        <5> QED
          BY <5>1, <2>3, <2>4
      <4> QED
        BY <4>1, <4>2
    <3> QED
      BY <3>3, <3>4
  <2>6. h = [at \in m .. N |-> h[at]]
    OBVIOUS
  <2>7. Upto(n + 1, h)
    <3> HIDE DEF h, m
    <3> QED
      BY <2>2, <2>5, <2>6
  <2> QED
    <3> HIDE DEF h, Upto
    <3> QED
      BY <2>7
<1>4. N + 1 \in S
  <2> HIDE DEF S
  <2> QED
    BY <1>1, <1>2, <1>3, SetInduction
<1>5. \E g : g = [at \in 0 .. N |-> Turn(in, at, g)]
  <2>1. PICK g : Upto(N + 1, g)
    BY <1>1, <1>4
  <2>2. N - (N + 1) + 1 = 0
    BY <1>1
  <2> QED
    BY <1>1, <2>1, <2>2
<1>6. Parsed(in) = [at \in 0 .. N |-> Turn(in, at, Parsed(in))]
  BY <1>5 DEF Parsed, N
<1> DEFINE P == Parsed(in)
<1> HIDE DEF P
<1>7. \A at \in 0 .. N : P[at] = Turn(in, at, P)
  BY <1>6 DEF P
<1> QED
  BY <1>7 DEF P, N

--------------------------------------------------------------------------------
(* The wire: every cell that was ever sent, as it is after any damage.     *)

WireCells == (Nat \ {0}) \X (Nat \cup Seq(Cells) \cup {NoPayload})

\* s holds the cells of W after the first a and up to the first b.
Part(s, W, a, b) ==
  /\ a \in Nat /\ b \in Nat /\ a <= b /\ b <= Len(W)
  /\ s \in Seq(WireCells) /\ Len(s) = b - a
  /\ \A j \in 1 .. Len(s) : s[j] = W[a + j]

LEMMA PartConcat ==
  ASSUME NEW W, NEW s, NEW t, NEW a, NEW b, NEW c, Part(s, W, a, b), Part(t, W, b, c)
  PROVE  Part(s \o t, W, a, c)
<1>1. /\ s \o t \in Seq(WireCells) /\ Len(s \o t) = Len(s) + Len(t)
      /\ \A i \in 1 .. Len(s) + Len(t) : (s \o t)[i] = IF i <= Len(s) THEN s[i] ELSE t[i - Len(s)]
  BY ConcatProperties DEF Part
<1>2. /\ a \in Nat /\ b \in Nat /\ c \in Nat /\ a <= b /\ b <= c /\ c <= Len(W)
      /\ Len(s) = b - a /\ Len(t) = c - b
  BY DEF Part
<1>3. ASSUME NEW i \in 1 .. Len(s \o t) PROVE (s \o t)[i] = W[a + i]
  <2>1. CASE i <= Len(s)
    <3>1. i \in 1 .. Len(s) /\ i \in 1 .. Len(s) + Len(t)
      BY <1>1, <1>2, <2>1
    <3>2. s[i] = W[a + i]
      BY <3>1 DEF Part
    <3> QED
      BY <1>1, <2>1, <3>1, <3>2
  <2>2. CASE ~(i <= Len(s))
    <3>1. i - Len(s) \in 1 .. Len(t) /\ b + (i - Len(s)) = a + i
      BY <1>1, <1>2, <2>2
    <3>2. t[i - Len(s)] = W[b + (i - Len(s))]
      BY <3>1 DEF Part
    <3> QED
      BY <1>1, <1>2, <2>2, <3>1, <3>2
  <2> QED
    BY <2>1, <2>2
<1> QED
  BY <1>1, <1>2, <1>3 DEF Part

LEMMA PartSub ==
  ASSUME NEW W, NEW s, NEW a, NEW b, Part(s, W, a, b),
         NEW i \in Nat, NEW j \in Nat, i <= j, j <= Len(s)
  PROVE  Part(SubSeq(s, i + 1, j), W, a + i, a + j)
<1> DEFINE t == SubSeq(s, i + 1, j)
<1>1. /\ a \in Nat /\ b \in Nat /\ b <= Len(W) /\ Len(s) = b - a /\ s \in Seq(WireCells)
      /\ \A k \in 1 .. Len(s) : s[k] = W[a + k]
  BY DEF Part
<1>2. \A k \in (i + 1) .. j : s[k] \in WireCells
  BY <1>1
<1>3. /\ t \in Seq(WireCells)
      /\ Len(t) = IF i + 1 <= j THEN j - (i + 1) + 1 ELSE 0
      /\ \A k \in 1 .. j - (i + 1) + 1 : t[k] = s[(i + 1) + k - 1]
  BY <1>2, SubSeqProperties
<1> HIDE DEF t
<1>4. Len(t) = j - i
  BY <1>3
<1>5. ASSUME NEW k \in 1 .. Len(t) PROVE t[k] = W[(a + i) + k]
  <2>1. k \in 1 .. j - (i + 1) + 1 /\ (i + 1) + k - 1 = i + k /\ i + k \in 1 .. Len(s)
        /\ a + (i + k) = (a + i) + k
    BY <1>1, <1>4
  <2>2. t[k] = s[i + k]
    BY <1>3, <2>1
  <2> QED
    BY <1>1, <2>1, <2>2
<1>6. a + i \in Nat /\ a + j \in Nat /\ a + i <= a + j /\ a + j <= Len(W) /\ (a + j) - (a + i) = j - i
  BY <1>1
<1>7. Part(t, W, a + i, a + j)
  BY <1>3, <1>4, <1>5, <1>6 DEF Part
<1> QED
  BY <1>7 DEF t

Legal(m) == /\ m.type \in MessageTypes /\ m.payload \in Seq(Cells)
            /\ Len(m.payload) <= max_frame_bytes

\* What no damage changes in the frame of m that starts after cell s: the type is right,
\* the length is some number, and the checksum fits m or nothing.
Laid(W, s, m) ==
  /\ W[s + 3] = <<2, m.type>>
  /\ W[s + 5] \in Cells
  /\ W[s + 6] \in {<<4, m.payload>>, <<4, NoPayload>>}

\* The frame of m as it was sent.
Intact(W, s, m) ==
  /\ \A j \in 1 .. kFrameHeaderSize : W[s + j] = Header(m)[j]
  /\ \A j \in 1 .. Len(m.payload) : W[s + kFrameHeaderSize + j] = m.payload[j]

\* What a turn of the loop makes of a frame and what is found after it.
Continued(m, rest) ==
  IF rest.ok THEN [ok |-> TRUE, frames |-> <<Framed(m)>> \o rest.frames, consumed |-> rest.consumed]
  ELSE Refusal

(* A frame that passes the checks is the one that was sent: only its       *)
(* payload fits its checksum.                                              *)
LEMMA TurnLaid ==
  ASSUME NEW W, NEW in, NEW base, NEW e, Part(in, W, base, e), NEW at \in Nat, at <= Len(in),
         NEW m, Legal(m), Laid(W, base + at, m), NEW from
  PROVE  \/ Turn(in, at, from) = Waiting(at)
         \/ Turn(in, at, from) = Refusal
         \/ /\ at + kFrameHeaderSize + Len(m.payload) <= Len(in)
            /\ Turn(in, at, from) = Continued(m, from[at + kFrameHeaderSize + Len(m.payload)])
<1> SUFFICES ASSUME ~(Len(in) - at < kFrameHeaderSize), HeaderValid(in, at),
                    ~(Len(in) - at < kFrameHeaderSize + Length(in, at)),
                    crc32(Payload(in, at)) = in[at + 6][2]
             PROVE  /\ at + kFrameHeaderSize + Len(m.payload) <= Len(in)
                    /\ Turn(in, at, from) = Continued(m, from[at + kFrameHeaderSize + Len(m.payload)])
  BY DEF Turn
<1>1. /\ Len(in) \in Nat /\ base \in Nat /\ in \in Seq(WireCells)
      /\ \A j \in 1 .. Len(in) : in[j] = W[base + j]
  BY DEF Part
<1>2. at + 3 \in 1 .. Len(in) /\ at + 6 \in 1 .. Len(in) /\ at + 7 <= Len(in)
  BY <1>1 DEF kFrameHeaderSize
<1>3. base + (at + 3) = (base + at) + 3 /\ base + (at + 6) = (base + at) + 6
  BY <1>1
<1>4. in[at + 3] = <<2, m.type>> /\ in[at + 6] \in {<<4, m.payload>>, <<4, NoPayload>>}
  BY <1>1, <1>2, <1>3 DEF Laid
<1>5. Length(in, at) \in Nat
  BY FramingConstants DEF HeaderValid, Length
<1> DEFINE L == Length(in, at)
           p == Payload(in, at)
<1>6. at + 7 + L <= Len(in)
  BY <1>1, <1>5 DEF kFrameHeaderSize
<1>7. p \in Seq(WireCells) /\ Len(p) = L
  <2>1. \A i \in at + 7 + 1 .. at + 7 + L : in[i] \in WireCells
    <3> SUFFICES ASSUME NEW i \in at + 7 + 1 .. at + 7 + L PROVE in[i] \in WireCells
      OBVIOUS
    <3>1. i \in 1 .. Len(in)
      BY <1>1, <1>5, <1>6
    <3> QED
      BY <1>1, <3>1
  <2>2. at + 7 + 1 \in Int /\ at + 7 + L \in Int
    BY <1>5
  <2>3. /\ SubSeq(in, at + 7 + 1, at + 7 + L) \in Seq(WireCells)
        /\ Len(SubSeq(in, at + 7 + 1, at + 7 + L)) =
             IF at + 7 + 1 <= at + 7 + L THEN (at + 7 + L) - (at + 7 + 1) + 1 ELSE 0
    BY <2>1, <2>2, SubSeqProperties
  <2>4. p = SubSeq(in, at + 7 + 1, at + 7 + L)
    BY DEF Payload, kFrameHeaderSize
  <2>5. (IF at + 7 + 1 <= at + 7 + L THEN (at + 7 + L) - (at + 7 + 1) + 1 ELSE 0) = L
    BY <1>5
  <2> QED
    BY <2>3, <2>4, <2>5
<1> HIDE DEF p
<1>8. p # NoPayload
  <2>1. SUFFICES ASSUME p = NoPayload PROVE FALSE
    OBVIOUS
  <2>2. Len(p) = 1 /\ p[1] = <<0, -1>>
    BY <2>1 DEF NoPayload
  <2>3. p[1] \in WireCells
    <3>1. 1 \in 1 .. Len(p)
      BY <2>2
    <3> HIDE DEF WireCells
    <3> QED
      BY <1>7, <3>1
  <2> QED
    BY <2>2, <2>3 DEF WireCells
<1>9. p = m.payload
  <2>1. p = in[at + 6][2]
    BY DEF crc32, p
  <2> QED
    BY <1>4, <1>8, <2>1
<1>10. L = Len(m.payload)
  BY <1>7, <1>9
<1>11. Frame(in, at) = Framed(m)
  BY <1>4, <1>9 DEF Frame, Framed, p
<1> QED
  BY <1>6, <1>10, <1>11 DEF Turn, Continued, kFrameHeaderSize

(* A frame as it was sent is completed once all of it is there.            *)
LEMMA TurnIntact ==
  ASSUME NEW W, NEW in, NEW base, NEW e, Part(in, W, base, e), NEW at \in Nat, at <= Len(in),
         NEW m, Legal(m), Intact(W, base + at, m), NEW from
  PROVE  \/ /\ Len(in) < at + kFrameHeaderSize + Len(m.payload)
            /\ Turn(in, at, from) = Waiting(at)
         \/ /\ at + kFrameHeaderSize + Len(m.payload) <= Len(in)
            /\ Turn(in, at, from) = Continued(m, from[at + kFrameHeaderSize + Len(m.payload)])
<1> DEFINE N == Len(m.payload)
<1>1. /\ Len(in) \in Nat /\ base \in Nat /\ in \in Seq(WireCells)
      /\ \A j \in 1 .. Len(in) : in[j] = W[base + j]
  BY DEF Part
<1>2. N \in Nat /\ N <= max_frame_bytes /\ max_frame_bytes \in Nat /\ m.type \in MessageTypes
      /\ m.payload \in Seq(Cells)
  BY FramingConstants DEF Legal
<1> HIDE DEF N
<1> SUFFICES \/ Len(in) < at + 7 + N /\ Turn(in, at, from) = Waiting(at)
             \/ /\ at + 7 + N <= Len(in)
                /\ Turn(in, at, from) = Continued(m, from[at + 7 + N])
  BY DEF N, kFrameHeaderSize
<1>3. CASE Len(in) - at < 7
  BY <1>1, <1>2, <1>3 DEF Turn, kFrameHeaderSize
<1>4. CASE ~(Len(in) - at < 7)
  <2>1. \A j \in 1 .. 7 : at + j \in 1 .. Len(in) /\ base + (at + j) = (base + at) + j
    BY <1>1, <1>4
  <2>2. \A j \in 1 .. 7 : in[at + j] = Header(m)[j]
    BY <1>1, <2>1 DEF Intact, kFrameHeaderSize
  <2>3. /\ in[at + 1] = <<4, 4242>> /\ in[at + 2] = <<2, 1>> /\ in[at + 3] = <<2, m.type>>
        /\ in[at + 4] = <<4, Flags(m.type)>> /\ in[at + 5] = <<4, N>>
        /\ in[at + 6] = <<4, m.payload>>
    <3>1. /\ Header(m)[1] = <<4, 4242>> /\ Header(m)[2] = <<2, 1>> /\ Header(m)[3] = <<2, m.type>>
          /\ Header(m)[4] = <<4, Flags(m.type)>> /\ Header(m)[5] = <<4, N>>
          /\ Header(m)[6] = <<4, m.payload>>
      BY DEF Header, crc32, N
    <3> DEFINE H == Header(m)
               Same(j) == in[at + j] = H[j]
    <3>2. \A j \in 1 .. 7 : Same(j)
      BY <2>2
    <3> HIDE DEF H, Same
    <3>3. Same(1) /\ Same(2) /\ Same(3) /\ Same(4) /\ Same(5) /\ Same(6)
      BY <3>2
    <3> QED
      BY <3>1, <3>3 DEF H, Same
  <2>4. Flags(m.type) \in kKnownFrameFlags
    BY DEF Flags, kKnownFrameFlags
  <2>5. HeaderValid(in, at) /\ Length(in, at) = N
    BY <1>2, <2>3, <2>4 DEF HeaderValid, Length
  <2>6. CASE Len(in) - at < 7 + N
    BY <1>1, <1>2, <1>4, <2>5, <2>6 DEF Turn, kFrameHeaderSize
  <2>7. CASE ~(Len(in) - at < 7 + N)
    <3>1. at + 7 + N <= Len(in)
      BY <1>1, <1>2, <2>7
    <3>2. \A i \in 1 .. N : at + 7 + i \in 1 .. Len(in) /\ base + (at + 7 + i) = (base + at) + 7 + i
      BY <1>1, <1>2, <3>1
    <3>3. \A i \in 1 .. N : in[at + 7 + i] = m.payload[i]
      BY <1>1, <3>2 DEF Intact, kFrameHeaderSize, N
    <3> DEFINE p == SubSeq(in, at + 7 + 1, at + 7 + N)
    <3>4. \A i \in at + 7 + 1 .. at + 7 + N : in[i] \in WireCells
      <4> SUFFICES ASSUME NEW i \in at + 7 + 1 .. at + 7 + N PROVE in[i] \in WireCells
        OBVIOUS
      <4>1. i \in 1 .. Len(in)
        BY <1>1, <1>2, <3>1
      <4> QED
        BY <1>1, <4>1
    <3>5. at + 7 + 1 \in Int /\ at + 7 + N \in Int
      BY <1>2
    <3>6. /\ p \in Seq(WireCells)
          /\ Len(p) = IF at + 7 + 1 <= at + 7 + N THEN (at + 7 + N) - (at + 7 + 1) + 1 ELSE 0
          /\ \A i \in 1 .. (at + 7 + N) - (at + 7 + 1) + 1 : p[i] = in[(at + 7 + 1) + i - 1]
      BY <3>4, <3>5, SubSeqProperties
    <3> HIDE DEF p
    <3>7. Len(p) = N
      BY <1>2, <3>6
    <3>8. ASSUME NEW i \in 1 .. N PROVE p[i] = m.payload[i]
      <4>1. i \in 1 .. (at + 7 + N) - (at + 7 + 1) + 1 /\ (at + 7 + 1) + i - 1 = at + 7 + i
        BY <1>2
      <4> QED
        BY <3>3, <3>6, <4>1
    <3>9. m.payload \in Seq(WireCells)
      <4>1. Cells \subseteq WireCells
        BY DEF Cells, WireCells
      <4> QED
        BY <1>2, <4>1
    <3>10. p = m.payload
      BY <3>6, <3>7, <3>8, <3>9, SeqEqual DEF N
    <3>11. Payload(in, at) = m.payload
      BY <2>5, <3>10 DEF Payload, kFrameHeaderSize, p
    <3>12. Frame(in, at) = Framed(m)
      BY <2>3, <3>11 DEF Frame, Framed
    <3> QED
      BY <1>4, <2>3, <2>5, <2>7, <3>1, <3>11, <3>12
      DEF Turn, Continued, kFrameHeaderSize, crc32
  <2> QED
    BY <2>6, <2>7
<1> QED
  BY <1>3, <1>4

--------------------------------------------------------------------------------
(* What the decoder finds in a buffer that starts where a frame starts.    *)

\* The frames of c messages from the k-th on, as a result that ends where the next starts.
FramesFrom(ms, k, c) == [i \in 1 .. c |-> Framed(ms[k - 1 + i])]
Done(ms, k, c, base) ==
  [ok |-> TRUE, frames |-> FramesFrom(ms, k, c), consumed |-> Starts(ms)[k + c] - base]

FrameRecords == [type : MessageTypes, payload : Seq(Cells)]

LEMMA FramesFromType ==
  ASSUME NEW ms, NEW k \in Nat \ {0}, NEW c \in Nat, \A i \in 1 .. c : Legal(ms[k - 1 + i])
  PROVE  FramesFrom(ms, k, c) \in Seq(FrameRecords) /\ Len(FramesFrom(ms, k, c)) = c
<1> DEFINE F == FramesFrom(ms, k, c)
<1>1. \A i \in 1 .. c : Framed(ms[k - 1 + i]) \in FrameRecords
  BY DEF Legal, Framed, FrameRecords
<1>2. F \in [1 .. c -> FrameRecords]
  BY <1>1 DEF FramesFrom
<1> QED
  BY <1>2 DEF FramesFrom

LEMMA FramesFromFirst ==
  ASSUME NEW ms, NEW k \in Nat \ {0}, NEW c \in Nat, \A i \in 1 .. c + 1 : Legal(ms[k - 1 + i])
  PROVE  <<Framed(ms[k])>> \o FramesFrom(ms, k + 1, c) = FramesFrom(ms, k, c + 1)
<1> DEFINE F == FramesFrom(ms, k + 1, c)
           G == FramesFrom(ms, k, c + 1)
           H == <<Framed(ms[k])>>
<1>1. \A i \in 1 .. c : Legal(ms[(k + 1) - 1 + i])
  <2> SUFFICES ASSUME NEW i \in 1 .. c PROVE Legal(ms[(k + 1) - 1 + i])
    OBVIOUS
  <2>1. i + 1 \in 1 .. c + 1 /\ (k + 1) - 1 + i = k - 1 + (i + 1)
    OBVIOUS
  <2> QED
    BY <2>1
<1>0. k + 1 \in Nat \ {0} /\ c + 1 \in Nat
  OBVIOUS
<1>2. F \in Seq(FrameRecords) /\ Len(F) = c
  BY <1>0, <1>1, FramesFromType
<1>3. G \in Seq(FrameRecords) /\ Len(G) = c + 1
  BY <1>0, FramesFromType
<1>4. k - 1 + 1 = k /\ 1 \in 1 .. c + 1
  OBVIOUS
<1>5. Legal(ms[k])
  BY <1>4
<1>6. Framed(ms[k]) \in FrameRecords
  BY <1>5 DEF Legal, Framed, FrameRecords
<1>7. H \in Seq(FrameRecords) /\ Len(H) = 1 /\ H[1] = Framed(ms[k])
  BY <1>6
<1>8. \A i \in 1 .. c : F[i] = Framed(ms[k - 1 + (i + 1)])
  <2> SUFFICES ASSUME NEW i \in 1 .. c PROVE F[i] = Framed(ms[k - 1 + (i + 1)])
    OBVIOUS
  <2>1. (k + 1) - 1 + i = k - 1 + (i + 1)
    OBVIOUS
  <2>2. F[i] = Framed(ms[(k + 1) - 1 + i])
    BY DEF FramesFrom
  <2> QED
    BY <2>1, <2>2
<1>9. \A i \in 1 .. c + 1 : G[i] = Framed(ms[k - 1 + i])
  BY DEF FramesFrom
<1> HIDE DEF F, G, H
<1>10. /\ H \o F \in Seq(FrameRecords) /\ Len(H \o F) = 1 + c
       /\ \A i \in 1 .. 1 + c : (H \o F)[i] = IF i <= 1 THEN H[i] ELSE F[i - 1]
  <2>1. /\ H \o F \in Seq(FrameRecords) /\ Len(H \o F) = Len(H) + Len(F)
        /\ \A i \in 1 .. Len(H) + Len(F) :
             (H \o F)[i] = IF i <= Len(H) THEN H[i] ELSE F[i - Len(H)]
    BY <1>2, <1>7, ConcatProperties
  <2> HIDE DEF FrameRecords
  <2> QED
    BY <1>2, <1>7, <2>1
<1>11. ASSUME NEW i \in 1 .. c + 1 PROVE (H \o F)[i] = G[i]
  <2>1. CASE i = 1
    BY <1>4, <1>7, <1>9, <1>10, <2>1
  <2>2. CASE i # 1
    <3>1. i - 1 \in 1 .. c /\ (i - 1) + 1 = i /\ ~(i <= 1) /\ i \in 1 .. 1 + c
      BY <2>2
    <3>2. (H \o F)[i] = F[i - 1]
      BY <1>10, <3>1
    <3>3. F[i - 1] = Framed(ms[k - 1 + ((i - 1) + 1)])
      BY <1>8, <3>1
    <3> QED
      BY <1>9, <3>1, <3>2, <3>3
  <2> QED
    BY <2>1, <2>2
<1>12. Len(H \o F) = Len(G)
  BY <1>3, <1>10
<1>13. H \o F = G
  BY <1>3, <1>10, <1>11, <1>12, SeqEqual
<1> QED
  BY <1>13 DEF F, G, H

\* Every frame of the messages ms is on the wire, or is there as it was sent.
AllLaid(W, ms) == \A k \in 1 .. Len(ms) : Laid(W, Starts(ms)[k], ms[k])
AllIntact(W, ms) == \A k \in 1 .. Len(ms) : Intact(W, Starts(ms)[k], ms[k])

AllLegal(ms) == Len(ms) \in Nat /\ \A k \in 1 .. Len(ms) : Legal(ms[k])

LEMMA LegalMessages ==
  ASSUME NEW ms, AllLegal(ms)
  PROVE  MessageSeq(ms)
  BY DEF AllLegal, Legal, MessageSeq

\* r is what the decoder finds from the k-th frame on among the first e cells: a refusal,
\* which takes some damage, or frames that are all that is complete unless there is damage.
Finds(r, W, ms, k, base, e) ==
  \/ r = Refusal /\ ~AllIntact(W, ms)
  \/ \E c \in 0 .. Len(ms) + 1 - k :
       /\ Starts(ms)[k + c] <= e
       /\ r = Done(ms, k, c, base)
       /\ AllIntact(W, ms) => k + c = Len(ms) + 1 \/ e < Starts(ms)[k + c + 1]

LEMMA FindsNothing ==
  ASSUME NEW W, NEW ms, AllLegal(ms), NEW k \in 1 .. Len(ms) + 1, NEW base \in Nat, NEW e \in Nat,
         NEW at, base + at = Starts(ms)[k], at \in Nat, Starts(ms)[k] <= e,
         AllIntact(W, ms) => k = Len(ms) + 1 \/ e < Starts(ms)[k + 1]
  PROVE  Finds(Waiting(at), W, ms, k, base, e)
<1>1. Len(ms) \in Nat
  BY DEF AllLegal
<1>2. k + 0 = k /\ 0 \in 0 .. Len(ms) + 1 - k
  BY <1>1
<1>3. FramesFrom(ms, k, 0) = << >>
  BY DEF FramesFrom
<1>4. Starts(ms)[k] - base = at
  BY DEF AllLegal
<1>5. Waiting(at) = Done(ms, k, 0, base)
  BY <1>2, <1>3, <1>4 DEF Done, Waiting
<1> QED
  BY <1>2, <1>5 DEF Finds

(* A turn extends what is found by the frame it is at.                     *)
LEMMA FindsOneMore ==
  ASSUME NEW W, NEW ms, AllLegal(ms), NEW k \in 1 .. Len(ms), NEW base, NEW e, NEW r,
         Finds(r, W, ms, k + 1, base, e)
  PROVE  Finds(Continued(ms[k], r), W, ms, k, base, e)
<1>1. Len(ms) \in Nat
  BY DEF AllLegal
<1>2. CASE r = Refusal /\ ~AllIntact(W, ms)
  <2>1. Continued(ms[k], r) = Refusal
    BY <1>2 DEF Continued, Refusal
  <2> QED
    BY <1>2, <2>1 DEF Finds
<1>3. ASSUME NEW c \in 0 .. Len(ms) + 1 - (k + 1),
             Starts(ms)[(k + 1) + c] <= e,
             r = Done(ms, k + 1, c, base),
             AllIntact(W, ms) => (k + 1) + c = Len(ms) + 1 \/ e < Starts(ms)[(k + 1) + c + 1]
      PROVE  Finds(Continued(ms[k], r), W, ms, k, base, e)
  <2>1. /\ c \in Nat /\ k \in Nat \ {0}
        /\ (k + 1) + c = k + (c + 1) /\ c + 1 \in 0 .. Len(ms) + 1 - k
        /\ (k + 1) + c + 1 = k + (c + 1) + 1
    BY <1>1
  <2>2. \A i \in 1 .. c + 1 : Legal(ms[k - 1 + i])
    <3> SUFFICES ASSUME NEW i \in 1 .. c + 1 PROVE Legal(ms[k - 1 + i])
      OBVIOUS
    <3>1. k - 1 + i \in 1 .. Len(ms)
      BY <1>1, <2>1
    <3> QED
      BY <3>1 DEF AllLegal
  <2>3. <<Framed(ms[k])>> \o FramesFrom(ms, k + 1, c) = FramesFrom(ms, k, c + 1)
    BY <2>1, <2>2, FramesFromFirst
  <2>4. Continued(ms[k], r) =
          [ok |-> TRUE, frames |-> <<Framed(ms[k])>> \o FramesFrom(ms, k + 1, c),
           consumed |-> Starts(ms)[(k + 1) + c] - base]
    BY <1>3 DEF Continued, Done
  <2>5. Continued(ms[k], r) = Done(ms, k, c + 1, base)
    BY <2>1, <2>3, <2>4 DEF Done
  <2> QED
    BY <1>3, <2>1, <2>5 DEF Finds
<1> QED
  BY <1>2, <1>3 DEF Finds

LEMMA ParsedFinds ==
  ASSUME NEW W, NEW ms, AllLegal(ms), AllLaid(W, ms), Len(W) = Starts(ms)[Len(ms) + 1],
         NEW f \in 0 .. Len(ms), NEW e, NEW in, Part(in, W, Starts(ms)[f + 1], e)
  PROVE  Finds(Parsed(in)[0], W, ms, f + 1, Starts(ms)[f + 1], e)
<1> DEFINE T == Starts(ms)
           M == Len(ms)
           base == T[f + 1]
           P == Parsed(in)
           Good(k) == T[k] <= e => Finds(P[T[k] - base], W, ms, k, base, e)
           S == {n \in Nat : \A k \in f + 1 .. M + 1 : M + 1 - k <= n => Good(k)}
<1>1. M \in Nat /\ MessageSeq(ms) /\ f + 1 \in 1 .. M + 1
  BY LegalMessages DEF AllLegal
<1>2. /\ \A k \in 1 .. M + 1 : T[k] \in Nat
      /\ \A k \in 1 .. M + 1 : \A j \in 1 .. k - 1 : After(ms, T[j], j) <= T[k]
  BY <1>1, StartsGrow
<1>3. \A k \in 1 .. M : T[k + 1] = T[k] + 7 + Len(ms[k].payload) /\ Len(ms[k].payload) \in Nat
  BY <1>1, StartsDef DEF After, MessageSeq, kFrameHeaderSize
<1>4. base \in Nat /\ e \in Nat /\ base <= e /\ e <= T[M + 1] /\ Len(in) = e - base /\ Len(in) \in Nat
  BY DEF Part
<1>5. \A at \in 0 .. Len(in) : P[at] = Turn(in, at, P)
  BY <1>4, ParsedDef
<1>0. base = T[f + 1] /\ Part(in, W, base, e)
  OBVIOUS
<1> HIDE DEF P, T, M, base
<1>6. \A k \in f + 1 .. M + 1 : base <= T[k]
  <2> SUFFICES ASSUME NEW k \in f + 1 .. M + 1 PROVE base <= T[k]
    OBVIOUS
  <2>1. CASE k = f + 1
    BY <1>0, <1>4, <2>1
  <2>2. CASE k # f + 1
    <3>1. k \in 1 .. M + 1 /\ f + 1 \in 1 .. k - 1 /\ f + 1 \in 1 .. M
      BY <1>1, <2>2
    <3>2. T[f + 1] + 7 + Len(ms[f + 1].payload) <= T[k]
      BY <1>2, <3>1 DEF After, kFrameHeaderSize
    <3>3. T[k] \in Nat /\ Len(ms[f + 1].payload) \in Nat
      BY <1>2, <1>3, <3>1
    <3>4. base + 7 + Len(ms[f + 1].payload) <= T[k]
      BY <1>0, <3>2
    <3> DEFINE l == Len(ms[f + 1].payload)
    <3> HIDE DEF l
    <3>5. base \in Nat /\ l \in Nat /\ T[k] \in Nat /\ base + 7 + l <= T[k]
      BY <1>4, <3>3, <3>4 DEF l
    <3> QED
      BY <3>5
  <2> QED
    BY <2>1, <2>2
<1>7. ASSUME NEW k \in f + 1 .. M + 1, T[k] <= e
      PROVE  /\ T[k] - base \in 0 .. Len(in) /\ base + (T[k] - base) = T[k]
             /\ k \in 1 .. M + 1 /\ T[k] - base \in Nat /\ T[k] \in Nat
  BY <1>1, <1>2, <1>4, <1>6, <1>7
<1>8. 0 \in S
  <2> SUFFICES ASSUME NEW k \in f + 1 .. M + 1, M + 1 - k <= 0, T[k] <= e
               PROVE  Finds(P[T[k] - base], W, ms, k, base, e)
    OBVIOUS
  <2>1. k = M + 1
    BY <1>1
  <2>2. T[k] - base \in 0 .. Len(in) /\ base + (T[k] - base) = T[k] /\ T[k] - base \in Nat
        /\ T[k] \in Nat
    BY <1>7
  <2>3. Len(in) - (T[k] - base) < 7
    BY <1>4, <2>1, <2>2
  <2>4. P[T[k] - base] = Waiting(T[k] - base)
    BY <1>5, <2>2, <2>3 DEF Turn, kFrameHeaderSize
  <2>5. Finds(Waiting(T[k] - base), W, ms, k, base, e)
    BY <1>4, <1>7, <2>1, <2>2, FindsNothing DEF T, M
  <2> QED
    BY <2>4, <2>5
<1>9. ASSUME NEW n \in Nat, n \in S PROVE n + 1 \in S
  <2> SUFFICES ASSUME NEW k \in f + 1 .. M + 1, M + 1 - k <= n + 1, T[k] <= e
               PROVE  Finds(P[T[k] - base], W, ms, k, base, e)
    OBVIOUS
  <2>1. CASE M + 1 - k <= n
    BY <1>9, <2>1
  <2>2. CASE ~(M + 1 - k <= n)
    <3> DEFINE at == T[k] - base
               m == ms[k]
               L == Len(m.payload)
    <3>1. k \in 1 .. M /\ k + 1 \in f + 1 .. M + 1 /\ M + 1 - (k + 1) <= n
      BY <1>1, <2>2
    <3>2. at \in 0 .. Len(in) /\ base + at = T[k] /\ at \in Nat /\ T[k] \in Nat
      BY <1>7
    <3>3. T[k + 1] = T[k] + 7 + L /\ L \in Nat
      BY <1>3, <3>1
    <3>4. P[at] = Turn(in, at, P)
      BY <1>5, <3>2
    <3>5. Legal(m) /\ Laid(W, base + at, m)
      BY <3>1, <3>2 DEF AllLegal, AllLaid, T, M
    <3> HIDE DEF at, m, L
    <3>6. T[k + 1] - base = at + 7 + L
      <4> DEFINE t == T[k]
                 u == T[k + 1]
      <4>1. u = t + 7 + L /\ base + at = t /\ t \in Nat
        BY <3>2, <3>3
      <4> HIDE DEF t, u
      <4>2. u - base = at + 7 + L
        BY <1>4, <3>2, <3>3, <4>1
      <4> QED
        BY <4>2 DEF u
    <3>11. at <= Len(in)
      BY <1>4, <3>2
    <3>7. at + 7 + L <= Len(in) => Finds(P[at + 7 + L], W, ms, k + 1, base, e)
      <4> SUFFICES ASSUME at + 7 + L <= Len(in) PROVE Finds(P[at + 7 + L], W, ms, k + 1, base, e)
        OBVIOUS
      <4>1. T[k + 1] <= e
        BY <1>4, <3>2, <3>3
      <4>2. Good(k + 1)
        BY <1>9, <3>1
      <4> QED
        BY <3>6, <4>1, <4>2
    <3>8. at + 7 + L <= Len(in) => Finds(Continued(m, P[at + 7 + L]), W, ms, k, base, e)
      BY <3>1, <3>7, FindsOneMore DEF m, M
    <3>9. CASE AllIntact(W, ms)
      <4>1. Intact(W, base + at, m)
        BY <3>1, <3>2, <3>9 DEF AllIntact, T, M, m
      <4>2. \/ Len(in) < at + 7 + L /\ P[at] = Waiting(at)
            \/ at + 7 + L <= Len(in) /\ P[at] = Continued(m, P[at + 7 + L])
        <5>1. \/ /\ Len(in) < at + kFrameHeaderSize + Len(m.payload)
                 /\ Turn(in, at, P) = Waiting(at)
              \/ /\ at + kFrameHeaderSize + Len(m.payload) <= Len(in)
                 /\ Turn(in, at, P) = Continued(m, P[at + kFrameHeaderSize + Len(m.payload)])
          BY <1>0, <3>2, <3>5, <3>11, <4>1, TurnIntact
        <5> QED
          BY <3>4, <5>1 DEF kFrameHeaderSize, L
      <4>3. ASSUME Len(in) < at + 7 + L PROVE Finds(Waiting(at), W, ms, k, base, e)
        <5>1. e < T[k + 1]
          BY <1>4, <3>2, <3>3, <4>3
        <5> QED
          BY <1>4, <1>7, <3>2, <5>1, FindsNothing DEF T, M
      <4> QED
        BY <3>8, <4>2, <4>3 DEF at
    <3>10. CASE ~AllIntact(W, ms)
      <4>1. \/ P[at] = Waiting(at)
            \/ P[at] = Refusal
            \/ at + 7 + L <= Len(in) /\ P[at] = Continued(m, P[at + 7 + L])
        <5>1. \/ Turn(in, at, P) = Waiting(at)
              \/ Turn(in, at, P) = Refusal
              \/ /\ at + kFrameHeaderSize + Len(m.payload) <= Len(in)
                 /\ Turn(in, at, P) = Continued(m, P[at + kFrameHeaderSize + Len(m.payload)])
          BY <1>0, <3>2, <3>5, <3>11, TurnLaid
        <5> QED
          BY <3>4, <5>1 DEF kFrameHeaderSize, L
      <4>2. Finds(Waiting(at), W, ms, k, base, e)
        BY <1>4, <1>7, <3>2, <3>10, FindsNothing DEF T, M
      <4>3. Finds(Refusal, W, ms, k, base, e)
        BY <3>10 DEF Finds
      <4> QED
        BY <3>8, <4>1, <4>2, <4>3 DEF at
    <3> QED
      BY <3>9, <3>10
  <2> QED
    BY <2>1, <2>2
<1>10. M \in S
  <2> HIDE DEF S
  <2> QED
    BY <1>1, <1>8, <1>9, SetInduction
<1>11. Good(f + 1)
  <2>1. f + 1 \in f + 1 .. M + 1 /\ M + 1 - (f + 1) <= M
    BY <1>1
  <2> QED
    BY <1>10, <2>1
<1>12. base - base = 0
  BY <1>4
<1> QED
  BY <1>0, <1>4, <1>11, <1>12 DEF T, P, base

--------------------------------------------------------------------------------
(* The wire grows and its cells change.                                    *)

\* V continues W.
Extends(V, W) == /\ Len(W) \in Nat /\ Len(V) \in Nat /\ Len(W) <= Len(V)
                 /\ \A j \in 1 .. Len(W) : V[j] = W[j]

LEMMA PartExtends ==
  ASSUME NEW W, NEW V, Extends(V, W), NEW s, NEW a, NEW b, Part(s, W, a, b)
  PROVE  Part(s, V, a, b)
<1>1. /\ a \in Nat /\ b \in Nat /\ a <= b /\ b <= Len(W) /\ Len(s) = b - a
      /\ Len(W) \in Nat /\ Len(V) \in Nat /\ Len(W) <= Len(V)
  BY DEF Part, Extends
<1>2. ASSUME NEW j \in 1 .. Len(s) PROVE s[j] = V[a + j]
  <2>1. a + j \in 1 .. Len(W)
    BY <1>1
  <2> QED
    BY <2>1 DEF Part, Extends
<1>3. b <= Len(V)
  BY <1>1
<1> QED
  BY <1>2, <1>3 DEF Part

LEMMA FrameExtends ==
  ASSUME NEW W, NEW V, Extends(V, W), NEW s \in Nat, NEW m, Legal(m),
         s + kFrameHeaderSize + Len(m.payload) <= Len(W)
  PROVE  /\ Laid(W, s, m) => Laid(V, s, m)
         /\ Intact(W, s, m) => Intact(V, s, m)
<1> DEFINE L == Len(m.payload)
<1>0. L \in Nat
  BY DEF Legal
<1>1. s + 7 + L <= Len(W) /\ Len(W) \in Nat
  BY DEF Extends, kFrameHeaderSize
<1>2. \A j \in 1 .. Len(W) : V[j] = W[j]
  BY DEF Extends
<1>3. \A j \in 1 .. L : V[s + 7 + j] = W[s + 7 + j]
  <2> HIDE DEF L
  <2>1. \A j \in 1 .. L : s + 7 + j \in 1 .. Len(W)
    BY <1>0, <1>1
  <2> QED
    BY <1>2, <2>1
<1>6. \A j \in 1 .. 7 : V[s + j] = W[s + j]
  <2> HIDE DEF L
  <2>1. \A j \in 1 .. 7 : s + j \in 1 .. Len(W)
    BY <1>0, <1>1
  <2> QED
    BY <1>2, <2>1
<1>7. V[s + 3] = W[s + 3] /\ V[s + 5] = W[s + 5] /\ V[s + 6] = W[s + 6]
  BY <1>6
<1>8. Laid(W, s, m) => Laid(V, s, m)
  BY <1>7 DEF Laid
<1>9. Intact(W, s, m) => Intact(V, s, m)
  BY <1>3, <1>6 DEF Intact, kFrameHeaderSize
<1> QED
  BY <1>8, <1>9

LEMMA IntactIsLaid ==
  ASSUME NEW W, NEW s, NEW m, Legal(m), Intact(W, s, m)
  PROVE  Laid(W, s, m)
<1>1. \A j \in 1 .. 7 : W[s + j] = Header(m)[j]
  BY DEF Intact, kFrameHeaderSize
<1>2. /\ W[s + 3] = <<2, m.type>> /\ W[s + 5] = <<4, Len(m.payload)>>
      /\ W[s + 6] = <<4, m.payload>>
  BY <1>1 DEF Header, crc32
<1>3. Len(m.payload) \in Nat
  BY DEF Legal
<1>4. <<4, Len(m.payload)>> \in Cells
  BY <1>3 DEF Cells
<1> QED
  BY <1>2, <1>4 DEF Laid

(* The cells of a frame.                                                   *)
LEMMA EncodedFrame ==
  ASSUME NEW m, Legal(m)
  PROVE  /\ encode_frame(m) \in Seq(WireCells)
         /\ Len(encode_frame(m)) = kFrameHeaderSize + Len(m.payload)
         /\ \A j \in 1 .. kFrameHeaderSize : encode_frame(m)[j] = Header(m)[j]
         /\ \A j \in 1 .. Len(m.payload) : encode_frame(m)[kFrameHeaderSize + j] = m.payload[j]
<1> DEFINE h == Header(m)
           p == m.payload
<1>1. p \in Seq(WireCells) /\ Len(p) \in Nat /\ p \in Seq(Cells)
  <2>1. Cells \subseteq WireCells
    BY DEF Cells, WireCells
  <2> QED
    BY <2>1 DEF Legal
<1>2. Flags(m.type) \in Nat /\ m.type \in Nat
  BY DEF Flags, Legal, MessageTypes
<1>3. /\ <<4, 4242>> \in WireCells /\ <<2, 1>> \in WireCells /\ <<2, m.type>> \in WireCells
      /\ <<4, Flags(m.type)>> \in WireCells /\ <<4, Len(p)>> \in WireCells
      /\ <<4, p>> \in WireCells /\ <<8, 1>> \in WireCells
  <2> HIDE DEF p
  <2> QED
    BY <1>1, <1>2 DEF WireCells
<1>4. h \in Seq(WireCells) /\ Len(h) = 7
  <2> HIDE DEF WireCells
  <2> QED
    BY <1>3 DEF Header, crc32
<1> HIDE DEF h, p
<1>5. /\ h \o p \in Seq(WireCells) /\ Len(h \o p) = Len(h) + Len(p)
      /\ \A i \in 1 .. Len(h) + Len(p) : (h \o p)[i] = IF i <= Len(h) THEN h[i] ELSE p[i - Len(h)]
  BY <1>1, <1>4, ConcatProperties
<1>6. \A j \in 1 .. 7 : (h \o p)[j] = h[j]
  <2> SUFFICES ASSUME NEW j \in 1 .. 7 PROVE (h \o p)[j] = h[j]
    OBVIOUS
  <2>1. j \in 1 .. Len(h) + Len(p) /\ j <= Len(h)
    BY <1>1, <1>4
  <2> QED
    BY <1>5, <2>1
<1>7. \A j \in 1 .. Len(p) : (h \o p)[7 + j] = p[j]
  <2> SUFFICES ASSUME NEW j \in 1 .. Len(p) PROVE (h \o p)[7 + j] = p[j]
    OBVIOUS
  <2>1. 7 + j \in 1 .. Len(h) + Len(p) /\ ~(7 + j <= Len(h)) /\ (7 + j) - Len(h) = j
    BY <1>1, <1>4
  <2> QED
    BY <1>5, <2>1
<1> QED
  BY <1>4, <1>5, <1>6, <1>7 DEF encode_frame, kFrameHeaderSize, h, p

LEMMA WireGrows ==
  ASSUME NEW W \in Seq(WireCells), NEW m, Legal(m)
  PROVE  LET V == W \o encode_frame(m) IN
         /\ V \in Seq(WireCells)
         /\ Len(V) = Len(W) + kFrameHeaderSize + Len(m.payload)
         /\ Extends(V, W)
         /\ Intact(V, Len(W), m)
         /\ Part(encode_frame(m), V, Len(W), Len(V))
<1> DEFINE F == encode_frame(m)
           V == W \o F
           L == Len(m.payload)
<1>1. /\ F \in Seq(WireCells) /\ Len(F) = 7 + L /\ L \in Nat
      /\ \A j \in 1 .. 7 : F[j] = Header(m)[j]
      /\ \A j \in 1 .. L : F[7 + j] = m.payload[j]
  <2>1. L \in Nat
    BY DEF Legal
  <2> QED
    BY <2>1, EncodedFrame DEF kFrameHeaderSize
<1> HIDE DEF F, L
<1>2. Len(W) \in Nat
  OBVIOUS
<1>3. /\ V \in Seq(WireCells) /\ Len(V) = Len(W) + Len(F)
      /\ \A i \in 1 .. Len(W) + Len(F) : V[i] = IF i <= Len(W) THEN W[i] ELSE F[i - Len(W)]
  BY <1>1, ConcatProperties
<1> HIDE DEF V
<1>4. Extends(V, W)
  <2>1. \A j \in 1 .. Len(W) : j \in 1 .. Len(W) + Len(F) /\ j <= Len(W)
    BY <1>1, <1>2
  <2>2. \A j \in 1 .. Len(W) : V[j] = W[j]
    BY <1>3, <2>1
  <2>3. Len(V) \in Nat /\ Len(W) <= Len(V)
    BY <1>1, <1>2, <1>3
  <2> QED
    BY <1>2, <2>2, <2>3 DEF Extends
<1>5. \A j \in 1 .. Len(F) : V[Len(W) + j] = F[j]
  <2> SUFFICES ASSUME NEW j \in 1 .. Len(F) PROVE V[Len(W) + j] = F[j]
    OBVIOUS
  <2>1. /\ Len(W) + j \in 1 .. Len(W) + Len(F) /\ ~(Len(W) + j <= Len(W))
        /\ (Len(W) + j) - Len(W) = j
    BY <1>1, <1>2
  <2> QED
    BY <1>3, <2>1
<1>6. Intact(V, Len(W), m)
  <2>1. \A j \in 1 .. 7 : V[Len(W) + j] = Header(m)[j]
    <3>1. \A j \in 1 .. 7 : j \in 1 .. Len(F)
      BY <1>1
    <3> QED
      BY <1>1, <1>5, <3>1
  <2>2. \A j \in 1 .. L : V[Len(W) + 7 + j] = m.payload[j]
    <3> SUFFICES ASSUME NEW j \in 1 .. L PROVE V[Len(W) + 7 + j] = m.payload[j]
      OBVIOUS
    <3>1. 7 + j \in 1 .. Len(F) /\ Len(W) + 7 + j = Len(W) + (7 + j)
      BY <1>1, <1>2
    <3>2. V[Len(W) + (7 + j)] = F[7 + j]
      BY <1>5, <3>1
    <3> QED
      BY <1>1, <3>1, <3>2
  <2> QED
    BY <2>1, <2>2 DEF Intact, kFrameHeaderSize, L
<1>7. Part(F, V, Len(W), Len(V))
  <2>1. Len(V) \in Nat /\ Len(W) <= Len(V) /\ Len(F) = Len(V) - Len(W)
    BY <1>1, <1>2, <1>3
  <2> QED
    BY <1>1, <1>2, <1>5, <2>1 DEF Part
<1>8. Len(V) = Len(W) + 7 + L
  BY <1>1, <1>2, <1>3
<1> QED
  BY <1>3, <1>4, <1>6, <1>7, <1>8 DEF F, V, L, kFrameHeaderSize

(* The checksum of one frame is not at the place of another's length.      *)
LEMMA PlacesApart ==
  ASSUME NEW ms, AllLegal(ms), NEW j \in 1 .. Len(ms), NEW k \in 1 .. Len(ms)
  PROVE  /\ Starts(ms)[j] \in Nat /\ Starts(ms)[j] + kFrameHeaderSize <= Starts(ms)[Len(ms) + 1]
         /\ Starts(ms)[k] + 5 # Starts(ms)[j] + 6
<1> DEFINE T == Starts(ms)
           L(i) == Len(ms[i].payload)
<1>1. MessageSeq(ms) /\ Len(ms) \in Nat
  BY LegalMessages DEF AllLegal
<1>2. \A i \in 1 .. Len(ms) : L(i) \in Nat
  BY <1>1 DEF MessageSeq
<1>3. /\ \A i \in 1 .. Len(ms) + 1 : T[i] \in Nat
      /\ \A i \in 1 .. Len(ms) + 1 : \A h \in 1 .. i - 1 : T[h] + 7 + L(h) <= T[i]
  BY <1>1, StartsGrow DEF After, kFrameHeaderSize
<1> HIDE DEF T, L
<1>4. T[j] \in Nat /\ T[k] \in Nat /\ T[Len(ms) + 1] \in Nat /\ L(j) \in Nat /\ L(k) \in Nat
  BY <1>1, <1>2, <1>3
<1>5. T[j] + 7 + L(j) <= T[Len(ms) + 1]
  <2>1. Len(ms) + 1 \in 1 .. Len(ms) + 1 /\ j \in 1 .. (Len(ms) + 1) - 1
    BY <1>1
  <2> QED
    BY <1>3, <2>1
<1> DEFINE x == T[j]
           y == T[k]
           a == L(j)
           b == L(k)
<1>7. x \in Nat /\ y \in Nat /\ a \in Nat /\ b \in Nat
  BY <1>4
<1>6. y + 5 # x + 6
  <2>1. CASE j < k
    <3>1. k \in 1 .. Len(ms) + 1 /\ j \in 1 .. k - 1
      BY <1>1, <2>1
    <3>2. x + 7 + a <= y
      BY <1>3, <3>1
    <3> HIDE DEF x, y, a, b
    <3> QED
      BY <1>7, <3>2
  <2>2. CASE k < j
    <3>1. j \in 1 .. Len(ms) + 1 /\ k \in 1 .. j - 1
      BY <1>1, <2>2
    <3>2. y + 7 + b <= x
      BY <1>3, <3>1
    <3> HIDE DEF x, y, a, b
    <3> QED
      BY <1>7, <3>2
  <2>3. CASE j = k
    <3>1. x = y
      BY <2>3
    <3> HIDE DEF x, y, a, b
    <3> QED
      BY <1>7, <3>1
  <2> QED
    BY <1>1, <2>1, <2>2, <2>3
<1> QED
  BY <1>4, <1>5, <1>6 DEF T, kFrameHeaderSize

(* Damage leaves types, and makes of checksums what fits nothing.          *)
LEMMA WireDamaged ==
  ASSUME NEW W \in Seq(WireCells), NEW ms, AllLegal(ms), AllLaid(W, ms),
         Len(W) = Starts(ms)[Len(ms) + 1], NEW p \in 1 .. Len(W), NEW v \in Nat, NEW cell,
         \A k \in 1 .. Len(ms) : p # Starts(ms)[k] + 3,
         IF \E k \in 1 .. Len(ms) : p = Starts(ms)[k] + 6 THEN cell = <<W[p][1], NoPayload>>
                                                          ELSE cell = <<W[p][1], v>>
  PROVE  LET V == [W EXCEPT ![p] = cell]
         IN  /\ V \in Seq(WireCells) /\ Len(V) = Len(W)
             /\ \A j \in 1 .. Len(W) : V[j] = IF j = p THEN cell ELSE W[j]
             /\ AllLaid(V, ms)
<1> DEFINE T == Starts(ms)
           V == [W EXCEPT ![p] = cell]
<1>1. cell \in WireCells
  <2>1. W[p] \in WireCells
    <3> HIDE DEF WireCells
    <3> QED
      OBVIOUS
  <2>2. W[p][1] \in Nat \ {0}
    BY <2>1 DEF WireCells
  <2>3. NoPayload \in Nat \cup Seq(Cells) \cup {NoPayload} /\ v \in Nat \cup Seq(Cells) \cup {NoPayload}
    OBVIOUS
  <2>4. cell = <<W[p][1], NoPayload>> \/ cell = <<W[p][1], v>>
    OBVIOUS
  <2> HIDE DEF NoPayload
  <2> QED
    BY <2>2, <2>3, <2>4 DEF WireCells
<1>2. /\ V \in Seq(WireCells) /\ Len(V) = Len(W)
      /\ \A j \in 1 .. Len(W) : V[j] = IF j = p THEN cell ELSE W[j]
  <2> HIDE DEF WireCells
  <2> QED
    BY <1>1, ExceptSeq
<1> HIDE DEF V
<1>3. ASSUME NEW k \in 1 .. Len(ms) PROVE Laid(V, T[k], ms[k])
  <2>1. Len(W) \in Nat /\ T[k] \in Nat /\ T[k] + 7 <= Len(W)
    BY PlacesApart DEF kFrameHeaderSize
  <2>2. Laid(W, T[k], ms[k])
    BY DEF AllLaid
  <2> HIDE DEF T
  <2>3. T[k] + 3 \in 1 .. Len(W) /\ T[k] + 5 \in 1 .. Len(W) /\ T[k] + 6 \in 1 .. Len(W)
    <3> DEFINE t == T[k]
               n == Len(W)
    <3> HIDE DEF t, n
    <3>1. n \in Nat /\ t \in Nat /\ t + 7 <= n
      BY <2>1 DEF t, n
    <3>2. t + 3 \in 1 .. n /\ t + 5 \in 1 .. n /\ t + 6 \in 1 .. n
      BY <3>1
    <3> QED
      BY <3>2 DEF t, n
  <2>4. V[T[k] + 3] = W[T[k] + 3]
    <3>1. p # T[k] + 3
      BY DEF T
    <3> QED
      BY <1>2, <2>3, <3>1
  <2>5. V[T[k] + 5] \in Cells
    <3>1. CASE p = T[k] + 5
      <4>1. \A j \in 1 .. Len(ms) : p # Starts(ms)[j] + 6
        BY <3>1, PlacesApart DEF T
      <4>2. cell = <<W[p][1], v>>
        BY <4>1
      <4>3. W[p] \in Cells
        BY <2>2, <3>1 DEF Laid
      <4>4. cell \in Cells
        BY <4>2, <4>3 DEF Cells
      <4> QED
        BY <1>2, <2>3, <3>1, <4>4
    <3>2. CASE p # T[k] + 5
      BY <1>2, <2>2, <2>3, <3>2 DEF Laid
    <3> QED
      BY <3>1, <3>2
  <2>6. V[T[k] + 6] \in {<<4, ms[k].payload>>, <<4, NoPayload>>}
    <3>1. CASE p = T[k] + 6
      <4>1. cell = <<W[p][1], NoPayload>>
        BY <3>1 DEF T
      <4>2. W[p][1] = 4
        BY <2>2, <3>1 DEF Laid
      <4> QED
        BY <1>2, <2>3, <3>1, <4>1, <4>2
    <3>2. CASE p # T[k] + 6
      BY <1>2, <2>2, <2>3, <3>2 DEF Laid
    <3> QED
      BY <3>1, <3>2
  <2> QED
    BY <2>2, <2>4, <2>5, <2>6 DEF Laid
<1>4. AllLaid(V, ms)
  BY <1>3 DEF AllLaid
<1> QED
  BY <1>2, <1>4 DEF V

--------------------------------------------------------------------------------
(* The invariant.                                                          *)

Alive == {"open", "closed"}

FramingTypeOK ==
  /\ reader \in {"session", "client"}
  /\ link \in {"open", "closed", "refused", "incomplete", "ended"}
  /\ damaged \in BOOLEAN
  /\ sent \in Seq(Messages) /\ AllLegal(sent)
  /\ frames \in Seq(FrameRecords)

\* W is everything that was sent and got says how much of it was received: what the
\* reader keeps starts with the first frame it has not completed, and on an intact
\* connection it does not hold the whole of that frame.
Carried(W, got) ==
  /\ W \in Seq(WireCells) /\ Len(W) = Starts(sent)[Len(sent) + 1]
  /\ AllLaid(W, sent)
  /\ ~damaged => AllIntact(W, sent)
  /\ Part(stream, W, got, got + Len(stream))
  /\ link = "open" => got + Len(stream) = Len(W)
  /\ link \in Alive => Part(buffer, W, Starts(sent)[Len(frames) + 1], got)
  /\ link \in Alive /\ ~damaged =>
       Len(frames) = Len(sent) \/ got < Starts(sent)[Len(frames) + 2]

\* A client has one frame under way, and a refusal on an intact connection takes two.
OneUnderWay == reader = "client" => Len(sent) <= Len(frames) + 1
RefusalTakesTwo == link = "refused" /\ ~damaged => Len(sent) - Len(frames) > 1

FramingInv ==
  /\ FramingTypeOK /\ DeliveredIntact /\ OneUnderWay /\ RefusalTakesTwo
  /\ \E W, got : Carried(W, got)

LEMMA FramingInvInit == FramingInit => FramingInv
<1> SUFFICES ASSUME FramingInit PROVE FramingInv
  OBVIOUS
<1>1. /\ reader \in {"session", "client"} /\ sent = << >> /\ stream = << >> /\ buffer = << >>
      /\ frames = << >> /\ link = "open" /\ damaged = FALSE
  BY DEF FramingInit
<1>2. AllLegal(sent) /\ Len(sent) = 0 /\ sent \in Seq(Messages) /\ frames \in Seq(FrameRecords)
      /\ Len(frames) = 0
  BY <1>1 DEF AllLegal
<1>3. Starts(sent)[1] = 0
  BY <1>2, StartsDef
<1>4. Part(<< >>, << >>, 0, 0)
  BY DEF Part
<1>5. Carried(<< >>, 0)
  <2>1. << >> \in Seq(WireCells) /\ Len(<< >>) = 0
    OBVIOUS
  <2>2. AllLaid(<< >>, sent) /\ AllIntact(<< >>, sent)
    BY <1>2 DEF AllLaid, AllIntact
  <2>3. Len(sent) + 1 = 1 /\ Len(frames) + 1 = 1 /\ 0 + Len(stream) = 0
    BY <1>1
  <2> QED
    BY <1>1, <1>2, <1>3, <1>4, <2>1, <2>2, <2>3 DEF Carried
<1>6. FramingTypeOK
  BY <1>1, <1>2 DEF FramingTypeOK
<1>7. DeliveredIntact /\ OneUnderWay /\ RefusalTakesTwo
  BY <1>1 DEF DeliveredIntact, OneUnderWay, RefusalTakesTwo
<1> QED
  BY <1>5, <1>6, <1>7 DEF FramingInv

LEMMA SendStep ==
  ASSUME FramingInv, NEW m \in Messages, Send(m)
  PROVE  FramingInv'
<1>1. PICK W, got : Carried(W, got)
  BY DEF FramingInv
<1> DEFINE M == Len(sent)
           T == Starts(sent)
           U == Starts(sent')
           F == encode_frame(m)
           V == W \o F
<1>2. /\ link = "open" /\ sent' = Append(sent, m) /\ stream' = stream \o F
      /\ reader' = reader /\ buffer' = buffer /\ frames' = frames /\ link' = link /\ damaged' = damaged
      /\ reader = "client" => Len(frames) = Len(sent)
  BY DEF Send
<1>3. Legal(m)
  BY FramingConstants DEF Send, Legal
<1>4. /\ sent \in Seq(Messages) /\ AllLegal(sent) /\ M \in Nat /\ frames \in Seq(FrameRecords)
      /\ Len(frames) \in Nat /\ Len(frames) <= M
  BY DEF FramingInv, FramingTypeOK, AllLegal, DeliveredIntact
<1>5. /\ sent' \in Seq(Messages) /\ Len(sent') = M + 1
      /\ \A k \in 1 .. M : sent'[k] = sent[k]
      /\ sent'[M + 1] = m
  BY <1>2, <1>4, AppendProperties
<1>6. AllLegal(sent')
  <2>1. \A k \in 1 .. M + 1 : Legal(sent'[k])
    <3> SUFFICES ASSUME NEW k \in 1 .. M + 1 PROVE Legal(sent'[k])
      OBVIOUS
    <3>1. CASE k = M + 1
      BY <1>3, <1>5, <3>1
    <3>2. CASE k # M + 1
      <4>1. k \in 1 .. M
        BY <1>4, <3>2
      <4> QED
        BY <1>4, <1>5, <4>1 DEF AllLegal
    <3> QED
      BY <3>1, <3>2
  <2> QED
    BY <1>4, <1>5, <2>1 DEF AllLegal
<1>7. /\ V \in Seq(WireCells)
      /\ Len(V) = Len(W) + kFrameHeaderSize + Len(m.payload)
      /\ Extends(V, W) /\ Intact(V, Len(W), m) /\ Part(F, V, Len(W), Len(V))
  BY <1>1, <1>3, WireGrows DEF Carried
<1>8. \A k \in 1 .. M + 1 : U[k] = T[k]
  BY <1>4, <1>5, LegalMessages, StartsAppend
<1>9. Len(W) = T[M + 1]
  BY <1>1 DEF Carried
<1>10. U[(M + 1) + 1] = Len(V)
  <2>1. M + 1 \in 1 .. Len(sent') /\ Len(sent') \in Nat /\ M + 1 \in 1 .. M + 1
    BY <1>4, <1>5
  <2>2. U[(M + 1) + 1] = U[M + 1] + kFrameHeaderSize + Len(sent'[M + 1].payload)
    BY <2>1, StartsDef DEF After
  <2>3. U[M + 1] = Len(W)
    BY <1>8, <1>9, <2>1
  <2> QED
    BY <1>5, <1>7, <2>2, <2>3
<1> HIDE DEF T, U, V, F, M
<1>11. ASSUME NEW k \in 1 .. M
       PROVE  /\ Laid(W, T[k], sent[k]) => Laid(V, U[k], sent'[k])
              /\ Intact(W, T[k], sent[k]) => Intact(V, U[k], sent'[k])
  <2>1. U[k] = T[k] /\ sent'[k] = sent[k]
    BY <1>4, <1>5, <1>8
  <2>2. Legal(sent[k])
    BY <1>4 DEF AllLegal, M
  <2>3. T[k] \in Nat /\ T[k] + kFrameHeaderSize + Len(sent[k].payload) <= Len(W)
    <3>1. MessageSeq(sent)
      BY <1>4, LegalMessages
    <3>2. k \in 1 .. M + 1 /\ M + 1 \in 1 .. M + 1 /\ k \in 1 .. (M + 1) - 1
      BY <1>4
    <3> QED
      BY <1>9, <3>1, <3>2, StartsGrow DEF After, T, M
  <2>4. /\ Laid(W, T[k], sent[k]) => Laid(V, T[k], sent[k])
        /\ Intact(W, T[k], sent[k]) => Intact(V, T[k], sent[k])
    BY <1>7, <2>2, <2>3, FrameExtends
  <2> QED
    BY <2>1, <2>4
<1>12. Laid(V, U[M + 1], sent'[M + 1]) /\ Intact(V, U[M + 1], sent'[M + 1])
  <2>1. M + 1 \in 1 .. M + 1
    BY <1>4
  <2>2. U[M + 1] = Len(W) /\ sent'[M + 1] = m
    BY <1>5, <1>8, <1>9, <2>1
  <2> QED
    BY <1>3, <1>7, <2>2, IntactIsLaid
<1>13. AllLaid(V, sent')
  <2>1. \A k \in 1 .. M : Laid(W, T[k], sent[k])
    BY <1>1 DEF Carried, AllLaid, T, M
  <2>2. \A k \in 1 .. M : Laid(V, U[k], sent'[k])
    BY <1>11, <2>1
  <2>3. \A k \in 1 .. M + 1 : k \in 1 .. M \/ k = M + 1
    BY <1>4
  <2> QED
    BY <1>5, <1>12, <2>2, <2>3 DEF AllLaid, U
<1>14. ~damaged => AllIntact(V, sent')
  <2> SUFFICES ASSUME ~damaged PROVE AllIntact(V, sent')
    OBVIOUS
  <2>1. \A k \in 1 .. M : Intact(W, T[k], sent[k])
    BY <1>1 DEF Carried, AllIntact, T, M
  <2>2. \A k \in 1 .. M : Intact(V, U[k], sent'[k])
    BY <1>11, <2>1
  <2>3. \A k \in 1 .. M + 1 : k \in 1 .. M \/ k = M + 1
    BY <1>4
  <2> QED
    BY <1>5, <1>12, <2>2, <2>3 DEF AllIntact, U
<1>15. Part(stream', V, got, Len(V))
  <2>1. Part(stream, W, got, Len(W))
    BY <1>1, <1>2 DEF Carried
  <2> QED
    BY <1>2, <1>7, <2>1, PartExtends, PartConcat
<1>16. got + Len(stream') = Len(V) /\ got \in Nat /\ got <= Len(W)
  <2>1. got \in Nat /\ Len(V) \in Nat /\ Len(stream') = Len(V) - got
    BY <1>15 DEF Part
  <2>2. got <= got + Len(stream) /\ got + Len(stream) = Len(W)
    BY <1>1, <1>2 DEF Carried, Part
  <2> QED
    BY <2>1, <2>2
<1>17. Part(buffer', V, U[Len(frames') + 1], got)
  <2>1. Part(buffer, W, T[Len(frames) + 1], got)
    BY <1>1, <1>2 DEF Carried, Alive, T
  <2>2. Part(buffer, V, T[Len(frames) + 1], got)
    BY <1>7, <2>1, PartExtends
  <2>3. Len(frames) + 1 \in 1 .. M + 1
    BY <1>4
  <2> QED
    BY <1>2, <1>8, <2>2, <2>3
<1>18. ~damaged => Len(frames') = Len(sent') \/ got < U[Len(frames') + 2]
  <2> SUFFICES ASSUME ~damaged PROVE got < U[Len(frames) + 2]
    BY <1>2
  <2>1. CASE Len(frames) = M
    <3>1. Len(frames) + 2 = (M + 1) + 1
      BY <1>4, <2>1
    <3>2. Len(W) < Len(V)
      <4> DEFINE L == Len(m.payload)
      <4>1. L \in Nat
        BY <1>3 DEF Legal
      <4> HIDE DEF L
      <4>2. Len(V) = Len(W) + 7 + L /\ Len(W) \in Nat
        BY <1>7 DEF L, kFrameHeaderSize, Extends
      <4> QED
        BY <4>1, <4>2
    <3>3. got < Len(V)
      BY <1>7, <1>16, <3>2 DEF Extends
    <3> QED
      BY <1>10, <3>1, <3>3
  <2>2. CASE Len(frames) # M
    <3>1. Len(frames) + 2 \in 1 .. M + 1
      BY <1>4, <2>2
    <3>2. got < T[Len(frames) + 2]
      BY <1>1, <1>2, <2>2 DEF Carried, Alive, T, M
    <3> QED
      BY <1>8, <3>1, <3>2
  <2> QED
    BY <2>1, <2>2
<1>19. Carried(V, got)'
  <2>1. Len(V) = U[Len(sent') + 1]
    BY <1>5, <1>10
  <2>2. Part(stream', V, got, got + Len(stream'))
    BY <1>15, <1>16
  <2> QED
    BY <1>2, <1>7, <1>13, <1>14, <1>16, <1>17, <1>18, <2>1, <2>2 DEF Carried, U
<1>20. FramingTypeOK'
  BY <1>2, <1>5, <1>6 DEF FramingInv, FramingTypeOK
<1>21. DeliveredIntact'
  <2>1. Len(frames') <= Len(sent')
    BY <1>2, <1>4, <1>5
  <2>2. ASSUME NEW i \in DOMAIN frames' PROVE frames'[i] = Framed(sent'[i])
    <3>1. i \in DOMAIN frames /\ frames'[i] = frames[i]
      BY <1>2
    <3>2. i \in 1 .. M
      BY <1>4, <3>1
    <3>3. frames[i] = Framed(sent[i])
      BY <3>1 DEF FramingInv, DeliveredIntact
    <3> QED
      BY <1>5, <3>1, <3>2, <3>3
  <2> QED
    BY <2>1, <2>2 DEF DeliveredIntact
<1>22. OneUnderWay' /\ RefusalTakesTwo'
  <2>1. reader' = "client" => Len(sent') <= Len(frames') + 1
    BY <1>2, <1>4, <1>5 DEF M
  <2>2. link' # "refused"
    BY <1>2
  <2> QED
    BY <2>1, <2>2 DEF OneUnderWay, RefusalTakesTwo
<1> QED
  BY <1>19, <1>20, <1>21, <1>22 DEF FramingInv


(* A delivery: what is parsed and what stays under way are parts of the wire. *)
LEMMA DeliverParts ==
  ASSUME NEW W, NEW got, Carried(W, got), link \in Alive, NEW n \in 1 .. Len(stream)
  PROVE  /\ Part(buffer \o SubSeq(stream, 1, n), W, Starts(sent)[Len(frames) + 1], got + n)
         /\ Part(SubSeq(stream, n + 1, Len(stream)), W, got + n, got + Len(stream))
         /\ got + n + Len(SubSeq(stream, n + 1, Len(stream))) = got + Len(stream)
<1> DEFINE L == Len(stream)
           base == Starts(sent)[Len(frames) + 1]
<1>1. Part(stream, W, got, got + L) /\ Part(buffer, W, base, got)
  BY DEF Carried
<1>2. got \in Nat /\ L \in Nat /\ n \in Nat /\ n <= L /\ 0 \in Nat /\ 0 <= n /\ 0 + 1 = 1 /\ got + 0 = got
  BY <1>1 DEF Part
<1> HIDE DEF base
<1>3. Part(SubSeq(stream, 1, n), W, got, got + n)
  <2>1. Part(SubSeq(stream, 0 + 1, n), W, got + 0, got + n)
    BY <1>1, <1>2, PartSub
  <2> QED
    BY <1>2, <2>1
<1>4. Part(SubSeq(stream, n + 1, L), W, got + n, got + L)
  <2>1. L <= Len(stream) /\ L \in Nat
    BY <1>2
  <2> QED
    BY <1>1, <1>2, <2>1, PartSub
<1>5. Part(buffer \o SubSeq(stream, 1, n), W, base, got + n)
  BY <1>1, <1>3, PartConcat
<1>6. Len(SubSeq(stream, n + 1, L)) = (got + L) - (got + n)
  BY <1>4 DEF Part
<1>7. got + n + Len(SubSeq(stream, n + 1, L)) = got + L
  <2> DEFINE R == Len(SubSeq(stream, n + 1, L))
  <2>1. R = (got + L) - (got + n)
    BY <1>6
  <2> HIDE DEF R, L
  <2> QED
    BY <1>2, <2>1 DEF R
<1> QED
  BY <1>4, <1>5, <1>7 DEF base

(* What feed finds in a delivery.  The bound on the buffer refuses nothing *)
(* that is at most one legal frame.                                        *)
LEMMA FeedFinds ==
  ASSUME FramingTypeOK, Len(frames) <= Len(sent), NEW W, NEW got, Carried(W, got),
         NEW in, NEW e, Part(in, W, Starts(sent)[Len(frames) + 1], e)
  PROVE  \/ /\ Feed(in) = Refusal
            /\ ~damaged => Len(sent) - Len(frames) > 1
         \/ \E c \in 0 .. Len(sent) - Len(frames) :
              /\ Starts(sent)[Len(frames) + 1 + c] <= e
              /\ Feed(in) = Done(sent, Len(frames) + 1, c, Starts(sent)[Len(frames) + 1])
              /\ ~damaged => Len(frames) + c = Len(sent) \/ e < Starts(sent)[Len(frames) + c + 2]
<1> DEFINE M == Len(sent)
           f == Len(frames)
           T == Starts(sent)
           base == T[f + 1]
<1>1. M \in Nat /\ f \in Nat /\ f <= M /\ AllLegal(sent)
  BY DEF FramingTypeOK, AllLegal
<1>2. AllLaid(W, sent) /\ Len(W) = T[M + 1] /\ (~damaged => AllIntact(W, sent))
  BY DEF Carried
<1>3. Len(in) \in Nat /\ e <= Len(W) /\ e \in Nat /\ base \in Nat /\ Len(in) = e - base
  BY DEF Part
<1>4. Finds(Parsed(in)[0], W, sent, f + 1, base, e)
  <2>1. f \in 0 .. Len(sent)
    BY <1>1
  <2> QED
    BY <1>1, <1>2, <2>1, ParsedFinds
<1>5. CASE Len(in) > max_frame_bytes + kFrameHeaderSize
  <2>1. Feed(in) = Refusal
    BY <1>5 DEF Feed
  <2>2. ASSUME ~(M - f > 1) PROVE FALSE
    <3>1. M = f \/ M = f + 1
      BY <1>1, <2>2
    <3>2. CASE M = f
      <4>1. Len(W) = base
        BY <1>2, <3>2
      <4> HIDE DEF T, base, M, f
      <4> QED
        BY <1>3, <1>5, <4>1, FramingConstants DEF kFrameHeaderSize
    <3>3. CASE M = f + 1
      <4> DEFINE P == Len(sent[M].payload)
      <4>1. M \in 1 .. M /\ Legal(sent[M])
        BY <1>1, <3>3 DEF AllLegal
      <4>2. P \in Nat /\ P <= max_frame_bytes
        BY <4>1 DEF Legal
      <4>3. T[M + 1] = T[M] + 7 + P
        BY <1>1, <4>1, StartsDef DEF After, kFrameHeaderSize
      <4>4. T[M] = base
        BY <3>3
      <4> HIDE DEF T, base, M, f, P
      <4> QED
        BY <1>2, <1>3, <1>5, <4>2, <4>3, <4>4, FramingConstants DEF kFrameHeaderSize
    <3> QED
      BY <3>1, <3>2, <3>3
  <2> QED
    BY <2>1, <2>2
<1>6. CASE ~(Len(in) > max_frame_bytes + kFrameHeaderSize)
  <2>1. Feed(in) = Parsed(in)[0]
    BY <1>6 DEF Feed
  <2>2. CASE Feed(in) = Refusal /\ ~AllIntact(W, sent)
    BY <1>2, <2>2
  <2>3. ASSUME NEW c \in 0 .. M + 1 - (f + 1), T[(f + 1) + c] <= e, Feed(in) = Done(sent, f + 1, c, base),
               AllIntact(W, sent) => (f + 1) + c = M + 1 \/ e < T[(f + 1) + c + 1]
        PROVE  \E d \in 0 .. M - f :
                 /\ T[f + 1 + d] <= e
                 /\ Feed(in) = Done(sent, f + 1, d, base)
                 /\ ~damaged => f + d = M \/ e < T[f + d + 2]
    <3>1. /\ c \in 0 .. M - f /\ (f + 1) + c + 1 = f + c + 2 /\ (f + 1) + c = f + 1 + c
          /\ ((f + 1) + c = M + 1 => f + c = M)
      BY <1>1
    <3>2. ~damaged => f + c = M \/ e < T[f + c + 2]
      BY <1>2, <2>3, <3>1
    <3> HIDE DEF T, base, M, f
    <3> QED
      BY <2>3, <3>1, <3>2
  <2> QED
    BY <1>4, <2>1, <2>2, <2>3 DEF Finds
<1> QED
  BY <1>5, <1>6

(* A delivery from which the frames complete in it are taken.              *)
LEMMA DeliverTaken ==
  ASSUME FramingInv, NEW W, NEW got, Carried(W, got), link \in Alive, NEW n \in 1 .. Len(stream),
         NEW in, in = buffer \o SubSeq(stream, 1, n),
         NEW c \in 0 .. Len(sent) - Len(frames),
         Starts(sent)[Len(frames) + 1 + c] <= got + n,
         Feed(in) = Done(sent, Len(frames) + 1, c, Starts(sent)[Len(frames) + 1]),
         ~damaged => Len(frames) + c = Len(sent) \/ got + n < Starts(sent)[Len(frames) + c + 2],
         stream' = SubSeq(stream, n + 1, Len(stream)),
         buffer' = SubSeq(in, Feed(in).consumed + 1, Len(in)),
         frames' = frames \o Taken(Feed(in)),
         link' = link, reader' = reader, sent' = sent, damaged' = damaged
  PROVE  FramingInv'
<1> DEFINE M == Len(sent)
           f == Len(frames)
           T == Starts(sent)
           base == T[f + 1]
           G == FramesFrom(sent, f + 1, c)
           e == got + n
<1>1. M \in Nat /\ f \in Nat /\ f <= M /\ AllLegal(sent) /\ sent \in Seq(Messages) /\ frames \in Seq(FrameRecords)
  BY DEF FramingInv, FramingTypeOK, AllLegal, DeliveredIntact
<1>2. Feed(in).frames = G /\ Feed(in).consumed = T[f + 1 + c] - base
  BY DEF Done
<1>3. c \in Nat /\ f + c <= M /\ f + 1 \in Nat \ {0} /\ \A i \in 1 .. c : (f + 1) - 1 + i = f + i /\ f + i \in 1 .. M
  BY <1>1
<1>4. G \in Seq(FrameRecords) /\ Len(G) = c
  <2>1. \A i \in 1 .. c : Legal(sent[(f + 1) - 1 + i])
    BY <1>1, <1>3 DEF AllLegal
  <2> QED
    BY <1>3, <2>1, FramesFromType
<1>5. \A i \in 1 .. c : G[i] = Framed(sent[f + i])
  BY <1>3 DEF FramesFrom
<1>6. Taken(Feed(in)) = G
  <2>1. CASE reader = "session"
    BY <1>2, <2>1 DEF Taken
  <2>2. CASE reader = "client"
    <3>1. c = 0 \/ c = 1
      BY <1>1, <1>3, <2>2 DEF FramingInv, OneUnderWay
    <3> HIDE DEF G
    <3>2. CASE c = 0
      <4>1. G = << >>
        BY <1>4, <3>2, EmptySeq
      <4> QED
        BY <1>2, <2>2, <4>1 DEF Taken
    <3>3. CASE c = 1
      <4>0. G \in Seq(FrameRecords) /\ Len(G) = 1
        BY <1>4, <3>3
      <4>1. G[1] \in FrameRecords /\ G # << >>
        <5>1. 1 \in 1 .. Len(G) /\ Len(<< >>) = 0
          BY <4>0
        <5>2. G[1] \in FrameRecords
          BY <4>0, <5>1, ElementOfSeq
        <5>3. G # << >>
          <6> SUFFICES ASSUME G = << >> PROVE FALSE
            OBVIOUS
          <6>1. Len(G) = Len(<< >>)
            OBVIOUS
          <6> QED
            BY <4>0, <5>1, <6>1
        <5> QED
          BY <5>2, <5>3
      <4>2. <<G[1]>> \in Seq(FrameRecords) /\ Len(<<G[1]>>) = 1 /\ <<G[1]>>[1] = G[1]
        BY <4>1
      <4>3. \A i \in 1 .. 1 : i = 1
        OBVIOUS
      <4>4. G = <<G[1]>>
        BY <1>4, <3>3, <4>2, <4>3, SeqEqual
      <4> QED
        BY <1>2, <2>2, <4>1, <4>4 DEF Taken
    <3> QED
      BY <3>1, <3>2, <3>3
  <2> QED
    BY <2>1, <2>2 DEF FramingInv, FramingTypeOK
<1> HIDE DEF G
<1>7. /\ frames' \in Seq(FrameRecords) /\ Len(frames') = f + c
      /\ \A i \in 1 .. f + c : frames'[i] = IF i <= f THEN frames[i] ELSE G[i - f]
  BY <1>1, <1>4, <1>6, ConcatProperties
<1>8. DeliveredIntact'
  <2>1. Len(frames') <= Len(sent')
    BY <1>3, <1>7
  <2>2. ASSUME NEW i \in DOMAIN frames' PROVE frames'[i] = Framed(sent'[i])
    <3>1. i \in 1 .. f + c
      BY <1>7
    <3>2. CASE i <= f
      <4>1. i \in DOMAIN frames
        BY <1>1, <1>3, <3>1, <3>2
      <4>2. frames'[i] = frames[i]
        BY <1>7, <3>1, <3>2
      <4> QED
        BY <4>1, <4>2 DEF FramingInv, DeliveredIntact
    <3>3. CASE ~(i <= f)
      <4>1. i - f \in 1 .. c /\ f + (i - f) = i
        BY <1>1, <1>3, <3>1, <3>3
      <4>2. frames'[i] = G[i - f]
        BY <1>7, <3>1, <3>3
      <4>3. G[i - f] = Framed(sent[i])
        BY <1>5, <4>1
      <4> QED
        BY <4>2, <4>3
    <3> QED
      BY <3>2, <3>3
  <2> QED
    BY <2>1, <2>2 DEF DeliveredIntact
<1>9. OneUnderWay' /\ RefusalTakesTwo'
  <2>1. reader' = "client" => Len(sent') <= Len(frames') + 1
    BY <1>1, <1>3, <1>7 DEF FramingInv, OneUnderWay
  <2>2. link' # "refused"
    BY DEF Alive
  <2> QED
    BY <2>1, <2>2 DEF OneUnderWay, RefusalTakesTwo
<1>10. FramingTypeOK'
  BY <1>1, <1>7 DEF FramingInv, FramingTypeOK
<1>11. /\ Part(in, W, base, e) /\ Part(stream', W, e, got + Len(stream))
       /\ e + Len(stream') = got + Len(stream)
  BY DeliverParts
<1>12. base <= T[f + 1 + c] /\ T[f + 1 + c] \in Nat /\ base \in Nat
  <2>1. MessageSeq(sent)
    BY <1>1, LegalMessages
  <2>2. f + 1 + c \in 1 .. M + 1 /\ f + 1 \in 1 .. M + 1
    BY <1>1, <1>3
  <2>3. T[f + 1 + c] \in Nat /\ base \in Nat
    BY <2>1, <2>2, StartsGrow
  <2>4. CASE c = 0
    <3>1. f + 1 + c = f + 1
      BY <1>1, <2>4
    <3> QED
      BY <2>3, <3>1
  <2>5. CASE c # 0
    <3>1. f + 1 \in 1 .. (f + 1 + c) - 1 /\ f + 1 \in 1 .. M
      BY <1>1, <1>3, <2>5
    <3> DEFINE L == Len(sent[f + 1].payload)
    <3>2. L \in Nat
      BY <2>1, <3>1 DEF MessageSeq
    <3>3. base + 7 + L <= T[f + 1 + c]
      BY <2>1, <2>2, <3>1, StartsGrow DEF After, kFrameHeaderSize
    <3> HIDE DEF L, T, base
    <3> QED
      BY <2>3, <3>2, <3>3
  <2> QED
    BY <2>3, <2>4, <2>5
<1>13. Part(buffer', W, T[f + 1 + c], e)
  <2> DEFINE d == T[f + 1 + c] - base
             N == Len(in)
  <2>1. N \in Nat /\ N = e - base /\ e \in Nat
    BY <1>11 DEF Part
  <2>2. T[f + 1 + c] <= e
    OBVIOUS
  <2>3. d \in Nat /\ d <= N /\ base + d = T[f + 1 + c] /\ base + N = e
    <3> DEFINE x == T[f + 1 + c]
    <3>1. x \in Nat /\ base \in Nat /\ base <= x /\ x <= e /\ d = x - base
      BY <1>12, <2>2
    <3> HIDE DEF x, T, base, d, e, N
    <3>2. d \in Nat /\ d <= N /\ base + d = x /\ base + N = e
      BY <2>1, <3>1
    <3> QED
      BY <3>2 DEF x
  <2>4. buffer' = SubSeq(in, d + 1, N)
    BY <1>2
  <2> HIDE DEF d
  <2>5. N <= Len(in)
    BY <2>1
  <2>6. Part(SubSeq(in, d + 1, N), W, base + d, base + N)
    BY <1>11, <2>1, <2>3, <2>5, PartSub
  <2> QED
    BY <2>3, <2>4, <2>6
<1>14. Len(frames') + 1 = f + 1 + c /\ Len(frames') + 2 = f + c + 2
  <2> DEFINE g == Len(frames')
  <2>1. g = f + c
    BY <1>7
  <2> HIDE DEF f, g
  <2>2. g + 1 = f + 1 + c /\ g + 2 = f + c + 2
    BY <1>1, <1>3, <2>1
  <2> QED
    BY <2>2 DEF g
<1>15. ~damaged => Len(frames') = Len(sent) \/ e < T[Len(frames') + 2]
  BY <1>7, <1>14
<1>16. Carried(W, e)'
  <2>1. /\ W \in Seq(WireCells) /\ Len(W) = T[M + 1] /\ AllLaid(W, sent)
        /\ ~damaged => AllIntact(W, sent)
        /\ link = "open" => got + Len(stream) = Len(W)
    BY DEF Carried
  <2>2. Part(buffer', W, T[Len(frames') + 1], e)
    BY <1>13, <1>14
  <2> HIDE DEF e
  <2>3. Part(stream', W, e, e + Len(stream'))
    BY <1>11
  <2> QED
    BY <1>11, <1>15, <2>1, <2>2, <2>3 DEF Carried
<1> QED
  BY <1>8, <1>9, <1>10, <1>16 DEF FramingInv

(* A delivery that is refused; the decoder's buffer is not used again.     *)
LEMMA DeliverRefused ==
  ASSUME FramingInv, NEW W, NEW got, Carried(W, got), link \in Alive, NEW n \in 1 .. Len(stream),
         ~damaged => Len(sent) - Len(frames) > 1,
         stream' = SubSeq(stream, n + 1, Len(stream)),
         link' = "refused", buffer' = buffer, frames' = frames,
         reader' = reader, sent' = sent, damaged' = damaged
  PROVE  FramingInv'
<1> DEFINE e == got + n
<1>1. FramingTypeOK' /\ DeliveredIntact' /\ OneUnderWay' /\ RefusalTakesTwo'
  BY DEF FramingInv, FramingTypeOK, DeliveredIntact, OneUnderWay, RefusalTakesTwo
<1>2. Part(stream', W, e, got + Len(stream)) /\ e + Len(stream') = got + Len(stream)
  BY DeliverParts
<1> HIDE DEF e
<1>3. Part(stream', W, e, e + Len(stream'))
  BY <1>2
<1>4. link' # "open" /\ link' \notin Alive
  BY DEF Alive
<1>5. Carried(W, e)'
  BY <1>3, <1>4 DEF Carried
<1> QED
  BY <1>1, <1>5 DEF FramingInv

LEMMA DeliverStep ==
  ASSUME FramingInv, NEW n, Deliver(n)
  PROVE  FramingInv'
<1>1. PICK W, got : Carried(W, got)
  BY DEF FramingInv
<1> DEFINE M == Len(sent)
           f == Len(frames)
           T == Starts(sent)
           in == buffer \o SubSeq(stream, 1, n)
           fed == Feed(in)
<1>2. /\ link \in Alive /\ n \in 1 .. Len(stream) /\ stream' = SubSeq(stream, n + 1, Len(stream))
      /\ reader' = reader /\ sent' = sent /\ damaged' = damaged
      /\ \/ /\ Admitted(fed) /\ buffer' = SubSeq(in, fed.consumed + 1, Len(in))
            /\ frames' = frames \o Taken(fed) /\ link' = link
         \/ /\ ~Admitted(fed) /\ link' = "refused" /\ buffer' = buffer /\ frames' = frames
  BY DEF Deliver, Alive
<1>3. M \in Nat /\ f \in Nat /\ f <= M /\ AllLegal(sent)
  BY DEF FramingInv, FramingTypeOK, AllLegal, DeliveredIntact
<1>4. Part(in, W, T[f + 1], got + n)
  BY <1>1, <1>2, DeliverParts
<1> HIDE DEF in
<1>5. \/ /\ fed = Refusal
         /\ ~damaged => M - f > 1
      \/ \E c \in 0 .. M - f :
           /\ T[f + 1 + c] <= got + n
           /\ fed = Done(sent, f + 1, c, T[f + 1])
           /\ ~damaged => f + c = M \/ got + n < T[f + c + 2]
  BY <1>1, <1>3, <1>4, FeedFinds DEF FramingInv
<1>6. CASE fed = Refusal /\ (~damaged => M - f > 1)
  <2>1. ~Admitted(fed)
    BY <1>6 DEF Admitted, Refusal
  <2> QED
    BY <1>1, <1>2, <1>6, <2>1, DeliverRefused
<1>7. ASSUME NEW c \in 0 .. M - f, T[f + 1 + c] <= got + n,
             fed = Done(sent, f + 1, c, T[f + 1]),
             ~damaged => f + c = M \/ got + n < T[f + c + 2]
      PROVE  FramingInv'
  <2>1. CASE Admitted(fed)
    BY <1>1, <1>2, <1>7, <2>1, DeliverTaken DEF in
  <2>2. CASE ~Admitted(fed)
    <3>1. fed.ok /\ fed.frames = FramesFrom(sent, f + 1, c)
      BY <1>7 DEF Done
    <3>2. Len(fed.frames) = c
      <4>1. c \in Nat /\ f + 1 \in Nat \ {0} /\ \A i \in 1 .. c : (f + 1) - 1 + i \in 1 .. M
        BY <1>3
      <4>2. \A i \in 1 .. c : Legal(sent[(f + 1) - 1 + i])
        BY <1>3, <4>1 DEF AllLegal
      <4> QED
        BY <3>1, <4>1, <4>2, FramesFromType
    <3>3. ~(c <= max_pending_publications)
      BY <2>2, <3>1, <3>2 DEF Admitted
    <3>4. M - f > 1
      <4> HIDE DEF M, f
      <4> QED
        BY <1>3, <3>3, FramingConstants
    <3> QED
      BY <1>1, <1>2, <2>2, <3>4, DeliverRefused
  <2> QED
    BY <2>1, <2>2
<1> QED
  BY <1>5, <1>6, <1>7

LEMMA CloseStep ==
  ASSUME FramingInv, NEW n, Close(n)
  PROVE  FramingInv'
<1>1. PICK W, got : Carried(W, got)
  BY DEF FramingInv
<1>2. /\ link = "open" /\ n \in 0 .. Len(stream) /\ stream' = SubSeq(stream, 1, n) /\ link' = "closed"
      /\ reader' = reader /\ sent' = sent /\ buffer' = buffer /\ frames' = frames /\ damaged' = damaged
  BY DEF Close
<1>3. FramingTypeOK' /\ DeliveredIntact' /\ OneUnderWay' /\ RefusalTakesTwo'
  BY <1>2 DEF FramingInv, FramingTypeOK, DeliveredIntact, OneUnderWay, RefusalTakesTwo
<1>4. Part(stream', W, got, got + Len(stream'))
  <2>1. Part(stream, W, got, got + Len(stream))
    BY <1>1 DEF Carried
  <2>2. 0 \in Nat /\ n \in Nat /\ 0 <= n /\ n <= Len(stream) /\ got \in Nat /\ got + 0 = got /\ 0 + 1 = 1
    BY <1>2, <2>1 DEF Part
  <2>3. Part(SubSeq(stream, 0 + 1, n), W, got + 0, got + n)
    BY <2>1, <2>2, PartSub
  <2>4. Part(stream', W, got, got + n)
    BY <1>2, <2>2, <2>3
  <2> DEFINE L == Len(stream')
  <2>5. L = (got + n) - got
    BY <2>4 DEF Part
  <2> HIDE DEF L
  <2>6. L = n
    BY <2>2, <2>5
  <2> QED
    BY <2>4, <2>6 DEF L
<1>5. Carried(W, got)'
  BY <1>1, <1>2, <1>4 DEF Carried, Alive
<1> QED
  BY <1>3, <1>5 DEF FramingInv

LEMMA EndStep ==
  ASSUME FramingInv, End
  PROVE  FramingInv'
<1>1. PICK W, got : Carried(W, got)
  BY DEF FramingInv
<1>2. /\ link' \in {"incomplete", "ended"} /\ stream' = stream
      /\ reader' = reader /\ sent' = sent /\ buffer' = buffer /\ frames' = frames /\ damaged' = damaged
  BY DEF End
<1>3. FramingTypeOK' /\ DeliveredIntact' /\ OneUnderWay' /\ RefusalTakesTwo'
  BY <1>2 DEF FramingInv, FramingTypeOK, DeliveredIntact, OneUnderWay, RefusalTakesTwo
<1>4. link' # "open" /\ link' \notin Alive
  BY <1>2 DEF Alive
<1>5. Carried(W, got)'
  BY <1>1, <1>2, <1>4 DEF Carried
<1> QED
  BY <1>3, <1>5 DEF FramingInv

(* A cell under way and its place on the wire.                             *)
LEMMA DamagePlace ==
  ASSUME NEW W, NEW got, Carried(W, got), link = "open", NEW i \in DOMAIN stream
  PROVE  Starts(sent)[Len(sent) + 1] - Len(stream) + i = got + i
<1> DEFINE N == Len(stream)
           w == Starts(sent)[Len(sent) + 1]
<1>1. Part(stream, W, got, got + N) /\ got + N = Len(W) /\ w = Len(W)
  BY DEF Carried
<1>2. got \in Nat /\ N \in Nat /\ stream \in Seq(WireCells)
  BY <1>1 DEF Part
<1>3. i \in Nat
  BY <1>2
<1>4. w - N + i = got + i
  <2>1. w = got + N
    BY <1>1
  <2> HIDE DEF w, N
  <2> QED
    BY <1>2, <1>3, <2>1
<1> QED
  BY <1>4

LEMMA DamageStep ==
  ASSUME FramingInv, NEW i, NEW value \in Nat, Damage(i, value)
  PROVE  FramingInv'
<1>1. PICK W, got : Carried(W, got)
  BY DEF FramingInv
<1> DEFINE cell == <<stream[i][1], IF i \in InFrames({6}) THEN NoPayload ELSE value>>
           p == got + i
           T == Starts(sent)
           N == Len(stream)
<1>2. /\ link = "open" /\ i \in DOMAIN stream /\ i \notin InFrames({3, 7})
      /\ stream' = [stream EXCEPT ![i] = cell]
      /\ damaged' = TRUE /\ reader' = reader /\ sent' = sent /\ buffer' = buffer
      /\ frames' = frames /\ link' = link
  BY DEF Damage
<1>3. /\ FramingTypeOK /\ AllLegal(sent) /\ Len(sent) \in Nat
  BY DEF FramingInv, FramingTypeOK, AllLegal
<1>4. /\ Part(stream, W, got, got + N) /\ got + N = Len(W) /\ Len(W) = T[Len(sent) + 1]
      /\ W \in Seq(WireCells) /\ AllLaid(W, sent) /\ Part(buffer, W, T[Len(frames) + 1], got)
  BY <1>1, <1>2 DEF Carried, Alive
<1>5. /\ got \in Nat /\ N \in Nat /\ stream \in Seq(WireCells)
      /\ \A j \in 1 .. N : stream[j] = W[got + j]
  BY <1>4 DEF Part
<1>6. i \in 1 .. N /\ p \in 1 .. Len(W) /\ W[p] = stream[i]
  <2>1. i \in 1 .. N
    BY <1>2, <1>5
  <2> QED
    BY <1>4, <1>5, <2>1
<1> DEFINE At(place) == \E k \in 1 .. Len(sent) : p = T[k] + place
<1>7. ~At(3) /\ (i \in InFrames({6}) <=> At(6))
  <2>1. link = "open" /\ i \in DOMAIN stream /\ DOMAIN sent = 1 .. Len(sent)
    BY <1>2, <1>3 DEF FramingTypeOK
  <2>2. T[Len(sent) + 1] - Len(stream) + i = p
    BY <1>1, <2>1, DamagePlace
  <2> HIDE DEF T, p, cell
  <2>3. \A places : i \in InFrames(places) <=> \E k \in 1 .. Len(sent), place \in places : p = T[k] + place
    BY <2>1, <2>2 DEF InFrames, T
  <2>4. ~At(3)
    BY <1>2, <2>3
  <2>5. i \in InFrames({6}) <=> At(6)
    BY <2>3
  <2> QED
    BY <2>4, <2>5
<1>8. IF At(6) THEN cell = <<W[p][1], NoPayload>> ELSE cell = <<W[p][1], value>>
  <2>1. CASE i \in InFrames({6})
    <3>1. cell = <<W[p][1], NoPayload>>
      BY <1>6, <2>1
    <3> HIDE DEF cell, At
    <3> QED
      BY <1>7, <2>1, <3>1
  <2>2. CASE i \notin InFrames({6})
    <3>1. cell = <<W[p][1], value>>
      BY <1>6, <2>2
    <3> HIDE DEF cell, At
    <3> QED
      BY <1>7, <2>2, <3>1
  <2> QED
    BY <2>1, <2>2
<1> HIDE DEF cell, p
<1>10. PICK V : /\ V \in Seq(WireCells) /\ Len(V) = Len(W)
                /\ \A j \in 1 .. Len(W) : V[j] = IF j = p THEN cell ELSE W[j]
                /\ AllLaid(V, sent)
  <2> DEFINE V == [W EXCEPT ![p] = cell]
  <2>1. /\ V \in Seq(WireCells) /\ Len(V) = Len(W)
        /\ \A j \in 1 .. Len(W) : V[j] = IF j = p THEN cell ELSE W[j]
        /\ AllLaid(V, sent)
    BY <1>3, <1>4, <1>6, <1>7, <1>8, WireDamaged
  <2> HIDE DEF V
  <2> QED
    BY <2>1
<1>11. cell \in WireCells
  <2>1. V[p] = cell
    BY <1>6, <1>10
  <2>2. p \in 1 .. Len(V)
    BY <1>6, <1>10
  <2>3. V[p] \in WireCells
    BY <1>10, <2>2, ElementOfSeq
  <2> QED
    BY <2>1, <2>3
<1>12. /\ stream' \in Seq(WireCells) /\ Len(stream') = N
       /\ \A j \in 1 .. N : stream'[j] = IF j = i THEN cell ELSE stream[j]
  BY <1>2, <1>5, <1>6, <1>11, ExceptSeq
<1>13. Part(stream', V, got, got + Len(stream'))
  <2>1. \A j \in 1 .. N : got + j \in 1 .. Len(W) /\ (got + j = p <=> j = i)
    BY <1>4, <1>5, <1>6 DEF p
  <2>2. \A j \in 1 .. N : stream'[j] = V[got + j]
    BY <1>5, <1>10, <1>12, <2>1
  <2>3. got + N \in Nat /\ got <= got + N /\ (got + N) - got = N
    BY <1>5
  <2> HIDE DEF N
  <2>4. Len(stream') = (got + Len(stream')) - got /\ got + Len(stream') = got + N /\ got + N <= Len(V)
    BY <1>4, <1>10, <1>12, <2>3
  <2> QED
    BY <1>5, <1>12, <2>2, <2>3, <2>4 DEF Part
<1>14. Part(buffer, V, T[Len(frames) + 1], got)
  <2> DEFINE a == T[Len(frames) + 1]
  <2>1. /\ a \in Nat /\ a <= got /\ got <= Len(W) /\ buffer \in Seq(WireCells) /\ Len(buffer) = got - a
        /\ \A j \in 1 .. Len(buffer) : buffer[j] = W[a + j]
    BY <1>4 DEF Part
  <2> HIDE DEF a
  <2>2. \A j \in 1 .. Len(buffer) : a + j \in 1 .. Len(W) /\ a + j # p
    <3> DEFINE b == Len(buffer)
               w == Len(W)
    <3>1. a \in Nat /\ got \in Nat /\ w \in Nat /\ a <= got /\ got <= w /\ b = got - a
      BY <1>4, <1>5, <2>1
    <3>2. p > got
      BY <1>5, <1>6 DEF p
    <3> HIDE DEF b, w, a, p
    <3>3. \A j \in 1 .. b : a + j \in 1 .. w /\ a + j <= got
      BY <3>1
    <3>4. p \in Nat
      BY <1>6
    <3>5. \A j \in 1 .. b : a + j \in 1 .. w /\ a + j # p
      BY <3>1, <3>2, <3>3, <3>4
    <3> QED
      BY <3>5 DEF b, w
  <2>3. \A j \in 1 .. Len(buffer) : buffer[j] = V[a + j]
    BY <1>10, <2>1, <2>2
  <2>4. Part(buffer, V, a, got)
    BY <1>5, <1>10, <2>1, <2>3 DEF Part
  <2> QED
    BY <2>4 DEF a
<1>15. Carried(V, got)'
  <2>1. got + Len(stream') = Len(V)
    BY <1>4, <1>10, <1>12
  <2>2. /\ damaged' /\ sent' = sent /\ buffer' = buffer /\ frames' = frames
    BY <1>2
  <2>3. Len(V) = T[Len(sent) + 1]
    BY <1>4, <1>10
  <2> QED
    BY <1>10, <1>13, <1>14, <2>1, <2>2, <2>3 DEF Carried
<1>16. FramingTypeOK' /\ DeliveredIntact' /\ OneUnderWay' /\ RefusalTakesTwo'
  BY <1>2 DEF FramingInv, FramingTypeOK, DeliveredIntact, OneUnderWay, RefusalTakesTwo
<1> QED
  BY <1>15, <1>16 DEF FramingInv

LEMMA FramingInvStep == FramingInv /\ [FramingNext]_framing => FramingInv'
<1> SUFFICES ASSUME FramingInv, [FramingNext]_framing PROVE FramingInv'
  OBVIOUS
<1>1. CASE UNCHANGED framing
  BY <1>1 DEF framing, FramingInv, FramingTypeOK, DeliveredIntact, OneUnderWay, RefusalTakesTwo, Carried
<1>2. CASE \E m \in Messages : Send(m)
  BY <1>2, SendStep
<1>3. CASE \E n \in 1 .. Len(stream) : Deliver(n)
  BY <1>3, DeliverStep
<1>4. CASE \E n \in 0 .. Len(stream) : Close(n)
  BY <1>4, CloseStep
<1>5. CASE End
  BY <1>5, EndStep
<1>6. CASE \E i \in DOMAIN stream, value \in Nat : Damage(i, value)
  BY <1>6, DamageStep
<1> QED
  BY <1>1, <1>2, <1>3, <1>4, <1>5, <1>6 DEF FramingNext

--------------------------------------------------------------------------------
(* The theorems.                                                           *)

(* Whatever the messages, the limits, the pieces the bytes arrive in and   *)
(* the covered cells damaged on the way, the frames a reader takes from    *)
(* FrameDecoder::feed are the first ones sent, in order and as sent.       *)
THEOREM FramesArriveIntact == FramingSpec => []DeliveredIntact
<1>1. FramingInv => DeliveredIntact
  BY DEF FramingInv
<1> QED
  BY <1>1, FramingInvInit, FramingInvStep, PTL DEF FramingSpec

LEMMA InvCompletes == FramingInv => LegalFramesComplete
<1> SUFFICES ASSUME FramingInv, ~damaged PROVE
      /\ link = "open" /\ stream = << >> => Len(frames) = Len(sent)
      /\ link = "refused" => Len(sent) - Len(frames) > 1
  BY DEF LegalFramesComplete
<1>1. PICK W, got : Carried(W, got)
  BY DEF FramingInv
<1>2. ASSUME link = "open", stream = << >>, Len(frames) # Len(sent) PROVE FALSE
  <2> DEFINE M == Len(sent)
             f == Len(frames)
             T == Starts(sent)
  <2>1. M \in Nat /\ f \in Nat /\ f <= M /\ AllLegal(sent)
    BY DEF FramingInv, FramingTypeOK, AllLegal, DeliveredIntact
  <2>2. got \in Nat /\ got + Len(stream) = Len(W) /\ Len(W) = T[M + 1]
    BY <1>1, <1>2 DEF Carried, Part
  <2>3. got = T[M + 1]
    <3>1. Len(stream) = 0
      BY <1>2
    <3> HIDE DEF T
    <3> QED
      BY <2>2, <3>1
  <2>4. got < T[f + 2]
    BY <1>1, <1>2 DEF Carried, Alive
  <2>5. f + 2 \in 1 .. M + 1 /\ M + 1 \in 1 .. M + 1
    BY <1>2, <2>1
  <2>6. MessageSeq(sent)
    BY <2>1, LegalMessages
  <2>7. T[f + 2] \in Nat /\ T[M + 1] \in Nat
    BY <2>5, <2>6, StartsGrow
  <2>8. CASE f + 2 = M + 1
    <3> HIDE DEF T
    <3> QED
      BY <2>3, <2>4, <2>7, <2>8
  <2>9. CASE f + 2 # M + 1
    <3>1. f + 2 \in 1 .. (M + 1) - 1 /\ f + 2 \in 1 .. M
      BY <2>1, <2>5, <2>9
    <3> DEFINE L == Len(sent[f + 2].payload)
    <3>2. L \in Nat
      BY <2>6, <3>1 DEF MessageSeq
    <3>3. T[f + 2] + 7 + L <= T[M + 1]
      BY <2>5, <2>6, <3>1, StartsGrow DEF After, kFrameHeaderSize
    <3> DEFINE x == T[f + 2]
               y == T[M + 1]
    <3>4. x \in Nat /\ y \in Nat /\ got = y /\ got < x /\ x + 7 + L <= y
      BY <2>3, <2>4, <2>7, <3>3
    <3> HIDE DEF L, x, y
    <3> QED
      BY <3>2, <3>4
  <2> QED
    BY <2>8, <2>9
<1>3. link = "refused" => Len(sent) - Len(frames) > 1
  BY DEF FramingInv, RefusalTakesTwo
<1> QED
  BY <1>2, <1>3

(* On an intact connection nothing is held back once the bytes have        *)
(* arrived, and a frame encode_frame accepts is never refused by           *)
(* FrameDecoder::feed or read_session while it is the only one under way:  *)
(* the two sides' bounds agree, for every max_frame_bytes.                 *)
THEOREM LegalFramesAreCompleted == FramingSpec => []LegalFramesComplete
  BY FramingInvInit, FramingInvStep, InvCompletes, PTL DEF FramingSpec

================================================================================
