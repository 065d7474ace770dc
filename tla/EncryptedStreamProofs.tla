----------------------- MODULE EncryptedStreamProofs -----------------------
(***************************************************************************)
(* Proofs about EncryptedStream for a file of any length, frames and       *)
(* socket buffers of any size: what is delivered is a prefix of the file,  *)
(* and all of it exactly when nothing was torn.                            *)
(***************************************************************************)
EXTENDS EncryptedStream, SequenceTheorems, TLAPS

-----------------------------------------------------------------------------
(* Sequences of cells *)

\* The elements of a concatenation are those of its parts.
LEMMA ConcatKeeps ==
  ASSUME NEW S, NEW s \in Seq(S), NEW t \in Seq(S), NEW i \in 1..Len(s \o t)
  PROVE  \/ \E j \in 1..Len(s) : (s \o t)[i] = s[j]
         \/ \E j \in 1..Len(t) : (s \o t)[i] = t[j]
  BY ConcatProperties, LenProperties, SMT

\* The elements of a part of a sequence are among those of the sequence.
LEMMA SubSeqKeeps ==
  ASSUME NEW S, NEW s \in Seq(S), NEW m \in Nat \ {0}, NEW n \in 0..Len(s)
  PROVE  /\ SubSeq(s, m, n) \in Seq(S)
         /\ Len(SubSeq(s, m, n)) = IF m <= n THEN n - m + 1 ELSE 0
         /\ \A i \in 1..Len(SubSeq(s, m, n)) :
              /\ SubSeq(s, m, n)[i] = s[m + i - 1]
              /\ m + i - 1 \in 1..Len(s)
<1>1. \A i \in m..n : s[i] \in S
  BY LenProperties, ElementOfSeq, SMT
<1> QED
  BY <1>1, SubSeqProperties, LenProperties, SMT

\* A frame is a sequence of cells that all have its nonce and its chunk.
LEMMA FrameCells ==
  ASSUME NEW n \in 0..(MaxNonce - 1), NEW k \in 1..Chunks
  PROVE  /\ Frame(n, k) \in Seq(Cell) /\ Len(Frame(n, k)) = Body + 1
         /\ \A i \in 1..(Body + 1) :
              Frame(n, k)[i] = [nonce |-> n, chunk |-> k, pos |-> i - 1]
<1> USE SizesAssumption
<1>1. \A i \in 1..(Body + 1) : [nonce |-> n, chunk |-> k, pos |-> i - 1] \in Cell
  BY SMT DEF Cell
<1>2. Frame(n, k) \in [1..(Body + 1) -> Cell]
  BY <1>1 DEF Frame
<1>3. Frame(n, k) \in Seq(Cell)
  BY <1>2, SeqDef, SMT
<1>4. Len(Frame(n, k)) = Body + 1
  BY <1>2, <1>3, LenProperties, SMT
<1> QED
  BY <1>3, <1>4 DEF Frame

\* A concatenation of good cells is good, and so is a part of them.
LEMMA GoodConcat ==
  ASSUME NEW q \in Seq(Cell), NEW r \in Seq(Cell), NEW n, NEW t,
         Good(q, n, t), Good(r, n, t)
  PROVE  Good(q \o r, n, t)
<1> SUFFICES ASSUME NEW i \in 1..Len(q \o r) PROVE Sound((q \o r)[i], n, t)
  BY DEF Good
<1>1. CASE \E j \in 1..Len(q) : (q \o r)[i] = q[j]
  BY <1>1 DEF Good
<1>2. CASE \E j \in 1..Len(r) : (q \o r)[i] = r[j]
  BY <1>2 DEF Good
<1> QED
  BY <1>1, <1>2, ConcatKeeps

\* So does a part of good cells.
LEMMA GoodPart ==
  ASSUME NEW q \in Seq(Cell), NEW m \in Nat \ {0}, NEW k \in 0..Len(q), NEW n, NEW t,
         Good(q, n, t)
  PROVE  Good(SubSeq(q, m, k), n, t)
<1> SUFFICES ASSUME NEW i \in 1..Len(SubSeq(q, m, k))
             PROVE  Sound(SubSeq(q, m, k)[i], n, t)
  BY DEF Good
<1>1. SubSeq(q, m, k)[i] = q[m + i - 1] /\ m + i - 1 \in 1..Len(q)
  BY SubSeqKeeps
<1> QED
  BY <1>1 DEF Good

\* There is nothing wrong with no cells.
LEMMA GoodEmpty == \A n, t : Good(<<>>, n, t)
  BY SMT DEF Good

\* One more frame is encrypted: cells stay good, and where no write was torn
\* the bound moves along.
LEMMA GoodLater ==
  ASSUME NEW q \in Seq(Cell), NEW n \in Nat, NEW t \in 0..n, Good(q, n, t)
  PROVE  Good(q, n + 1, t) /\ (t = n => Good(q, n + 1, n + 1))
<1>1. ASSUME NEW i \in 1..Len(q)
      PROVE  Sound(q[i], n + 1, t) /\ (t = n => Sound(q[i], n + 1, n + 1))
  <2>1. q[i] \in Cell
    BY ElementOfSeq
  <2>2. q[i].nonce \in Nat
    BY <2>1, SizesAssumption, SMT DEF Cell
  <2>3. Sound(q[i], n, t)
    BY DEF Good
  <2> QED
    BY <2>2, <2>3, SMT DEF Sound
<1> QED
  BY <1>1 DEF Good

-----------------------------------------------------------------------------
(* Whole frames *)

\* Numbers of a cell.
LEMMA CellNumbers ==
  ASSUME NEW q \in Seq(Cell), NEW i \in 1..Len(q)
  PROVE  q[i].nonce \in Nat /\ q[i].pos \in 0..Body
<1>1. q[i] \in Cell
  BY ElementOfSeq
<1> QED
  BY <1>1, SizesAssumption, SMT DEF Cell

\* One more frame at the end.
LEMMA FramedGrows ==
  ASSUME NEW q \in Seq(Cell), NEW e \in Nat, NEW n \in 0..(MaxNonce - 1), NEW k \in 1..Chunks,
         Framed(q, e, n), \A i \in 1..Len(q) : q[i].nonce < n
  PROVE  Framed(q \o Frame(n, k), e, n + 1)
<1> USE SizesAssumption
<1> DEFINE f == Frame(n, k)
           r == q \o f
<1>1. /\ f \in Seq(Cell) /\ Len(f) = Body + 1
      /\ \A i \in 1..(Body + 1) : f[i].nonce = n /\ f[i].pos = i - 1
  <2>1. /\ f \in Seq(Cell) /\ Len(f) = Body + 1
        /\ \A i \in 1..(Body + 1) : f[i] = [nonce |-> n, chunk |-> k, pos |-> i - 1]
    BY FrameCells
  <2> HIDE DEF f
  <2> QED
    BY <2>1
<1> HIDE DEF f
<1>2. /\ Len(q) \in Nat /\ Len(r) = Len(q) + (Body + 1)
      /\ \A i \in 1..(Len(q) + (Body + 1)) :
           r[i] = IF i <= Len(q) THEN q[i] ELSE f[i - Len(q)]
  <2>1. /\ Len(q) \in Nat /\ Len(q \o f) = Len(q) + Len(f)
        /\ \A i \in 1..(Len(q) + Len(f)) :
             (q \o f)[i] = IF i <= Len(q) THEN q[i] ELSE f[i - Len(q)]
    BY <1>1, ConcatProperties, LenProperties
  <2> QED
    BY <1>1, <2>1
<1> HIDE DEF r
<1>3. \A i \in 1..Len(q) : r[i] = q[i]
  BY <1>2, SizesAssumption, SMT
<1>4. ASSUME NEW i \in (Len(q) + 1)..(Len(q) + (Body + 1))
      PROVE  r[i].nonce = n /\ r[i].pos = i - (Len(q) + 1)
  <2>1. r[i] = f[i - Len(q)] /\ i - Len(q) \in 1..(Body + 1)
    BY <1>2, SizesAssumption, SMT
  <2>2. r[i].nonce = n /\ r[i].pos = (i - Len(q)) - 1
    BY <1>1, <2>1
  <2> QED
    BY <1>2, <2>2, SMT
<1>5. ASSUME NEW i \in 1..Len(q)
      PROVE  InFrame(r, i, n + 1)
  <2> DEFINE start == i - q[i].pos
             end == start + Body
  <2>1. r[i] = q[i] /\ q[i].pos \in 0..Body /\ q[i].nonce \in Nat /\ q[i].nonce < n
    BY <1>3, CellNumbers
  <2>2. /\ start >= 1 /\ end <= Len(q)
        /\ \A j \in start..end : q[j].nonce = q[i].nonce /\ q[j].pos = j - start
        /\ \A j \in 1..Len(q) : q[j].nonce = q[i].nonce => j \in start..end
        /\ IF end = Len(q) THEN n = q[i].nonce + 1
           ELSE q[end + 1].nonce = q[i].nonce + 1 /\ q[end + 1].pos = 0
    BY DEF Framed, InFrame
  <2>3. start \in Int /\ end \in Int /\ end = start + Body
    <3>1. i \in Int /\ q[i].pos \in Int /\ Body \in Int
      BY <2>1, SizesAssumption
    <3> QED
      BY <3>1, SMT
  <2> HIDE DEF start, end
  <2>4. \A j \in start..end : r[j].nonce = r[i].nonce /\ r[j].pos = j - start
    <3>1. \A j \in start..end : j \in 1..Len(q)
      BY <1>2, <2>2, <2>3, SMT
    <3> QED
      BY <1>3, <2>1, <2>2, <3>1
  <2>5. ASSUME NEW j \in 1..Len(r), r[j].nonce = r[i].nonce PROVE j \in start..end
    <3>1. CASE j \in 1..Len(q)
      BY <1>3, <2>1, <2>2, <2>5, <3>1
    <3>2. CASE j \notin 1..Len(q)
      <4>1. r[j].nonce = n
        BY <1>2, <1>4, <3>2, SMT
      <4> QED
        BY <2>1, <2>5, <4>1, SMT
    <3> QED
      BY <3>1, <3>2
  <2>6. r[end + 1].nonce = r[i].nonce + 1 /\ r[end + 1].pos = 0
    <3>1. CASE end = Len(q)
      <4>1. end + 1 \in (Len(q) + 1)..(Len(q) + (Body + 1)) /\ end + 1 - (Len(q) + 1) = 0
        BY <1>2, <3>1, SMT
      <4> QED
        BY <1>4, <2>1, <2>2, <3>1, <4>1
    <3>2. CASE end # Len(q)
      <4>1. end + 1 \in 1..Len(q)
        BY <1>2, <2>2, <2>3, <3>2, SMT
      <4> QED
        BY <1>3, <2>1, <2>2, <3>2, <4>1
    <3> QED
      BY <3>1, <3>2
  <2>7. start >= 1 /\ end <= Len(r) /\ end # Len(r)
    BY <1>2, <2>2, <2>3, SMT
  <2>8. i - r[i].pos = start /\ start + Body = end
    BY <2>1 DEF start, end
  <2> QED
    BY <2>4, <2>5, <2>6, <2>7, <2>8 DEF InFrame
<1>6. ASSUME NEW i \in (Len(q) + 1)..(Len(q) + (Body + 1))
      PROVE  InFrame(r, i, n + 1)
  <2>1. r[i].nonce = n /\ i - r[i].pos = Len(q) + 1 /\ Len(q) + 1 + Body = Len(r)
    BY <1>2, <1>4, SMT
  <2>2. ASSUME NEW j \in 1..Len(r), r[j].nonce = n PROVE j \in (Len(q) + 1)..Len(r)
    <3>1. j \notin 1..Len(q)
      <4>1. ASSUME j \in 1..Len(q) PROVE FALSE
        <5>1. q[j].nonce \in Nat /\ q[j].nonce < n /\ q[j].nonce = n
          BY <1>3, <2>2, <4>1, CellNumbers
        <5> QED
          BY <5>1, SMT
      <4> QED
        BY <4>1
    <3> QED
      BY <1>2, <3>1, SMT
  <2>3. \A j \in (Len(q) + 1)..Len(r) : r[j].nonce = n /\ r[j].pos = j - (Len(q) + 1)
    BY <1>2, <1>4, SMT
  <2>4. Len(q) + 1 >= 1 /\ Len(r) <= Len(r)
    BY <1>2, SMT
  <2> QED
    BY <2>1, <2>2, <2>3, <2>4 DEF InFrame
<1>7. Len(r) # 0 /\ r[1].nonce = e /\ r[1].pos = 0
  <2>1. CASE q = <<>>
    <3>1. Len(q) = 0 /\ e = n
      BY <2>1, EmptySeq DEF Framed
    <3> QED
      BY <1>2, <1>4, <3>1, SMT
  <2>2. CASE q # <<>>
    <3>1. 1 \in 1..Len(q) /\ Len(q) > 0
      BY <2>2, EmptySeq, SMT
    <3>2. q[1].nonce = e /\ q[1].pos = 0
      BY <2>2 DEF Framed
    <3>3. Len(r) # 0
      BY <1>2, SMT
    <3> QED
      BY <1>3, <3>1, <3>2, <3>3
  <2> QED
    BY <2>1, <2>2
<1>8. r # <<>>
  BY <1>7, EmptySeq
<1>9. \A i \in 1..Len(r) : i \in 1..Len(q) \/ i \in (Len(q) + 1)..(Len(q) + (Body + 1))
  BY <1>2, SMT
<1>10. Framed(r, e, n + 1)
  BY <1>5, <1>6, <1>7, <1>8, <1>9 DEF Framed
<1> QED
  BY <1>10 DEF r, f

\* The place where a frame starts, once the frame before it is gone.
LEMMA ShiftBack ==
  ASSUME NEW i \in Int, NEW p \in Int, NEW b \in Int
  PROVE  i - p = ((i + (b + 1)) - p) - (b + 1)
BY SMT

\* Whole frames start with the one the client waits for, and no other cell has
\* its nonce.
LEMMA FramedHead ==
  ASSUME NEW q \in Seq(Cell), NEW e, NEW n, Framed(q, e, n), q # <<>>
  PROVE  /\ Len(q) \in Nat /\ Len(q) >= Body + 1
         /\ \A i \in 1..(Body + 1) : q[i].nonce = e /\ q[i].pos = i - 1
         /\ \A i \in 1..Len(q) : q[i].nonce = e => i \in 1..(Body + 1)
         /\ IF Len(q) = Body + 1 THEN n = e + 1
            ELSE q[Body + 2].nonce = e + 1 /\ q[Body + 2].pos = 0
<1> USE SizesAssumption
<1>1. 1 \in 1..Len(q) /\ Len(q) \in Nat
  BY EmptySeq, SMT
<1>2. q[1].nonce = e /\ q[1].pos = 0 /\ InFrame(q, 1, n)
  BY <1>1 DEF Framed
<1>3. 1 - 0 = 1 /\ 1 + Body = Body + 1 /\ (Body + 1) + 1 = Body + 2
  BY SMT
<1>4. /\ Body + 1 <= Len(q)
      /\ \A j \in 1..(Body + 1) : q[j].nonce = e /\ q[j].pos = j - 1
      /\ \A j \in 1..Len(q) : q[j].nonce = e => j \in 1..(Body + 1)
      /\ IF Body + 1 = Len(q) THEN n = e + 1
         ELSE q[Body + 2].nonce = e + 1 /\ q[Body + 2].pos = 0
  BY <1>2, <1>3 DEF InFrame
<1> QED
  BY <1>1, <1>4, SMT

\* What follows the first frame is whole frames.
LEMMA FramedRest ==
  ASSUME NEW q \in Seq(Cell), NEW e \in Nat, NEW n, Framed(q, e, n), q # <<>>
  PROVE  Framed(SubSeq(q, Body + 2, Len(q)), e + 1, n)
<1> USE SizesAssumption
<1> DEFINE r == SubSeq(q, Body + 2, Len(q))
<1>1. /\ Len(q) \in Nat /\ Len(q) >= Body + 1
      /\ \A i \in 1..Len(q) : q[i].nonce = e => i \in 1..(Body + 1)
      /\ IF Len(q) = Body + 1 THEN n = e + 1
         ELSE q[Body + 2].nonce = e + 1 /\ q[Body + 2].pos = 0
  BY FramedHead
<1>2. /\ r \in Seq(Cell) /\ Len(r) = Len(q) - (Body + 1)
      /\ \A i \in 1..Len(r) : r[i] = q[i + (Body + 1)] /\ i + (Body + 1) \in 1..Len(q)
  <2>1. Body + 2 \in Nat \ {0} /\ Len(q) \in 0..Len(q)
    BY <1>1, SMT
  <2>2. /\ r \in Seq(Cell)
        /\ Len(r) = IF Body + 2 <= Len(q) THEN Len(q) - (Body + 2) + 1 ELSE 0
        /\ \A i \in 1..Len(r) :
             r[i] = q[(Body + 2) + i - 1] /\ (Body + 2) + i - 1 \in 1..Len(q)
    BY <2>1, SubSeqKeeps
  <2> HIDE DEF r
  <2>3. Len(r) = Len(q) - (Body + 1)
    BY <1>1, <2>2, SMT
  <2>4. \A i \in 1..Len(r) : (Body + 2) + i - 1 = i + (Body + 1)
    BY <1>1, <2>3, SMT
  <2> QED
    BY <2>2, <2>3, <2>4
<1> HIDE DEF r
<1>3. ASSUME NEW i \in 1..Len(r) PROVE InFrame(r, i, n)
  <2> DEFINE k == i + (Body + 1)
             s == k - q[k].pos
             t == s + Body
  <2>1. k \in 1..Len(q) /\ r[i] = q[k] /\ q[k].pos \in 0..Body /\ q[k].nonce \in Nat
    BY <1>2, CellNumbers
  <2>2. /\ s >= 1 /\ t <= Len(q)
        /\ \A j \in s..t : q[j].nonce = q[k].nonce /\ q[j].pos = j - s
        /\ \A j \in 1..Len(q) : q[j].nonce = q[k].nonce => j \in s..t
        /\ IF t = Len(q) THEN n = q[k].nonce + 1
           ELSE q[t + 1].nonce = q[k].nonce + 1 /\ q[t + 1].pos = 0
    BY <2>1 DEF Framed, InFrame
  <2>3. k = i + (Body + 1) /\ s \in Int /\ t = s + Body /\ s = k - q[k].pos
    BY <1>1, <1>2, <2>1, SMT
  <2> HIDE DEF k, s, t
  <2>4. s >= Body + 2
    <3>1. s \in s..t /\ s \in 1..Len(q)
      BY <1>1, <2>2, <2>3, SMT
    <3>2. q[k].nonce # e
      BY <1>1, <1>2, <2>1, <2>3, SMT
    <3>3. s \notin 1..(Body + 1)
      <4>1. ASSUME s \in 1..(Body + 1) PROVE FALSE
        <5>1. q[s].nonce = e
          <6>1. \A j \in 1..(Body + 1) : q[j].nonce = e
            BY FramedHead
          <6> QED
            BY <4>1, <6>1
        <5> QED
          BY <2>2, <3>1, <3>2, <5>1
      <4> QED
        BY <4>1
    <3> QED
      BY <2>2, <2>3, <3>3, SMT
  <2> DEFINE start == s - (Body + 1)
             end == t - (Body + 1)
  <2>5. /\ Len(q) \in Nat /\ Len(r) = Len(q) - (Body + 1) /\ Body \in Nat /\ i \in Int
        /\ s \in Int /\ t = s + Body /\ s >= Body + 2 /\ t <= Len(q)
    BY <1>1, <1>2, <2>2, <2>3, <2>4, SMT
  <2>6. /\ start + Body = end /\ start >= 1 /\ end <= Len(r)
        /\ start \in Int /\ end \in Int
    BY <2>5, SMT
  <2>7. i - r[i].pos = start
    <3> HIDE DEF start, r
    <3>1. r[i].pos = q[k].pos /\ q[k].pos \in 0..Body
      BY <2>1
    <3>2. i \in Int /\ Body \in Int /\ r[i].pos \in Int
      BY <2>5, <3>1
    <3>3. i - r[i].pos = ((i + (Body + 1)) - r[i].pos) - (Body + 1)
      BY <3>2, ShiftBack
    <3>4. s = (i + (Body + 1)) - r[i].pos
      BY <2>3, <3>1, Zenon
    <3>5. start = s - (Body + 1)
      BY DEF start
    <3> QED
      BY <3>3, <3>4, <3>5, Zenon
  <2>8. ASSUME NEW j \in start..end PROVE r[j].nonce = r[i].nonce /\ r[j].pos = j - start
    <3>1. j \in 1..Len(r) /\ j + (Body + 1) \in s..t /\ (j + (Body + 1)) - s = j - start
      BY <2>5, SMT
    <3> QED
      BY <1>2, <2>1, <2>2, <3>1
  <2>9. ASSUME NEW j \in 1..Len(r), r[j].nonce = r[i].nonce PROVE j \in start..end
    <3>1. j + (Body + 1) \in s..t
      BY <1>2, <2>1, <2>2, <2>9
    <3> QED
      BY <2>5, <3>1, SMT
  <2>10. IF end = Len(r) THEN n = r[i].nonce + 1
         ELSE r[end + 1].nonce = r[i].nonce + 1 /\ r[end + 1].pos = 0
    <3>1. CASE end = Len(r)
      <4>1. t = Len(q)
        BY <2>5, <3>1, SMT
      <4> QED
        BY <2>1, <2>2, <3>1, <4>1
    <3>2. CASE end # Len(r)
      <4>1. t # Len(q) /\ end + 1 \in 1..Len(r) /\ (end + 1) + (Body + 1) = t + 1
        BY <2>5, <3>2, SMT
      <4> HIDE DEF end
      <4>2. r[end + 1] = q[t + 1]
        BY <1>2, <4>1
      <4> QED
        BY <2>1, <2>2, <3>2, <4>1, <4>2
    <3> QED
      BY <3>1, <3>2
  <2> HIDE DEF start, end
  <2> QED
    BY <2>6, <2>7, <2>8, <2>9, <2>10 DEF InFrame
<1>4. r = <<>> => e + 1 = n
  <2>1. r = <<>> => Len(r) = 0
    BY EmptySeq
  <2>2. Len(r) = 0 => Len(q) = Body + 1
    BY <1>1, <1>2, SMT
  <2> QED
    BY <1>1, <2>1, <2>2
<1>5. r # <<>> => r[1].nonce = e + 1 /\ r[1].pos = 0
  <2>1. ASSUME r # <<>> PROVE r[1] = q[Body + 2] /\ Len(q) # Body + 1
    <3>1. Len(r) \in Nat \ {0}
      BY <1>2, <2>1, EmptySeq
    <3>2. 1 \in 1..Len(r) /\ 1 + (Body + 1) = Body + 2 /\ Len(q) # Body + 1
      BY <1>1, <1>2, <3>1, SMT
    <3> QED
      BY <1>2, <3>2
  <2> QED
    BY <1>1, <2>1
<1>6. Framed(r, e + 1, n)
  BY <1>3, <1>4, <1>5 DEF Framed
<1> QED
  BY <1>6 DEF r

-----------------------------------------------------------------------------
(* What is delivered is in order *)

\* At the start no frame is on its way.
LEMMA InitOrdered == Init => Ordered
<1> SUFFICES ASSUME Init PROVE Ordered
  OBVIOUS
<1> USE SizesAssumption DEF Init
<1>1. TypeOK
  BY EmptySeq, SMT DEF TypeOK
<1>2. NonceOrder
  BY GoodEmpty, SMT DEF NonceOrder
<1> QED
  BY <1>1, <1>2, EmptySeq, SMT DEF Ordered

\* A write adds a whole new frame, or the start of one.
LEMMA WriteStep == Ordered /\ PollWrite => Ordered'
<1> SUFFICES ASSUME Ordered, PollWrite PROVE Ordered'
  OBVIOUS
<1> USE SizesAssumption
<1>0. /\ nonce \in 0..(MaxNonce - 1) /\ next \in 1..Chunks
      /\ sock \in Seq(Cell) /\ inbox \in Seq(Cell) /\ Len(sock) \in Nat
      /\ nonce' = nonce + 1 /\ srv = "copy" /\ expected \in Nat
      /\ UNCHANGED <<inbox, link, cli, expected, got>>
  BY LenProperties, SMT DEF Ordered, TypeOK, PollWrite, cliVars
<1> DEFINE f == Frame(nonce, next)
<1>1. /\ f \in Seq(Cell) /\ Len(f) = Body + 1
      /\ \A i \in 1..(Body + 1) : f[i] = [nonce |-> nonce, chunk |-> next, pos |-> i - 1]
  BY <1>0, FrameCells
<1>2. PICK t \in 0..nonce :
        /\ expected <= t
        /\ IF t = nonce THEN next = nonce + 1 /\ "write" \notin torn ELSE t < Chunks
        /\ Good(sock, nonce, t) /\ Good(inbox, nonce, t)
  BY DEF Ordered, NonceOrder
<1>3. /\ Good(sock, nonce + 1, t) /\ Good(inbox, nonce + 1, t)
      /\ t = nonce => Good(sock, nonce + 1, nonce + 1) /\ Good(inbox, nonce + 1, nonce + 1)
  BY <1>0, <1>2, GoodLater, SMT
<1>4. ASSUME NEW i \in 1..(Body + 1)
      PROVE  /\ i <= Body \/ t # nonce => Sound(f[i], nonce + 1, t)
             /\ t = nonce => Sound(f[i], nonce + 1, nonce + 1)
  <2>1. f[i] = [nonce |-> nonce, chunk |-> next, pos |-> i - 1]
    BY <1>1
  <2>2. f[i].nonce = nonce /\ f[i].chunk = next /\ f[i].pos = i - 1
    BY <2>1
  <2> HIDE DEF f
  <2> QED
    BY <2>2, <1>0, <1>2, SMT DEF Sound
<1>5. TypeOK
  BY DEF Ordered
<1> HIDE DEF f
<1>6. CASE Room > Body
  <2>1. /\ sock' = sock \o f /\ next' = next + 1 /\ UNCHANGED <<srv, torn>>
    BY <1>6, <1>0, <1>5, SMT DEF PollWrite, Room, TypeOK, f
  <2>2. sock' \in Seq(Cell) /\ Len(sock') = Len(sock) + Len(f)
    BY <2>1, <1>0, <1>1, ConcatProperties
  <2>3. TypeOK'
    BY <2>1, <2>2, <1>0, <1>1, <1>5, <1>6, SMT DEF TypeOK, Room
  <2> DEFINE u == IF t = nonce THEN nonce + 1 ELSE t
  <2>4. Good(f, nonce + 1, u)
    BY <1>1, <1>4 DEF Good
  <2>5. Good(sock', nonce + 1, u) /\ Good(inbox', nonce + 1, u)
    BY <1>0, <1>1, <1>3, <2>1, <2>4, GoodConcat
  <2>6. /\ u \in 0..nonce' /\ expected' <= u
        /\ IF u = nonce' THEN next' = nonce' + 1 /\ "write" \notin torn' ELSE u < Chunks
    BY <1>0, <1>2, <2>1, SMT
  <2> HIDE DEF u
  <2>7. NonceOrder'
    BY <1>0, <2>5, <2>6 DEF NonceOrder
  <2> QED BY <2>3, <2>7, <1>0 DEF Ordered
<1>7. CASE ~(Room > Body)
  <2> DEFINE g == SubSeq(f, 1, Room)
  <2>1. /\ sock' = sock \o g /\ next' = next /\ srv' = "blocked"
        /\ torn' = torn \cup {"write"}
    BY <1>7, <1>0, <1>5, SMT DEF PollWrite, Room, TypeOK, f
  <2>2. Room \in 0..Len(f) /\ Room <= Body /\ Room = SockBuf - Len(sock)
    BY <1>0, <1>1, <1>5, <1>7, SMT DEF Room, TypeOK
  <2>3. g \in Seq(Cell) /\ Len(g) = (IF 1 <= Room THEN Room - 1 + 1 ELSE 0)
    BY <1>1, <2>2, SubSeqKeeps
  <2>4. ASSUME NEW i \in 1..Len(g)
        PROVE  Sound(g[i], nonce + 1, t)
    <3>1. g[i] = f[1 + i - 1] /\ i \in 1..Body
      BY <1>1, <2>2, <2>3, SubSeqKeeps, SMT
    <3>2. 1 + i - 1 = i /\ i <= Body /\ i \in 1..(Body + 1)
      BY <3>1, SMT
    <3> HIDE DEF g
    <3>3. g[i] = f[i]
      BY <3>1, <3>2
    <3> QED
      BY <3>2, <3>3, <1>4
  <2> HIDE DEF g
  <2>5. sock' \in Seq(Cell) /\ Len(sock') = Len(sock) + Len(g)
    BY <2>1, <2>3, <1>0, ConcatProperties
  <2>6. TypeOK'
    BY <2>1, <2>2, <2>3, <2>5, <1>0, <1>5, SMT DEF TypeOK
  <2>7. Good(sock', nonce + 1, t) /\ Good(inbox', nonce + 1, t)
    <3>1. Good(g, nonce + 1, t)
      BY <2>4 DEF Good
    <3> QED
      BY <3>1, <1>0, <1>3, <2>1, <2>3, GoodConcat
  <2>8. t < Chunks
    BY <1>0, <1>2, SMT
  <2>9. /\ t \in 0..nonce' /\ expected' <= t
        /\ IF t = nonce' THEN next' = nonce' + 1 /\ "write" \notin torn' ELSE t < Chunks
    BY <1>0, <1>2, <2>8, SMT
  <2>10. NonceOrder'
    BY <1>0, <2>7, <2>9 DEF NonceOrder
  <2> QED BY <2>6, <2>10, <1>0 DEF Ordered
<1> QED
  BY <1>6, <1>7

\* Cells that arrive move from the socket to the inbox.
LEMMA ArriveStep == Ordered /\ Arrive => Ordered'
<1> SUFFICES ASSUME Ordered, Arrive PROVE Ordered'
  OBVIOUS
<1>1. PICK k \in 1..Len(sock) :
        /\ inbox' = inbox \o SubSeq(sock, 1, k)
        /\ sock' = SubSeq(sock, k + 1, Len(sock))
  BY DEF Arrive
<1>2. /\ UNCHANGED <<srv, next, nonce, link, cli, expected, got, torn>>
      /\ sock \in Seq(Cell) /\ inbox \in Seq(Cell) /\ Len(sock) \in Nat
  BY LenProperties DEF Arrive, srvVars, cliVars, Ordered, TypeOK
<1>3. /\ SubSeq(sock, 1, k) \in Seq(Cell)
      /\ sock' \in Seq(Cell) /\ Len(sock') <= Len(sock)
  BY <1>1, <1>2, SubSeqKeeps, SMT
<1>4. inbox' \in Seq(Cell)
  BY <1>1, <1>2, <1>3, ConcatProperties
<1>5. TypeOK'
  BY <1>2, <1>3, <1>4, SizesAssumption, LenProperties, SMT DEF Ordered, TypeOK
<1>6. ASSUME NEW t, Good(sock, nonce, t), Good(inbox, nonce, t)
      PROVE  Good(sock', nonce, t) /\ Good(inbox', nonce, t)
  <2>1. k \in 0..Len(sock) /\ Len(sock) \in 0..Len(sock) /\ k + 1 \in Nat \ {0}
    BY <1>2, SMT
  <2>2. Good(SubSeq(sock, 1, k), nonce, t)
    BY <1>2, <1>6, <2>1, GoodPart
  <2>3. Good(SubSeq(sock, k + 1, Len(sock)), nonce, t)
    BY <1>2, <1>6, <2>1, GoodPart
  <2> QED
    BY <1>1, <1>2, <1>3, <1>6, <2>2, <2>3, GoodConcat
<1>7. NonceOrder'
  BY <1>2, <1>6 DEF Ordered, NonceOrder
<1> QED
  BY <1>2, <1>5, <1>7 DEF Ordered

\* A decrypted frame was whole and has the nonce the client expects, so it is
\* not the torn one: it carries the next chunk.
LEMMA ReadStep == Ordered /\ PollRead => Ordered'
<1> SUFFICES ASSUME Ordered, PollRead PROVE Ordered'
  OBVIOUS
<1> USE SizesAssumption
<1>1. PICK len \in Lengths :
        /\ Len(inbox) > len
        /\ LET body == SubSeq(inbox, 2, len + 1) IN
             \/ /\ Decrypts(body)
                /\ expected' = expected + 1
                /\ got' = Append(got, body[1].chunk)
                /\ UNCHANGED <<cli, link, sock>>
                /\ inbox' = SubSeq(inbox, len + 2, Len(inbox))
             \/ /\ ~Decrypts(body)
                /\ cli' = "err"
                /\ link' = "reset" /\ sock' = <<>> /\ inbox' = <<>>
                /\ UNCHANGED <<expected, got>>
  BY DEF PollRead
<1> DEFINE body == SubSeq(inbox, 2, len + 1)
<1>2. /\ UNCHANGED <<srv, next, nonce, torn>> /\ len \in Nat
      /\ sock \in Seq(Cell) /\ inbox \in Seq(Cell) /\ Len(inbox) \in Nat
      /\ got \in Seq(1..Chunks) /\ Len(got) = expected /\ expected \in Nat
      /\ nonce \in Nat /\ TypeOK /\ \A i \in 1..Len(got) : got[i] = i
  BY LenProperties, SMT DEF PollRead, srvVars, Lengths, Ordered, TypeOK
<1>3. PICK t \in 0..nonce :
        /\ expected <= t
        /\ IF t = nonce THEN next = nonce + 1 /\ "write" \notin torn ELSE t < Chunks
        /\ Good(sock, nonce, t) /\ Good(inbox, nonce, t)
  BY DEF Ordered, NonceOrder
<1>4. CASE Decrypts(body)
  <2>1. /\ expected' = expected + 1
        /\ got' = Append(got, body[1].chunk)
        /\ UNCHANGED <<cli, link, sock>>
        /\ inbox' = SubSeq(inbox, len + 2, Len(inbox))
    BY <1>1, <1>4
  <2>2. body \in Seq(Cell) /\ Good(body, nonce, t)
    <3>1. len + 1 \in 0..Len(inbox) /\ 2 \in Nat \ {0}
      BY <1>1, <1>2, SMT
    <3> QED
      BY <3>1, <1>2, <1>3, SubSeqKeeps, GoodPart
  <2>3. /\ Len(body) = Body /\ body[1].nonce = expected
        /\ \A i \in 1..Body : body[i] = [body[1] EXCEPT !.pos = i]
    BY <1>4 DEF Decrypts
  <2> HIDE DEF body
  <2>4. 1 \in 1..Len(body) /\ Body \in 1..Len(body)
    BY <2>3, SMT
  <2>5. body[1] \in Cell /\ body[Body] \in Cell
    BY <2>2, <2>4, ElementOfSeq
  <2>6. Sound(body[1], nonce, t) /\ Sound(body[Body], nonce, t)
    BY <2>2, <2>4 DEF Good
  <2>7. body[Body] = [body[1] EXCEPT !.pos = Body]
    BY <2>3, <2>4
  <2>8. body[Body].nonce = expected /\ body[Body].pos = Body
    BY <2>3, <2>5, <2>7 DEF Cell
  <2>9. expected + 1 <= t /\ body[1].chunk = expected + 1
    BY <1>2, <1>3, <2>3, <2>6, <2>8, SMT DEF Sound
  <2>10. expected + 1 \in 0..MaxNonce /\ expected + 1 \in 1..Chunks
    <3>1. body[1].chunk \in 1..Chunks
      BY <2>5 DEF Cell
    <3>2. nonce <= MaxNonce
      BY <1>2, SMT DEF TypeOK
    <3> QED
      BY <3>1, <3>2, <1>2, <1>3, <2>9, SMT
  <2>11. got' \in Seq(1..Chunks) /\ Len(got') = expected + 1
    BY <1>2, <2>1, <2>9, <2>10, AppendProperties
  <2>12. ASSUME NEW i \in 1..Len(got')
         PROVE  got'[i] = i
    BY <1>2, <2>1, <2>9, <2>10, <2>11, AppendProperties, SMT
  <2>13. inbox' \in Seq(Cell) /\ Good(inbox', nonce, t)
    <3>1. Len(inbox) \in 0..Len(inbox) /\ len + 2 \in Nat \ {0}
      BY <1>2, SMT
    <3> QED
      BY <3>1, <1>2, <1>3, <2>1, SubSeqKeeps, GoodPart
  <2>14. TypeOK'
    BY <1>2, <2>1, <2>10, <2>11, <2>13 DEF TypeOK
  <2>15. NonceOrder'
    BY <1>2, <1>3, <2>1, <2>9, <2>13 DEF NonceOrder
  <2> QED BY <2>1, <2>11, <2>12, <2>14, <2>15 DEF Ordered
<1>5. CASE ~Decrypts(body)
  <2>1. /\ cli' = "err" /\ link' = "reset" /\ sock' = <<>> /\ inbox' = <<>>
        /\ UNCHANGED <<expected, got>>
    BY <1>1, <1>5
  <2>2. TypeOK'
    BY <1>2, <2>1, EmptySeq, SMT DEF TypeOK
  <2>3. NonceOrder'
    BY <1>2, <1>3, <2>1, GoodEmpty DEF NonceOrder
  <2> QED BY <1>2, <2>1, <2>2, <2>3 DEF Ordered
<1> QED
  BY <1>4, <1>5

\* The other steps encrypt and decrypt nothing: they leave the cells alone or
\* drop them.
LEMMA OtherStep ==
  ASSUME Ordered,
         \/ WriteWakes \/ WriteFails \/ WriteEnds \/ ServerLeaves \/ Reset
         \/ PollReadPart \/ ReadWakes \/ PollReadEof \/ PollReadFails
         \/ UNCHANGED vars
  PROVE  Ordered'
<1> USE DEF Ordered, srvVars, cliVars
<1>1. /\ UNCHANGED <<next, nonce, expected, got>>
      /\ sock' \in {sock, <<>>} /\ inbox' \in {inbox, <<>>}
  BY DEF WriteWakes, WriteFails, WriteEnds, ServerLeaves, Reset, PollReadPart,
     ReadWakes, PollReadEof, PollReadFails, vars
<1>2. /\ srv' \in {"copy", "blocked", "done", "err", "gone"}
      /\ link' \in {"up", "closed", "reset"}
      /\ cli' \in {"copy", "blocked", "eof", "err", "panic"}
      /\ torn' \in SUBSET {"write", "read"}
  BY DEF TypeOK, WriteWakes, WriteFails, WriteEnds, ServerLeaves, Reset,
     PollReadPart, ReadWakes, PollReadEof, PollReadFails, vars
<1>3. /\ sock' \in Seq(Cell) /\ Len(sock') <= SockBuf
      /\ inbox' \in Seq(Cell)
  <2>1. sock \in Seq(Cell) /\ Len(sock) <= SockBuf /\ inbox \in Seq(Cell)
    BY DEF TypeOK
  <2>2. <<>> \in Seq(Cell) /\ Len(<<>>) = 0 /\ 0 <= SockBuf
    BY EmptySeq, SizesAssumption
  <2> QED
    BY <1>1, <2>1, <2>2
<1>4. TypeOK'
  BY <1>1, <1>2, <1>3 DEF TypeOK
<1>5. "write" \in torn' <=> "write" \in torn
  BY DEF WriteWakes, WriteFails, WriteEnds, ServerLeaves, Reset, PollReadPart,
     ReadWakes, PollReadEof, PollReadFails, vars
<1>6. NonceOrder'
  <2>1. PICK t \in 0..nonce :
          /\ expected <= t
          /\ IF t = nonce THEN next = nonce + 1 /\ "write" \notin torn ELSE t < Chunks
          /\ Good(sock, nonce, t) /\ Good(inbox, nonce, t)
    BY DEF NonceOrder
  <2>2. Good(sock', nonce, t) /\ Good(inbox', nonce, t)
    BY <1>1, <2>1, GoodEmpty
  <2> QED
    BY <1>1, <1>5, <2>1, <2>2 DEF NonceOrder
<1> QED
  BY <1>1, <1>4, <1>6

-----------------------------------------------------------------------------
(* The wire *)

\* What follows the first m elements, when more is put behind.
LEMMA DropConcat ==
  ASSUME NEW S, NEW q \in Seq(S), NEW r \in Seq(S), NEW m \in 0..Len(q)
  PROVE  SubSeq(q, m + 1, Len(q)) \o r = SubSeq(q \o r, m + 1, Len(q \o r))
<1> DEFINE a == SubSeq(q, m + 1, Len(q))
           b == SubSeq(q \o r, m + 1, Len(q \o r))
<1>1. /\ Len(q) \in Nat /\ Len(r) \in Nat /\ m \in Nat /\ m <= Len(q)
      /\ q \o r \in Seq(S) /\ Len(q \o r) = Len(q) + Len(r)
      /\ \A i \in 1..(Len(q) + Len(r)) :
           (q \o r)[i] = IF i <= Len(q) THEN q[i] ELSE r[i - Len(q)]
  BY LenProperties, ConcatProperties, SMT
<1>2. /\ a \in Seq(S) /\ Len(a) = Len(q) - m
      /\ \A i \in 1..(Len(q) - m) : a[i] = q[i + m]
  <2>1. m + 1 \in Nat \ {0} /\ Len(q) \in 0..Len(q)
    BY <1>1, SMT
  <2>2. /\ a \in Seq(S) /\ Len(a) = IF m + 1 <= Len(q) THEN Len(q) - (m + 1) + 1 ELSE 0
        /\ \A i \in 1..Len(a) : a[i] = q[(m + 1) + i - 1]
    BY <2>1, SubSeqKeeps
  <2> HIDE DEF a
  <2>3. Len(a) = Len(q) - m
    BY <1>1, <2>2, SMT
  <2>4. \A i \in 1..(Len(q) - m) : (m + 1) + i - 1 = i + m
    BY <1>1, SMT
  <2> QED
    BY <2>2, <2>3, <2>4
<1>3. /\ b \in Seq(S) /\ Len(b) = Len(q) + Len(r) - m
      /\ \A i \in 1..(Len(q) + Len(r) - m) : b[i] = (q \o r)[i + m]
  <2>1. m + 1 \in Nat \ {0} /\ Len(q \o r) \in 0..Len(q \o r)
    BY <1>1, SMT
  <2>2. /\ b \in Seq(S)
        /\ Len(b) = IF m + 1 <= Len(q \o r) THEN Len(q \o r) - (m + 1) + 1 ELSE 0
        /\ \A i \in 1..Len(b) : b[i] = (q \o r)[(m + 1) + i - 1]
    BY <1>1, <2>1, SubSeqKeeps
  <2> HIDE DEF b
  <2>3. Len(b) = Len(q) + Len(r) - m
    BY <1>1, <2>2, SMT
  <2>4. \A i \in 1..(Len(q) + Len(r) - m) : (m + 1) + i - 1 = i + m
    BY <1>1, SMT
  <2> QED
    BY <2>2, <2>3, <2>4
<1> HIDE DEF a, b
<1>4. /\ a \o r \in Seq(S) /\ Len(a \o r) = Len(a) + Len(r)
      /\ \A i \in 1..(Len(a) + Len(r)) :
           (a \o r)[i] = IF i <= Len(a) THEN a[i] ELSE r[i - Len(a)]
  BY <1>2, ConcatProperties
<1>5. Len(a \o r) = Len(b)
  BY <1>1, <1>2, <1>3, <1>4, SMT
<1>6. ASSUME NEW i \in 1..Len(a \o r) PROVE (a \o r)[i] = b[i]
  <2>1. /\ i \in 1..(Len(a) + Len(r)) /\ i \in 1..(Len(q) + Len(r) - m)
        /\ i + m \in 1..(Len(q) + Len(r)) /\ i <= Len(a) <=> i + m <= Len(q)
        /\ i - Len(a) = (i + m) - Len(q)
    BY <1>1, <1>2, <1>4, SMT
  <2>2. CASE i <= Len(a)
    <3>1. i \in 1..(Len(q) - m)
      BY <1>1, <1>2, <2>1, <2>2, SMT
    <3> QED
      BY <1>1, <1>2, <1>3, <1>4, <2>1, <2>2, <3>1
  <2>3. CASE ~(i <= Len(a))
    <3>1. (a \o r)[i] = r[(i + m) - Len(q)]
      BY <1>4, <2>1, <2>3
    <3>2. b[i] = r[(i + m) - Len(q)]
      BY <1>1, <1>3, <2>1, <2>3
    <3> QED
      BY <3>1, <3>2
  <2> QED
    BY <2>2, <2>3
<1>7. a \o r = b
  BY <1>3, <1>4, <1>5, <1>6, SeqEqual
<1> QED
  BY <1>7 DEF a, b

\* The cells on the wire are those of the inbox and then those of the socket,
\* all of frames already encrypted.
LEMMA WireCells ==
  ASSUME Ordered
  PROVE  /\ inbox \in Seq(Cell) /\ sock \in Seq(Cell) /\ Wire \in Seq(Cell)
         /\ Len(inbox) \in Nat /\ Len(sock) \in Nat /\ Len(Wire) = Len(inbox) + Len(sock)
         /\ \A i \in 1..Len(inbox) : Wire[i] = inbox[i] /\ i \in 1..Len(Wire)
         /\ \A i \in 1..Len(sock) :
              Wire[Len(inbox) + i] = sock[i] /\ Len(inbox) + i \in 1..Len(Wire)
         /\ \A i \in 1..Len(Wire) : Wire[i].nonce < nonce
<1>1. /\ inbox \in Seq(Cell) /\ sock \in Seq(Cell)
      /\ Len(inbox) \in Nat /\ Len(sock) \in Nat
  BY LenProperties DEF Ordered, TypeOK
<1>2. /\ Wire \in Seq(Cell) /\ Len(Wire) = Len(inbox) + Len(sock)
      /\ \A i \in 1..(Len(inbox) + Len(sock)) :
           Wire[i] = IF i <= Len(inbox) THEN inbox[i] ELSE sock[i - Len(inbox)]
  BY <1>1, ConcatProperties DEF Wire
<1>3. \A i \in 1..Len(inbox) : Wire[i] = inbox[i] /\ i \in 1..Len(Wire)
  BY <1>1, <1>2, SMT
<1>4. ASSUME NEW i \in 1..Len(sock)
      PROVE  Wire[Len(inbox) + i] = sock[i] /\ Len(inbox) + i \in 1..Len(Wire)
  <2>1. /\ Len(inbox) + i \in 1..(Len(inbox) + Len(sock)) /\ ~(Len(inbox) + i <= Len(inbox))
        /\ (Len(inbox) + i) - Len(inbox) = i
    BY <1>1, SMT
  <2> QED
    BY <1>2, <2>1
<1>5. \E t \in 0..nonce : Good(sock, nonce, t) /\ Good(inbox, nonce, t)
  BY DEF Ordered, NonceOrder
<1>6. ASSUME NEW i \in 1..Len(Wire) PROVE Wire[i].nonce < nonce
  <2>1. CASE i \in 1..Len(inbox)
    BY <1>3, <1>5, <2>1 DEF Good, Sound
  <2>2. CASE i \notin 1..Len(inbox)
    <3>1. i - Len(inbox) \in 1..Len(sock) /\ Wire[i] = sock[i - Len(inbox)]
      BY <1>1, <1>2, <2>2, SMT
    <3> QED
      BY <1>5, <3>1 DEF Good, Sound
  <2> QED
    BY <2>1, <2>2
<1> QED
  BY <1>1, <1>2, <1>3, <1>4, <1>6

\* Nothing is on the wire.
LEMMA EmptyWire == inbox = <<>> /\ sock = <<>> => Wire = <<>> /\ Len(Wire) = 0
<1>1. <<>> \in Seq(Cell) /\ Len(<<>>) = 0
  BY EmptySeq
<1>2. <<>> \o <<>> = <<>>
  BY <1>1, ConcatEmptySeq
<1> QED
  BY <1>1, <1>2 DEF Wire

\* Cells that arrive stay on the wire.
LEMMA ArriveWire == Ordered /\ Arrive => Wire' = Wire
<1> SUFFICES ASSUME Ordered, Arrive PROVE Wire' = Wire
  OBVIOUS
<1>1. PICK k \in 1..Len(sock) :
        /\ inbox' = inbox \o SubSeq(sock, 1, k)
        /\ sock' = SubSeq(sock, k + 1, Len(sock))
  BY DEF Arrive
<1>2. sock \in Seq(Cell) /\ inbox \in Seq(Cell) /\ Len(sock) \in Nat
  BY WireCells
<1> DEFINE a == SubSeq(sock, 1, k)
           b == SubSeq(sock, k + 1, Len(sock))
<1>3. a \in Seq(Cell) /\ b \in Seq(Cell)
  <2>1. k \in 0..Len(sock) /\ Len(sock) \in 0..Len(sock) /\ k + 1 \in Nat \ {0}
    BY <1>2, SMT
  <2> QED
    BY <1>2, <2>1, SubSeqKeeps
<1>4. a \o b = sock
  <2>1. /\ 1 \in 1..(Len(sock) + 1) /\ k \in (1 - 1)..Len(sock)
        /\ Len(sock) \in k..Len(sock)
    BY <1>2, SMT
  <2>2. a \o b = SubSeq(sock, 1, Len(sock))
    BY <1>2, <2>1, ConcatAdjacentSubSeq
  <2> QED
    BY <1>2, <2>2, SubSeqFull
<1>5. inbox' = inbox \o a /\ sock' = b
  BY <1>1
<1> HIDE DEF a, b
<1>6. (inbox \o a) \o b = inbox \o (a \o b)
  <2>1. inbox \in Seq(Cell) /\ a \in Seq(Cell) /\ b \in Seq(Cell)
    BY <1>2, <1>3
  <2> QED
    BY <2>1, ConcatAssociative
<1> QED
  BY <1>4, <1>5, <1>6 DEF Wire

\* A frame written whole follows what is on the wire.
LEMMA WriteWire ==
  ASSUME Ordered, PollWrite, "write" \notin torn'
  PROVE  /\ Wire' = Wire \o Frame(nonce, next) /\ torn' = torn
         /\ nonce \in 0..(MaxNonce - 1) /\ next \in 1..Chunks
         /\ UNCHANGED <<link, expected>> /\ nonce' = nonce + 1
<1>1. /\ nonce \in 0..(MaxNonce - 1) /\ next \in 1..Chunks
      /\ UNCHANGED <<inbox, link, expected>> /\ nonce' = nonce + 1
  BY SizesAssumption, SMT DEF PollWrite, cliVars, Ordered, TypeOK
<1> DEFINE f == Frame(nonce, next)
<1>2. sock' = sock \o f /\ torn' = torn
  BY DEF PollWrite
<1>3. f \in Seq(Cell)
  BY <1>1, FrameCells
<1> HIDE DEF f
<1>4. (inbox \o sock) \o f = inbox \o (sock \o f)
  <2>1. inbox \in Seq(Cell) /\ sock \in Seq(Cell)
    BY WireCells
  <2> QED
    BY <1>3, <2>1, ConcatAssociative
<1>5. Wire' = Wire \o f
  BY <1>1, <1>2, <1>4 DEF Wire
<1> QED
  BY <1>1, <1>2, <1>5 DEF f

-----------------------------------------------------------------------------
(* IInv is inductive *)

\* At the start nothing is on the wire and no nonce was used.
LEMMA InitIInv == Init => IInv
<1> SUFFICES ASSUME Init PROVE IInv
  OBVIOUS
<1>1. Wire = <<>> /\ Len(Wire) = 0
  BY EmptyWire DEF Init
<1>2. Framed(<<>>, 0, 0)
  BY EmptySeq, SMT DEF Framed
<1>3. FramesWhole
  BY <1>1, <1>2 DEF Init, FramesWhole
<1>4. FrameLost /\ CopyEnds
  BY DEF Init, FrameLost, CopyEnds
<1> QED
  BY <1>3, <1>4, InitOrdered DEF IInv

\* A step of the server, of TCP and of the client is one of these: it moves
\* cells, or it leaves all cells where they are, or the connection is reset.
LEMMA Steps ==
  ASSUME Ordered, [Next]_vars
  PROVE  \/ PollWrite \/ Arrive \/ PollRead \/ PollReadPart \/ PollReadEof
         \/ /\ UNCHANGED <<nonce, expected, torn>>
            /\ \/ Wire' = Wire
               \/ link' = "reset" /\ Wire' = <<>> /\ Len(Wire') = 0
            /\ link = "reset" => link' = "reset"
<1>1. CASE Reset
  <2>1. inbox' = <<>> /\ sock' = <<>> /\ link' = "reset" /\ UNCHANGED <<nonce, expected, torn>>
    BY <1>1 DEF Reset, srvVars, cliVars
  <2>2. Wire' = <<>> /\ Len(Wire') = 0
    <3>1. Wire' = <<>> \o <<>> /\ <<>> \in Seq(Cell) /\ Len(<<>>) = 0
      BY <2>1, EmptySeq DEF Wire
    <3>2. <<>> \o <<>> = <<>>
      BY <3>1, ConcatEmptySeq
    <3> QED
      BY <3>1, <3>2
  <2> QED
    BY <2>1, <2>2
<1>2. CASE \/ WriteWakes \/ WriteFails \/ WriteEnds \/ ServerLeaves
           \/ ReadWakes \/ PollReadFails \/ UNCHANGED vars
  <2>1. UNCHANGED <<nonce, expected, torn, inbox, sock>> /\ (link = "reset" => link' = "reset")
    BY <1>2 DEF WriteWakes, WriteFails, WriteEnds, ServerLeaves, ReadWakes, PollReadFails,
       vars, srvVars, cliVars
  <2>2. Wire' = Wire
    BY <2>1 DEF Wire
  <2> QED
    BY <2>1, <2>2
<1> QED
  BY <1>1, <1>2 DEF Next

\* Where the frames are whole, the client reads a header, and a message that is
\* not all there is not in the inbox alone.
LEMMA HeaderFirst ==
  ASSUME Ordered, Framed(Wire, expected, nonce), inbox # <<>>
  PROVE  /\ Wire # <<>> /\ Lengths = {Body} /\ expected < nonce
         /\ \A len \in Lengths : Len(inbox) <= len => sock # <<>>
<1>1. Len(inbox) \in Nat \ {0} /\ Head(inbox) = inbox[1]
  BY WireCells, EmptySeq, HeadTailProperties, SMT
<1>2. 1 \in 1..Len(inbox) /\ Wire[1] = inbox[1] /\ 1 \in 1..Len(Wire) /\ Wire[1].nonce < nonce
  <2>1. 1 \in 1..Len(inbox)
    BY <1>1, SMT
  <2> QED
    BY <2>1, WireCells
<1>3. Wire # <<>>
  <2>1. Len(<<>>) = 0 /\ Len(Wire) \in Nat
    BY WireCells, EmptySeq, LenProperties
  <2> QED
    BY <1>2, <2>1, SMT
<1>4. Wire[1].nonce = expected /\ Wire[1].pos = 0
  BY <1>3 DEF Framed
<1>5. Lengths = {Body}
  BY <1>1, <1>2, <1>4 DEF Lengths
<1>6. ASSUME sock = <<>> PROVE ~(Len(inbox) <= Body)
  <2>1. Len(Wire) >= Body + 1
    BY <1>3, WireCells, FramedHead
  <2>2. Len(sock) = 0 /\ Len(Wire) = Len(inbox) + Len(sock)
    BY <1>6, WireCells, EmptySeq
  <2> QED
    BY <1>1, <2>1, <2>2, SizesAssumption, SMT
<1> QED
  BY <1>2, <1>3, <1>4, <1>5, <1>6

\* While nothing is torn, a frame written whole is put behind the others, and a
\* message read whole is taken from their head.
LEMMA WholeStep ==
  ASSUME IInv, [Next]_vars
  PROVE  FramesWhole'
<1> SUFFICES ASSUME torn' = {}, link' # "reset"
             PROVE  Framed(Wire', expected', nonce')
  BY DEF FramesWhole, Framed, InFrame
<1>1. Ordered /\ FramesWhole /\ expected \in Nat
  BY SMT DEF IInv, Ordered, TypeOK
<1>2. (torn = {} /\ link # "reset") => Framed(Wire, expected, nonce)
  BY <1>1 DEF FramesWhole
<1>3. CASE PollWrite
  <2>1. "write" \notin torn'
    OBVIOUS
  <2>2. /\ Wire' = Wire \o Frame(nonce, next) /\ torn' = torn
        /\ nonce \in 0..(MaxNonce - 1) /\ next \in 1..Chunks
        /\ UNCHANGED <<link, expected>> /\ nonce' = nonce + 1
    BY <1>1, <1>3, <2>1, WriteWire
  <2>3. Framed(Wire, expected, nonce)
    BY <1>2, <2>2
  <2>4. Wire \in Seq(Cell) /\ \A i \in 1..Len(Wire) : Wire[i].nonce < nonce
    BY <1>1, WireCells
  <2>5. Framed(Wire \o Frame(nonce, next), expected, nonce + 1)
    BY <1>1, <2>2, <2>3, <2>4, FramedGrows
  <2> QED
    BY <2>2, <2>5
<1>4. CASE Arrive
  <2>1. Wire' = Wire /\ UNCHANGED <<torn, link, expected, nonce>>
    BY <1>1, <1>4, ArriveWire DEF Arrive, srvVars, cliVars
  <2> QED
    BY <1>2, <2>1
<1>5. CASE PollRead
  <2>1. inbox # <<>> /\ torn = {} /\ UNCHANGED nonce
    BY <1>5 DEF PollRead, srvVars
  <2>2. PICK len \in Lengths :
          /\ Len(inbox) > len /\ UNCHANGED <<link, sock>> /\ expected' = expected + 1
          /\ inbox' = SubSeq(inbox, len + 2, Len(inbox))
    BY <1>5 DEF PollRead
  <2>3. Framed(Wire, expected, nonce)
    BY <1>2, <2>1, <2>2
  <2>4. Wire # <<>> /\ len = Body
    BY <1>1, <2>1, <2>2, <2>3, HeaderFirst
  <2>5. /\ inbox \in Seq(Cell) /\ sock \in Seq(Cell) /\ Wire \in Seq(Cell)
        /\ (Body + 1) \in 0..Len(inbox) /\ (Body + 1) + 1 = Body + 2
    <3>1. Len(inbox) \in Nat /\ Len(inbox) > Body
      BY <1>1, <2>2, <2>4, WireCells
    <3> QED
      BY <1>1, <3>1, SizesAssumption, WireCells, SMT
  <2>6. Wire' = SubSeq(Wire, Body + 2, Len(Wire))
    <3>1. SubSeq(inbox, (Body + 1) + 1, Len(inbox)) \o sock
            = SubSeq(inbox \o sock, (Body + 1) + 1, Len(inbox \o sock))
      BY <2>5, DropConcat
    <3> QED
      BY <2>2, <2>4, <2>5, <3>1 DEF Wire
  <2>7. Framed(SubSeq(Wire, Body + 2, Len(Wire)), expected + 1, nonce)
    BY <1>1, <2>3, <2>4, <2>5, FramedRest
  <2> QED
    BY <2>1, <2>2, <2>6, <2>7
<1>6. CASE PollReadPart
  <2>1. /\ torn = {} /\ inbox = <<>> /\ inbox' = <<>>
        /\ UNCHANGED <<nonce, expected, sock, link>>
    BY <1>6 DEF PollReadPart, srvVars
  <2>2. Wire' = Wire
    BY <2>1 DEF Wire
  <2> QED
    BY <1>2, <2>1, <2>2
<1>7. CASE PollReadEof
  <2>1. /\ torn = {} /\ inbox' = <<>> /\ UNCHANGED <<nonce, expected, sock, link>>
        /\ sock = <<>>
        /\ inbox # <<>> => \E len \in Lengths : Len(inbox) <= len
    BY <1>7 DEF PollReadEof, AtEnd, srvVars
  <2>2. inbox = <<>>
    BY <1>1, <1>2, <2>1, HeaderFirst
  <2>3. Wire' = Wire
    BY <2>1, <2>2 DEF Wire
  <2> QED
    BY <1>2, <2>1, <2>3
<1>8. CASE /\ UNCHANGED <<nonce, expected, torn>>
           /\ Wire' = Wire \/ link' = "reset"
           /\ link = "reset" => link' = "reset"
  BY <1>2, <1>8
<1> QED
  BY <1>1, <1>3, <1>4, <1>5, <1>6, <1>7, <1>8, Steps

\* A copy ends at the end: the server's where the file has no chunk left, the
\* client's where no frame is left, if nothing was torn.
LEMMA EndsStep ==
  ASSUME IInv, [Next]_vars
  PROVE  CopyEnds'
<1>1. Ordered /\ CopyEnds /\ FramesWhole
  BY DEF IInv
<1>2. srv' = "done" => next' = Chunks + 1
  <2>1. CASE WriteEnds
    BY <1>1, <2>1, SizesAssumption, SMT DEF WriteEnds, Ordered, TypeOK
  <2>2. CASE ~WriteEnds
    <3>1. srv' = "done" => srv = "done" /\ next' = next
      BY <2>2 DEF Next, PollWrite, WriteWakes, WriteFails, ServerLeaves, Arrive, Reset,
         PollRead, PollReadPart, ReadWakes, PollReadEof, PollReadFails, vars, srvVars
    <3> QED
      BY <1>1, <3>1 DEF CopyEnds
  <2> QED
    BY <2>1, <2>2
<1>3. ASSUME cli' = "eof" PROVE link' # "up" /\ (torn' = {} => expected' = nonce')
  <2>1. CASE PollReadEof
    <3>1. /\ link = "closed" /\ sock = <<>> /\ UNCHANGED <<link, torn, expected, nonce>>
          /\ inbox # <<>> => \E len \in Lengths : Len(inbox) <= len
      BY <2>1 DEF PollReadEof, AtEnd, srvVars
    <3>2. ASSUME torn = {} PROVE expected = nonce
      <4>1. Framed(Wire, expected, nonce)
        BY <1>1, <3>1, <3>2 DEF FramesWhole
      <4>2. inbox = <<>>
        BY <1>1, <3>1, <4>1, HeaderFirst
      <4>3. Wire = <<>>
        BY <3>1, <4>2, EmptyWire
      <4> QED
        BY <4>1, <4>3 DEF Framed
    <3> QED
      BY <3>1, <3>2
  <2>2. CASE ~PollReadEof
    <3>1. cli = "eof" /\ expected' = expected
      BY <1>3, <2>2 DEF Next, PollWrite, WriteWakes, WriteFails, WriteEnds, ServerLeaves,
         Arrive, Reset, PollRead, PollReadPart, ReadWakes, PollReadFails, vars, cliVars
    <3>2. link # "up" /\ (torn = {} => expected = nonce)
      BY <1>1, <3>1 DEF CopyEnds
    <3>3. link' # "up" /\ nonce' = nonce /\ (torn' = {} => torn = {})
      BY <2>2, <3>1, <3>2 DEF Next, PollWrite, WriteWakes, WriteFails, WriteEnds, ServerLeaves,
         Arrive, Reset, PollRead, PollReadPart, ReadWakes, PollReadFails, vars, srvVars
    <3> QED
      BY <3>1, <3>2, <3>3
  <2> QED
    BY <2>1, <2>2
<1> QED
  BY <1>2, <1>3 DEF CopyEnds

\* A torn read takes the header of the frame the client waits for; nothing that
\* arrives later makes that frame whole again, so it is never decrypted.
LEMMA LostStep ==
  ASSUME IInv, [Next]_vars
  PROVE  FrameLost'
<1> DEFINE Lost(w, e) == \A i \in 2..Len(w) : ~(w[i].nonce = e /\ w[i].pos = 1)
<1>1. Ordered /\ FramesWhole /\ FrameLost
  BY DEF IInv
<1>2. torn = {"read"} => expected < nonce /\ Lost(Wire, expected)
  BY <1>1 DEF FrameLost
<1> SUFFICES ASSUME torn' = {"read"} PROVE expected' < nonce' /\ Lost(Wire', expected')
  BY DEF FrameLost
<1>3. /\ expected \in Nat /\ nonce \in Nat /\ torn \in SUBSET {"write", "read"}
      /\ Len(inbox) \in Nat /\ Len(sock) \in Nat /\ Len(Wire) = Len(inbox) + Len(sock)
  BY <1>1, WireCells, SMT DEF Ordered, TypeOK
<1>4. ASSUME NEW w, w = <<>> PROVE Lost(w, expected')
  BY <1>4, EmptySeq, SMT
<1>5. CASE PollWrite
  <2>1. "write" \notin torn'
    OBVIOUS
  <2>2. /\ Wire' = Wire \o Frame(nonce, next) /\ torn' = torn
        /\ nonce \in 0..(MaxNonce - 1) /\ next \in 1..Chunks
        /\ expected' = expected /\ nonce' = nonce + 1
    BY <1>1, <1>5, <2>1, WriteWire
  <2>3. expected < nonce /\ Lost(Wire, expected)
    BY <1>2, <2>2
  <2> DEFINE f == Frame(nonce, next)
             r == Wire \o f
  <2>4. /\ f \in Seq(Cell)
        /\ \A i \in 1..Len(f) : f[i].nonce = nonce
    <3>1. /\ f \in Seq(Cell) /\ Len(f) = Body + 1
          /\ \A i \in 1..(Body + 1) : f[i] = [nonce |-> nonce, chunk |-> next, pos |-> i - 1]
      BY <2>2, FrameCells
    <3> HIDE DEF f
    <3> QED
      BY <3>1
  <2> HIDE DEF f
  <2>5. /\ Len(Wire) \in Nat /\ Len(f) \in Nat /\ Len(r) = Len(Wire) + Len(f)
        /\ \A i \in 1..(Len(Wire) + Len(f)) :
             r[i] = IF i <= Len(Wire) THEN Wire[i] ELSE f[i - Len(Wire)]
    BY <1>1, <2>4, WireCells, ConcatProperties, LenProperties
  <2> HIDE DEF r
  <2>6. ASSUME NEW i \in 2..Len(r) PROVE ~(r[i].nonce = expected /\ r[i].pos = 1)
    <3>1. CASE i <= Len(Wire)
      <4>1. i \in 2..Len(Wire) /\ i \in 1..(Len(Wire) + Len(f))
        BY <2>5, <3>1, SMT
      <4> QED
        BY <2>3, <2>5, <3>1, <4>1
    <3>2. CASE ~(i <= Len(Wire))
      <4>1. i - Len(Wire) \in 1..Len(f) /\ i \in 1..(Len(Wire) + Len(f))
        BY <2>5, <3>2, SMT
      <4>2. r[i].nonce = nonce
        BY <2>4, <2>5, <3>2, <4>1
      <4>3. nonce # expected
        BY <1>3, <2>3, SMT
      <4> QED
        BY <4>2, <4>3
    <3> QED
      BY <3>1, <3>2
  <2>7. Lost(Wire', expected')
    BY <2>2, <2>6 DEF r, f
  <2>8. expected' < nonce'
    BY <1>3, <2>2, <2>3, SMT
  <2> QED
    BY <2>7, <2>8
<1>6. CASE Arrive
  <2>1. Wire' = Wire /\ UNCHANGED <<torn, expected, nonce>>
    BY <1>1, <1>6, ArriveWire DEF Arrive, srvVars, cliVars
  <2> QED
    BY <1>2, <2>1
<1>7. CASE PollRead
  <2>1. torn = {"read"} /\ nonce' = nonce
    BY <1>7 DEF PollRead, srvVars
  <2>2. PICK len \in Lengths :
          /\ Len(inbox) > len
          /\ \/ Decrypts(SubSeq(inbox, 2, len + 1))
             \/ inbox' = <<>> /\ sock' = <<>> /\ expected' = expected
    BY <1>7 DEF PollRead
  <2> DEFINE body == SubSeq(inbox, 2, len + 1)
  <2>3. len \in Nat
    BY SizesAssumption, SMT DEF Lengths
  <2>4. ASSUME Decrypts(body) PROVE FALSE
    <3>1. 2 \in Nat \ {0} /\ len + 1 \in 0..Len(inbox)
      BY <1>3, <2>2, <2>3, SMT
    <3>2. /\ body \in Seq(Cell)
          /\ \A i \in 1..Len(body) : body[i] = inbox[2 + i - 1] /\ 2 + i - 1 \in 1..Len(inbox)
      BY <1>1, <3>1, WireCells, SubSeqKeeps
    <3>3. /\ Len(body) = Body /\ body[1].nonce = expected
          /\ \A i \in 1..Body : body[i] = [body[1] EXCEPT !.pos = i]
      BY <2>4 DEF Decrypts
    <3> HIDE DEF body
    <3>4. 1 \in 1..Len(body) /\ 1 \in 1..Body /\ 2 + 1 - 1 = 2
      BY <3>3, SizesAssumption, SMT
    <3>5. body[1] = inbox[2] /\ 2 \in 1..Len(inbox)
      BY <3>2, <3>4
    <3>6. body[1].pos = 1
      <4>1. body[1] \in Cell
        BY <3>2, <3>4, ElementOfSeq
      <4>2. body[1] = [body[1] EXCEPT !.pos = 1]
        BY <3>3, <3>4
      <4>3. [body[1] EXCEPT !.pos = 1].pos = 1
        BY <4>1 DEF Cell
      <4> QED
        BY <4>2, <4>3
    <3>7. Wire[2] = body[1] /\ 2 \in 2..Len(Wire)
      <4>1. Wire[2] = inbox[2] /\ 2 \in 1..Len(Wire)
        BY <1>1, <3>5, WireCells
      <4> QED
        BY <1>3, <3>5, <4>1, SMT
    <3> QED
      BY <1>2, <2>1, <3>3, <3>6, <3>7
  <2>5. inbox' = <<>> /\ sock' = <<>> /\ expected' = expected
    BY <2>2, <2>4
  <2>6. Wire' = <<>>
    BY <2>5, EmptySeq, ConcatEmptySeq DEF Wire
  <2> QED
    BY <1>2, <1>4, <2>1, <2>5, <2>6
<1>8. CASE PollReadPart
  <2>1. /\ inbox' = <<>> /\ UNCHANGED <<nonce, expected, sock>> /\ link # "reset"
        /\ \/ inbox = <<>> /\ torn' = torn
           \/ inbox # <<>> /\ \E len \in Lengths : Len(inbox) <= len
    BY <1>8 DEF PollReadPart, srvVars
  <2>2. Wire' = sock
    BY <1>1, <2>1, WireCells, ConcatEmptySeq DEF Wire
  <2>3. CASE torn = {"read"}
    <3>1. ASSUME NEW i \in 2..Len(sock) PROVE ~(sock[i].nonce = expected /\ sock[i].pos = 1)
      <4>1. i \in 1..Len(sock) /\ Len(inbox) + i \in 2..Len(Wire)
        BY <1>3, SMT
      <4>2. Wire[Len(inbox) + i] = sock[i]
        BY <1>1, <4>1, WireCells
      <4> QED
        BY <1>2, <2>3, <4>1, <4>2
    <3> QED
      BY <1>2, <2>1, <2>2, <2>3, <3>1
  <2>4. CASE torn # {"read"}
    <3>1. torn = {} /\ inbox # <<>> /\ \E len \in Lengths : Len(inbox) <= len
      <4>1. torn' # torn
        BY <2>4
      <4>2. "write" \notin torn
        BY <1>8 DEF PollReadPart
      <4> QED
        BY <1>3, <2>1, <2>4, <4>1, <4>2
    <3>2. Framed(Wire, expected, nonce)
      BY <1>1, <2>1, <3>1 DEF FramesWhole
    <3>3. Wire # <<>> /\ expected < nonce
      BY <1>1, <3>1, <3>2, HeaderFirst
    <3>4. /\ \A i \in 1..(Body + 1) : Wire[i].pos = i - 1
          /\ \A i \in 1..Len(Wire) : Wire[i].nonce = expected => i \in 1..(Body + 1)
      BY <1>1, <3>2, <3>3, WireCells, FramedHead
    <3>5. Len(inbox) >= 1
      BY <1>1, <3>1, WireCells, EmptySeq, SMT
    <3>6. ASSUME NEW i \in 2..Len(sock), sock[i].nonce = expected PROVE sock[i].pos # 1
      <4>1. i \in 1..Len(sock)
        BY <1>3, SMT
      <4>2. Wire[Len(inbox) + i] = sock[i] /\ Len(inbox) + i \in 1..Len(Wire)
        BY <1>1, <4>1, WireCells
      <4>3. sock[i].pos = (Len(inbox) + i) - 1
        BY <3>4, <3>6, <4>2
      <4> QED
        BY <1>3, <3>5, <4>1, <4>3, SMT
    <3> QED
      BY <2>1, <2>2, <3>3, <3>6
  <2> QED
    BY <2>3, <2>4
<1>9. CASE PollReadEof
  <2>1. /\ inbox' = <<>> /\ sock' = <<>> /\ UNCHANGED <<nonce, expected, torn>>
    BY <1>9 DEF PollReadEof, AtEnd, srvVars
  <2>2. Wire' = <<>>
    BY <2>1, EmptySeq, ConcatEmptySeq DEF Wire
  <2> QED
    BY <1>2, <1>4, <2>1, <2>2
<1>10. CASE /\ UNCHANGED <<nonce, expected, torn>>
            /\ Wire' = Wire \/ Wire' = <<>>
  BY <1>2, <1>4, <1>10
<1> QED
  BY <1>1, <1>5, <1>6, <1>7, <1>8, <1>9, <1>10, Steps

\* IInv holds in every state of a transfer.
THEOREM InductiveInvariant == Spec => []IInv
<1>1. IInv /\ [Next]_vars => IInv'
  <2> SUFFICES ASSUME IInv, [Next]_vars PROVE IInv'
    OBVIOUS
  <2>1. Ordered'
    BY WriteStep, ArriveStep, ReadStep, OtherStep DEF Next, IInv
  <2> QED
    BY <2>1, WholeStep, LostStep, EndsStep DEF IInv
<1> QED
  BY InitIInv, <1>1, PTL DEF Spec

\* Every reachable state is well typed.
THEOREM TypeCorrect == Spec => []TypeOK
<1>1. IInv => TypeOK
  BY DEF IInv, Ordered
<1> QED
  BY <1>1, InductiveInvariant, PTL

\* Whatever was torn, dropped or lost, the client's file holds the first chunks
\* of the server's file in order, for a file and frames of any length.
THEOREM PrefixDelivered == Spec => []DeliveredIsPrefix
<1>1. IInv => DeliveredIsPrefix
  BY SeqEqual, LenProperties, SMT DEF IInv, Ordered, TypeOK, DeliveredIsPrefix
<1> QED
  BY <1>1, InductiveInvariant, PTL

\* Where no poll was pending in the middle of a frame, a client that reaches the
\* end of the stream of a server that copied all has all of the file.
THEOREM WholeUnlessTorn == Spec => []CompleteUnlessTorn
<1>1. IInv => CompleteUnlessTorn
  <2> SUFFICES ASSUME IInv, cli = "eof", srv = "done", torn = {} PROVE Len(got) = Chunks
    BY DEF CompleteUnlessTorn
  <2>1. next = Chunks + 1 /\ expected = nonce /\ Len(got) = expected
    BY DEF IInv, CopyEnds, Ordered
  <2>2. nonce \in Nat /\ next \in Nat
    BY SMT DEF IInv, Ordered, TypeOK
  <2>3. next = nonce + 1
    BY <2>1, <2>2, SizesAssumption, SMT DEF IInv, Ordered, NonceOrder
  <2> QED
    BY <2>1, <2>2, <2>3, SizesAssumption, SMT
<1> QED
  BY <1>1, InductiveInvariant, PTL

\* A frame torn by a pending write or read is never made good: the file stays
\* short of at least one chunk.
THEOREM TornNeverWhole == Spec => []TornIsNeverComplete
<1>1. IInv => TornIsNeverComplete
  <2> SUFFICES ASSUME IInv, torn # {} PROVE Len(got) < Chunks
    BY DEF TornIsNeverComplete
  <2>1. PICK t \in 0..nonce :
          /\ expected <= t
          /\ IF t = nonce THEN next = nonce + 1 /\ "write" \notin torn ELSE t < Chunks
    BY DEF IInv, Ordered, NonceOrder
  <2>2. /\ nonce \in Nat /\ next \in 1..(Chunks + 1) /\ expected \in Nat
        /\ torn \in SUBSET {"write", "read"} /\ Len(got) = expected
    BY SMT DEF IInv, Ordered, TypeOK
  <2>3. CASE t = nonce
    <3>1. torn = {"read"}
      BY <2>1, <2>2, <2>3
    <3>2. expected < nonce
      BY <3>1 DEF IInv, FrameLost
    <3> QED
      BY <2>1, <2>2, <2>3, <3>2, SizesAssumption, SMT
  <2>4. CASE t # nonce
    BY <2>1, <2>2, <2>4, SizesAssumption, SMT
  <2> QED
    BY <2>3, <2>4
<1> QED
  BY <1>1, InductiveInvariant, PTL
=============================================================================
