--------------------------- MODULE BodyStreamerProofs ---------------------------
(***************************************************************************)
(* Proofs about BodyStreamer, for every chunk_size and all messages, which *)
(* may arrive in pieces of any size.                                       *)
(***************************************************************************)
EXTENDS BodyStreamer, SequenceTheorems, WellFoundedInduction, TLAPS

--------------------------------------------------------------------------------
(* Sequences, and their first parts *)

LEMMA LeastNumber ==
  ASSUME NEW T \in SUBSET Nat, T # {}
  PROVE  \E m \in T : \A k \in T : m <= k
<1>1. PICK m \in T : \A k \in T : <<k, m>> \notin OpToRel(<, Nat)
  BY WFMin, NatLessThanWellFounded, Zenon
<1>2. \A k \in T : ~(k < m)
  BY <1>1, Zenon DEF OpToRel
<1>3. m \in Nat /\ \A k \in T : k \in Nat
  OBVIOUS
<1> QED  BY <1>2, <1>3

LEMMA Cut ==
  ASSUME NEW S, NEW s \in Seq(S), NEW k \in 0..Len(s)
  PROVE  /\ First(s, k) \in Seq(S) /\ Drop(s, k) \in Seq(S)
         /\ Len(First(s, k)) = k /\ Len(Drop(s, k)) = Len(s) - k
         /\ \A i \in 1..k : First(s, k)[i] = s[i]
         /\ \A i \in 1..(Len(s) - k) : Drop(s, k)[i] = s[k + i]
         /\ First(s, k) \o Drop(s, k) = s
<1>1. Len(s) \in Nat /\ k \in Nat /\ \A i \in 1..Len(s) : s[i] \in S
  BY LenProperties, ElementOfSeq
<1>2. /\ SubSeq(s, 1, k) \in Seq(S)
      /\ Len(SubSeq(s, 1, k)) = IF 1 <= k THEN k - 1 + 1 ELSE 0
      /\ \A i \in 1..(k - 1 + 1) : SubSeq(s, 1, k)[i] = s[1 + i - 1]
  BY <1>1, SubSeqProperties
<1>3. /\ SubSeq(s, k + 1, Len(s)) \in Seq(S)
      /\ Len(SubSeq(s, k + 1, Len(s)))
           = IF k + 1 <= Len(s) THEN Len(s) - (k + 1) + 1 ELSE 0
      /\ \A i \in 1..(Len(s) - (k + 1) + 1) :
           SubSeq(s, k + 1, Len(s))[i] = s[(k + 1) + i - 1]
  BY <1>1, SubSeqProperties
<1>4. /\ First(s, k) \in Seq(S) /\ Len(First(s, k)) = k
      /\ \A i \in 1..k : First(s, k)[i] = s[i]
  <2>1. \A i \in 1..k : 1 + i - 1 = i /\ i \in 1..(k - 1 + 1)
    BY <1>1
  <2> QED  BY <1>1, <1>2, <2>1 DEF First
<1>5. /\ Drop(s, k) \in Seq(S) /\ Len(Drop(s, k)) = Len(s) - k
      /\ \A i \in 1..(Len(s) - k) : Drop(s, k)[i] = s[k + i]
  <2>1. \A i \in 1..(Len(s) - k) : (k + 1) + i - 1 = k + i /\ i \in 1..(Len(s) - (k + 1) + 1)
    BY <1>1
  <2> QED  BY <1>1, <1>3, <2>1 DEF Drop
<1>6. First(s, k) \o Drop(s, k) = s
  <2>1. /\ First(s, k) \o Drop(s, k) \in Seq(S)
        /\ Len(First(s, k) \o Drop(s, k)) = k + (Len(s) - k)
        /\ \A i \in 1..(k + (Len(s) - k)) :
             (First(s, k) \o Drop(s, k))[i]
               = IF i <= k THEN First(s, k)[i] ELSE Drop(s, k)[i - k]
    BY <1>4, <1>5, ConcatProperties
  <2>2. k + (Len(s) - k) = Len(s)
    BY <1>1
  <2>3. ASSUME NEW i \in 1..Len(s) PROVE (First(s, k) \o Drop(s, k))[i] = s[i]
    <3>1. CASE i <= k
      BY <1>1, <1>4, <2>1, <2>2, <3>1
    <3>2. CASE i > k
      <4>1. i - k \in 1..(Len(s) - k) /\ k + (i - k) = i
        BY <1>1, <3>2
      <4> QED  BY <1>1, <1>5, <2>1, <2>2, <3>2, <4>1
    <3>3. i <= k \/ i > k
      BY <1>1
    <3> QED  BY <3>1, <3>2, <3>3
  <2> QED  BY <2>1, <2>2, <2>3, SeqEqual
<1> QED  BY <1>4, <1>5, <1>6

LEMMA DropAll ==
  ASSUME NEW S, NEW s \in Seq(S), NEW k \in Nat, k >= Len(s)
  PROVE  Drop(s, k) = <<>>
BY LenProperties, SubSeqEmpty DEF Drop

LEMMA Concat ==
  ASSUME NEW S, NEW s \in Seq(S), NEW t \in Seq(S)
  PROVE  /\ s \o t \in Seq(S)
         /\ Len(s) \in Nat /\ Len(t) \in Nat /\ Len(s \o t) = Len(s) + Len(t)
         /\ \A i \in 1..Len(s) : (s \o t)[i] = s[i]
         /\ \A i \in 1..Len(t) : (s \o t)[Len(s) + i] = t[i]
<1>1. Len(s) \in Nat /\ Len(t) \in Nat
  BY LenProperties
<1>2. /\ s \o t \in Seq(S)
      /\ Len(s \o t) = Len(s) + Len(t)
      /\ \A i \in 1..(Len(s) + Len(t)) :
           (s \o t)[i] = IF i <= Len(s) THEN s[i] ELSE t[i - Len(s)]
  BY ConcatProperties
<1>3. ASSUME NEW i \in 1..Len(t) PROVE (s \o t)[Len(s) + i] = t[i]
  <2>1. Len(s) + i \in 1..(Len(s) + Len(t)) /\ ~(Len(s) + i <= Len(s)) /\ Len(s) + i - Len(s) = i
    BY <1>1
  <2> QED  BY <1>2, <2>1
<1> QED  BY <1>1, <1>2, <1>3

LEMMA NonEmpty ==
  ASSUME NEW S, NEW s \in Seq(S)
  PROVE  s = <<>> <=> Len(s) = 0
BY EmptySeq

\* The first k elements of both parts of a buffer, and what is left of each.
LEMMA FirstPart ==
  ASSUME NEW S, NEW s \in Seq(S), NEW t \in Seq(S), NEW k \in 0..Len(s)
  PROVE  First(s \o t, k) \o (Drop(s, k) \o t) = s \o t
<1> DEFINE u == s \o t
<1>1. /\ u \in Seq(S) /\ Len(s) \in Nat /\ Len(t) \in Nat /\ Len(u) = Len(s) + Len(t)
      /\ \A i \in 1..Len(s) : u[i] = s[i]
  BY Concat
<1>2. /\ First(s, k) \in Seq(S) /\ Len(First(s, k)) = k /\ Drop(s, k) \in Seq(S)
      /\ \A i \in 1..k : First(s, k)[i] = s[i]
      /\ First(s, k) \o Drop(s, k) = s
  BY Cut
<1> HIDE DEF u
<1>3. k \in 0..Len(u) /\ \A i \in 1..k : i \in 1..Len(s)
  BY <1>1
<1>4. /\ First(u, k) \in Seq(S) /\ Len(First(u, k)) = k
      /\ \A i \in 1..k : First(u, k)[i] = u[i]
  BY <1>1, <1>3, Cut
<1>5. \A i \in 1..k : First(u, k)[i] = First(s, k)[i]
  BY <1>1, <1>2, <1>3, <1>4
<1>6. First(u, k) = First(s, k)
  BY <1>2, <1>4, <1>5, SeqEqual
<1>7. First(s, k) \o (Drop(s, k) \o t) = (First(s, k) \o Drop(s, k)) \o t
  <2>1. PICK f \in Seq(S), d \in Seq(S) : f = First(s, k) /\ d = Drop(s, k)
    BY <1>2
  <2>2. (f \o d) \o t = f \o (d \o t)
    BY ConcatAssociative, SMTT(60)
  <2> QED  BY <2>1, <2>2
<1> QED  BY <1>2, <1>6, <1>7 DEF u

LEMMA BothParts ==
  ASSUME NEW S, NEW s \in Seq(S), NEW t \in Seq(S), NEW k \in 0..Len(t)
  PROVE  First(s \o t, Len(s) + k) \o Drop(t, k) = s \o t
<1> DEFINE u == s \o t
           v == s \o First(t, k)
<1>1. /\ u \in Seq(S) /\ Len(s) \in Nat /\ Len(t) \in Nat /\ Len(u) = Len(s) + Len(t)
      /\ \A i \in 1..Len(s) : u[i] = s[i]
      /\ \A i \in 1..Len(t) : u[Len(s) + i] = t[i]
  BY Concat
<1>2. /\ First(t, k) \in Seq(S) /\ Len(First(t, k)) = k /\ Drop(t, k) \in Seq(S)
      /\ \A i \in 1..k : First(t, k)[i] = t[i]
      /\ First(t, k) \o Drop(t, k) = t
  BY Cut
<1>3. /\ v \in Seq(S) /\ Len(v) = Len(s) + k
      /\ \A i \in 1..Len(s) : v[i] = s[i]
      /\ \A i \in 1..k : v[Len(s) + i] = t[i]
  <2>1. PICK f \in Seq(S) : f = First(t, k)
    BY <1>2
  <2>2. /\ s \o f \in Seq(S) /\ Len(s \o f) = Len(s) + Len(f)
        /\ \A i \in 1..Len(s) : (s \o f)[i] = s[i]
        /\ \A i \in 1..Len(f) : (s \o f)[Len(s) + i] = f[i]
    BY Concat
  <2> QED  BY <1>2, <2>1, <2>2
<1> HIDE DEF u, v
<1>4. Len(s) + k \in 0..Len(u)
  BY <1>1
<1>5. /\ First(u, Len(s) + k) \in Seq(S) /\ Len(First(u, Len(s) + k)) = Len(s) + k
      /\ \A i \in 1..(Len(s) + k) : First(u, Len(s) + k)[i] = u[i]
  BY <1>1, <1>4, Cut
<1>6. ASSUME NEW i \in 1..(Len(s) + k) PROVE u[i] = v[i]
  <2>1. CASE i <= Len(s)
    BY <1>1, <1>3, <2>1
  <2>2. CASE i > Len(s)
    <3>1. i - Len(s) \in 1..k /\ i - Len(s) \in 1..Len(t) /\ Len(s) + (i - Len(s)) = i
      BY <1>1, <2>2
    <3> QED  BY <1>1, <1>3, <3>1
  <2> QED  BY <1>1, <2>1, <2>2
<1>7. First(u, Len(s) + k) = v
  BY <1>3, <1>5, <1>6, SeqEqual
<1>8. v \o Drop(t, k) = s \o (First(t, k) \o Drop(t, k))
  <2>1. PICK f \in Seq(S), d \in Seq(S) : f = First(t, k) /\ d = Drop(t, k)
    BY <1>2
  <2>2. (s \o f) \o d = s \o (f \o d)
    BY ConcatAssociative, SMTT(60)
  <2> QED  BY <2>1, <2>2 DEF v
<1> QED  BY <1>2, <1>7, <1>8 DEF u

--------------------------------------------------------------------------------
(* The buffers *)

\* Every variable but the counter has its type, which Copy keeps a number.
Buffers ==
  /\ coming \in Seq(Tokens) /\ socket \in Seq(Tokens) /\ back \in Seq(Tokens)
  /\ buffer \in Seq(Tokens) /\ out \in Seq(Tokens)

LEMMA MessageType ==
  ASSUME TypeOK
  PROVE  /\ msg.body \in Seq(Tokens) /\ msg.follow \in Seq(Tokens)
         /\ msg.framing \in {"none", "length", "chunked"} /\ msg.reply \in BOOLEAN
         /\ msg.valid \in BOOLEAN /\ (msg.valid => WellFormed(msg))
         /\ ChunkSize \in Nat \ {0} /\ left \in Nat /\ Buffers
BY StreamerAssumption DEF TypeOK, Message, Buffers

LEMMA AvailableType ==
  ASSUME Buffers
  PROVE  /\ Available \in Seq(Tokens) /\ Len(Available) \in Nat
         /\ Len(Available) = Len(back) + Len(socket)
         /\ Available = <<>> => back = <<>> /\ socket = <<>>
<1>1. /\ Available \in Seq(Tokens) /\ Len(back) \in Nat /\ Len(socket) \in Nat
      /\ Len(Available) = Len(back) + Len(socket)
  BY Concat DEF Buffers, Available
<1>2. Available = <<>> => Len(back) = 0 /\ Len(socket) = 0
  BY <1>1, EmptySeq
<1> QED  BY <1>1, <1>2, NonEmpty DEF Buffers

\* What Take leaves, with the part that was taken in front.
LEMMA TakeCuts ==
  ASSUME Buffers, NEW k \in 0..Len(Available), Take(k, <<>>)
  PROVE  /\ back' \in Seq(Tokens) /\ socket' \in Seq(Tokens)
         /\ First(Available, k) \o (back' \o socket') = Available
<1>1. /\ back \in Seq(Tokens) /\ socket \in Seq(Tokens) /\ k \in Nat
      /\ Len(back) \in Nat /\ Len(socket) \in Nat /\ Len(Available) = Len(back) + Len(socket)
  BY AvailableType, LenProperties DEF Buffers
<1>2. /\ back' = <<>> \o Drop(back, k)
      /\ socket' = Drop(socket, IF k > Len(back) THEN k - Len(back) ELSE 0)
  BY DEF Take
<1>3. CASE k <= Len(back)
  <2>1. k \in 0..Len(back)
    BY <1>1, <1>3
  <2>2. back' = Drop(back, k) /\ back' \in Seq(Tokens)
    <3>1. PICK d \in Seq(Tokens) : d = Drop(back, k)
      BY <1>1, <2>1, Cut
    <3>2. <<>> \o d = d
      BY ConcatEmptySeq
    <3> QED  BY <1>2, <3>1, <3>2
  <2>3. socket' = socket
    <3>1. socket' = Drop(socket, 0)
      BY <1>1, <1>2, <1>3
    <3>2. Drop(socket, 0) = SubSeq(socket, 1, Len(socket))
      BY DEF Drop
    <3> QED  BY <1>1, <3>1, <3>2, SubSeqFull
  <2>4. First(back \o socket, k) \o (Drop(back, k) \o socket) = back \o socket
    BY <1>1, <2>1, FirstPart
  <2> QED  BY <1>1, <2>2, <2>3, <2>4 DEF Available
<1>4. CASE k > Len(back)
  <2> DEFINE n == k - Len(back)
  <2>1. n \in 0..Len(socket) /\ Len(back) + n = k
    BY <1>1, <1>4
  <2>2. back' = <<>> /\ back' \in Seq(Tokens)
    <3>1. Drop(back, k) = <<>>
      BY <1>1, <1>4, DropAll
    <3>2. <<>> \in Seq(Tokens) /\ <<>> \o <<>> = <<>>
      BY EmptySeq, ConcatEmptySeq
    <3> QED  BY <1>2, <3>1, <3>2
  <2>3. socket' = Drop(socket, n) /\ socket' \in Seq(Tokens)
    BY <1>1, <1>2, <1>4, <2>1, Cut
  <2>4. First(back \o socket, Len(back) + n) \o Drop(socket, n) = back \o socket
    BY <1>1, <2>1, BothParts
  <2> HIDE DEF n
  <2>5. <<>> \o socket' = socket'
    BY <2>3, ConcatEmptySeq
  <2> QED  BY <2>1, <2>2, <2>3, <2>4, <2>5, SMTT(30) DEF Available
<1>5. k <= Len(back) \/ k > Len(back)
  BY <1>1
<1> QED  BY <1>3, <1>4, <1>5

\* What is taken and put behind what was taken before is still the same stream.
LEMMA TakeMoves ==
  ASSUME Buffers, NEW taken \in Seq(Tokens), NEW k \in 0..Len(Available), Take(k, <<>>),
         coming' = coming
  PROVE  /\ taken \o First(Available, k) \in Seq(Tokens)
         /\ Len(taken \o First(Available, k)) = Len(taken) + k
         /\ (taken \o First(Available, k)) \o (back' \o (socket' \o coming'))
              = taken \o (back \o (socket \o coming))
<1>1. /\ back' \in Seq(Tokens) /\ socket' \in Seq(Tokens)
      /\ First(Available, k) \o (back' \o socket') = Available
  BY TakeCuts
<1>2. First(Available, k) \in Seq(Tokens) /\ Len(First(Available, k)) = k
  BY AvailableType, Cut
\* Names without a type, which keeps the steps small: see the lists of facts.
<1>3. PICK o, f, b, s, c :
        o = taken /\ f = First(Available, k) /\ b = back' /\ s = socket' /\ c = coming
  OBVIOUS
<1>4. /\ o \in Seq(Tokens) /\ f \in Seq(Tokens) /\ b \in Seq(Tokens)
      /\ s \in Seq(Tokens) /\ c \in Seq(Tokens) /\ Len(f) = k
      /\ f \o (b \o s) = back \o socket
  BY <1>1, <1>2, <1>3 DEF Buffers, Available
<1>5. o \o f \in Seq(Tokens) /\ Len(o \o f) = Len(o) + Len(f)
  <2>1. o \in Seq(Tokens) /\ f \in Seq(Tokens)
    BY <1>4
  <2> QED  BY <2>1, Concat
<1>6. b \o (s \o c) = (b \o s) \o c /\ b \o s \in Seq(Tokens) /\ s \o c \in Seq(Tokens)
  <2>1. b \in Seq(Tokens) /\ s \in Seq(Tokens) /\ c \in Seq(Tokens)
    BY <1>4
  <2>2. b \o (s \o c) = (b \o s) \o c
    BY <2>1, ConcatAssociative, SMTT(60)
  <2>3. b \o s \in Seq(Tokens)
    BY <2>1, Concat
  <2>4. s \o c \in Seq(Tokens)
    BY <2>1, Concat
  <2> QED  BY <2>2, <2>3, <2>4
<1>7. (o \o f) \o (b \o (s \o c)) = o \o (f \o (b \o (s \o c)))
  <2>1. PICK r : r = b \o (s \o c)
    OBVIOUS
  <2>2. o \in Seq(Tokens) /\ f \in Seq(Tokens) /\ r \in Seq(Tokens)
    <3>1. PICK sc : sc = s \o c
      OBVIOUS
    <3>2. b \in Seq(Tokens) /\ sc \in Seq(Tokens)
      BY <1>4, <1>6, <3>1
    <3>3. b \o sc \in Seq(Tokens)
      BY <3>2, Concat
    <3> QED  BY <1>4, <2>1, <3>1, <3>3
  <2>3. (o \o f) \o r = o \o (f \o r)
    BY <2>2, ConcatAssociative, SMTT(60)
  <2> QED  BY <2>1, <2>3
<1>8. f \o ((b \o s) \o c) = (f \o (b \o s)) \o c
  <2>1. PICK bs : bs = b \o s
    OBVIOUS
  <2>2. f \in Seq(Tokens) /\ bs \in Seq(Tokens) /\ c \in Seq(Tokens)
    BY <1>4, <1>6, <2>1
  <2>3. f \o (bs \o c) = (f \o bs) \o c
    BY <2>2, ConcatAssociative, SMTT(60)
  <2> QED  BY <2>1, <2>3
<1>9. (back \o socket) \o c = back \o (socket \o c)
  <2>1. back \in Seq(Tokens) /\ socket \in Seq(Tokens) /\ c \in Seq(Tokens)
    BY <1>4 DEF Buffers
  <2> QED  BY <2>1, ConcatAssociative, SMTT(60)
<1>10. (o \o f) \o (b \o (s \o c)) = o \o (back \o (socket \o c))
  BY <1>4, <1>6, <1>7, <1>8, <1>9
<1> QED  BY <1>1, <1>2, <1>3, <1>5, <1>10

LEMMA CopyMoves ==
  ASSUME Buffers, NEW k \in 0..Len(Available), Take(k, <<>>), coming' = coming,
         out' = out \o First(Available, k)
  PROVE  /\ out' \in Seq(Tokens) /\ Len(out') = Len(out) + k
         /\ out' \o (back' \o (socket' \o coming')) = out \o (back \o (socket \o coming))
<1>1. out \in Seq(Tokens)
  BY DEF Buffers
<1> QED  BY <1>1, TakeMoves

\* read(n) gives the first bytes, one at least unless there are none.
LEMMA PieceIs ==
  ASSUME Buffers, NEW n \in Nat
  PROVE  /\ Piece(n) \in Seq(Tokens)
         /\ Len(Piece(n)) \in 0..Len(Available) /\ Len(Piece(n)) <= n
         /\ Piece(n) = First(Available, Len(Piece(n)))
         /\ n > 0 /\ Piece(n) = <<>> => Available = <<>>
<1> DEFINE k == Least(n, Len(Available))
<1>1. Available \in Seq(Tokens) /\ Len(Available) \in Nat
  BY AvailableType
<1>2. k \in 0..Len(Available) /\ k <= n /\ (n > 0 /\ k = 0 => Len(Available) = 0)
  BY <1>1 DEF Least
<1>3. Piece(n) = First(Available, k)
  BY DEF Piece
<1> HIDE DEF k
<1>4. Piece(n) \in Seq(Tokens) /\ Len(Piece(n)) = k
  BY <1>1, <1>2, <1>3, Cut
<1>5. Piece(n) = <<>> => k = 0
  BY <1>4, EmptySeq
<1> QED  BY <1>1, <1>2, <1>3, <1>4, <1>5, NonEmpty

\* readline() gives the first line, with its end, or all there is.
LEMMA LineIs ==
  ASSUME Buffers
  PROVE  /\ Line \in Seq(Tokens) /\ Len(Line) \in 0..Len(Available)
         /\ Line = First(Available, Len(Line))
         /\ \A i \in 1..Len(Line) : Line[i] = Available[i]
         /\ Contains(Available, "lf") =>
              /\ Len(Line) > 0 /\ Available[Len(Line)] = "lf"
              /\ \A i \in 1..(Len(Line) - 1) : Available[i] # "lf"
         /\ ~Contains(Available, "lf") =>
              /\ Line = Available
              /\ \A i \in 1..Len(Available) : Available[i] # "lf"
<1>1. Available \in Seq(Tokens) /\ Len(Available) \in Nat
  BY AvailableType
<1>2. CASE Contains(Available, "lf")
  <2> DEFINE T    == {i \in 1..Len(Available) : Available[i] = "lf"}
             E(i) == Available[i] = "lf" /\ \A j \in 1..(i - 1) : Available[j] # "lf"
             k    == CHOOSE i \in 1..Len(Available) : E(i)
  <2>1. PICK m \in T : \A i \in T : m <= i
    <3>1. T \in SUBSET Nat /\ T # {}
      BY <1>1, <1>2 DEF Contains
    <3> HIDE DEF T
    <3> QED  BY <3>1, LeastNumber
  <2>2. m \in 1..Len(Available) /\ E(m)
    <3>1. m \in 1..Len(Available) /\ Available[m] = "lf"
      OBVIOUS
    <3>2. ASSUME NEW j \in 1..(m - 1) PROVE Available[j] # "lf"
      BY <1>1, <2>1, <3>1
    <3> QED  BY <3>1, <3>2
  <2> HIDE DEF E
  <2>3. k \in 1..Len(Available) /\ E(k)
    BY <2>2
  <2>4. Line = First(Available, k)
    BY <1>2 DEF Line, E
  <2> HIDE DEF k
  <2>5. /\ Line \in Seq(Tokens) /\ Len(Line) = k
        /\ \A i \in 1..k : Line[i] = Available[i]
    <3>1. k \in 0..Len(Available)
      BY <1>1, <2>3
    <3> QED  BY <1>1, <2>4, <3>1, Cut
  <2> QED  BY <1>1, <1>2, <2>3, <2>4, <2>5 DEF E
<1>3. CASE ~Contains(Available, "lf")
  <2>1. Line = Available
    BY <1>3 DEF Line
  <2>2. First(Available, Len(Available)) = Available
    BY <1>1, SubSeqFull DEF First
  <2>3. \A i \in 1..Len(Available) : Available[i] # "lf"
    BY <1>3 DEF Contains
  <2> QED  BY <1>1, <1>3, <2>1, <2>2, <2>3
<1> QED  BY <1>2, <1>3

--------------------------------------------------------------------------------
(* Typing *)

Phases == {"head", "identity", "size", "chunk", "trailer", "rest",
           "done", "gone", "error", "broken", "spin"}

LEMMA TakeType ==
  ASSUME Buffers, NEW k \in 0..Len(Available), NEW again \in Seq(Tokens), Take(k, again)
  PROVE  back' \in Seq(Tokens) /\ socket' \in Seq(Tokens)
<1>1. back \in Seq(Tokens) /\ socket \in Seq(Tokens) /\ k \in Nat
      /\ Len(back) \in Nat /\ Len(socket) \in Nat /\ Len(Available) = Len(back) + Len(socket)
  BY AvailableType, LenProperties DEF Buffers
<1>2. Drop(back, k) \in Seq(Tokens)
  <2>1. CASE k <= Len(back)
    BY <1>1, <2>1, Cut
  <2>2. CASE k > Len(back)
    <3>1. Drop(back, k) = <<>>
      BY <1>1, <2>2, DropAll
    <3> QED  BY <3>1, EmptySeq
  <2> QED  BY <1>1, <2>1, <2>2
<1>3. (IF k > Len(back) THEN k - Len(back) ELSE 0) \in 0..Len(socket)
  BY <1>1
<1>4. Drop(socket, IF k > Len(back) THEN k - Len(back) ELSE 0) \in Seq(Tokens)
  BY <1>1, <1>3, Cut
<1>5. PICK d : d = Drop(back, k)
  OBVIOUS
<1>6. again \o d \in Seq(Tokens)
  BY <1>2, <1>5, Concat
<1> QED  BY <1>4, <1>5, <1>6 DEF Take

LEMMA HeadTextIs ==
  /\ HeadText \in Seq(Tokens) /\ Len(HeadText) = 5
  /\ HeadText[1] = "h" /\ HeadText[2] = "cr" /\ HeadText[3] = "lf"
  /\ HeadText[4] = "cr" /\ HeadText[5] = "lf"
<1>1. PICK s, t : s = <<"h">> /\ t = Delimiter
  OBVIOUS
<1>2. /\ s \in Seq(Tokens) /\ Len(s) = 1 /\ s[1] = "h"
      /\ t \in Seq(Tokens) /\ Len(t) = 4
      /\ t[1] = "cr" /\ t[2] = "lf" /\ t[3] = "cr" /\ t[4] = "lf"
  BY <1>1 DEF Delimiter, Tokens
<1>3. /\ s \o t \in Seq(Tokens) /\ Len(s \o t) = Len(s) + Len(t)
      /\ \A i \in 1..Len(s) : (s \o t)[i] = s[i]
      /\ \A i \in 1..Len(t) : (s \o t)[Len(s) + i] = t[i]
  <2>1. s \in Seq(Tokens) /\ t \in Seq(Tokens)
    BY <1>2
  <2> QED  BY <2>1, Concat
<1>4. PICK u : u = s \o t
  OBVIOUS
<1>5. /\ u \in Seq(Tokens) /\ Len(u) = 5 /\ u[1] = s[1]
      /\ \A i \in 1..4 : u[1 + i] = t[i]
  BY <1>2, <1>3, <1>4
<1>6. u[1 + 1] = t[1] /\ u[1 + 2] = t[2] /\ u[1 + 3] = t[3] /\ u[1 + 4] = t[4]
  BY <1>5
<1>7. 1 + 1 = 2 /\ 1 + 2 = 3 /\ 1 + 3 = 4 /\ 1 + 4 = 5
  OBVIOUS
<1>8. u = HeadText
  BY <1>1, <1>4 DEF HeadText
<1> QED  BY <1>2, <1>5, <1>6, <1>7, <1>8

LEMMA TextType ==
  ASSUME NEW m \in Messages
  PROVE  /\ HeadText \in Seq(Tokens) /\ Len(HeadText) = 5
         /\ m.body \in Seq(Tokens) /\ m.follow \in Seq(Tokens)
         /\ m.body \o m.follow \in Seq(Tokens) /\ Wire(m) \in Seq(Tokens)
         /\ Wire(m) = HeadText \o (m.body \o m.follow)
<1>1. m.body \in Seq(Tokens) /\ m.follow \in Seq(Tokens)
  BY StreamerAssumption DEF Message
<1>2. PICK h, b, f : h = HeadText /\ b = m.body /\ f = m.follow
  OBVIOUS
<1>3. h \in Seq(Tokens) /\ b \in Seq(Tokens) /\ f \in Seq(Tokens)
  BY HeadTextIs, <1>1, <1>2
<1>4. b \o f \in Seq(Tokens) /\ h \o b \in Seq(Tokens)
  BY <1>3, Concat
<1>5. (h \o b) \o f = h \o (b \o f)
  BY <1>3, ConcatAssociative, SMTT(60)
<1>6. PICK hb : hb = h \o b
  OBVIOUS
<1>7. hb \o f \in Seq(Tokens)
  BY <1>3, <1>4, <1>6, Concat
<1> QED  BY HeadTextIs, <1>1, <1>2, <1>4, <1>5, <1>6, <1>7 DEF Wire

LEMMA TypeInit == Init => TypeOK
<1> SUFFICES ASSUME Init PROVE TypeOK
  OBVIOUS
<1>1. <<>> \in Seq(Tokens) /\ coming \in Seq(Tokens)
  BY EmptySeq, TextType DEF Init
<1> QED  BY <1>1 DEF Init, TypeOK

LEMMA TypeStep == TypeOK /\ [Next]_vars => TypeOK'
<1> SUFFICES ASSUME TypeOK, [Next]_vars PROVE TypeOK'
  OBVIOUS
<1>0. /\ msg \in Messages /\ eof \in BOOLEAN /\ phase \in Phases /\ left \in Nat
      /\ Buffers /\ ChunkSize \in Nat \ {0}
  BY MessageType DEF TypeOK, Phases
<1>1. ASSUME msg' \in Messages, eof' \in BOOLEAN, phase' \in Phases, left' \in Nat, Buffers'
      PROVE  TypeOK'
  BY <1>1 DEF TypeOK, Phases, Buffers
<1>2. CASE Arrive
  <2>1. Head(coming) \in Tokens /\ Tail(coming) \in Seq(Tokens)
    BY <1>0, <1>2, HeadTailProperties DEF Arrive, Buffers
  <2>2. Append(socket, Head(coming)) \in Seq(Tokens)
    BY <1>0, <2>1 DEF Buffers
  <2> QED  BY <1>0, <1>1, <1>2, <2>1, <2>2 DEF Arrive, Buffers
<1>3. CASE PeerCloses
  BY <1>0, <1>1, <1>3 DEF PeerCloses, Buffers
<1>4. CASE Break
  <2>1. back' \in Seq(Tokens)
    BY <1>0, <1>4, EmptySeq DEF Break, Buffers
  <2> QED  BY <1>0, <1>1, <1>4, <2>1 DEF Break, Phases, input, Buffers
<1>5. CASE ReadHead
  <2> DEFINE got == buffer \o Piece(ChunkSize)
             n   == Len(Piece(ChunkSize))
  <2>1. got \in Seq(Tokens) /\ Len(got) \in Nat /\ n \in 0..Len(Available)
    <3>1. PICK p : p = Piece(ChunkSize)
      OBVIOUS
    <3>2. p \in Seq(Tokens) /\ buffer \in Seq(Tokens) /\ n \in 0..Len(Available)
      BY <1>0, <3>1, PieceIs DEF Buffers
    <3>3. buffer \o p \in Seq(Tokens)
      BY <3>2, Concat
    <3> QED  BY <3>1, <3>2, <3>3, LenProperties
  <2>2. msg' = msg /\ eof' = eof /\ coming' = coming /\ out' = out
    BY <1>5 DEF ReadHead, input
  <2>3. CASE UNCHANGED <<buffer, back, socket, left>> /\ phase' = "gone"
    BY <1>0, <1>1, <2>2, <2>3 DEF Phases, Buffers
  <2>4. CASE buffer' = got /\ Take(n, <<>>) /\ UNCHANGED <<phase, left>>
    <3>1. back' \in Seq(Tokens) /\ socket' \in Seq(Tokens)
      BY <1>0, <2>1, <2>4, TakeType, EmptySeq
    <3> QED  BY <1>0, <1>1, <2>1, <2>2, <2>4, <3>1 DEF Buffers
  <2>5. ASSUME NEW i \in Ends(got), Take(n, Drop(got, i + 3)), buffer' = <<>>,
               phase' = Streaming,
               left' = IF msg.framing = "length" THEN Len(msg.body) ELSE 0
        PROVE  TypeOK'
    <3>1. i \in Nat /\ i + 3 \in 0..Len(got)
      BY <2>1 DEF Ends
    <3>2. Drop(got, i + 3) \in Seq(Tokens)
      BY <2>1, <3>1, Cut
    <3>3. back' \in Seq(Tokens) /\ socket' \in Seq(Tokens)
      BY <1>0, <2>1, <2>5, <3>2, TakeType
    <3>4. phase' \in Phases
      BY <2>5 DEF Streaming, Phases
    <3>5. left' \in Nat /\ buffer' \in Seq(Tokens)
      BY <1>0, <2>5, TextType, LenProperties, EmptySeq
    <3> QED  BY <1>0, <1>1, <2>2, <3>3, <3>4, <3>5 DEF Buffers
  <2> HIDE DEF got, n
  <2> QED  BY <1>5, <2>3, <2>4, <2>5 DEF ReadHead, got, n
\* The other reads take the first part of the buffers, and perhaps write it.
<1>6. ASSUME NEW k \in 0..Len(Available), Take(k, <<>>), UNCHANGED <<msg, input, buffer>>,
             out' = out \/ out' = out \o First(Available, k),
             phase' \in Phases, left' \in Nat
      PROVE  TypeOK'
  <2>1. back' \in Seq(Tokens) /\ socket' \in Seq(Tokens)
    BY <1>0, <1>6, TakeType, EmptySeq
  <2>2. out' \in Seq(Tokens)
    <3>1. coming' = coming
      BY <1>6 DEF input
    <3> QED  BY <1>0, <1>6, <3>1, CopyMoves DEF Buffers
  <2> QED  BY <1>0, <1>1, <1>6, <2>1, <2>2 DEF input, Buffers
<1>7. ASSUME NEW after \in Phases, Copy(after) PROVE TypeOK'
  <2>1. Want(left) \in Nat /\ Want(left) <= left
    BY <1>0 DEF Want, Least
  <2> DEFINE k == Len(Piece(Want(left)))
  <2>2. k \in 0..Len(Available) /\ k <= left /\ Piece(Want(left)) = First(Available, k)
    <3>1. PICK n \in Nat : n = Want(left)
      BY <2>1
    <3>2. k \in 0..Len(Available) /\ k <= n /\ Piece(n) = First(Available, k)
      BY <1>0, <3>1, PieceIs
    <3>3. k \in Nat /\ k <= left
      BY <1>0, <2>1, <3>1, <3>2, AvailableType
    <3> QED  BY <3>1, <3>2, <3>3
  <2>3. left' \in Nat /\ phase' \in Phases
    BY <1>0, <1>7, <2>2 DEF Copy, Phases
  <2> QED  BY <1>6, <1>7, <2>2, <2>3 DEF Copy
<1>8. CASE ReadSize
  <2>1. Len(Line) \in 0..Len(Available) /\ Line = First(Available, Len(Line))
    BY <1>0, LineIs
  <2>2. phase' \in Phases
    BY <1>8 DEF ReadSize, Phases
  <2>3. left' \in Nat
    <3>1. \A d \in DOMAIN Digit : Digit[d] \in Nat
      BY DEF Digit
    <3>2. IsSize(Line) => ChunkLength(Line) \in Nat
      BY <3>1 DEF IsSize, ChunkLength
    <3> QED  BY <1>0, <1>8, <3>2 DEF ReadSize
  <2>4. out' = out \/ out' = out \o Line
    BY <1>8 DEF ReadSize
  <2> QED  BY <1>6, <1>8, <2>1, <2>2, <2>3, <2>4 DEF ReadSize
<1>9. CASE CopyTrailer
  <2>1. Len(Line) \in 0..Len(Available) /\ Line = First(Available, Len(Line))
    BY <1>0, LineIs
  <2>2. phase' \in Phases
    BY <1>9 DEF CopyTrailer, AfterTrailer, Phases
  <2> QED  BY <1>0, <1>6, <1>9, <2>1, <2>2 DEF CopyTrailer
<1>10. CASE CopyRest
  <2>1. PICK k \in 0..Len(Available) :
          Piece(ChunkSize) = First(Available, k) /\ Len(Piece(ChunkSize)) = k
    BY <1>0, PieceIs
  <2>2. phase' \in Phases
    BY <1>10 DEF CopyRest, Phases
  <2> QED  BY <1>0, <1>6, <1>10, <2>1, <2>2 DEF CopyRest
<1>11. CASE UNCHANGED vars
  BY <1>0, <1>1, <1>11 DEF vars, input, Buffers
<1>12. "done" \in Phases /\ "size" \in Phases
  BY DEF Phases
<1> QED
  BY <1>2, <1>3, <1>4, <1>5, <1>7, <1>8, <1>9, <1>10, <1>11, <1>12
  DEF Next, Step, CopyIdentity, CopyChunk

\* Buffers hold tokens, and no read takes more than what is left.
THEOREM TypeCorrect == Spec => []TypeOK
  BY TypeInit, TypeStep, PTL DEF Spec

--------------------------------------------------------------------------------
(* Nothing is lost *)

\* In the head what was read is in the parser's buffer, and nothing is pushed back.
HeadIntact ==
  /\ out = <<>> /\ back = <<>>
  /\ buffer \o (socket \o coming) = Wire(msg)

\* Behind it that buffer is empty, and the message is where it is read from.
BodyIntact ==
  /\ buffer = <<>>
  /\ out \o (back \o (socket \o coming)) = msg.body \o msg.follow

\* Where the copying was broken off, what went out begins the body.
Begun == \E rest \in Seq(Tokens) : out \o rest = msg.body \o msg.follow

\* The invariant: which of the three it is depends on the phase.
Intact ==
  /\ phase \in {"head", "gone"} => HeadIntact
  /\ phase \in {"identity", "size", "chunk", "trailer", "rest", "done", "spin"} => BodyIntact
  /\ phase \in {"error", "broken"} => Begun

LEMMA IntactBegins ==
  ASSUME TypeOK, HeadIntact \/ BodyIntact
  PROVE  Begun
<1>1. PICK o, b, s, c, w :
        o = out /\ b = back /\ s = socket /\ c = coming /\ w = msg.body \o msg.follow
  OBVIOUS
<1>2. /\ o \in Seq(Tokens) /\ b \in Seq(Tokens) /\ s \in Seq(Tokens) /\ c \in Seq(Tokens)
      /\ w \in Seq(Tokens)
  BY <1>1, MessageType, TextType DEF Buffers, TypeOK
<1>3. CASE HeadIntact
  <2>1. <<>> \o w = w
    BY <1>2, ConcatEmptySeq
  <2> QED  BY <1>1, <1>2, <1>3, <2>1 DEF HeadIntact, Begun
<1>4. CASE BodyIntact
  <2>1. PICK sc : sc = s \o c
    OBVIOUS
  <2>2. sc \in Seq(Tokens)
    <3>1. s \in Seq(Tokens) /\ c \in Seq(Tokens)
      BY <1>2
    <3> QED  BY <2>1, <3>1, Concat
  <2>3. PICK r : r = b \o sc
    OBVIOUS
  <2>4. r \in Seq(Tokens)
    <3>1. b \in Seq(Tokens) /\ sc \in Seq(Tokens)
      BY <1>2, <2>2
    <3> QED  BY <2>3, <3>1, Concat
  <2>5. o \o r = w
    BY <1>1, <1>4, <2>1, <2>3 DEF BodyIntact
  <2> QED  BY <1>1, <2>4, <2>5 DEF Begun
<1> QED  BY <1>3, <1>4

\* What arrives moves from the network to the end of the socket's buffer.
LEMMA Arrival ==
  ASSUME NEW S, NEW s \in Seq(S), NEW c \in Seq(S), c # <<>>
  PROVE  Append(s, Head(c)) \o Tail(c) = s \o c
<1>1. PICK a, t : a = Append(s, Head(c)) /\ t = Tail(c)
  OBVIOUS
<1>2. /\ Head(c) = c[1] /\ c[1] \in S /\ t \in Seq(S) /\ Len(c) \in Nat /\ Len(t) = Len(c) - 1
      /\ \A i \in 1..Len(t) : t[i] = c[i + 1]
  BY <1>1, HeadTailProperties, LenProperties
<1>3. /\ a \in Seq(S) /\ Len(s) \in Nat /\ Len(a) = Len(s) + 1
      /\ \A i \in 1..Len(s) : a[i] = s[i]
      /\ a[Len(s) + 1] = c[1]
  BY <1>1, <1>2, AppendProperties, LenProperties
<1>4. /\ a \o t \in Seq(S) /\ Len(a \o t) = Len(a) + Len(t)
      /\ \A i \in 1..Len(a) : (a \o t)[i] = a[i]
      /\ \A i \in 1..Len(t) : (a \o t)[Len(a) + i] = t[i]
  <2>1. a \in Seq(S) /\ t \in Seq(S)
    BY <1>2, <1>3
  <2> QED  BY <2>1, Concat
<1>5. /\ s \o c \in Seq(S) /\ Len(s \o c) = Len(s) + Len(c)
      /\ \A i \in 1..Len(s) : (s \o c)[i] = s[i]
      /\ \A i \in 1..Len(c) : (s \o c)[Len(s) + i] = c[i]
  BY Concat
<1>6. Len(a \o t) = Len(s \o c)
  BY <1>2, <1>3, <1>4, <1>5
<1>7. ASSUME NEW i \in 1..Len(s \o c) PROVE (a \o t)[i] = (s \o c)[i]
  <2>1. CASE i <= Len(s)
    <3>1. i \in 1..Len(s) /\ i \in 1..Len(a)
      BY <1>3, <2>1
    <3> QED  BY <1>3, <1>4, <1>5, <3>1
  <2>2. CASE i = Len(s) + 1
    <3>1. i \in 1..Len(a) /\ 1 \in 1..Len(c)
      BY <1>2, <1>3, <1>5, <2>2
    <3> QED  BY <1>3, <1>4, <1>5, <2>2, <3>1
  <2>3. CASE i > Len(s) + 1
    <3>1. PICK j \in Nat : j = i - Len(a)
      <4>1. i \in Nat /\ i - Len(a) \in Nat
        BY <1>3, <1>5, <2>3
      <4> QED  BY <4>1
    <3>2. /\ j \in 1..Len(t) /\ i = Len(a) + j
          /\ j + 1 \in 1..Len(c) /\ i = Len(s) + (j + 1)
      BY <1>2, <1>3, <1>5, <2>3, <3>1
    <3>3. (a \o t)[i] = t[j] /\ t[j] = c[j + 1]
      BY <1>2, <1>4, <3>2
    <3>4. (s \o c)[i] = c[j + 1]
      BY <1>5, <3>2
    <3> QED  BY <3>3, <3>4
  <2>4. i <= Len(s) \/ i = Len(s) + 1 \/ i > Len(s) + 1
    BY <1>3
  <2> QED  BY <2>1, <2>2, <2>3, <2>4
<1>8. a \o t = s \o c
  BY <1>4, <1>5, <1>6, <1>7, SeqEqual
<1> QED  BY <1>1, <1>8

\* Two streams that are equal, and begin with parts of one length, have the same
\* two parts.
LEMMA SameParts ==
  ASSUME NEW S, NEW s \in Seq(S), NEW r \in Seq(S), NEW t \in Seq(S), NEW u \in Seq(S),
         s \o r = t \o u, Len(s) >= Len(t)
  PROVE  /\ First(s, Len(t)) = t
         /\ Drop(s, Len(t)) \o r = u
<1>1. /\ Len(s) \in Nat /\ Len(t) \in Nat
      /\ \A i \in 1..Len(s) : (s \o r)[i] = s[i]
  BY Concat
<1>2. \A i \in 1..Len(t) : (t \o u)[i] = t[i]
  BY Concat
<1>3. PICK f, d : f = First(s, Len(t)) /\ d = Drop(s, Len(t))
  OBVIOUS
<1>4. /\ f \in Seq(S) /\ d \in Seq(S) /\ Len(f) = Len(t)
      /\ \A i \in 1..Len(t) : f[i] = s[i]
      /\ f \o d = s
  <2>1. Len(t) \in 0..Len(s)
    BY <1>1
  <2> QED  BY <1>3, <2>1, Cut
<1>5. ASSUME NEW i \in 1..Len(t) PROVE f[i] = t[i]
  <2>1. i \in 1..Len(s)
    BY <1>1
  <2> QED  BY <1>1, <1>2, <1>4, <2>1
<1>6. f = t
  BY <1>4, <1>5, SeqEqual
<1>7. (f \o d) \o r = f \o (d \o r)
  <2>1. f \in Seq(S) /\ d \in Seq(S) /\ r \in Seq(S)
    BY <1>4
  <2> QED  BY <2>1, ConcatAssociative, SMTT(60)
<1>8. PICK dr : dr = d \o r
  OBVIOUS
<1>9. dr \in Seq(S)
  BY <1>4, <1>8, Concat
<1>10. t \o dr = t \o u
  BY <1>4, <1>6, <1>7, <1>8
<1>11. dr = u
  BY <1>9, <1>10, ConcatSimplifications
<1> QED  BY <1>3, <1>6, <1>8, <1>11

\* What a read of the head takes goes from the socket to the parser.
LEMMA HeadMoves ==
  ASSUME Buffers, back = <<>>, NEW n \in 0..Len(Available), NEW again \in Seq(Tokens),
         Take(n, again)
  PROVE  /\ back' = again /\ socket' \in Seq(Tokens)
         /\ buffer \o First(Available, n) \in Seq(Tokens)
         /\ (buffer \o First(Available, n)) \o (socket' \o coming)
              = buffer \o (socket \o coming)
<1>1. /\ socket \in Seq(Tokens) /\ coming \in Seq(Tokens) /\ buffer \in Seq(Tokens)
      /\ back = <<>> /\ Len(back) = 0
  BY EmptySeq DEF Buffers
<1>2. Available = socket /\ n \in 0..Len(socket) /\ n \in Nat
  <2>1. <<>> \o socket = socket
    BY <1>1, ConcatEmptySeq
  <2>2. Available = socket
    BY <1>1, <2>1 DEF Available
  <2>3. Len(Available) \in Nat
    BY AvailableType
  <2> QED  BY <2>2, <2>3
<1>3. back' = again
  <2>1. Drop(back, n) = <<>>
    <3>1. <<>> \in Seq(Tokens) /\ n >= Len(back)
      BY <1>1, <1>2, EmptySeq
    <3> QED  BY <1>1, <1>2, <3>1, DropAll
  <2>2. again \o <<>> = again
    BY ConcatEmptySeq
  <2> QED  BY <2>1, <2>2 DEF Take
<1>4. socket' = Drop(socket, n)
  <2>1. (IF n > Len(back) THEN n - Len(back) ELSE 0) = n
    BY <1>1, <1>2
  <2> QED  BY <2>1 DEF Take
<1>5. PICK b, f, s, c : b = buffer /\ f = First(Available, n) /\ s = socket' /\ c = coming
  OBVIOUS
<1>6. /\ b \in Seq(Tokens) /\ f \in Seq(Tokens) /\ s \in Seq(Tokens) /\ c \in Seq(Tokens)
      /\ f \o s = socket
  BY <1>1, <1>2, <1>4, <1>5, Cut
<1>7. f \o (s \o c) = socket \o c /\ s \o c \in Seq(Tokens)
  <2>1. f \in Seq(Tokens) /\ s \in Seq(Tokens) /\ c \in Seq(Tokens)
    BY <1>6
  <2>2. (f \o s) \o c = f \o (s \o c)
    BY <2>1, ConcatAssociative, SMTT(60)
  <2>3. s \o c \in Seq(Tokens)
    BY <2>1, Concat
  <2> QED  BY <1>6, <2>2, <2>3
<1>8. (b \o f) \o (s \o c) = b \o (f \o (s \o c)) /\ b \o f \in Seq(Tokens)
  <2>1. PICK r : r = s \o c
    OBVIOUS
  <2>2. b \in Seq(Tokens) /\ f \in Seq(Tokens) /\ r \in Seq(Tokens)
    BY <1>6, <1>7, <2>1
  <2>3. (b \o f) \o r = b \o (f \o r)
    BY <2>2, ConcatAssociative, SMTT(60)
  <2>4. b \o f \in Seq(Tokens)
    BY <2>2, Concat
  <2> QED  BY <2>1, <2>3, <2>4
<1> QED  BY <1>3, <1>5, <1>6, <1>7, <1>8

\* A message has an empty line where its head ends, and none before.
LEMMA EndOfHead ==
  ASSUME NEW got \in Seq(Tokens), Len(got) >= 5, First(got, 5) = HeadText
  PROVE  2 \in Ends(got) /\ 1 \notin Ends(got)
<1>1. Len(got) \in Nat
  BY LenProperties
<1>2. /\ got[1] = "h" /\ got[2] = "cr" /\ got[3] = "lf" /\ got[4] = "cr" /\ got[5] = "lf"
  <2>1. 5 \in 0..Len(got)
    BY <1>1
  <2>2. \A k \in 1..5 : First(got, 5)[k] = got[k]
    BY <2>1, Cut
  <2> QED  BY <2>2, HeadTextIs
<1>3. ASSUME NEW k \in 1..(Len(got) - 3)
      PROVE  /\ SubSeq(got, k, k + 3) \in Seq(Tokens) /\ Len(SubSeq(got, k, k + 3)) = 4
             /\ \A l \in 1..4 : SubSeq(got, k, k + 3)[l] = got[k + l - 1]
  <2>1. PICK n \in Nat : n = k + 3
    BY <1>1
  <2>2. k \in 1..Len(got) /\ n \in k..Len(got) /\ n - k + 1 = 4
    BY <1>1, <2>1
  <2>3. /\ SubSeq(got, k, n) \in Seq(Tokens) /\ Len(SubSeq(got, k, n)) = n - k + 1
        /\ \A l \in 1..(n - k + 1) : SubSeq(got, k, n)[l] = got[k + l - 1]
    <3>1. k \in Int /\ n \in Int /\ k <= n
          /\ \A l \in k..n : got[l] \in Tokens
      BY <1>1, <2>1, <2>2, ElementOfSeq
    <3> QED  BY <3>1, SubSeqProperties
  <2> QED  BY <2>1, <2>2, <2>3
<1>4. 1 \notin Ends(got)
  <2>1. SUFFICES ASSUME 1 \in 1..(Len(got) - 3), SubSeq(got, 1, 1 + 3) = Delimiter PROVE FALSE
    BY DEF Ends
  <2>2. Delimiter[1] = "cr" /\ SubSeq(got, 1, 1 + 3)[1] = got[1 + 1 - 1]
    BY <1>3, <2>1 DEF Delimiter
  <2> QED  BY <1>2, <2>1, <2>2
<1>5. 2 \in Ends(got)
  <2>1. 2 \in 1..(Len(got) - 3)
    BY <1>1
  <2>2. SubSeq(got, 2, 2 + 3) = Delimiter
    <3>1. PICK q : q = SubSeq(got, 2, 2 + 3)
      OBVIOUS
    <3>2. q \in Seq(Tokens) /\ Len(q) = 4 /\ \A l \in 1..4 : q[l] = got[2 + l - 1]
      BY <1>3, <2>1, <3>1
    <3>3. /\ Delimiter \in Seq(Tokens) /\ Len(Delimiter) = 4
          /\ Delimiter[1] = "cr" /\ Delimiter[2] = "lf"
          /\ Delimiter[3] = "cr" /\ Delimiter[4] = "lf"
      BY DEF Delimiter, Tokens
    <3>4. q[1] = got[2] /\ q[2] = got[3] /\ q[3] = got[4] /\ q[4] = got[5]
      BY <3>2
    <3>5. \A l \in 1..Len(q) : q[l] = Delimiter[l]
      BY <1>2, <3>2, <3>3, <3>4
    <3>6. q = Delimiter
      BY <3>2, <3>3, <3>5, SeqEqual
    <3> QED  BY <3>1, <3>6
  <2> QED  BY <2>1, <2>2 DEF Ends
<1> QED  BY <1>4, <1>5

\* The read that ends the head pushes back what follows the head, and nothing else.
LEMMA HeadEnds ==
  ASSUME TypeOK, HeadIntact, NEW got \in Seq(Tokens), NEW n \in 0..Len(Available),
         got = buffer \o First(Available, n),
         NEW i \in Ends(got), \A j \in Ends(got) : i <= j, Take(n, Drop(got, i + 3))
  PROVE  /\ i = 2 /\ First(got, 5) = HeadText /\ back' = Drop(got, 5)
         /\ out \o (back' \o (socket' \o coming)) = msg.body \o msg.follow
<1>1. Buffers /\ back = <<>> /\ out = <<>> /\ Len(got) \in Nat
  BY MessageType, LenProperties DEF HeadIntact
<1>2. i \in Nat /\ i + 3 \in 0..Len(got)
  BY <1>1 DEF Ends
<1>3. PICK again : again = Drop(got, i + 3)
  OBVIOUS
<1>4. again \in Seq(Tokens) /\ Take(n, again)
  BY <1>2, <1>3, Cut
<1>5. /\ back' = again /\ socket' \in Seq(Tokens)
      /\ got \o (socket' \o coming) = buffer \o (socket \o coming)
  BY <1>1, <1>4, HeadMoves
<1>6. PICK rest, text, body :
        rest = socket' \o coming /\ text = HeadText /\ body = msg.body \o msg.follow
  OBVIOUS
<1>7. /\ rest \in Seq(Tokens) /\ text \in Seq(Tokens) /\ body \in Seq(Tokens)
      /\ Len(text) = 5
  <2>1. PICK s, c : s = socket' /\ c = coming
    OBVIOUS
  <2>2. s \in Seq(Tokens) /\ c \in Seq(Tokens)
    BY <1>1, <1>5, <2>1 DEF Buffers
  <2>3. s \o c \in Seq(Tokens)
    BY <2>2, Concat
  <2> QED  BY <1>6, <2>1, <2>3, TextType DEF TypeOK
<1>8. got \o rest = text \o body
  BY <1>5, <1>6, TextType DEF HeadIntact, TypeOK
<1>9. Len(got) >= 5
  <2>1. /\ Len(got) >= 4
        /\ \A k \in 1..Len(got) : (got \o rest)[k] = got[k]
        /\ \A k \in 1..5 : (text \o body)[k] = text[k]
    <3>1. got \in Seq(Tokens) /\ rest \in Seq(Tokens)
      BY <1>7
    <3>2. \A k \in 1..Len(got) : (got \o rest)[k] = got[k]
      BY <3>1, Concat
    <3>3. text \in Seq(Tokens) /\ body \in Seq(Tokens)
      BY <1>7
    <3>4. \A k \in 1..Len(text) : (text \o body)[k] = text[k]
      BY <3>3, Concat
    <3>5. \A k \in 1..5 : (text \o body)[k] = text[k]
      BY <1>7, <3>4
    <3>6. i \in 1..(Len(got) - 3)
      BY DEF Ends
    <3>7. Len(got) >= 4
      BY <1>1, <3>6
    <3> QED  BY <3>2, <3>5, <3>7
  <2>2. SUFFICES ASSUME Len(got) = 4 PROVE FALSE
    BY <1>1, <2>1
  <2>3. i = 1 /\ got[1] = "h"
    <3>1. i = 1
      BY <2>2 DEF Ends
    <3>2. 1 \in 1..Len(got) /\ 1 \in 1..5
      BY <2>2
    <3>3. got[1] = text[1]
      BY <1>8, <2>1, <3>2
    <3> QED  BY <1>6, <3>1, <3>3, HeadTextIs
  <2>4. SubSeq(got, 1, 4) = Delimiter
    <3>1. SubSeq(got, i, i + 3) = Delimiter
      BY DEF Ends
    <3>2. i = 1 /\ i + 3 = 4
      BY <2>3
    <3> QED  BY <3>1, <3>2
  <2>5. SubSeq(got, 1, 4) = got
    BY <2>2, SubSeqFull
  <2>6. Delimiter[1] = "cr"
    BY DEF Delimiter
  <2> QED  BY <2>3, <2>4, <2>5, <2>6
<1>10. First(got, 5) = text /\ Drop(got, 5) \o rest = body
  <2>1. /\ got \in Seq(Tokens) /\ rest \in Seq(Tokens) /\ text \in Seq(Tokens)
        /\ body \in Seq(Tokens) /\ Len(got) >= Len(text)
    BY <1>7, <1>9
  <2>2. First(got, Len(text)) = text /\ Drop(got, Len(text)) \o rest = body
    BY <1>8, <2>1, SameParts
  <2> QED  BY <1>7, <2>2
<1>11. i = 2
  <2>1. First(got, 5) = HeadText
    BY <1>6, <1>10
  <2>2. 2 \in Ends(got) /\ 1 \notin Ends(got)
    BY <1>9, <2>1, EndOfHead
  <2>3. i <= 2 /\ i # 1
    BY <2>2
  <2>4. i >= 1
    BY <1>1 DEF Ends
  <2> QED  BY <1>2, <2>3, <2>4
<1>12. <<>> \o body = body
  BY <1>7, ConcatEmptySeq
<1>13. back' = Drop(got, 5)
  <2>1. i + 3 = 5
    BY <1>11
  <2> QED  BY <1>3, <1>5, <2>1
<1>14. out \o (back' \o rest) = body
  BY <1>1, <1>10, <1>12, <1>13
<1> QED  BY <1>6, <1>10, <1>11, <1>13, <1>14

LEMMA IntactInit == Init => Intact
<1> SUFFICES ASSUME Init PROVE Intact
  OBVIOUS
<1>1. Wire(msg) \in Seq(Tokens)
  BY TextType DEF Init
<1>2. PICK w : w = Wire(msg)
  OBVIOUS
<1>3. w \in Seq(Tokens) /\ <<>> \o w = w
  BY <1>1, <1>2, ConcatEmptySeq
<1>4. <<>> \o (<<>> \o w) = w
  BY <1>3
<1>5. HeadIntact
  BY <1>2, <1>4 DEF Init, HeadIntact
<1> QED  BY <1>5 DEF Init, Intact

LEMMA IntactStep == TypeOK /\ Intact /\ [Next]_vars => Intact'
<1> SUFFICES ASSUME TypeOK, Intact, [Next]_vars PROVE Intact'
  OBVIOUS
<1>0. Buffers /\ ChunkSize \in Nat /\ left \in Nat
  BY MessageType
<1> DEFINE Body == {"identity", "size", "chunk", "trailer", "rest", "done", "spin"}
<1>1. CASE Arrive
  <2>1. Append(socket, Head(coming)) \o Tail(coming) = socket \o coming
    BY <1>0, <1>1, Arrival DEF Arrive, Buffers
  <2>2. socket' \o coming' = socket \o coming
    BY <1>1, <2>1 DEF Arrive
  <2>3. UNCHANGED <<msg, back, buffer, phase, out>>
    BY <1>1 DEF Arrive
  <2> QED  BY <2>2, <2>3 DEF Intact, HeadIntact, BodyIntact, Begun
<1>2. CASE PeerCloses
  BY <1>2 DEF PeerCloses, Intact, HeadIntact, BodyIntact, Begun
<1>3. CASE Break
  <2>1. HeadIntact \/ BodyIntact
    BY <1>3 DEF Break, Active, Intact
  <2>2. phase' = "broken" /\ UNCHANGED <<msg, out>>
    BY <1>3 DEF Break
  <2>3. Begun
    BY <2>1, IntactBegins
  <2> QED  BY <2>2, <2>3 DEF Intact, Begun
<1>4. CASE ReadHead
  <2> DEFINE got == buffer \o Piece(ChunkSize)
             n   == Len(Piece(ChunkSize))
  <2>1. HeadIntact
    BY <1>4 DEF ReadHead, Intact
  <2>2. n \in 0..Len(Available) /\ Piece(ChunkSize) = First(Available, n)
    BY <1>0, PieceIs
  <2>3. got = buffer \o First(Available, n)
    BY <2>2
  <2>4. got \in Seq(Tokens)
    <3>1. PICK b, q : b = buffer /\ q = Piece(ChunkSize)
      OBVIOUS
    <3>2. b \in Seq(Tokens) /\ q \in Seq(Tokens)
      BY <1>0, <3>1, PieceIs DEF Buffers
    <3>3. b \o q \in Seq(Tokens)
      BY <3>2, Concat
    <3> QED  BY <3>1, <3>3
  <2>5. msg' = msg /\ coming' = coming /\ out' = out
    BY <1>4 DEF ReadHead, input
  <2>6. CASE UNCHANGED <<buffer, back, socket>> /\ phase' = "gone"
    BY <2>1, <2>5, <2>6 DEF Intact, HeadIntact
  <2>7. CASE buffer' = got /\ Take(n, <<>>) /\ UNCHANGED phase
    <3>1. <<>> \in Seq(Tokens)
      BY EmptySeq
    <3>2. /\ back' = <<>>
          /\ (buffer \o First(Available, n)) \o (socket' \o coming)
               = buffer \o (socket \o coming)
      BY <1>0, <2>1, <2>2, <2>7, <3>1, HeadMoves DEF HeadIntact
    <3>3. HeadIntact'
      BY <2>1, <2>3, <2>5, <2>7, <3>2 DEF HeadIntact
    <3> QED  BY <1>4, <2>7, <3>3 DEF ReadHead, Intact
  <2>8. ASSUME NEW i \in Ends(got), \A j \in Ends(got) : i <= j,
               Take(n, Drop(got, i + 3)), buffer' = <<>>, phase' = Streaming
        PROVE  Intact'
    <3>1. PICK g, m : g = got /\ m = n
      OBVIOUS
    <3>2. out \o (back' \o (socket' \o coming)) = msg.body \o msg.follow
      <4>1. /\ g \in Seq(Tokens) /\ m \in 0..Len(Available)
            /\ g = buffer \o First(Available, m) /\ i \in Ends(g)
            /\ (\A j \in Ends(g) : i <= j) /\ Take(m, Drop(g, i + 3))
        BY <2>2, <2>3, <2>4, <2>8, <3>1
      <4> QED  BY <2>1, <4>1, HeadEnds
    <3>3. BodyIntact'
      BY <2>5, <2>8, <3>2 DEF BodyIntact
    <3>4. phase' \in Body
      BY <2>8 DEF Streaming
    <3> QED  BY <3>3, <3>4 DEF Intact
  <2> HIDE DEF got, n
  <2> QED  BY <1>4, <2>6, <2>7, <2>8 DEF ReadHead, got, n
\* The other reads: what they take goes out.
<1>5. ASSUME NEW k \in 0..Len(Available), Take(k, <<>>), UNCHANGED <<msg, input, buffer>>,
             out' = out \o First(Available, k), phase \in Body,
             phase' \in Body \cup {"error"}
      PROVE  Intact'
  <2>1. coming' = coming /\ msg' = msg /\ buffer' = buffer
    BY <1>5 DEF input
  <2>2. BodyIntact
    BY <1>5 DEF Intact
  <2>3. out' \o (back' \o (socket' \o coming')) = out \o (back \o (socket \o coming))
    BY <1>0, <1>5, <2>1, CopyMoves
  <2>4. BodyIntact'
    BY <2>1, <2>2, <2>3 DEF BodyIntact
  <2>5. Begun'
    <3>1. TypeOK'
      BY TypeStep
    <3>2. PICK o, b, s, c, w :
            /\ o = out' /\ b = back' /\ s = socket' /\ c = coming'
            /\ w = msg'.body \o msg'.follow
      OBVIOUS
    <3>3. /\ o \in Seq(Tokens) /\ b \in Seq(Tokens) /\ s \in Seq(Tokens)
          /\ c \in Seq(Tokens) /\ o \o (b \o (s \o c)) = w
      BY <2>4, <3>1, <3>2 DEF TypeOK, BodyIntact
    <3>4. PICK sc : sc = s \o c
      OBVIOUS
    <3>5. sc \in Seq(Tokens)
      <4>1. s \in Seq(Tokens) /\ c \in Seq(Tokens)
        BY <3>3
      <4> QED  BY <3>4, <4>1, Concat
    <3>6. b \o sc \in Seq(Tokens)
      <4>1. b \in Seq(Tokens) /\ sc \in Seq(Tokens)
        BY <3>3, <3>5
      <4> QED  BY <4>1, Concat
    <3> QED  BY <3>2, <3>3, <3>4, <3>6 DEF Begun
  <2> QED  BY <1>5, <2>4, <2>5 DEF Intact
<1>6. ASSUME NEW after \in Body, Copy(after), phase \in Body PROVE Intact'
  <2> DEFINE k == Len(Piece(Want(left)))
  <2>1. Want(left) \in Nat
    BY <1>0 DEF Want, Least
  <2>2. k \in 0..Len(Available) /\ Piece(Want(left)) = First(Available, k)
    BY <1>0, <2>1, PieceIs
  <2>3. phase' \in Body \cup {"error"}
    BY <1>6 DEF Copy
  <2>4. Take(k, <<>>) /\ out' = out \o Piece(Want(left)) /\ UNCHANGED <<msg, input, buffer>>
    BY <1>6 DEF Copy
  <2> HIDE DEF k
  <2> QED  BY <1>5, <1>6, <2>2, <2>3, <2>4
<1>7. CASE ReadSize
  <2>1. Len(Line) \in 0..Len(Available) /\ Line = First(Available, Len(Line))
    BY <1>0, LineIs
  <2>2. CASE phase' = "error" /\ out' = out
    <3>1. Begun
      BY <1>7, IntactBegins DEF ReadSize, Intact
    <3>2. msg' = msg
      BY <1>7 DEF ReadSize
    <3> QED  BY <2>2, <3>1, <3>2 DEF Intact, Begun
  <2>3. CASE out' = out \o Line /\ phase' \in {"trailer", "chunk"}
    BY <1>5, <1>7, <2>1, <2>3 DEF ReadSize
  <2> QED  BY <1>7, <2>2, <2>3 DEF ReadSize
<1>8. CASE CopyTrailer
  <2>1. Len(Line) \in 0..Len(Available) /\ Line = First(Available, Len(Line))
    BY <1>0, LineIs
  <2> QED  BY <1>5, <1>8, <2>1 DEF CopyTrailer, AfterTrailer
<1>9. CASE CopyRest
  <2> DEFINE k == Len(Piece(ChunkSize))
  <2>1. k \in 0..Len(Available) /\ Piece(ChunkSize) = First(Available, k)
    BY <1>0, PieceIs
  <2>2. /\ Take(k, <<>>) /\ out' = out \o Piece(ChunkSize) /\ UNCHANGED <<msg, input, buffer>>
        /\ phase = "rest" /\ phase' \in Body
    BY <1>9 DEF CopyRest
  <2> HIDE DEF k
  <2> QED  BY <1>5, <2>1, <2>2
<1>10. CASE UNCHANGED vars
  BY <1>10 DEF vars, input, Intact, HeadIntact, BodyIntact, Begun
<1> QED
  BY <1>1, <1>2, <1>3, <1>4, <1>6, <1>7, <1>8, <1>9, <1>10
  DEF Next, Step, CopyIdentity, CopyChunk

LEMMA Beginning ==
  ASSUME NEW S, NEW o \in Seq(S), NEW r \in Seq(S), NEW w \in Seq(S), o \o r = w
  PROVE  IsPrefix(o, w)
<1>1. Len(o) \in Nat /\ Len(r) \in Nat /\ Len(w) = Len(o) + Len(r)
  BY Concat
<1>2. Len(w) >= Len(o)
  BY <1>1
<1>3. First(w, Len(o)) = o
  <2>1. <<>> \in Seq(S) /\ w \o <<>> = o \o r
    BY ConcatEmptySeq, EmptySeq
  <2> QED  BY <1>2, <2>1, SameParts
<1>4. SubSeq(o, 1, Len(o)) = o
  BY SubSeqFull
<1> QED  BY <1>1, <1>2, <1>3, <1>4 DEF IsPrefix, First

LEMMA BegunIsPrefix == TypeOK /\ Begun => IsPrefix(out, msg.body \o msg.follow)
<1> SUFFICES ASSUME TypeOK, Begun PROVE IsPrefix(out, msg.body \o msg.follow)
  OBVIOUS
<1>1. PICK r \in Seq(Tokens) : out \o r = msg.body \o msg.follow
  BY DEF Begun
<1>2. PICK o, w : o = out /\ w = msg.body \o msg.follow
  OBVIOUS
<1>3. o \in Seq(Tokens) /\ w \in Seq(Tokens) /\ o \o r = w
  BY <1>1, <1>2, TextType DEF TypeOK
<1>4. IsPrefix(o, w)
  BY <1>3, Beginning
<1> QED  BY <1>2, <1>4

LEMMA IntactIsConserved == TypeOK /\ Intact => Conserved
<1> SUFFICES ASSUME TypeOK, Intact, phase \notin {"error", "broken"}
             PROVE  \/ Wire(msg) = buffer \o (out \o back \o socket \o coming)
                    \/ Wire(msg) = HeadText \o (out \o back \o socket \o coming)
  BY BegunIsPrefix DEF Conserved, Intact
<1>1. Buffers /\ (HeadIntact \/ BodyIntact)
  BY MessageType DEF TypeOK, Intact
<1>2. PICK o, b, s, c : o = out /\ b = back /\ s = socket /\ c = coming
  OBVIOUS
<1>3. o \in Seq(Tokens) /\ b \in Seq(Tokens) /\ s \in Seq(Tokens) /\ c \in Seq(Tokens)
  BY <1>1, <1>2 DEF Buffers
<1>4. o \o b \o s \o c = o \o (b \o (s \o c))
  <2>1. PICK ob, sc : ob = o \o b /\ sc = s \o c
    OBVIOUS
  <2>2. ob \in Seq(Tokens)
    <3>1. o \in Seq(Tokens) /\ b \in Seq(Tokens)
      BY <1>3
    <3> QED  BY <2>1, <3>1, Concat
  <2>3. sc \in Seq(Tokens)
    <3>1. s \in Seq(Tokens) /\ c \in Seq(Tokens)
      BY <1>3
    <3> QED  BY <2>1, <3>1, Concat
  <2>4. (ob \o s) \o c = ob \o (s \o c)
    <3>1. ob \in Seq(Tokens) /\ s \in Seq(Tokens) /\ c \in Seq(Tokens)
      BY <1>3, <2>2
    <3> QED  BY <3>1, ConcatAssociative, SMTT(60)
  <2>5. (o \o b) \o sc = o \o (b \o sc)
    <3>1. o \in Seq(Tokens) /\ b \in Seq(Tokens) /\ sc \in Seq(Tokens)
      BY <1>3, <2>3
    <3> QED  BY <3>1, ConcatAssociative, SMTT(60)
  <2> QED  BY <2>1, <2>4, <2>5
<1>5. CASE HeadIntact
  <2>1. s \o c \in Seq(Tokens)
    <3>1. s \in Seq(Tokens) /\ c \in Seq(Tokens)
      BY <1>3
    <3> QED  BY <3>1, Concat
  <2>2. PICK sc : sc = s \o c
    OBVIOUS
  <2>3. <<>> \o sc = sc
    BY <2>1, <2>2, ConcatEmptySeq
  <2>4. o \o (b \o sc) = sc
    BY <1>2, <1>5, <2>3 DEF HeadIntact
  <2> QED  BY <1>2, <1>4, <1>5, <2>2, <2>4 DEF HeadIntact
<1>6. CASE BodyIntact
  <2>1. Wire(msg) = HeadText \o (msg.body \o msg.follow)
    BY TextType DEF TypeOK
  <2> QED  BY <1>2, <1>4, <1>6, <2>1 DEF BodyIntact
<1> QED  BY <1>1, <1>5, <1>6

\* However a message is cut into reads, also within a CRLF, and whatever is pushed
\* back: its bytes and those that follow it stay in order, none lost and none twice,
\* as long as the copying goes on and when it has ended well.  Where it is broken
\* off, pushed-back bytes may be lost, but what went out begins the body.
THEOREM NothingIsLost == Spec => []Conserved
<1>1. Init => TypeOK /\ Intact
  BY TypeInit, IntactInit
<1>2. TypeOK /\ Intact /\ [Next]_vars => (TypeOK /\ Intact)'
  BY TypeStep, IntactStep
<1>3. TypeOK /\ Intact => Conserved
  BY IntactIsConserved
<1> QED  BY <1>1, <1>2, <1>3, PTL DEF Spec

--------------------------------------------------------------------------------
(* The end of a message *)

\* Where the lines with the sizes of the chunks begin in a body that is what its
\* head says.
Sizes(b) == CHOOSE sizes \in SUBSET Starts(b) : Layout(b, sizes)

\* What the phase says of the framing, and how much of the body is out.
Standing ==
  /\ phase = "head" => Ends(buffer) = {}
  /\ phase = "identity" =>
       msg.framing = "length" /\ left > 0 /\ Len(out) + left = Len(msg.body)
  /\ phase \in {"size", "chunk", "trailer", "spin"} => msg.framing = "chunked"
  /\ phase = "chunk" => left > 0
  /\ phase = "rest" => ToEof
  /\ phase = "error" => eof \/ ~msg.valid

\* Where in a well-formed body the reading is.
Place ==
  msg.valid =>
    /\ phase = "size" => Len(out) \in Sizes(msg.body)
    /\ phase = "chunk" => Len(out) + left \in Sizes(msg.body)
    /\ phase = "trailer" => Trailers(msg.body, Len(out)) \/ (eof /\ Available = <<>>)
    /\ phase = "done" => IF ToEof THEN eof /\ out \o coming = msg.body ELSE out = msg.body

LEMMA SizesAre ==
  ASSUME TypeOK, msg.valid, msg.framing = "chunked"
  PROVE  Sizes(msg.body) \subseteq 0..Len(msg.body) /\ Layout(msg.body, Sizes(msg.body))
<1>1. \E sizes \in SUBSET Starts(msg.body) : Layout(msg.body, sizes)
  BY MessageType DEF WellFormed
<1>2. /\ Sizes(msg.body) \in SUBSET Starts(msg.body)
      /\ Layout(msg.body, Sizes(msg.body))
  BY <1>1 DEF Sizes
<1>3. Len(msg.body) \in Nat
  BY MessageType, LenProperties
<1> QED  BY <1>2, <1>3 DEF Starts

LEMMA DigitType == \A d \in DOMAIN Digit : Digit[d] \in Nat /\ d # "lf"
BY DEF Digit

\* What can be read next stands in the message where the writing is.
LEMMA Reading ==
  ASSUME TypeOK, BodyIntact
  PROVE  /\ Len(out) \in Nat /\ Len(Available) \in Nat /\ Len(coming) \in Nat
         /\ Len(msg.body) \in Nat /\ Len(msg.follow) \in Nat
         /\ Len(out) + Len(Available) + Len(coming) = Len(msg.body) + Len(msg.follow)
         /\ \A i \in 1..Len(Available) :
              Len(out) + i <= Len(msg.body) => Available[i] = msg.body[Len(out) + i]
<1>1. PICK o, b, s, c, d, f :
        o = out /\ b = back /\ s = socket /\ c = coming /\ d = msg.body /\ f = msg.follow
  OBVIOUS
<1>2. /\ o \in Seq(Tokens) /\ b \in Seq(Tokens) /\ s \in Seq(Tokens) /\ c \in Seq(Tokens)
      /\ d \in Seq(Tokens) /\ f \in Seq(Tokens) /\ o \o (b \o (s \o c)) = d \o f
  BY <1>1, MessageType DEF Buffers, BodyIntact
<1>3. PICK a : a = b \o s
  OBVIOUS
<1>4. a \in Seq(Tokens) /\ a = Available /\ b \o (s \o c) = a \o c
  <2>1. b \in Seq(Tokens) /\ s \in Seq(Tokens) /\ c \in Seq(Tokens)
    BY <1>2
  <2>2. (b \o s) \o c = b \o (s \o c)
    BY <2>1, ConcatAssociative, SMTT(60)
  <2>3. b \o s \in Seq(Tokens)
    BY <2>1, Concat
  <2> QED  BY <1>1, <1>3, <2>2, <2>3 DEF Available
<1>5. PICK ac : ac = a \o c
  OBVIOUS
<1>6. /\ ac \in Seq(Tokens) /\ Len(a) \in Nat /\ Len(c) \in Nat /\ Len(ac) = Len(a) + Len(c)
      /\ \A i \in 1..Len(a) : ac[i] = a[i]
  <2>1. a \in Seq(Tokens) /\ c \in Seq(Tokens)
    BY <1>2, <1>4
  <2> QED  BY <1>5, <2>1, Concat
<1>7. /\ Len(o) \in Nat /\ Len(o \o ac) = Len(o) + Len(ac)
      /\ \A i \in 1..Len(ac) : (o \o ac)[Len(o) + i] = ac[i]
  <2>1. o \in Seq(Tokens) /\ ac \in Seq(Tokens)
    BY <1>2, <1>6
  <2> QED  BY <2>1, Concat
<1>8. /\ Len(d) \in Nat /\ Len(f) \in Nat /\ Len(d \o f) = Len(d) + Len(f)
      /\ \A i \in 1..Len(d) : (d \o f)[i] = d[i]
  <2>1. d \in Seq(Tokens) /\ f \in Seq(Tokens)
    BY <1>2
  <2> QED  BY <2>1, Concat
<1>9. o \o ac = d \o f
  BY <1>2, <1>4, <1>5
<1>10. Len(o) + Len(a) + Len(c) = Len(d) + Len(f)
  BY <1>6, <1>7, <1>8, <1>9
<1>11. ASSUME NEW i \in 1..Len(a), Len(o) + i <= Len(d) PROVE a[i] = d[Len(o) + i]
  <2>1. i \in 1..Len(ac) /\ Len(o) + i \in 1..Len(d)
    BY <1>6, <1>7, <1>8, <1>11
  <2>2. (o \o ac)[Len(o) + i] = a[i] /\ (d \o f)[Len(o) + i] = d[Len(o) + i]
    BY <1>6, <1>7, <1>8, <1>11, <2>1
  <2> QED  BY <1>9, <2>2
<1> QED  BY <1>1, <1>4, <1>6, <1>7, <1>8, <1>10, <1>11

\* What is out is the body as soon as it has its length.
LEMMA WholeBody ==
  ASSUME NEW S, NEW o \in Seq(S), NEW r \in Seq(S), NEW b \in Seq(S), NEW f \in Seq(S),
         o \o r = b \o f, Len(o) = Len(b)
  PROVE  o = b
<1>1. Len(o) \in Nat /\ Len(o) >= Len(b)
  BY LenProperties
<1>2. First(o, Len(b)) = b
  BY <1>1, SameParts
<1>3. First(o, Len(o)) = o
  BY SubSeqFull DEF First
<1> QED  BY <1>2, <1>3

LEMMA BodyOut ==
  ASSUME TypeOK', BodyIntact', Len(out') = Len(msg'.body)
  PROVE  out' = msg'.body
<1>1. PICK o, b, s, c, d, f :
        /\ o = out' /\ b = back' /\ s = socket' /\ c = coming'
        /\ d = msg'.body /\ f = msg'.follow
  OBVIOUS
<1>2. /\ o \in Seq(Tokens) /\ b \in Seq(Tokens) /\ s \in Seq(Tokens) /\ c \in Seq(Tokens)
      /\ d \in Seq(Tokens) /\ f \in Seq(Tokens) /\ Len(o) = Len(d)
      /\ o \o (b \o (s \o c)) = d \o f
  <2>1. msg' \in Messages
    BY DEF TypeOK
  <2>2. PICK m \in Messages : m = msg'
    BY <2>1
  <2>3. m.body \in Seq(Tokens) /\ m.follow \in Seq(Tokens)
    BY TextType
  <2> QED  BY <1>1, <2>2, <2>3 DEF TypeOK, BodyIntact
<1>3. PICK sc : sc = s \o c
  OBVIOUS
<1>4. sc \in Seq(Tokens)
  <2>1. s \in Seq(Tokens) /\ c \in Seq(Tokens)
    BY <1>2
  <2> QED  BY <1>3, <2>1, Concat
<1>5. PICK r : r = b \o sc
  OBVIOUS
<1>6. r \in Seq(Tokens)
  <2>1. b \in Seq(Tokens) /\ sc \in Seq(Tokens)
    BY <1>2, <1>4
  <2> QED  BY <1>5, <2>1, Concat
<1>7. /\ o \in Seq(Tokens) /\ r \in Seq(Tokens) /\ d \in Seq(Tokens) /\ f \in Seq(Tokens)
      /\ o \o r = d \o f /\ Len(o) = Len(d)
  BY <1>2, <1>3, <1>5, <1>6
<1>8. o = d
  BY <1>7, WholeBody
<1> QED  BY <1>1, <1>8

\* A read of more than nothing gives nothing at the end of file only.
LEMMA NothingLeft ==
  ASSUME TypeOK, NEW n \in Nat \ {0}, CanRead(n), Piece(n) = <<>>
  PROVE  eof /\ Available = <<>>
<1>1. Buffers /\ Available = <<>>
  BY MessageType, PieceIs
<1>2. back = <<>> /\ socket = <<>>
  BY <1>1, AvailableType
<1>3. Len(back) = 0
  BY <1>2, EmptySeq
<1> QED  BY <1>1, <1>2, <1>3 DEF CanRead

\* In a well-formed body the line that is read as a size is one, once it is there.
LEMMA SizeLine ==
  ASSUME TypeOK, BodyIntact, Standing, Place, msg.valid, phase = "size"
  PROVE  /\ msg.framing = "chunked"
         /\ Len(out) + 3 <= Len(msg.body) /\ msg.body[Len(out) + 3] = "lf"
         /\ IsSize(Line) <=> Contains(Available, "lf")
         /\ IsSize(Line) =>
              IF Digit[Line[1]] = 0
              THEN Trailers(msg.body, Len(out) + 3)
              ELSE Len(out) + 3 + ChunkLength(Line) \in Sizes(msg.body)
<1>0. PICK p, b : p = Len(out) /\ b = msg.body
  OBVIOUS
<1>1. msg.framing = "chunked" /\ p \in Sizes(b)
  BY <1>0 DEF Standing, Place
<1>2. /\ p + 3 <= Len(b) /\ b[p + 1] \in DOMAIN Digit
      /\ b[p + 2] = "cr" /\ b[p + 3] = "lf"
      /\ IF b[p + 1] = "0" THEN Trailers(b, p + 3)
                           ELSE p + 3 + Digit[b[p + 1]] + 2 \in Sizes(b)
  BY <1>0, <1>1, SizesAre DEF Layout
<1>3. /\ p \in Nat /\ Len(Available) \in Nat /\ Len(b) \in Nat
      /\ \A i \in 1..Len(Available) : p + i <= Len(b) => Available[i] = b[p + i]
  BY <1>0, Reading
<1>4. Buffers
  BY MessageType
<1>5. p + 1 <= Len(b) /\ p + 2 <= Len(b)
  BY <1>2, <1>3
<1>6. CASE Contains(Available, "lf")
  <2>1. /\ Len(Line) \in 1..Len(Available) /\ Available[Len(Line)] = "lf"
        /\ \A i \in 1..(Len(Line) - 1) : Available[i] # "lf"
        /\ \A i \in 1..Len(Line) : Line[i] = Available[i]
    <3>1. Len(Line) \in 0..Len(Available) /\ Len(Line) > 0
      BY <1>4, <1>6, LineIs
    <3>2. Len(Line) \in 1..Len(Available)
      BY <1>3, <3>1
    <3> QED  BY <1>4, <1>6, <3>2, LineIs
  <2>2. PICK k \in Nat : k = Len(Line)
    BY <1>3, <2>1
  <2>3. k # 1 /\ k # 2
    <3>1. ASSUME k = 1 PROVE FALSE
      <4>1. Available[1] = b[p + 1]
        BY <1>3, <1>5, <2>1, <2>2, <3>1
      <4> QED  BY <1>2, <2>1, <2>2, <3>1, <4>1, DigitType
    <3>2. ASSUME k = 2 PROVE FALSE
      <4>1. 2 \in 1..Len(Available)
        BY <2>1, <2>2, <3>2
      <4>2. Available[2] = b[p + 2]
        BY <1>3, <1>5, <4>1
      <4> QED  BY <1>2, <2>1, <2>2, <3>2, <4>2
    <3> QED  BY <3>1, <3>2
  <2>4. /\ k >= 3 /\ 1 \in 1..Len(Available) /\ 2 \in 1..Len(Available)
        /\ 3 \in 1..Len(Available)
    BY <1>3, <2>1, <2>2, <2>3
  <2>5. Available[1] = b[p + 1] /\ Available[2] = "cr" /\ Available[3] = "lf"
    BY <1>2, <1>3, <1>5, <2>4
  <2>6. k = 3
    <3>1. SUFFICES ASSUME k > 3 PROVE FALSE
      BY <2>4
    <3>2. 3 \in 1..(k - 1)
      BY <3>1
    <3> QED  BY <2>1, <2>2, <2>5, <3>2
  <2>7. Line[1] = b[p + 1] /\ Line[2] = "cr" /\ Line[3] = "lf"
    BY <2>1, <2>2, <2>5, <2>6
  <2>8. IsSize(Line)
    BY <1>2, <2>2, <2>6, <2>7 DEF IsSize
  <2>9. IF Digit[Line[1]] = 0 THEN Trailers(b, p + 3)
                              ELSE p + 3 + ChunkLength(Line) \in Sizes(b)
    <3>1. Digit["0"] = 0 /\ \A d \in DOMAIN Digit : Digit[d] = 0 => d = "0"
      BY DEF Digit
    <3>2. CASE b[p + 1] = "0"
      BY <1>2, <2>7, <3>1, <3>2
    <3>3. CASE b[p + 1] # "0"
      <4>1. Digit[Line[1]] # 0
        BY <1>2, <2>7, <3>1, <3>3
      <4>2. Digit[Line[1]] \in Nat
        BY <1>2, <2>7, DigitType
      <4>3. p + 3 + ChunkLength(Line) = p + 3 + Digit[Line[1]] + 2
        BY <1>3, <4>2 DEF ChunkLength
      <4> QED  BY <1>2, <2>7, <3>3, <4>1, <4>3
    <3> QED  BY <3>2, <3>3
  <2> QED  BY <1>0, <1>1, <1>2, <1>6, <2>8, <2>9
<1>7. CASE ~Contains(Available, "lf")
  <2>1. ~IsSize(Line)
    <3>1. Line = Available /\ \A i \in 1..Len(Available) : Available[i] # "lf"
      BY <1>4, <1>7, LineIs
    <3>2. Len(Available) = 3 => 3 \in 1..Len(Available)
      BY <1>3
    <3> QED  BY <3>1, <3>2 DEF IsSize
  <2> QED  BY <1>0, <1>1, <1>2, <1>7, <2>1
<1> QED  BY <1>6, <1>7

\* A trailer ends before the body does, or at its end: with the empty line.
LEMMA TrailerLine ==
  ASSUME TypeOK, BodyIntact, Trailers(msg.body, Len(out)), Contains(Available, "lf")
  PROVE  /\ Line = <<"cr", "lf">> => Len(out) + 2 = Len(msg.body)
         /\ Line # <<"cr", "lf">> => Line # <<>> /\ Trailers(msg.body, Len(out) + Len(Line))
<1>0. PICK p, b : p = Len(out) /\ b = msg.body
  OBVIOUS
<1>1. /\ p \in Nat /\ Len(Available) \in Nat /\ Len(b) \in Nat
      /\ \A i \in 1..Len(Available) : p + i <= Len(b) => Available[i] = b[p + i]
  BY <1>0, Reading
<1>2. /\ p < Len(b) /\ b[p] = "lf"
      /\ \A q \in (p + 1)..Len(b) :
           b[q] = "lf" /\ b[q - 1] = "cr" /\ b[q - 2] = "lf" <=> q = Len(b)
  BY <1>0 DEF Trailers
<1>3. Buffers
  BY MessageType
<1>4. /\ Line \in Seq(Tokens) /\ Len(Line) \in 1..Len(Available) /\ Available[Len(Line)] = "lf"
      /\ \A i \in 1..(Len(Line) - 1) : Available[i] # "lf"
      /\ \A i \in 1..Len(Line) : Line[i] = Available[i]
  <2>1. Len(Line) \in 0..Len(Available) /\ Len(Line) > 0
    BY <1>3, LineIs
  <2>2. Len(Line) \in 1..Len(Available)
    BY <1>1, <2>1
  <2> QED  BY <1>3, <2>2, LineIs
<1>5. PICK k \in Nat : k = Len(Line)
  BY <1>1, <1>4
<1>6. k \in 1..Len(Available) /\ k >= 1
  BY <1>1, <1>4, <1>5
<1>7. b[Len(b)] = "lf" /\ b[Len(b) - 1] = "cr" /\ b[Len(b) - 2] = "lf"
  <2>1. Len(b) \in (p + 1)..Len(b)
    BY <1>1, <1>2
  <2> QED  BY <1>2, <2>1
<1>8. p + k <= Len(b)
  <2>1. SUFFICES ASSUME p + k > Len(b) PROVE FALSE
    BY <1>1
  <2>2. PICK i \in Nat : i = Len(b) - p
    <3>1. Len(b) - p \in Nat
      BY <1>1, <1>2
    <3> QED  BY <3>1
  <2>3. i \in 1..(k - 1) /\ i \in 1..Len(Available) /\ p + i = Len(b) /\ p + i <= Len(b)
    BY <1>1, <1>2, <1>6, <2>1, <2>2
  <2>4. Available[i] = "lf"
    BY <1>1, <1>7, <2>3
  <2> QED  BY <1>4, <1>5, <2>3, <2>4
<1>9. b[p + k] = "lf"
  BY <1>1, <1>4, <1>5, <1>6, <1>8
<1>10. Line = <<"cr", "lf">> => p + 2 = Len(b)
  <2>1. SUFFICES ASSUME Line = <<"cr", "lf">> PROVE p + 2 = Len(b)
    OBVIOUS
  <2>2. k = 2 /\ Line[1] = "cr"
    BY <1>5, <2>1
  <2>3. PICK q \in Nat : q = p + 2
    BY <1>1
  <2>4. q \in (p + 1)..Len(b) /\ q - 1 = p + 1 /\ q - 2 = p /\ p + 1 <= Len(b)
    BY <1>1, <1>8, <2>2, <2>3
  <2>5. b[p + 1] = "cr"
    <3>1. 1 \in 1..Len(Available) /\ 1 \in 1..Len(Line)
      BY <1>1, <1>5, <1>6, <2>2
    <3> QED  BY <1>1, <1>4, <2>2, <2>4, <3>1
  <2>6. b[q] = "lf" /\ b[q - 1] = "cr" /\ b[q - 2] = "lf"
    BY <1>2, <1>9, <2>2, <2>3, <2>4, <2>5
  <2>7. q = Len(b)
    BY <1>2, <2>4, <2>6
  <2> QED  BY <2>3, <2>7
\* An empty line before the end is what Line is, or would be in the middle of it.
<1>11. Line # <<"cr", "lf">> => Line # <<>> /\ Trailers(b, p + k)
  <2>1. SUFFICES ASSUME Line # <<"cr", "lf">> PROVE Line # <<>> /\ Trailers(b, p + k)
    OBVIOUS
  <2>2. Line # <<>>
    BY <1>5, <1>6, EmptySeq
  <2>3. p + k # Len(b)
    <3>1. SUFFICES ASSUME p + k = Len(b) PROVE FALSE
      OBVIOUS
    <3>2. b[p + k] = "lf" /\ b[p + k - 1] = "cr" /\ b[p + k - 2] = "lf"
      BY <1>1, <1>7, <3>1
    <3>3. k # 1
      <4>1. SUFFICES ASSUME k = 1 PROVE FALSE
        OBVIOUS
      <4>2. p + k - 1 = p
        BY <1>1, <4>1
      <4> QED  BY <1>2, <3>2, <4>2
    <3>4. k = 2
      <4>1. SUFFICES ASSUME k > 2 PROVE FALSE
        BY <1>6, <3>3
      <4>2. k - 2 \in 1..(k - 1) /\ k - 2 \in 1..Len(Available)
            /\ p + (k - 2) = p + k - 2 /\ p + (k - 2) <= Len(b)
        BY <1>1, <1>6, <1>8, <4>1
      <4>3. Available[k - 2] = b[p + k - 2]
        BY <1>1, <4>2
      <4> QED  BY <1>4, <1>5, <3>2, <4>2, <4>3
    <3>5. Line[1] = "cr" /\ Line[2] = "lf" /\ Len(Line) = 2
      <4>1. 1 \in 1..Len(Available) /\ 1 \in 1..Len(Line) /\ 2 \in 1..Len(Line)
            /\ p + 1 = p + k - 1 /\ p + 1 <= Len(b)
        BY <1>1, <1>5, <1>6, <1>8, <3>4
      <4>2. Available[1] = "cr"
        BY <1>1, <3>2, <4>1
      <4> QED  BY <1>4, <1>5, <3>4, <4>1, <4>2
    <3>6. /\ <<"cr", "lf">> \in Seq(Tokens) /\ Len(<<"cr", "lf">>) = 2
          /\ <<"cr", "lf">>[1] = "cr" /\ <<"cr", "lf">>[2] = "lf"
      BY DEF Tokens
    <3>7. \A i \in 1..2 : Line[i] = <<"cr", "lf">>[i]
      BY <3>5, <3>6
    <3>8. Line = <<"cr", "lf">>
      BY <1>4, <3>5, <3>6, <3>7, SeqEqual
    <3> QED  BY <2>1, <3>8
  <2>4. p + k < Len(b)
    BY <1>1, <1>8, <2>3
  <2>5. \A q \in (p + k + 1)..Len(b) : q \in (p + 1)..Len(b)
    BY <1>1, <1>6
  <2> QED  BY <1>2, <1>9, <2>2, <2>4, <2>5 DEF Trailers
<1> QED  BY <1>0, <1>5, <1>10, <1>11

EndInv == TypeOK /\ Intact /\ Standing /\ Place

LEMMA EndInit == Init => Standing /\ Place
<1> SUFFICES ASSUME Init PROVE Standing /\ Place
  OBVIOUS
<1>1. Ends(<<>>) = {}
  <2>1. Len(<<>>) = 0
    OBVIOUS
  <2> QED  BY <2>1 DEF Ends
<1> QED  BY <1>1 DEF Init, Standing, Place

\* Where the body begins, every framing is in its place.
LEMMA BodyBegins ==
  ASSUME EndInv, ReadHead, phase' # "head", phase' # "gone", TypeOK', Intact'
  PROVE  (Standing /\ Place)'
<1>1. /\ phase = "head" /\ phase' = Streaming
      /\ left' = IF msg.framing = "length" THEN Len(msg.body) ELSE 0
      /\ msg' = msg /\ out' = out /\ out = <<>> /\ eof' = eof /\ coming' = coming
  BY DEF ReadHead, input, EndInv, Intact, HeadIntact
<1>2. Len(out') = 0 /\ Len(msg.body) \in Nat
  BY <1>1, EmptySeq, LenProperties, MessageType DEF EndInv
<1>3. TypeOK /\ msg.framing \in {"none", "length", "chunked"}
  BY MessageType DEF EndInv
<1>4. CASE msg.framing = "length"
  <2>1. phase' = IF msg.body = <<>> THEN "done" ELSE "identity"
    BY <1>1, <1>4 DEF Streaming, ToEof
  <2>2. msg.body # <<>> => Len(msg.body) > 0
    BY <1>2, <1>3, MessageType, NonEmpty
  <2>3. ~ToEof'
    BY <1>1, <1>4 DEF ToEof
  <2>4. Standing'
    BY <1>1, <1>2, <1>4, <2>1, <2>2 DEF Standing
  <2>5. Place'
    BY <1>1, <2>1, <2>3 DEF Place
  <2> QED  BY <2>4, <2>5
<1>5. CASE msg.framing = "chunked"
  <2>1. phase' = "size"
    BY <1>1, <1>5 DEF Streaming, ToEof
  <2>2. msg.valid => 0 \in Sizes(msg.body)
    BY <1>3, <1>5, SizesAre DEF Layout
  <2> QED  BY <1>1, <1>2, <1>5, <2>1, <2>2 DEF Standing, Place
<1>6. CASE msg.framing = "none"
  <2>1. phase' = IF ToEof THEN "rest" ELSE "done"
    BY <1>1, <1>6 DEF Streaming
  <2>2. ToEof' = ToEof
    BY <1>1 DEF ToEof
  <2>3. msg.valid /\ ~ToEof => msg.body = <<>>
    BY <1>3, <1>6, MessageType DEF WellFormed, ToEof
  <2> QED  BY <1>1, <2>1, <2>2, <2>3 DEF Standing, Place
<1> QED  BY <1>3, <1>4, <1>5, <1>6

\* A turn of the loop over what is left of the body or of the chunk.
LEMMA CopyEnds ==
  ASSUME EndInv, NEW after \in {"done", "size"}, Copy(after), TypeOK',
         phase = IF after = "done" THEN "identity" ELSE "chunk"
  PROVE  /\ UNCHANGED <<msg, eof, coming>> /\ ToEof' = ToEof
         /\ phase' \in {"error", after, phase}
         /\ phase' = "error" => eof
         /\ phase' = after => Len(out') = Len(out) + left
         /\ phase' = phase => left' > 0 /\ Len(out') + left' = Len(out) + left
<1> DEFINE piece == Piece(Want(left))
<1>1. /\ TypeOK /\ Buffers /\ ChunkSize \in Nat \ {0} /\ left \in Nat /\ left > 0
      /\ Len(out) \in Nat
  BY MessageType, LenProperties DEF EndInv, Standing, Buffers
<1>2. Want(left) \in Nat \ {0} /\ Want(left) <= left
  BY <1>1 DEF Want, Least
<1>3. /\ CanRead(Want(left)) /\ Take(Len(piece), <<>>) /\ out' = out \o piece
      /\ left' = left - Len(piece) /\ msg' = msg /\ eof' = eof /\ coming' = coming
      /\ phase' = CASE piece = <<>> -> "error"
                    [] piece # <<>> /\ Len(piece) = left -> after
                    [] OTHER -> phase
  BY DEF Copy, input
<1>4. PICK n \in Nat \ {0} : n = Want(left)
  BY <1>2
<1>5. /\ Len(piece) \in 0..Len(Available) /\ Len(piece) <= n
      /\ piece = First(Available, Len(piece))
      /\ piece \in Seq(Tokens)
  BY <1>1, <1>4, PieceIs
<1>6. PICK k \in Nat : k = Len(piece)
  BY <1>5, LenProperties
<1>7. k <= left
  BY <1>1, <1>2, <1>4, <1>5, <1>6
<1>8. Len(out') = Len(out) + k
  <2>1. k \in 0..Len(Available) /\ Take(k, <<>>) /\ out' = out \o First(Available, k)
    BY <1>3, <1>5, <1>6
  <2> QED  BY <1>1, <1>3, <2>1, CopyMoves
<1>9. piece = <<>> => eof
  BY <1>1, <1>3, <1>4, NothingLeft
<1>10. ToEof' = ToEof
  BY <1>3 DEF ToEof
<1>11. phase # "error" /\ phase # after
  OBVIOUS
<1> HIDE DEF piece
<1>12. left' = left - k
  BY <1>3, <1>6
<1>13. CASE piece = <<>>
  <2>1. phase' = "error"
    BY <1>3, <1>13
  <2> QED  BY <1>3, <1>9, <1>10, <1>11, <1>13, <2>1
<1>14. CASE piece # <<>> /\ k = left
  <2>1. phase' = after
    BY <1>3, <1>6, <1>14
  <2> QED  BY <1>3, <1>8, <1>10, <1>11, <1>14, <2>1
<1>15. CASE piece # <<>> /\ k # left
  <2>1. phase' = phase
    BY <1>3, <1>6, <1>15
  <2>2. left' > 0 /\ Len(out') + left' = Len(out) + left
    BY <1>1, <1>7, <1>8, <1>12, <1>15
  <2> QED  BY <1>3, <1>10, <1>11, <2>1, <2>2
<1> QED  BY <1>13, <1>14, <1>15

LEMMA EndStep ==
  EndInv /\ [Next]_vars /\ TypeOK' /\ Intact' => (Standing /\ Place)'
<1> SUFFICES ASSUME EndInv, [Next]_vars, TypeOK', Intact' PROVE (Standing /\ Place)'
  OBVIOUS
<1>0. /\ TypeOK /\ Intact /\ Standing /\ Place /\ Buffers /\ ChunkSize \in Nat \ {0}
      /\ Len(out) \in Nat /\ left \in Nat
  BY MessageType, LenProperties DEF EndInv, Buffers
<1>1. CASE Arrive
  <2>1. /\ ~eof /\ UNCHANGED <<msg, eof, buffer, phase, left, out>>
    BY <1>1 DEF Arrive
  <2>2. ToEof' = ToEof
    BY <2>1 DEF ToEof
  <2>3. Standing'
    BY <1>0, <2>1, <2>2 DEF Standing
  <2>4. Place'
    BY <1>0, <2>1, <2>2 DEF Place
  <2> QED  BY <2>3, <2>4
<1>2. CASE PeerCloses
  <2>1. /\ eof' /\ UNCHANGED <<msg, coming, socket, back, buffer, phase, left, out>>
    BY <1>2 DEF PeerCloses
  <2>2. ToEof' = ToEof /\ Available' = Available
    BY <2>1 DEF ToEof, Available
  <2>3. Standing'
    BY <1>0, <2>1, <2>2 DEF Standing
  <2>4. Place'
    BY <1>0, <2>1, <2>2 DEF Place
  <2> QED  BY <2>3, <2>4
<1>3. CASE Break
  BY <1>3 DEF Break, Standing, Place
<1>4. CASE ReadHead
  <2>1. CASE phase' = "gone"
    BY <2>1 DEF Standing, Place
  <2>2. CASE phase' = "head"
    <3>1. Streaming # "head" /\ phase = "head"
      BY <1>0, <1>4, MessageType DEF Streaming, ReadHead, ToEof
    <3>2. Ends(buffer') = {}
      BY <1>4, <2>2, <3>1 DEF ReadHead
    <3> QED  BY <2>2, <3>2 DEF Standing, Place
  <2> QED  BY <1>4, <2>1, <2>2, BodyBegins
<1>5. CASE CopyIdentity
  <2>1. /\ phase = "identity" /\ Copy("done") /\ msg.framing = "length"
        /\ Len(out) + left = Len(msg.body)
    BY <1>0, <1>5 DEF CopyIdentity, Standing
  <2>2. /\ UNCHANGED <<msg, eof, coming>> /\ ToEof' = ToEof
        /\ phase' \in {"error", "done", "identity"}
        /\ phase' = "error" => eof
        /\ phase' = "done" => Len(out') = Len(out) + left
        /\ phase' = "identity" => left' > 0 /\ Len(out') + left' = Len(out) + left
    BY <2>1, CopyEnds
  <2>3. CASE phase' = "done"
    <3>1. Len(out') = Len(msg'.body) /\ BodyIntact'
      BY <2>1, <2>2, <2>3 DEF Intact
    <3>2. out' = msg'.body
      BY <3>1, BodyOut
    <3>3. ~ToEof'
      BY <2>1, <2>2 DEF ToEof
    <3> QED  BY <2>3, <3>2, <3>3 DEF Standing, Place
  <2>4. CASE phase' = "error"
    BY <2>2, <2>4 DEF Standing, Place
  <2>5. CASE phase' = "identity"
    BY <2>1, <2>2, <2>5 DEF Standing, Place
  <2> QED  BY <2>2, <2>3, <2>4, <2>5
<1>6. CASE CopyChunk
  <2>1. /\ phase = "chunk" /\ Copy("size") /\ msg.framing = "chunked"
        /\ msg.valid => Len(out) + left \in Sizes(msg.body)
    BY <1>0, <1>6 DEF CopyChunk, Standing, Place
  <2>2. /\ UNCHANGED <<msg, eof, coming>> /\ ToEof' = ToEof
        /\ phase' \in {"error", "size", "chunk"}
        /\ phase' = "error" => eof
        /\ phase' = "size" => Len(out') = Len(out) + left
        /\ phase' = "chunk" => left' > 0 /\ Len(out') + left' = Len(out) + left
    BY <2>1, CopyEnds
  <2>3. Standing'
    BY <2>1, <2>2 DEF Standing
  <2>4. Place'
    BY <2>1, <2>2 DEF Place
  <2> QED  BY <2>3, <2>4
<1>7. CASE ReadSize
  <2>1. /\ phase = "size" /\ CanReadLine /\ BodyIntact /\ msg.framing = "chunked"
        /\ msg' = msg /\ eof' = eof /\ coming' = coming /\ Take(Len(Line), <<>>)
    BY <1>0, <1>7 DEF ReadSize, input, Intact, Standing
  <2>2. CASE ~IsSize(Line)
    <3>1. phase' = "error"
      BY <1>7, <2>2 DEF ReadSize
    <3>2. eof \/ ~msg.valid
      BY <1>0, <2>1, <2>2, SizeLine DEF CanReadLine
    <3> QED  BY <2>1, <3>1, <3>2 DEF Standing, Place
  <2>3. CASE IsSize(Line)
    <3>1. /\ out' = out \o Line
          /\ IF Digit[Line[1]] = 0
             THEN phase' = "trailer"
             ELSE phase' = "chunk" /\ left' = ChunkLength(Line)
      BY <1>7, <2>3 DEF ReadSize
    <3>2. Len(out') = Len(out) + 3
      <4>1. /\ Len(Line) \in 0..Len(Available) /\ Line = First(Available, Len(Line))
            /\ Len(Line) = 3
        BY <1>0, <2>3, LineIs DEF IsSize
      <4> QED  BY <1>0, <2>1, <3>1, <4>1, CopyMoves
    <3>3. Digit[Line[1]] # 0 => left' > 0
      <4>1. Digit[Line[1]] \in Nat
        BY <2>3, DigitType DEF IsSize
      <4> QED  BY <3>1, <4>1 DEF ChunkLength
    <3>4. msg.valid =>
            IF Digit[Line[1]] = 0
            THEN Trailers(msg.body, Len(out) + 3)
            ELSE Len(out) + 3 + ChunkLength(Line) \in Sizes(msg.body)
      BY <1>0, <2>1, <2>3, SizeLine
    <3>5. CASE Digit[Line[1]] = 0
      BY <2>1, <3>1, <3>2, <3>4, <3>5 DEF Standing, Place
    <3>6. CASE Digit[Line[1]] # 0
      BY <2>1, <3>1, <3>2, <3>3, <3>4, <3>6 DEF Standing, Place
    <3> QED  BY <3>5, <3>6
  <2> QED  BY <2>2, <2>3
<1>8. CASE CopyTrailer
  <2>1. /\ phase = "trailer" /\ CanReadLine /\ BodyIntact /\ msg.framing = "chunked"
        /\ msg' = msg /\ eof' = eof /\ coming' = coming /\ Take(Len(Line), <<>>)
        /\ out' = out \o Line /\ phase' = AfterTrailer
    BY <1>0, <1>8 DEF CopyTrailer, input, Intact, Standing
  <2>2. ~ToEof /\ ~ToEof'
    BY <2>1 DEF ToEof
  <2>3. Standing'
    BY <2>1 DEF Standing, AfterTrailer
  <2>4. SUFFICES ASSUME msg.valid, phase' \in {"trailer", "done"} PROVE Place'
    BY <2>1, <2>3 DEF Place, AfterTrailer
  <2>5. /\ Len(Line) \in 0..Len(Available) /\ Line = First(Available, Len(Line))
        /\ Len(out') = Len(out) + Len(Line)
        /\ First(Available, Len(Line)) \o (back' \o socket') = Available
        /\ back' \in Seq(Tokens) /\ socket' \in Seq(Tokens)
    <3>1. Len(Line) \in 0..Len(Available) /\ Line = First(Available, Len(Line))
      BY <1>0, LineIs
    <3> QED  BY <1>0, <2>1, <3>1, CopyMoves, TakeCuts
  <2>6. Trailers(msg.body, Len(out)) \/ (eof /\ Available = <<>>)
    BY <1>0, <2>1, <2>4 DEF Place
  <2>7. CASE Trailers(msg.body, Len(out)) /\ Contains(Available, "lf")
    <3>1. CASE Line = <<"cr", "lf">>
      <4>1. Len(Line) = 2 /\ Len(out') = Len(msg.body)
        BY <1>0, <2>1, <2>5, <2>7, <3>1, TrailerLine
      <4>2. phase' = "done"
        BY <2>1, <3>1 DEF AfterTrailer
      <4>3. out' = msg'.body
        <5>1. Len(out') = Len(msg'.body) /\ BodyIntact'
          BY <2>1, <4>1, <4>2 DEF Intact
        <5> QED  BY <5>1, BodyOut
      <4> QED  BY <2>1, <2>2, <4>2, <4>3 DEF Place
    <3>2. CASE Line # <<"cr", "lf">>
      <4>1. Line # <<>> /\ Trailers(msg.body, Len(out'))
        BY <1>0, <2>1, <2>5, <2>7, <3>2, TrailerLine
      <4>2. phase' = "trailer"
        BY <2>1, <3>2, <4>1 DEF AfterTrailer
      <4> QED  BY <2>1, <4>1, <4>2 DEF Place
    <3> QED  BY <3>1, <3>2
  <2>8. CASE ~Contains(Available, "lf")
    <3>1. eof /\ Line = Available
      BY <1>0, <2>1, <2>8, LineIs DEF CanReadLine
    <3>2. Line # <<"cr", "lf">>
      <4>1. SUFFICES ASSUME Available = <<"cr", "lf">> PROVE FALSE
        BY <3>1
      <4>2. Len(Available) = 2 /\ Available[2] = "lf"
        BY <4>1
      <4> QED  BY <2>8, <4>2 DEF Contains
    <3>3. phase' = "trailer"
      BY <2>1, <2>4, <3>2 DEF AfterTrailer
    <3>4. Available' = <<>>
      <4>1. PICK a, t : a = Available /\ t = back' \o socket'
        OBVIOUS
      <4>2. a \in Seq(Tokens) /\ t \in Seq(Tokens) /\ a \o t = a
        <5>1. PICK ba, so : ba = back' /\ so = socket'
          OBVIOUS
        <5>2. ba \in Seq(Tokens) /\ so \in Seq(Tokens)
          BY <2>5, <5>1
        <5>3. ba \o so \in Seq(Tokens)
          BY <5>2, Concat
        <5> QED  BY <1>0, <2>5, <3>1, <4>1, <5>1, <5>3, AvailableType
      <4>3. t = <<>>
        BY <4>2, ConcatSimplifications
      <4> QED  BY <4>1, <4>3 DEF Available
    <3> QED  BY <2>1, <3>1, <3>3, <3>4 DEF Place
  <2>9. ~Contains(<<>>, "lf")
    BY DEF Contains
  <2> QED  BY <2>6, <2>7, <2>8, <2>9
<1>9. CASE CopyRest
  <2>1. /\ phase = "rest" /\ CanRead(ChunkSize) /\ BodyIntact /\ ToEof
        /\ msg' = msg /\ eof' = eof /\ coming' = coming /\ buffer' = buffer
        /\ phase' = IF Piece(ChunkSize) = <<>> THEN "done" ELSE "rest"
        /\ Take(Len(Piece(ChunkSize)), <<>>) /\ out' = out \o Piece(ChunkSize)
    BY <1>0, <1>9 DEF CopyRest, input, Intact, Standing
  <2>2. ToEof'
    BY <2>1 DEF ToEof
  <2>3. Standing'
    BY <2>1, <2>2 DEF Standing
  <2>4. CASE Piece(ChunkSize) # <<>>
    <3>1. phase' = "rest"
      BY <2>1, <2>4
    <3> QED  BY <2>3, <3>1 DEF Place
  <2>5. CASE ~msg.valid
    BY <2>1, <2>3, <2>5 DEF Place
  <2>6. CASE msg.valid /\ Piece(ChunkSize) = <<>>
    <3>1. eof /\ Available = <<>>
      BY <1>0, <2>1, <2>6, NothingLeft
    <3>2. msg.follow = <<>>
      BY <1>0, <2>1, <2>6, MessageType DEF WellFormed, ToEof
    <3>3. out' \o coming' = msg'.body
      <4>1. PICK o, c, b : o = out /\ c = coming /\ b = msg.body
        OBVIOUS
      <4>2. o \in Seq(Tokens) /\ c \in Seq(Tokens) /\ b \in Seq(Tokens)
        BY <1>0, <4>1, MessageType DEF Buffers
      <4>3. o \o (<<>> \o (<<>> \o c)) = b \o <<>>
        BY <1>0, <2>1, <3>1, <3>2, <4>1, AvailableType DEF BodyIntact
      <4>4. <<>> \o c = c /\ b \o <<>> = b /\ o \o <<>> = o
        BY <4>2, ConcatEmptySeq
      <4> QED  BY <2>1, <2>6, <4>1, <4>3, <4>4
    <3>4. phase' = "done"
      BY <2>1, <2>6
    <3> QED  BY <2>1, <2>2, <2>3, <3>1, <3>3, <3>4 DEF Place
  <2> QED  BY <2>4, <2>5, <2>6
<1>10. CASE UNCHANGED vars
  <2>1. /\ UNCHANGED <<msg, coming, eof, socket, back, buffer, phase, left, out>>
    BY <1>10 DEF vars, input
  <2>2. ToEof' = ToEof /\ Available' = Available
    BY <2>1 DEF ToEof, Available
  <2>3. Standing'
    BY <1>0, <2>1, <2>2 DEF Standing
  <2>4. Place'
    BY <1>0, <2>1, <2>2 DEF Place
  <2> QED  BY <2>3, <2>4
<1> QED
  BY <1>1, <1>2, <1>3, <1>4, <1>5, <1>6, <1>7, <1>8, <1>9, <1>10 DEF Next, Step

LEMMA EndIsRight == EndInv => VerdictIsRight
<1> SUFFICES ASSUME EndInv PROVE VerdictIsRight
  OBVIOUS
<1>1. phase = "error" => eof \/ ~msg.valid
  BY DEF EndInv, Standing
<1>2. phase = "done" /\ msg.valid =>
        IF ToEof THEN eof /\ out \o coming = msg.body ELSE out = msg.body
  BY DEF EndInv, Place
<1> QED  BY <1>1, <1>2 DEF VerdictIsRight

\* Whatever a read waits for belongs to the message.
LEMMA EndNeedsIt == EndInv => NoNeedlessWait
<1> SUFFICES ASSUME EndInv, Waiting, msg.valid, ~ToEof
             PROVE  Len(coming) > Len(msg.follow)
  BY DEF NoNeedlessWait
<1>0. TypeOK /\ Intact /\ Standing /\ Place /\ Buffers /\ ChunkSize \in Nat \ {0} /\ left \in Nat
  BY MessageType DEF EndInv
<1>1. CASE phase = "head" /\ ~CanRead(ChunkSize)
  <2>1. HeadIntact /\ Ends(buffer) = {} /\ socket = <<>>
    BY <1>0, <1>1 DEF Intact, Standing, CanRead
  <2>2. PICK g, c, t, d, f :
          /\ g = buffer /\ c = coming /\ t = HeadText /\ d = msg.body \o msg.follow
          /\ f = msg.follow
    OBVIOUS
  <2>3. g \in Seq(Tokens) /\ c \in Seq(Tokens) /\ t \in Seq(Tokens) /\ d \in Seq(Tokens)
        /\ Len(t) = 5
    BY <1>0, <2>2, TextType DEF Buffers, TypeOK
  <2>4. g \o c = t \o d
    <3>1. <<>> \o c = c
      BY <2>3, ConcatEmptySeq
    <3> QED  BY <1>0, <2>1, <2>2, <3>1, TextType DEF HeadIntact, TypeOK
  <2>5. Len(g) + Len(c) = 5 + Len(d) /\ Len(g) \in Nat /\ Len(c) \in Nat /\ Len(d) \in Nat
    <3>1. Len(g \o c) = Len(g) + Len(c) /\ Len(g) \in Nat /\ Len(c) \in Nat
      <4>1. g \in Seq(Tokens) /\ c \in Seq(Tokens)
        BY <2>3
      <4> QED  BY <4>1, Concat
    <3>2. Len(t \o d) = Len(t) + Len(d) /\ Len(d) \in Nat
      <4>1. t \in Seq(Tokens) /\ d \in Seq(Tokens)
        BY <2>3
      <4> QED  BY <4>1, Concat
    <3> QED  BY <2>3, <2>4, <3>1, <3>2
  <2>6. Len(d) >= Len(f) /\ Len(f) \in Nat
    <3>1. PICK b : b = msg.body
      OBVIOUS
    <3>2. b \in Seq(Tokens) /\ f \in Seq(Tokens)
      BY <1>0, <2>2, <3>1, MessageType
    <3>3. Len(b \o f) = Len(b) + Len(f) /\ Len(b) \in Nat /\ Len(f) \in Nat
      BY <3>2, Concat
    <3>4. d = b \o f
      BY <2>2, <3>1
    <3> QED  BY <3>3, <3>4
  <2>7. Len(g) < 5
    <3>1. SUFFICES ASSUME Len(g) >= 5 PROVE FALSE
      BY <2>5
    <3>2. /\ g \in Seq(Tokens) /\ c \in Seq(Tokens) /\ t \in Seq(Tokens) /\ d \in Seq(Tokens)
          /\ Len(g) >= Len(t)
      BY <2>3, <3>1
    <3>3. First(g, Len(t)) = t
      BY <2>4, <3>2, SameParts
    <3>4. First(g, 5) = HeadText
      BY <2>2, <2>3, <3>3
    <3>5. 2 \in Ends(g)
      BY <2>3, <3>1, <3>4, EndOfHead
    <3> QED  BY <2>1, <2>2, <3>5
  <2>8. Len(c) > Len(f)
    BY <2>5, <2>6, <2>7
  <2> QED  BY <2>2, <2>8
\* In the body it is enough that the reading has not come to its end.
<1>2. SUFFICES ASSUME BodyIntact, phase \in {"identity", "chunk", "size", "trailer"},
                      phase \in {"identity", "chunk"} => ~CanRead(Want(left)),
                      phase \in {"size", "trailer"} => ~CanReadLine
               PROVE  Len(out) + Len(Available) < Len(msg.body)
  <2>1. CASE phase = "head"
    BY <1>1, <2>1 DEF Waiting
  <2>2. phase # "rest"
    BY <1>0 DEF Standing
  <2>3. CASE phase # "head"
    <3>1. BodyIntact /\ phase \in {"identity", "chunk", "size", "trailer"}
      BY <1>0, <2>2, <2>3 DEF Waiting, Intact
    <3>2. Len(out) + Len(Available) < Len(msg.body)
      BY <1>2, <3>1 DEF Waiting
    <3>3. /\ Len(out) \in Nat /\ Len(Available) \in Nat /\ Len(coming) \in Nat
          /\ Len(msg.body) \in Nat /\ Len(msg.follow) \in Nat
          /\ Len(out) + Len(Available) + Len(coming) = Len(msg.body) + Len(msg.follow)
      BY <1>0, <3>1, Reading
    <3>4. PICK o, a, c, b, f : o = Len(out) /\ a = Len(Available) /\ c = Len(coming)
                               /\ b = Len(msg.body) /\ f = Len(msg.follow)
      OBVIOUS
    <3>5. /\ o \in Nat /\ a \in Nat /\ c \in Nat /\ b \in Nat /\ f \in Nat
          /\ o + a + c = b + f /\ o + a < b
      BY <3>2, <3>3, <3>4
    <3>6. c > f
      BY <3>5
    <3> QED  BY <3>4, <3>6
  <2> QED  BY <2>1, <2>3
<1>3. /\ Len(out) \in Nat /\ Len(Available) \in Nat /\ Len(msg.body) \in Nat
      /\ \A i \in 1..Len(Available) :
           Len(out) + i <= Len(msg.body) => Available[i] = msg.body[Len(out) + i]
  BY <1>0, <1>2, Reading
<1>4. CASE phase \in {"identity", "chunk"}
  <2>1. Len(Available) < left
    <3>1. Want(left) \in Nat /\ Want(left) <= left
      BY <1>0 DEF Want, Least
    <3>2. socket = <<>> /\ ~(Len(back) >= Want(left))
      BY <1>2, <1>4 DEF CanRead
    <3>3. Len(socket) = 0 /\ Len(back) \in Nat /\ Len(Available) = Len(back) + Len(socket)
      BY <1>0, <3>2, AvailableType, EmptySeq, LenProperties DEF Buffers
    <3> QED  BY <1>0, <3>1, <3>2, <3>3
  <2>2. Len(out) + left <= Len(msg.body)
    <3>1. CASE phase = "identity"
      BY <1>0, <1>3, <3>1 DEF Standing
    <3>2. CASE phase = "chunk"
      <4>1. Len(out) + left \in Sizes(msg.body) /\ msg.framing = "chunked"
        BY <1>0, <3>2 DEF Standing, Place
      <4>2. Len(out) + left \in 0..Len(msg.body)
        BY <1>0, <4>1, SizesAre
      <4> QED  BY <1>3, <4>2
    <3> QED  BY <1>4, <3>1, <3>2
  <2> QED  BY <1>0, <1>3, <2>1, <2>2
<1>5. CASE phase \in {"size", "trailer"}
  <2>1. ~eof /\ \A i \in 1..Len(Available) : Available[i] # "lf"
    BY <1>2, <1>5 DEF CanReadLine, Contains
  <2>2. PICK q \in Nat : Len(out) < q /\ q <= Len(msg.body) /\ msg.body[q] = "lf"
    <3>1. CASE phase = "size"
      <4>1. Len(out) + 3 <= Len(msg.body) /\ msg.body[Len(out) + 3] = "lf"
        BY <1>0, <1>2, <3>1, SizeLine
      <4>2. Len(out) + 3 \in Nat /\ Len(out) < Len(out) + 3
        BY <1>3
      <4> QED  BY <4>1, <4>2
    <3>2. CASE phase = "trailer"
      <4>1. Trailers(msg.body, Len(out))
        BY <1>0, <2>1, <3>2 DEF Place
      <4>2. Len(out) < Len(msg.body) /\ Len(msg.body) \in (Len(out) + 1)..Len(msg.body)
        BY <1>3, <4>1 DEF Trailers
      <4>3. msg.body[Len(msg.body)] = "lf"
        BY <4>1, <4>2 DEF Trailers
      <4> QED  BY <1>3, <4>2, <4>3
    <3> QED  BY <1>5, <3>1, <3>2
  <2>3. SUFFICES ASSUME Len(out) + Len(Available) >= Len(msg.body) PROVE FALSE
    BY <1>3
  <2>4. PICK i \in Nat : i = q - Len(out)
    <3>1. q - Len(out) \in Nat
      BY <1>3, <2>2
    <3> QED  BY <3>1
  <2>5. i \in 1..Len(Available) /\ Len(out) + i = q /\ Len(out) + i <= Len(msg.body)
    BY <1>3, <2>2, <2>3, <2>4
  <2>6. Available[i] = "lf"
    BY <1>3, <2>2, <2>5
  <2> QED  BY <2>1, <2>5, <2>6
<1> QED  BY <1>2, <1>4, <1>5

LEMMA EndHolds == Spec => []EndInv
<1>1. Init => EndInv
  BY TypeInit, IntactInit, EndInit DEF EndInv
<1>2. EndInv /\ [Next]_vars => EndInv'
  BY TypeStep, IntactStep, EndStep DEF EndInv
<1> QED  BY <1>1, <1>2, PTL DEF Spec

\* A message that is called done is out, all of it and nothing of the next one, and
\* one that is called wrong is wrong or was cut off by the peer.
THEOREM VerdictsAreRight == Spec => []VerdictIsRight
  BY EndHolds, EndIsRight, PTL

\* The streamer waits for nothing but a part of the message it copies.
THEOREM WaitsAreNeeded == Spec => []NoNeedlessWait
  BY EndHolds, EndNeedsIt, PTL

================================================================================
