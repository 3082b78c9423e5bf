----------------------- MODULE JsonlExecutionLog_proofs -----------------------
(***************************************************************************)
(* Theorems about the execution log in a file, for any number of appends,  *)
(* whatever is cut, whatever fails and whatever dies: what an answer of    *)
(* list() or get() holds, and, when every line is one write, that the file *)
(* is as good as the store in memory.                                      *)
(***************************************************************************)
EXTENDS JsonlExecutionLog, Positions_proofs

-----------------------------------------------------------------------------
\* Files

Texts == Seq([of : Appends, part : 1..Pieces])

\* A file is a sequence of pieces.
LEMMA TextFields ==
  ASSUME NEW f \in Texts
  PROVE  /\ Len(f) \in Nat /\ DOMAIN f = 1..Len(f)
         /\ \A i \in DOMAIN f : f[i] \in [of : Appends, part : 1..Pieces]
<1> DEFINE T == [of : Appends, part : 1..Pieces]
<1>1. f \in Seq(T)
  BY DEF Texts
<1> HIDE DEF T
<1>2. Len(f) \in Nat /\ DOMAIN f = 1..Len(f) /\ \A i \in DOMAIN f : f[i] \in T
  BY <1>1
<1> QED
  BY <1>2 DEF T

\* A line that is taken starts with the first piece of its entry, and the second follows.
LEMMA LinesTaken ==
  ASSUME NEW f \in Texts
  PROVE  /\ Taken(f) \subseteq Nat /\ IsFiniteSet(Taken(f))
         /\ \A i \in Taken(f) :
              /\ i \in DOMAIN f /\ i + 1 \in DOMAIN f
              /\ f[i] = Piece(f[i].of, 1) /\ f[i + 1] = Piece(f[i].of, 2)
              /\ f[i].of \in Appends \ NotFinite
<1>1. Len(f) \in Nat /\ DOMAIN f = 1..Len(f)
      /\ \A i \in DOMAIN f : f[i] \in [of : Appends, part : 1..Pieces]
  BY TextFields
<1>2. Taken(f) \subseteq 1..Len(f)
  BY <1>1 DEF Taken, Starts
<1>3. IsFiniteSet(Taken(f))
  <2>1. IsFiniteSet(1..Len(f))
    BY <1>1, FS_Interval
  <2> QED
    BY <1>2, <2>1, FS_Subset
<1>4. ASSUME NEW i \in Taken(f)
      PROVE  /\ i \in DOMAIN f /\ i + 1 \in DOMAIN f
             /\ f[i] = Piece(f[i].of, 1) /\ f[i + 1] = Piece(f[i].of, 2)
             /\ f[i].of \in Appends \ NotFinite
  BY <1>1, <1>2 DEF Taken, Parses, Piece
<1> QED
  BY <1>1, <1>2, <1>3, <1>4

\* The entries of a file are those of the lines taken, in their order.
LEMMA EntriesTaken ==
  ASSUME NEW f \in Texts
  PROVE  /\ Entries(f) \in Seq(Appends \ NotFinite)
         /\ Len(Entries(f)) = Cardinality(Taken(f))
         /\ \A k \in 1..Len(Entries(f)) :
              /\ Nth(Taken(f), k) \in Taken(f) /\ Rank(Taken(f), Nth(Taken(f), k)) = k
              /\ Entries(f)[k] = f[Nth(Taken(f), k)].of
         /\ \A i \in Taken(f) :
              Rank(Taken(f), i) \in 1..Len(Entries(f)) /\ Entries(f)[Rank(Taken(f), i)] = f[i].of
<1> DEFINE S == Taken(f)
<1>1. /\ Cardinality(S) \in Nat
      /\ \A k \in 1..Cardinality(S) : Nth(S, k) \in S /\ Rank(S, Nth(S, k)) = k
      /\ \A i \in S : Rank(S, i) \in 1..Cardinality(S) /\ Nth(S, Rank(S, i)) = i
  BY LinesTaken, NthCounts
<1>2. \A i \in S : f[i].of \in Appends \ NotFinite
  BY LinesTaken
<1> HIDE DEF S
<1>3. Entries(f) = [k \in 1..Cardinality(S) |-> f[Nth(S, k)].of]
  BY DEF Entries, S
<1>4. Entries(f) \in Seq(Appends \ NotFinite) /\ Len(Entries(f)) = Cardinality(S)
  <2>1. \A k \in 1..Cardinality(S) : f[Nth(S, k)].of \in Appends \ NotFinite
    BY <1>1, <1>2
  <2> QED
    BY <1>1, <1>3, <2>1
<1> QED
  BY <1>1, <1>3, <1>4 DEF S

\* In a file that is read without an error a piece is the first or the second of its
\* line or ends it.
LEMMA LinesParse ==
  ASSUME NEW f \in Texts, Readable(f), NEW i \in DOMAIN f
  PROVE  EndsLine(f, i) \/ i \in Starts(f) \/ i - 1 \in Starts(f)
<1> DEFINE Fits(j) == EndsLine(f, j) \/ j \in Starts(f) \/ j - 1 \in Starts(f)
           T == {j \in DOMAIN f : ~Fits(j)}
<1>0. Len(f) \in Nat /\ DOMAIN f = 1..Len(f)
  BY TextFields
<1> SUFFICES ASSUME T # {}
             PROVE  FALSE
  OBVIOUS
<1>1. PICK j \in T : \A k \in T : j <= k
  <2>1. T \subseteq Nat
    BY <1>0
  <2> HIDE DEF T
  <2> QED
    BY <2>1, LeastNumber
<1>2. j \in 1..Len(f) /\ ~EndsLine(f, j) /\ j \notin Starts(f) /\ j - 1 \notin Starts(f)
  BY <1>0, <1>1
<1>3. ~EndsLine(f, j - 1)
  BY <1>0, <1>2 DEF Starts
<1>4. j - 1 \in 1..Len(f)
  BY <1>0, <1>3 DEF EndsLine
<1>5. j - 1 \notin T
  BY <1>1, <1>2, <1>4
<1>6. Fits(j - 1)
  BY <1>0, <1>4, <1>5
<1>7. (j - 1) - 1 \in Starts(f)
  BY <1>2, <1>3, <1>6
<1>8. EndsLine(f, ((j - 1) - 1) + 2) /\ ((j - 1) - 1) + 2 = j
  BY <1>2, <1>7 DEF Readable, Parses
<1> QED
  BY <1>2, <1>8

-----------------------------------------------------------------------------
\* What has been listed

\* A sequence is a prefix of another when it agrees with it as far as it goes.
LEMMA PrefixByPlace ==
  ASSUME NEW A, NEW s \in Seq(A), NEW t \in Seq(A)
  PROVE  IsPrefix(s, t) <=> Len(s) <= Len(t) /\ \A k \in 1..Len(s) : s[k] = t[k]
<1>1. Len(s) \in Nat /\ Len(t) \in Nat
  OBVIOUS
<1>2. SubSeq(s, 1, Len(s)) = [k \in 1..Len(s) |-> s[k]]
  BY <1>1
<1>3. Len(s) <= Len(t) => SubSeq(t, 1, Len(s)) = [k \in 1..Len(s) |-> t[k]]
  BY <1>1
<1> QED
  BY <1>2, <1>3 DEF IsPrefix

\* The first n elements of a sequence are a sequence of them.
LEMMA Truncated ==
  ASSUME NEW A, NEW s \in Seq(A), NEW n \in 0..Len(s)
  PROVE  /\ SubSeq(s, 1, n) \in Seq(A) /\ Len(SubSeq(s, 1, n)) = n
         /\ \A i \in 1..n : SubSeq(s, 1, n)[i] = s[i]
  OBVIOUS

\* When a file that could be read has grown, and can be read, its entries begin with
\* what they were: a line is what it was, or its being none any more is an error.
LEMMA EntriesGrow ==
  ASSUME NEW f \in Texts, NEW n \in 0..Len(f), Readable(f), Readable(SubSeq(f, 1, n))
  PROVE  IsPrefix(Entries(SubSeq(f, 1, n)), Entries(f))
<1> DEFINE g == SubSeq(f, 1, n)
<1>1. /\ g \in Texts /\ Len(g) = n /\ n \in Nat /\ n <= Len(f) /\ Len(f) \in Nat
      /\ \A i \in 1..n : g[i] = f[i]
  <2> HIDE DEF g
  <2>1. Len(f) \in Nat
    BY TextFields
  <2>2. g \in Texts /\ Len(g) = n /\ \A i \in 1..n : g[i] = f[i]
    BY Truncated DEF Texts, g
  <2> QED
    BY <2>1, <2>2
<1>2. DOMAIN f = 1..Len(f) /\ DOMAIN g = 1..n
  BY <1>1, TextFields
<1> HIDE DEF g
<1>3. ASSUME NEW i \in 0..n
      PROVE  i < n \/ i \in DOMAIN g => (EndsLine(g, i) <=> EndsLine(f, i))
  BY <1>1, <1>2 DEF EndsLine
<1>4. ASSUME NEW i \in 1..n
      PROVE  i \in Starts(g) <=> i \in Starts(f)
  <2>1. (EndsLine(g, i - 1) <=> EndsLine(f, i - 1)) /\ (EndsLine(g, i) <=> EndsLine(f, i))
    BY <1>1, <1>2, <1>3
  <2> QED
    BY <1>1, <1>2, <2>1 DEF Starts
<1>5. Taken(g) = {i \in Taken(f) : i <= n}
  <2>1. ASSUME NEW i \in Taken(g)
        PROVE  i \in Taken(f) /\ i <= n
    BY <1>1, <1>2, <1>4 DEF Taken, Starts, Readable
  <2>2. ASSUME NEW i \in Taken(f), i <= n
        PROVE  i \in Taken(g)
    <3>1. i \in 1..n
      BY <1>1, <1>2, <2>2 DEF Taken, Starts
    <3> QED
      BY <1>1, <1>4, <2>2, <3>1 DEF Taken, Readable, g
  <2> QED
    BY <2>1, <2>2
<1>6. ASSUME NEW i \in Taken(g)
      PROVE  Rank(Taken(g), i) = Rank(Taken(f), i)
  <2>1. {j \in Taken(g) : j <= i} = {j \in Taken(f) : j <= i}
    BY <1>1, <1>5, LinesTaken
  <2> QED
    BY <2>1 DEF Rank
<1>7. Entries(g) \in Seq(Appends \ NotFinite) /\ Entries(f) \in Seq(Appends \ NotFinite)
  BY <1>1, EntriesTaken
<1>8. ASSUME NEW k \in 1..Len(Entries(g))
      PROVE  k \in 1..Len(Entries(f)) /\ Entries(g)[k] = Entries(f)[k]
  <2>1. PICK i \in Taken(g) : Rank(Taken(g), i) = k /\ Entries(g)[k] = g[i].of
    BY <1>1, EntriesTaken
  <2>2. i \in Taken(f) /\ Rank(Taken(f), i) = k /\ g[i] = f[i]
    BY <1>1, <1>2, <1>5, <1>6, <2>1, LinesTaken
  <2> QED
    BY <2>1, <2>2, EntriesTaken
<1>9. Len(Entries(g)) <= Len(Entries(f))
  BY <1>7, <1>8
<1> QED
  BY <1>7, <1>8, <1>9, PrefixByPlace DEF g

\* find() finds in a log that has grown what it found before.
LEMMA FirstStays ==
  ASSUME NEW s \in Seq(Appends), NEW t \in Seq(Appends), IsPrefix(s, t), NEW id
  PROVE  /\ First(s, id) \in Seq(Appends) /\ First(t, id) \in Seq(Appends)
         /\ IsPrefix(First(s, id), First(t, id))
<1> DEFINE Of(u) == {k \in DOMAIN u : RunId[u[k]] = id}
<1>1. ASSUME NEW u \in Seq(Appends)
      PROVE  /\ Of(u) \subseteq Nat
             /\ First(u, id) \in Seq(Appends)
             /\ Of(u) = {} => First(u, id) = << >>
             /\ Of(u) # {} => /\ Min(Of(u)) \in Of(u) /\ \A k \in Of(u) : Min(Of(u)) <= k
                              /\ First(u, id) = <<u[Min(Of(u))]>>
  <2>1. Of(u) \subseteq Nat
    OBVIOUS
  <2>2. Of(u) # {} => Min(Of(u)) \in Of(u) /\ \A k \in Of(u) : Min(Of(u)) <= k
    <3> HIDE DEF Of
    <3> QED
      BY <2>1, LeastNumber
  <2>3. First(u, id) = IF Of(u) = {} THEN << >> ELSE <<u[Min(Of(u))]>>
    BY DEF First
  <2>4. Of(u) # {} => u[Min(Of(u))] \in Appends
    BY <2>2
  <2> HIDE DEF Of
  <2>5. First(u, id) \in Seq(Appends)
    BY <2>3, <2>4
  <2> QED
    BY <2>1, <2>2, <2>3, <2>5
<1>2. Len(s) <= Len(t) /\ \A k \in 1..Len(s) : s[k] = t[k]
  BY PrefixByPlace
<1>3. Of(s) = {k \in Of(t) : k <= Len(s)}
  BY <1>2
<1> HIDE DEF Of
<1>4. CASE Of(s) = {}
  <2>1. First(s, id) = << >>
    BY <1>1, <1>4
  <2> QED
    BY <1>1, <2>1, PrefixByPlace
<1>5. CASE Of(s) # {}
  <2>1. Min(Of(s)) \in Of(t) /\ Min(Of(s)) <= Len(s)
    BY <1>1, <1>3, <1>5
  <2>2. Min(Of(t)) \in Of(s) /\ Min(Of(t)) <= Min(Of(s))
    BY <1>1, <1>3, <2>1
  <2>3. Min(Of(t)) = Min(Of(s)) /\ Min(Of(s)) \in 1..Len(s)
    <3>1. Min(Of(s)) \in Nat /\ Min(Of(t)) \in Nat /\ Min(Of(s)) <= Min(Of(t))
      BY <1>1, <1>5, <2>1, <2>2
    <3>2. Min(Of(s)) \in 1..Len(s)
      BY <1>1, <1>5 DEF Of
    <3> QED
      BY <2>2, <3>1, <3>2
  <2>4. First(s, id) = First(t, id)
    BY <1>1, <1>2, <1>5, <2>1, <2>3
  <2> QED
    BY <1>1, <2>4, PrefixByPlace
<1> QED
  BY <1>4, <1>5

-----------------------------------------------------------------------------
\* The invariants

\* The file holds every piece that has been written, and holds it once.
WrittenInv ==
  /\ file \in Texts
  /\ written \in [Appends -> 0..Pieces]
  /\ pc \in [Appends -> {"called", "writing", "resolved", "rejected", "dead"}]
  /\ \A i \in DOMAIN file : file[i].part <= written[file[i].of]
  /\ \A a \in Appends : \A n \in 1..written[a] : \E i \in DOMAIN file : file[i] = Piece(a, n)
  /\ \A i, j \in DOMAIN file : file[i] = file[j] => i = j
  /\ \A a \in Appends : pc[a] = "resolved" => written[a] = Pieces

\* Each answer was read of the file as far as it then went.
ReadInv ==
  /\ \E n \in 0..Len(file) :
       Readable(SubSeq(file, 1, n)) /\ listed = Entries(SubSeq(file, 1, n))
  /\ got \in [RunIds -> Seq(Appends)]
  /\ \A id \in RunIds : \E n \in 0..Len(file) :
       Readable(SubSeq(file, 1, n)) /\ got[id] = First(Entries(SubSeq(file, 1, n)), id)
  /\ threw \in BOOLEAN

-----------------------------------------------------------------------------
\* A step of an append

\* What was in a sequence stays where it is when another is put at its end.
LEMMA Extended ==
  ASSUME NEW A, NEW s \in Seq(A), NEW t \in Seq(A)
  PROVE  /\ s \o t \in Seq(A) /\ Len(s \o t) = Len(s) + Len(t)
         /\ Len(s) \in Nat /\ Len(t) \in Nat
         /\ DOMAIN s = 1..Len(s) /\ DOMAIN (s \o t) = 1..Len(s) + Len(t)
         /\ \A i \in 1..Len(s) : (s \o t)[i] = s[i]
         /\ \A i \in 1..Len(t) : (s \o t)[Len(s) + i] = t[i]
  OBVIOUS

\* A piece is of its append and has its place in the line.
LEMMA PieceFields == \A a, n : Piece(a, n).of = a /\ Piece(a, n).part = n
  BY DEF Piece

\* What a write of append a adds, from the piece it is at up to its n-th.
Added(a, n) == [i \in 1..n - written[a] |-> Piece(a, written[a] + i)]

\* A write leaves what is in the file where it is, and puts its own pieces after it.
LEMMA WriteAdds ==
  ASSUME WrittenInv, NEW a \in Appends, Write(a)
  PROVE  \E n \in written[a] + 1..Pieces :
           /\ written' = [written EXCEPT ![a] = n]
           /\ file' = file \o Added(a, n)
           /\ file' \in Texts /\ Len(file') = Len(file) + (n - written[a])
           /\ \A i \in 1..Len(file) : file'[i] = file[i]
           /\ \A i \in Len(file) + 1..Len(file') :
                /\ i - Len(file) \in 1..n - written[a]
                /\ file'[i] = Piece(a, written[a] + (i - Len(file)))
<1>1. written[a] \in 0..3 /\ Pieces = 3
  BY DEF WrittenInv, Pieces
<1>2. PICK n \in (IF WholeWrites THEN {Pieces} ELSE written[a] + 1..Pieces) :
        /\ written[a] < n
        /\ file' = file \o Added(a, n)
        /\ written' = [written EXCEPT ![a] = n]
  BY DEF Write, Added
<1>3. n \in written[a] + 1..Pieces /\ n - written[a] \in Nat
  BY <1>1, <1>2
<1> DEFINE T == [of : Appends, part : 1..Pieces]
<1>4. Added(a, n) \in Seq(T) /\ Len(Added(a, n)) = n - written[a]
  <2>1. \A i \in 1..n - written[a] : Piece(a, written[a] + i) \in T
    BY <1>1, <1>3 DEF Piece
  <2> HIDE DEF T
  <2> QED
    BY <1>3, <2>1 DEF Added
<1>5. file \in Seq(T)
  BY DEF WrittenInv, Texts
<1> HIDE DEF T
<1>6. /\ file' \in Seq(T) /\ Len(file') = Len(file) + (n - written[a]) /\ Len(file) \in Nat
      /\ \A i \in 1..Len(file) : file'[i] = file[i]
      /\ \A i \in 1..n - written[a] : file'[Len(file) + i] = Added(a, n)[i]
  BY <1>2, <1>4, <1>5, Extended
<1>7. ASSUME NEW i \in Len(file) + 1..Len(file')
      PROVE  /\ i - Len(file) \in 1..n - written[a]
             /\ file'[i] = Piece(a, written[a] + (i - Len(file)))
  <2>1. i - Len(file) \in 1..n - written[a] /\ Len(file) + (i - Len(file)) = i
    BY <1>1, <1>3, <1>6
  <2> QED
    BY <1>6, <2>1 DEF Added
<1>8. file' \in Texts
  BY <1>6 DEF Texts, T
<1> QED
  BY <1>2, <1>3, <1>6, <1>7, <1>8

\* Before the first append nothing is written.
LEMMA WrittenInit ==
  ASSUME Init
  PROVE  WrittenInv
<1>1. file \in Texts /\ DOMAIN file = {}
  BY DEF Init, Texts
<1>2. \A a \in Appends : written[a] = 0 /\ pc[a] = "called"
  BY DEF Init
<1>3. /\ written \in [Appends -> 0..Pieces]
      /\ pc \in [Appends -> {"called", "writing", "resolved", "rejected", "dead"}]
  BY DEF Init, Pieces
<1> QED
  BY <1>1, <1>2, <1>3 DEF WrittenInv

\* A write puts pieces into the file that are not there yet; the other steps leave it.
LEMMA WrittenStep ==
  ASSUME WrittenInv, [Next]_vars
  PROVE  WrittenInv'
<1> USE DEF WrittenInv
<1>1. ASSUME NEW a \in Appends, Write(a) PROVE WrittenInv'
  <2>1. PICK n \in written[a] + 1..Pieces :
           /\ written' = [written EXCEPT ![a] = n]
           /\ file' \in Texts /\ Len(file') = Len(file) + (n - written[a])
           /\ \A i \in 1..Len(file) : file'[i] = file[i]
           /\ \A i \in Len(file) + 1..Len(file') :
                /\ i - Len(file) \in 1..n - written[a]
                /\ file'[i] = Piece(a, written[a] + (i - Len(file)))
    BY <1>1, WriteAdds
  <2>2. /\ Len(file) \in Nat /\ DOMAIN file = 1..Len(file) /\ DOMAIN file' = 1..Len(file')
        /\ \A i \in DOMAIN file : file[i].of \in Appends /\ file[i].part \in 1..Pieces
    BY <2>1, TextFields
  <2>3. written[a] \in 0..3 /\ n \in 1..3 /\ written[a] < n /\ Pieces = 3
    BY <2>1 DEF Pieces
  <2>4. /\ pc[a] = "writing" /\ pc' = pc
        /\ written' \in [Appends -> 0..Pieces] /\ written'[a] = n
        /\ \A b \in Appends : b # a => written'[b] = written[b]
        /\ \A b \in Appends : written[b] \in 0..3 /\ written[b] <= written'[b]
    BY <1>1, <2>1, <2>3 DEF Write, Pieces
  <2>5. \A i \in DOMAIN file' : i \in 1..Len(file) \/ i \in Len(file) + 1..Len(file')
    BY <2>1, <2>2, <2>3
  <2>6. ASSUME NEW i \in Len(file) + 1..Len(file')
        PROVE  /\ file'[i].of = a /\ file'[i].part \in written[a] + 1..n
               /\ file'[i].part = written[a] + (i - Len(file))
    <3>1. /\ i - Len(file) \in 1..n - written[a]
          /\ file'[i] = Piece(a, written[a] + (i - Len(file)))
      BY <2>1, <2>6
    <3>2. file'[i].of = a /\ file'[i].part = written[a] + (i - Len(file))
      BY <3>1, PieceFields
    <3>3. written[a] + (i - Len(file)) \in written[a] + 1..n
      BY <2>2, <2>3, <3>1
    <3> QED
      BY <3>2, <3>3
  <2>7. ASSUME NEW i \in DOMAIN file'
        PROVE  file'[i].part <= written'[file'[i].of]
    <3>1. CASE i \in 1..Len(file)
      <4>1. file'[i] = file[i] /\ file[i].part <= written[file[i].of]
        BY <2>1, <2>2, <3>1
      <4> QED
        BY <2>2, <2>3, <2>4, <3>1, <4>1
    <3>2. CASE i \in Len(file) + 1..Len(file')
      BY <2>3, <2>4, <2>6, <3>2
    <3> QED
      BY <2>5, <3>1, <3>2
  <2>8. ASSUME NEW b \in Appends, NEW m \in 1..written'[b]
        PROVE  \E i \in DOMAIN file' : file'[i] = Piece(b, m)
    <3>1. CASE m \in 1..written[b]
      <4>1. PICK i \in DOMAIN file : file[i] = Piece(b, m)
        BY <3>1
      <4>2. i \in DOMAIN file' /\ file'[i] = Piece(b, m)
        BY <2>1, <2>2, <2>3, <4>1
      <4> QED
        BY <4>2
    <3>2. CASE m \notin 1..written[b]
      <4>1. b = a /\ m \in written[a] + 1..n
        BY <2>3, <2>4, <3>2
      <4>2. Len(file) + (m - written[a]) \in Len(file) + 1..Len(file')
        BY <2>1, <2>2, <2>3, <4>1
      <4>3. written[a] + ((Len(file) + (m - written[a])) - Len(file)) = m
        BY <2>2, <2>3, <4>1
      <4>4. Len(file) + (m - written[a]) \in DOMAIN file'
        BY <2>2, <4>2
      <4> QED
        BY <2>1, <4>1, <4>2, <4>3, <4>4
    <3> QED
      BY <3>1, <3>2
  <2>9. ASSUME NEW i \in DOMAIN file', NEW j \in DOMAIN file', file'[i] = file'[j]
        PROVE  i = j
    <3>1. CASE i \in 1..Len(file) /\ j \in 1..Len(file)
      BY <2>1, <2>2, <2>9, <3>1
    <3>2. ASSUME NEW k \in 1..Len(file), NEW l \in Len(file) + 1..Len(file')
          PROVE  file'[k] # file'[l]
      <4>1. file'[k] = file[k] /\ file[k].part <= written[file[k].of]
            /\ file[k].part \in 1..Pieces
        BY <2>1, <2>2, <3>2
      <4>2. file'[l].of = a /\ file'[l].part \in written[a] + 1..n
        BY <2>6
      <4>3. file[k].of = a => file[k].part <= written[a]
        BY <4>1
      <4> QED
        BY <2>3, <4>1, <4>2, <4>3
    <3>3. CASE i \in Len(file) + 1..Len(file') /\ j \in Len(file) + 1..Len(file')
      <4>1. /\ file'[i].part = written[a] + (i - Len(file))
            /\ file'[j].part = written[a] + (j - Len(file))
        BY <2>6, <3>3
      <4>2. i \in Nat /\ j \in Nat
        BY <2>2, <2>9
      <4> QED
        BY <2>2, <2>3, <2>9, <4>1, <4>2
    <3> QED
      BY <2>5, <2>9, <3>1, <3>2, <3>3
  <2>10. \A b \in Appends : pc'[b] = "resolved" => written'[b] = Pieces
    BY <2>4
  <2> QED
    BY <2>1, <2>4, <2>7, <2>8, <2>9, <2>10
<1>2. ASSUME NEW a \in Appends,
             MakeDirectory(a) \/ Resolve(a) \/ AppendFails(a) \/ ProcessDies(a)
      PROVE  WrittenInv'
  <2>1. UNCHANGED <<file, written>>
    BY <1>2 DEF MakeDirectory, Resolve, AppendFails, ProcessDies
  <2>2. /\ pc' \in [Appends -> {"called", "writing", "resolved", "rejected", "dead"}]
        /\ \A b \in Appends : pc'[b] = "resolved" => written[b] = Pieces
    BY <1>2 DEF MakeDirectory, Resolve, AppendFails, ProcessDies
  <2> QED
    BY <2>1, <2>2
<1>3. ASSUME ReadThrows \/ List \/ (\E id \in RunIds : Get(id)) \/ UNCHANGED vars
      PROVE  WrittenInv'
  <2>1. UNCHANGED <<file, pc, written>>
    BY <1>3 DEF ReadThrows, List, Get, vars, appendVars
  <2> QED
    BY <2>1
<1> QED
  BY <1>1, <1>2, <1>3 DEF Next

\* What is written is in the file, once, whatever fails.
LEMMA WrittenHolds == Spec => []WrittenInv
<1>1. Init => WrittenInv
  BY WrittenInit
<1>2. WrittenInv /\ [Next]_vars => WrittenInv'
  BY WrittenStep
<1> QED
  BY <1>1, <1>2, PTL DEF Spec

-----------------------------------------------------------------------------
\* What the answers hold

\* Sequences that agree as far as n have the same first n elements.
LEMMA SamePrefix ==
  ASSUME NEW A, NEW s \in Seq(A), NEW t \in Seq(A), NEW n \in 0..Len(s), n <= Len(t),
         \A i \in 1..n : s[i] = t[i]
  PROVE  SubSeq(s, 1, n) = SubSeq(t, 1, n)
<1>1. n \in Nat /\ Len(s) \in Nat /\ Len(t) \in Nat
  OBVIOUS
<1>2. SubSeq(s, 1, n) = [i \in 1..n |-> s[i]]
  BY <1>1
<1>3. SubSeq(t, 1, n) = [i \in 1..n |-> t[i]]
  BY <1>1
<1> QED
  BY <1>2, <1>3

\* No step takes from the file, or changes what is in it.
LEMMA FileGrows ==
  ASSUME WrittenInv, [Next]_vars
  PROVE  /\ Len(file) \in Nat /\ Len(file') \in Nat /\ Len(file) <= Len(file')
         /\ SubSeq(file, 1, Len(file)) = file
         /\ \A n \in 0..Len(file) : SubSeq(file', 1, n) = SubSeq(file, 1, n)
<1>1. file \in Texts /\ file' \in Texts
  BY WrittenStep DEF WrittenInv
<1>2. Len(file) \in Nat /\ Len(file') \in Nat
  BY <1>1, TextFields
<1> DEFINE T == [of : Appends, part : 1..Pieces]
<1>3. file \in Seq(T) /\ file' \in Seq(T)
  BY <1>1 DEF Texts
<1> HIDE DEF T
<1>4. SubSeq(file, 1, Len(file)) = file
  BY <1>3
<1>5. CASE \E a \in Appends : Write(a)
  <2>1. Len(file) <= Len(file') /\ \A i \in 1..Len(file) : file'[i] = file[i]
    <3>1. PICK a \in Appends : Write(a)
      BY <1>5
    <3>2. PICK n \in written[a] + 1..Pieces :
             /\ Len(file') = Len(file) + (n - written[a])
             /\ \A i \in 1..Len(file) : file'[i] = file[i]
      BY <3>1, WriteAdds
    <3>3. written[a] \in 0..Pieces /\ Pieces = 3
      BY DEF WrittenInv, Pieces
    <3> QED
      BY <1>2, <3>2, <3>3
  <2> QED
    BY <1>2, <1>3, <1>4, <2>1, SamePrefix
<1>6. CASE ~\E a \in Appends : Write(a)
  <2>1. file' = file
    BY <1>6 DEF Next, MakeDirectory, Resolve, AppendFails, ProcessDies, ReadThrows, List, Get,
                vars, appendVars
  <2> QED
    BY <1>2, <1>4, <2>1
<1> QED
  BY <1>5, <1>6

\* Before the first call of list() its answer is that of the empty file.
LEMMA ReadInit ==
  ASSUME Init
  PROVE  ReadInv
<1>1. file = << >> /\ file \in Texts /\ Len(file) = 0 /\ DOMAIN file = {}
  BY DEF Init, Texts
<1>2. SubSeq(file, 1, 0) = file
  BY <1>1
<1>3. Starts(file) = {} /\ Taken(file) = {} /\ Readable(file)
  BY <1>1 DEF Starts, Taken, Readable
<1>4. Entries(file) = << >>
  <2>1. Entries(file) \in Seq(Appends \ NotFinite) /\ Len(Entries(file)) = 0
    BY <1>1, <1>3, EntriesTaken, FS_EmptySet
  <2> QED
    BY <2>1
<1>5. \A id : First(Entries(file), id) = << >>
  BY <1>4 DEF First
<1>6. 0 \in 0..Len(file)
  BY <1>1
<1>7. got \in [RunIds -> Seq(Appends)] /\ \A id \in RunIds : got[id] = << >>
  BY DEF Init
<1> QED
  BY <1>2, <1>3, <1>4, <1>5, <1>6, <1>7 DEF ReadInv, Init

\* A new answer is that of the whole file; an old one is that of what the file still
\* begins with.
LEMMA ReadStep ==
  ASSUME WrittenInv, ReadInv, [Next]_vars
  PROVE  ReadInv'
<1> DEFINE Was(n) == SubSeq(file, 1, n)
           Is(n) == SubSeq(file', 1, n)
<1>1. /\ Len(file) \in Nat /\ Len(file') \in Nat /\ Len(file) <= Len(file')
      /\ Was(Len(file)) = file /\ \A n \in 0..Len(file) : Is(n) = Was(n)
  BY FileGrows
<1>2. \A n \in 0..Len(file) : n \in 0..Len(file')
  BY <1>1
<1>3. Len(file) \in 0..Len(file)
  BY <1>1
<1>4. /\ \E n \in 0..Len(file) : Readable(Was(n)) /\ listed = Entries(Was(n))
      /\ got \in [RunIds -> Seq(Appends)]
      /\ \A id \in RunIds : \E n \in 0..Len(file) :
           Readable(Was(n)) /\ got[id] = First(Entries(Was(n)), id)
      /\ threw \in BOOLEAN
  BY DEF ReadInv
<1>5. Entries(file) \in Seq(Appends)
  <2>1. Entries(file) \in Seq(Appends \ NotFinite)
    BY EntriesTaken DEF WrittenInv
  <2> QED
    BY <2>1
<1>6. /\ listed' = listed \/ (Readable(file) /\ listed' = Entries(file))
      /\ \/ got' = got
         \/ \E id \in RunIds : /\ Readable(file)
                                /\ got' = [got EXCEPT ![id] = First(Entries(file), id)]
      /\ threw' = threw \/ threw' = TRUE
  BY DEF Next, MakeDirectory, Write, Resolve, AppendFails, ProcessDies, ReadThrows, List, Get,
         vars, appendVars, readVars
<1> HIDE DEF Was, Is
<1>7. \E n \in 0..Len(file') : Readable(Is(n)) /\ listed' = Entries(Is(n))
  <2>1. \E n \in 0..Len(file) : Readable(Was(n)) /\ listed' = Entries(Was(n))
    BY <1>1, <1>3, <1>4, <1>6
  <2> QED
    BY <1>1, <1>2, <2>1
<1>8. got' \in [RunIds -> Seq(Appends)]
  <2>1. \A id : First(Entries(file), id) \in Seq(Appends)
    <3>1. IsPrefix(Entries(file), Entries(file))
      BY <1>5, PrefixByPlace
    <3> QED
      BY <1>5, <3>1, FirstStays
  <2> QED
    BY <1>4, <1>6, <2>1
<1>9. ASSUME NEW id \in RunIds
      PROVE  \E n \in 0..Len(file') : Readable(Is(n)) /\ got'[id] = First(Entries(Is(n)), id)
  <2>1. got'[id] = got[id] \/ (Readable(file) /\ got'[id] = First(Entries(file), id))
    BY <1>4, <1>6
  <2>2. \E n \in 0..Len(file) : Readable(Was(n)) /\ got'[id] = First(Entries(Was(n)), id)
    BY <1>1, <1>3, <1>4, <2>1
  <2> QED
    BY <1>1, <1>2, <2>2
<1>10. threw' \in BOOLEAN
  BY <1>4, <1>6
<1> QED
  BY <1>7, <1>8, <1>9, <1>10 DEF ReadInv, Is

\* What is proved of the log, whatever fails.
LogInv == WrittenInv /\ ReadInv

\* The file and the answers keep their invariants together.
LEMMA LogHolds == Spec => []LogInv
<1>1. Init => LogInv
  BY WrittenInit, ReadInit DEF LogInv
<1>2. LogInv /\ [Next]_vars => LogInv'
  BY WrittenStep, ReadStep DEF LogInv
<1> QED
  BY <1>1, <1>2, PTL DEF Spec

\* Every variable has its type at every moment, and a finished append has written its
\* line.
THEOREM TypeCorrect == Spec => []TypeOK
<1>1. ASSUME LogInv
      PROVE  TypeOK
  <2>1. listed \in Seq(Appends)
    <3>1. PICK n \in 0..Len(file) : listed = Entries(SubSeq(file, 1, n))
      BY <1>1 DEF LogInv, ReadInv
    <3>2. SubSeq(file, 1, n) \in Texts
      BY <1>1, Truncated DEF LogInv, WrittenInv, Texts
    <3>3. listed \in Seq(Appends \ NotFinite)
      BY <3>1, <3>2, EntriesTaken
    <3> QED
      BY <3>3
  <2> QED
    BY <1>1, <2>1 DEF LogInv, WrittenInv, ReadInv, TypeOK, Texts
<1> QED
  BY <1>1, LogHolds, PTL

\* A file that is read without an error has every finished entry among its entries: the
\* first piece of the entry's line is the start of a line that is the entry's text.
LEMMA WrittenIsListed ==
  ASSUME WrittenInv, Readable(file), NEW a \in Appends \ NotFinite, written[a] = Pieces
  PROVE  a \in ToSet(Entries(file))
<1>1. file \in Texts /\ Pieces = 3
  BY DEF WrittenInv, Pieces
<1>2. PICK i \in DOMAIN file : file[i] = Piece(a, 1)
  BY <1>1 DEF WrittenInv
<1>3. file[i].of = a /\ file[i].part = 1
  BY <1>2, PieceFields
<1>4. ~EndsLine(file, i)
  BY <1>1, <1>2, <1>3 DEF EndsLine
<1>5. i - 1 \notin Starts(file)
  <2>1. SUFFICES ASSUME i - 1 \in Starts(file) PROVE FALSE
    OBVIOUS
  <2>2. file[(i - 1) + 1].part = 2
    BY <2>1, PieceFields DEF Readable, Parses
  <2>3. (i - 1) + 1 = i
    BY <1>1, <1>2, TextFields
  <2> QED
    BY <1>3, <2>2, <2>3
<1>6. i \in Taken(file)
  BY <1>1, <1>2, <1>3, <1>4, <1>5, LinesParse DEF Readable, Taken
<1>7. /\ Rank(Taken(file), i) \in 1..Len(Entries(file))
      /\ Entries(file)[Rank(Taken(file), i)] = a
      /\ Entries(file) \in Seq(Appends \ NotFinite)
  BY <1>1, <1>3, <1>6, EntriesTaken
<1> QED
  BY <1>7 DEF ToSet

\* An entry of the file has the two parts of its text written, and no entry is there twice.
LEMMA ListedIsWritten ==
  ASSUME WrittenInv
  PROVE  NothingMadeUp
<1> DEFINE answer == Entries(file)
<1>1. file \in Texts /\ Pieces = 3
  BY DEF WrittenInv, Pieces
<1>2. DOMAIN answer = 1..Len(answer)
  <2>1. answer \in Seq(Appends \ NotFinite)
    BY <1>1, EntriesTaken
  <2> QED
    BY <2>1
<1>3. ASSUME NEW k \in DOMAIN answer
      PROVE  \E i \in Taken(file) :
               /\ answer[k] = file[i].of /\ k = Rank(Taken(file), i)
               /\ i \in DOMAIN file /\ i + 1 \in DOMAIN file /\ answer[k] \in Appends
               /\ file[i] = Piece(answer[k], 1) /\ file[i + 1] = Piece(answer[k], 2)
  BY <1>1, <1>2, EntriesTaken, LinesTaken
<1> HIDE DEF answer
<1>4. ASSUME NEW a \in ToSet(answer)
      PROVE  written[a] >= Pieces - 1
  <2>1. PICK k \in DOMAIN answer : answer[k] = a
    BY DEF ToSet
  <2>2. PICK i \in DOMAIN file : file[i] = Piece(a, 2) /\ a \in Appends
    BY <1>3, <2>1
  <2>3. file[i].of = a /\ file[i].part = 2
    BY <2>2, PieceFields
  <2>4. 2 <= written[a] /\ written[a] \in 0..3
    BY <1>1, <2>2, <2>3 DEF WrittenInv
  <2> QED
    BY <1>1, <2>4
<1>5. ASSUME NEW k \in DOMAIN answer, NEW l \in DOMAIN answer, answer[k] = answer[l]
      PROVE  k = l
  <2>1. PICK i \in DOMAIN file : file[i] = Piece(answer[k], 1) /\ k = Rank(Taken(file), i)
    BY <1>3
  <2>2. PICK j \in DOMAIN file : file[j] = Piece(answer[l], 1) /\ l = Rank(Taken(file), j)
    BY <1>3
  <2>3. i = j
    BY <1>5, <2>1, <2>2 DEF WrittenInv
  <2> QED
    BY <2>1, <2>2, <2>3
<1> QED
  BY <1>4, <1>5 DEF NothingMadeUp, answer

\* A file that can be read has every acknowledged entry that JSON can hold, whatever
\* died, failed or was written in between.
THEOREM NothingLeftOutHolds == Spec => []NothingLeftOut
<1>1. LogInv => NothingLeftOut
  BY WrittenIsListed DEF LogInv, WrittenInv, NothingLeftOut
<1> QED
  BY <1>1, LogHolds, PTL

\* The entries of a file are entries whose text is complete, and each is there once.
THEOREM NothingMadeUpHolds == Spec => []NothingMadeUp
<1>1. LogInv => NothingMadeUp
  BY ListedIsWritten DEF LogInv
<1> QED
  BY <1>1, LogHolds, PTL

\* list() answers what it answered and what was added since, or throws.
THEOREM AnswersGrowHolds == Spec => AnswersGrow
<1>1. ASSUME LogInv, [Next]_vars
      PROVE  IsPrefix(listed, listed')
  <2>1. PICK n \in 0..Len(file) : /\ Readable(SubSeq(file, 1, n))
                                 /\ listed = Entries(SubSeq(file, 1, n))
    BY <1>1 DEF LogInv, ReadInv
  <2>2. file \in Texts
    BY <1>1 DEF LogInv, WrittenInv
  <2>3. listed' = listed \/ (Readable(file) /\ listed' = Entries(file))
    BY <1>1 DEF Next, MakeDirectory, Write, Resolve, AppendFails, ProcessDies, ReadThrows, List,
                Get, vars, appendVars, readVars
  <2>4. CASE listed' = listed
    <3>1. SubSeq(file, 1, n) \in Texts
      BY <2>2, Truncated DEF Texts
    <3>2. listed \in Seq(Appends \ NotFinite)
      BY <2>1, <3>1, EntriesTaken
    <3> QED
      BY <2>4, <3>2, PrefixByPlace
  <2>5. CASE Readable(file) /\ listed' = Entries(file)
    BY <2>1, <2>2, <2>5, EntriesGrow
  <2> QED
    BY <2>3, <2>4, <2>5
<1> QED
  BY <1>1, LogHolds, PTL DEF Spec, AnswersGrow

\* What get() has answered for a run id it answers ever after.
THEOREM GetIsStableHolds == Spec => GetIsStable
<1>1. ASSUME LogInv, [Next]_vars, NEW id \in RunIds
      PROVE  IsPrefix(got[id], got'[id])
  <2>1. PICK n \in 0..Len(file) : /\ Readable(SubSeq(file, 1, n))
                                 /\ got[id] = First(Entries(SubSeq(file, 1, n)), id)
    BY <1>1 DEF LogInv, ReadInv
  <2>2. file \in Texts /\ got \in [RunIds -> Seq(Appends)]
    BY <1>1 DEF LogInv, WrittenInv, ReadInv
  <2>3. got'[id] = got[id] \/ (Readable(file) /\ got'[id] = First(Entries(file), id))
    BY <1>1, <2>2 DEF Next, MakeDirectory, Write, Resolve, AppendFails, ProcessDies, ReadThrows,
                      List, Get, vars, appendVars, readVars
  <2>4. CASE got'[id] = got[id]
    <3>1. got[id] \in Seq(Appends)
      BY <2>2
    <3> QED
      BY <2>4, <3>1, PrefixByPlace
  <2>5. CASE Readable(file) /\ got'[id] = First(Entries(file), id)
    <3>1. SubSeq(file, 1, n) \in Texts
      BY <2>2, Truncated DEF Texts
    <3>2. Entries(SubSeq(file, 1, n)) \in Seq(Appends) /\ Entries(file) \in Seq(Appends)
      <4>1. /\ Entries(SubSeq(file, 1, n)) \in Seq(Appends \ NotFinite)
            /\ Entries(file) \in Seq(Appends \ NotFinite)
        BY <2>2, <3>1, EntriesTaken
      <4> QED
        BY <4>1
    <3>3. IsPrefix(Entries(SubSeq(file, 1, n)), Entries(file))
      BY <2>1, <2>2, <2>5, EntriesGrow
    <3> QED
      BY <2>1, <2>5, <3>2, <3>3, FirstStays
  <2> QED
    BY <2>3, <2>4, <2>5
<1>2. LogInv /\ [Next]_vars => \A id \in RunIds : IsPrefix(got[id], got'[id])
  BY <1>1
<1> QED
  BY <1>2, LogHolds, PTL DEF Spec, GetIsStable

-----------------------------------------------------------------------------
\* One write for each line

\* Every piece of f is in a line that is whole.
Whole(f) ==
  /\ \A i \in DOMAIN f :
       /\ f[i].part = 1 =>
            /\ EndsLine(f, i - 1)
            /\ i + 1 \in DOMAIN f /\ f[i + 1] = Piece(f[i].of, 2)
            /\ i + 2 \in DOMAIN f /\ f[i + 2] = Piece(f[i].of, 3)
       /\ f[i].part = 2 => i - 1 \in DOMAIN f /\ f[i - 1].part = 1
  /\ EndsLine(f, Len(f))

\* Appends write nothing or all, and the lines of the file are whole.
WholeInv ==
  /\ WrittenInv
  /\ \A a \in Appends : written[a] \in {0, Pieces}
  /\ Whole(file)

\* The lines of a file of whole lines start with the first pieces, and parse.
LEMMA WholeReads ==
  ASSUME NEW f \in Texts, Whole(f)
  PROVE  /\ Starts(f) = {i \in DOMAIN f : f[i].part = 1}
         /\ Readable(f)
         /\ NotFinite = {} => Taken(f) = Starts(f)
<1>1. Pieces = 3 /\ Len(f) \in Nat /\ DOMAIN f = 1..Len(f)
  BY TextFields DEF Pieces
<1>2. \A i \in DOMAIN f : i \in Nat /\ f[i].part \in 1..3 /\ f[i].of \in Appends
  BY <1>1, TextFields
<1>3. ASSUME NEW i \in Starts(f)
      PROVE  i \in DOMAIN f /\ f[i].part = 1
  <2>1. i \in DOMAIN f /\ EndsLine(f, i - 1) /\ ~EndsLine(f, i)
    BY DEF Starts
  <2>2. f[i].part # 3
    BY <1>1, <2>1 DEF EndsLine
  <2>3. f[i].part # 2
    BY <1>1, <2>1 DEF EndsLine, Whole
  <2> QED
    BY <1>2, <2>1, <2>2, <2>3
<1>4. ASSUME NEW i \in DOMAIN f, f[i].part = 1
      PROVE  i \in Starts(f) /\ Parses(f, i)
  <2>1. /\ EndsLine(f, i - 1)
        /\ i + 1 \in DOMAIN f /\ f[i + 1] = Piece(f[i].of, 2)
        /\ i + 2 \in DOMAIN f /\ f[i + 2] = Piece(f[i].of, 3)
    BY <1>4 DEF Whole
  <2>2. ~EndsLine(f, i) /\ i < Len(f)
    BY <1>1, <1>2, <1>4, <2>1 DEF EndsLine
  <2>3. EndsLine(f, i + 2)
    BY <1>1, <2>1, PieceFields DEF EndsLine
  <2> QED
    BY <1>4, <2>1, <2>2, <2>3 DEF Starts, Parses
<1>5. Starts(f) = {i \in DOMAIN f : f[i].part = 1} /\ Readable(f)
  BY <1>3, <1>4 DEF Readable
<1>6. NotFinite = {} => Taken(f) = Starts(f)
  BY <1>3, <1>4 DEF Taken
<1> QED
  BY <1>5, <1>6

\* With one write for each line, a write puts the three pieces of its line at the end.
LEMMA WriteIsALine ==
  ASSUME WholeWrites, WholeInv, NEW a \in Appends, Write(a)
  PROVE  /\ written[a] = 0 /\ written' = [written EXCEPT ![a] = Pieces]
         /\ Len(file) \in Nat /\ DOMAIN file = 1..Len(file) /\ DOMAIN file' = 1..Len(file) + 3
         /\ file' \in Texts /\ Len(file') = Len(file) + 3
         /\ \A i \in DOMAIN file : file'[i] = file[i]
         /\ file'[Len(file) + 1] = Piece(a, 1)
         /\ file'[Len(file) + 2] = Piece(a, 2)
         /\ file'[Len(file) + 3] = Piece(a, 3)
<1>1. WrittenInv /\ file \in Texts /\ Pieces = 3 /\ written \in [Appends -> 0..3]
  BY DEF WholeInv, WrittenInv, Pieces
<1>2. PICK n \in written[a] + 1..Pieces :
           /\ written' = [written EXCEPT ![a] = n]
           /\ file' \in Texts /\ Len(file') = Len(file) + (n - written[a])
           /\ \A i \in 1..Len(file) : file'[i] = file[i]
           /\ \A i \in Len(file) + 1..Len(file') :
                /\ i - Len(file) \in 1..n - written[a]
                /\ file'[i] = Piece(a, written[a] + (i - Len(file)))
  BY <1>1, WriteAdds
<1>3. written' = [written EXCEPT ![a] = Pieces] /\ written[a] < Pieces
  BY DEF Write
<1>4. written[a] = 0 /\ n = 3
  <2>1. written[a] = 0
    BY <1>1, <1>3 DEF WholeInv
  <2> QED
    BY <1>1, <1>2, <1>3, <2>1
<1>5. Len(file) \in Nat /\ DOMAIN file = 1..Len(file) /\ Len(file') = Len(file) + 3
  BY <1>1, <1>2, <1>4, TextFields
<1>6. DOMAIN file' = 1..Len(file) + 3
  BY <1>2, <1>5, TextFields
<1>7. ASSUME NEW m \in 1..3
      PROVE  file'[Len(file) + m] = Piece(a, m)
  <2>1. Len(file) + m \in Len(file) + 1..Len(file') /\ 0 + ((Len(file) + m) - Len(file)) = m
    BY <1>5
  <2> QED
    BY <1>2, <1>4, <2>1
<1>8. /\ file'[Len(file) + 1] = Piece(a, 1) /\ file'[Len(file) + 2] = Piece(a, 2)
      /\ file'[Len(file) + 3] = Piece(a, 3)
  <2>1. 1 \in 1..3 /\ 2 \in 1..3 /\ 3 \in 1..3
    OBVIOUS
  <2> QED
    BY <1>7, <2>1
<1> QED
  BY <1>2, <1>3, <1>4, <1>5, <1>6, <1>8

\* A write of one line leaves whole lines: its first piece comes after the end of one.
LEMMA WholeStep ==
  ASSUME WholeWrites, WholeInv, [Next]_vars
  PROVE  WholeInv'
<1>1. WrittenInv'
  BY WrittenStep DEF WholeInv
<1>2. ASSUME NEW a \in Appends, Write(a) PROVE WholeInv'
  <2>1. /\ written' = [written EXCEPT ![a] = Pieces]
        /\ Len(file) \in Nat /\ DOMAIN file = 1..Len(file) /\ DOMAIN file' = 1..Len(file) + 3
        /\ file' \in Texts /\ Len(file') = Len(file) + 3
        /\ \A i \in DOMAIN file : file'[i] = file[i]
        /\ file'[Len(file) + 1] = Piece(a, 1)
        /\ file'[Len(file) + 2] = Piece(a, 2)
        /\ file'[Len(file) + 3] = Piece(a, 3)
    BY <1>2, WriteIsALine
  <2>2. \A b \in Appends : written'[b] \in {0, Pieces}
    BY <2>1 DEF WholeInv, WrittenInv
  <2>3. Pieces = 3
    BY DEF Pieces
  <2>4. ASSUME NEW i \in 0..Len(file)
        PROVE  EndsLine(file, i) => EndsLine(file', i)
    BY <2>1, <2>4 DEF EndsLine
  <2>5. ASSUME NEW i \in DOMAIN file', file'[i].part = 1
        PROVE  /\ EndsLine(file', i - 1)
               /\ i + 1 \in DOMAIN file' /\ file'[i + 1] = Piece(file'[i].of, 2)
               /\ i + 2 \in DOMAIN file' /\ file'[i + 2] = Piece(file'[i].of, 3)
    <3>1. CASE i \in DOMAIN file
      <4>1. /\ EndsLine(file, i - 1)
            /\ i + 1 \in DOMAIN file /\ file[i + 1] = Piece(file[i].of, 2)
            /\ i + 2 \in DOMAIN file /\ file[i + 2] = Piece(file[i].of, 3)
        BY <2>1, <2>5, <3>1 DEF WholeInv, Whole
      <4>2. i - 1 \in 0..Len(file) /\ \A j \in DOMAIN file : j \in DOMAIN file'
        BY <2>1, <3>1
      <4> QED
        BY <2>1, <2>4, <3>1, <4>1, <4>2
    <3>2. CASE i \notin DOMAIN file
      <4>1. i = Len(file) + 1 \/ i = Len(file) + 2 \/ i = Len(file) + 3
        BY <2>1, <3>2
      <4>2. i = Len(file) + 1
        BY <2>1, <2>5, <4>1, PieceFields
      <4>3. i - 1 = Len(file) /\ i + 1 = Len(file) + 2 /\ i + 2 = Len(file) + 3
        BY <2>1, <4>2
      <4>4. EndsLine(file', i - 1)
        BY <2>1, <2>4, <4>3 DEF WholeInv, Whole
      <4>5. Len(file) + 2 \in DOMAIN file' /\ Len(file) + 3 \in DOMAIN file' /\ file'[i].of = a
        BY <2>1, <4>2, PieceFields
      <4> QED
        BY <2>1, <4>3, <4>4, <4>5
    <3> QED
      BY <3>1, <3>2
  <2>6. ASSUME NEW i \in DOMAIN file', file'[i].part = 2
        PROVE  i - 1 \in DOMAIN file' /\ file'[i - 1].part = 1
    <3>1. CASE i \in DOMAIN file
      <4>1. i - 1 \in DOMAIN file /\ file[i - 1].part = 1
        BY <2>1, <2>6, <3>1 DEF WholeInv, Whole
      <4> QED
        BY <2>1, <4>1
    <3>2. CASE i \notin DOMAIN file
      <4>1. i = Len(file) + 1 \/ i = Len(file) + 2 \/ i = Len(file) + 3
        BY <2>1, <3>2
      <4>2. i = Len(file) + 2
        BY <2>1, <2>6, <4>1, PieceFields
      <4>3. i - 1 = Len(file) + 1 /\ Len(file) + 1 \in DOMAIN file'
        BY <2>1, <4>2
      <4> QED
        BY <2>1, <4>3, PieceFields
    <3> QED
      BY <3>1, <3>2
  <2>7. EndsLine(file', Len(file'))
    BY <2>1, <2>3, PieceFields DEF EndsLine
  <2> QED
    BY <1>1, <2>2, <2>5, <2>6, <2>7 DEF WholeInv, Whole
<1>3. ASSUME ~\E a \in Appends : Write(a)
      PROVE  WholeInv'
  <2>1. UNCHANGED <<file, written>>
    BY <1>3 DEF Next, MakeDirectory, Resolve, AppendFails, ProcessDies, ReadThrows, List, Get,
                vars, appendVars
  <2> QED
    BY <1>1, <2>1 DEF WholeInv, Whole, EndsLine
<1> QED
  BY <1>2, <1>3

\* Such a write puts its entry after those of the file.
LEMMA WriteIsAPush ==
  ASSUME WholeWrites, NotFinite = {}, WholeInv, NEW a \in Appends, Write(a)
  PROVE  a \notin ToSet(Entries(file)) /\ Entries(file') = Append(Entries(file), a)
<1>1. /\ written[a] = 0
      /\ Len(file) \in Nat /\ DOMAIN file = 1..Len(file) /\ DOMAIN file' = 1..Len(file) + 3
      /\ file' \in Texts /\ Len(file') = Len(file) + 3
      /\ \A i \in DOMAIN file : file'[i] = file[i]
      /\ file'[Len(file) + 1] = Piece(a, 1)
      /\ file'[Len(file) + 2] = Piece(a, 2)
      /\ file'[Len(file) + 3] = Piece(a, 3)
  BY WriteIsALine
<1>2. a \notin ToSet(Entries(file))
  BY <1>1, ListedIsWritten DEF WholeInv, NothingMadeUp, Pieces
<1>3. Whole(file) /\ Whole(file') /\ file \in Texts
  <2>1. Next
    BY DEF Next
  <2> QED
    BY <2>1, WholeStep DEF WholeInv, WrittenInv
<1> DEFINE old == Taken(file)
           new == Taken(file')
           s == Entries(file)
           t == Entries(file')
           last == Len(file) + 1
<1>4. /\ old = {i \in DOMAIN file : file[i].part = 1} /\ Readable(file)
      /\ new = {i \in DOMAIN file' : file'[i].part = 1} /\ Readable(file')
  BY <1>1, <1>3, WholeReads
<1>5. new = old \cup {last} /\ last \notin old
  <2>1. \A i : i \in DOMAIN file' <=>
                 i \in DOMAIN file \/ i = last \/ i = Len(file) + 2 \/ i = Len(file) + 3
    BY <1>1
  <2>2. /\ file'[last].part = 1 /\ file'[Len(file) + 2].part = 2 /\ file'[Len(file) + 3].part = 3
        /\ last \notin DOMAIN file
    BY <1>1, PieceFields
  <2> HIDE DEF last
  <2> QED
    BY <1>1, <1>4, <2>1, <2>2
<1>6. /\ s \in Seq(Appends) /\ Len(s) = Cardinality(old)
      /\ t \in Seq(Appends) /\ Len(t) = Cardinality(new)
  <2>1. Appends \ NotFinite = Appends
    OBVIOUS
  <2> QED
    BY <1>1, <1>3, <2>1, EntriesTaken
<1>7. Len(s) \in Nat /\ Len(t) = Len(s) + 1
  <2>1. IsFiniteSet(old)
    BY <1>3, LinesTaken
  <2> HIDE DEF old, new, s, t, last
  <2> QED
    BY <1>5, <1>6, <2>1, FS_AddElement, FS_CardinalityType
<1>8. \A k \in 1..Len(s) : t[k] = s[k]
  <2>1. SubSeq(file', 1, Len(file)) = file
    <3>1. Next /\ WrittenInv
      BY DEF Next, WholeInv
    <3> QED
      BY <1>1, <3>1, FileGrows
  <2>2. Len(file) \in 0..Len(file')
    BY <1>1
  <2>3. IsPrefix(s, t)
    BY <1>1, <1>4, <2>1, <2>2, EntriesGrow
  <2> HIDE DEF s, t
  <2> QED
    BY <1>6, <2>3, PrefixByPlace
<1>9. t[Len(t)] = a
  <2>1. {j \in new : j <= last} = new
    <3>1. \A j \in old : j \in 1..Len(file)
      BY <1>1, <1>4
    <3>2. \A j \in new : j <= last
      BY <1>1, <1>5, <3>1
    <3> HIDE DEF new, last
    <3> QED
      BY <3>2
  <2>2. Rank(new, last) = Len(t)
    BY <1>6, <2>1 DEF Rank
  <2>3. last \in new /\ file'[last].of = a
    BY <1>1, <1>5, PieceFields
  <2>4. \A i \in new : t[Rank(new, i)] = file'[i].of
    BY <1>1, EntriesTaken
  <2> HIDE DEF new, t, last
  <2> QED
    BY <2>2, <2>3, <2>4
<1> HIDE DEF old, new, s, t, last
<1>10. t = Append(s, a)
  <2>1. Append(s, a) \in Seq(Appends) /\ Len(Append(s, a)) = Len(s) + 1
        /\ (\A k \in 1..Len(s) : Append(s, a)[k] = s[k]) /\ Append(s, a)[Len(s) + 1] = a
    BY <1>6
  <2>2. \A k \in 1..Len(t) : t[k] = Append(s, a)[k]
    BY <1>7, <1>8, <1>9, <2>1
  <2> QED
    BY <1>6, <1>7, <2>1, <2>2
<1> QED
  BY <1>2, <1>10 DEF s, t

\* The empty file has whole lines, and no entry.
LEMMA WholeInit ==
  ASSUME Init
  PROVE  WholeInv /\ Entries(file) = << >> /\ Readable(file)
<1>1. DOMAIN file = {} /\ Len(file) = 0 /\ WrittenInv
  <2>1. file = << >>
    BY DEF Init
  <2> QED
    BY <2>1, WrittenInit
<1>2. WholeInv
  BY <1>1 DEF WholeInv, Whole, EndsLine, Init
<1>3. Starts(file) = {} /\ Taken(file) = {}
  BY <1>1 DEF Starts, Taken
<1>4. Entries(file) = << >>
  <2>1. Entries(file) \in Seq(Appends \ NotFinite) /\ Len(Entries(file)) = 0
    BY <1>1, <1>3, EntriesTaken, FS_EmptySet DEF WrittenInv
  <2> QED
    BY <2>1
<1> QED
  BY <1>2, <1>3, <1>4 DEF Readable

\* A write is a push, the return of appendFile is the acknowledgement, and what else an
\* append goes through the store does not see.
LEMMA StoreStep ==
  ASSUME WholeWrites, NotFinite = {}, WholeInv, [Next]_vars
  PROVE  [Store!Next]_(Store!vars)
<1> DEFINE Done == {a \in Appends : pc[a] = "resolved"}
<1>1. Readable(file)
  BY WholeReads DEF WholeInv, WrittenInv
<1>2. ASSUME NEW a \in Appends, Write(a)
      PROVE  Store!Push(a)
  <2>1. a \notin ToSet(Entries(file)) /\ Entries(file') = Append(Entries(file), a)
    BY <1>2, WriteIsAPush
  <2>2. pc' = pc /\ UNCHANGED readVars
    BY <1>2 DEF Write
  <2> QED
    BY <2>1, <2>2 DEF Store!Push, ToSet, Store!ToSet, readVars
<1>3. ASSUME NEW a \in Appends, Resolve(a)
      PROVE  Store!Acknowledge(a)
  <2>1. UNCHANGED <<file, readVars>> /\ written[a] = Pieces
    BY <1>3 DEF Resolve
  <2>2. a \in ToSet(Entries(file))
    BY <1>1, <2>1, WrittenIsListed DEF WholeInv
  <2>3. Done' = Done \cup {a}
    BY <1>3 DEF Resolve, WholeInv, WrittenInv
  <2> QED
    BY <2>1, <2>2, <2>3 DEF Store!Acknowledge, ToSet, Store!ToSet, readVars
<1>4. ASSUME NEW a \in Appends, MakeDirectory(a) \/ AppendFails(a) \/ ProcessDies(a)
      PROVE  UNCHANGED Store!vars
  <2>1. UNCHANGED <<file, readVars>>
    BY <1>4 DEF MakeDirectory, AppendFails, ProcessDies
  <2>2. Done' = Done
    BY <1>4 DEF MakeDirectory, AppendFails, ProcessDies, WholeInv, WrittenInv
  <2> QED
    BY <2>1, <2>2 DEF Store!vars, readVars
<1>5. ASSUME List
      PROVE  Store!List
  BY <1>5 DEF List, Store!List, appendVars
<1>6. ASSUME NEW id \in RunIds, Get(id)
      PROVE  Store!Get(id)
  <2>1. Store!First(Entries(file), id) = First(Entries(file), id)
    BY DEF First, Store!First, Min, Store!Min
  <2> QED
    BY <1>6, <2>1 DEF Get, Store!Get, appendVars
<1>7. CASE UNCHANGED vars
  BY <1>7 DEF vars, appendVars, readVars, Store!vars
<1>8. ~ReadThrows
  BY <1>1 DEF ReadThrows
<1>9. CASE \E a \in Appends : \/ MakeDirectory(a) \/ Write(a) \/ Resolve(a)
                               \/ AppendFails(a) \/ ProcessDies(a)
  <2>1. (\E a \in Appends : Store!Push(a) \/ Store!Acknowledge(a)) \/ UNCHANGED Store!vars
    BY <1>2, <1>3, <1>4, <1>9
  <2> QED
    BY <2>1 DEF Store!Next
<1>10. CASE List \/ \E id \in RunIds : Get(id)
  BY <1>5, <1>6, <1>10 DEF Store!Next
<1> QED
  BY <1>7, <1>8, <1>9, <1>10 DEF Next

\* When appendFile writes each line at once and no time is NaN, the log in a file is the
\* store in memory: an append takes effect at its write, list() and get() answer from all
\* of them, and reading does not throw, whatever dies or fails.
THEOREM LogImplementsStore ==
  ASSUME WholeWrites, NotFinite = {}
  PROVE  Spec => ImplementsStore
<1>1. Init => WholeInv /\ Store!Init
  BY WholeInit DEF Init, Store!Init
<1>2. WholeInv /\ [Next]_vars => WholeInv'
  BY WholeStep
<1>3. WholeInv => Readable(file)
  BY WholeReads DEF WholeInv, WrittenInv
<1>4. WholeInv /\ [Next]_vars => [Store!Next]_(Store!vars)
  BY StoreStep
<1> QED
  BY <1>1, <1>2, <1>3, <1>4, PTL DEF Spec, ImplementsStore, Store!Spec
==============================================================================
