--------------------------- MODULE SplitProxyProofs --------------------------
(***************************************************************************)
(* What the split proxy does to a byte stream, proved for every list of    *)
(* requests, every list of rules, and every order in which the coroutines, *)
(* the ends and the garbage collector take their steps.                    *)
(*                                                                         *)
(* A stream is compared with its frames, so the first half is about these: *)
(* frames of a stream that begins with whole frames (FramesConcat), what   *)
(* the rules and the target make of them (StreamBegins, AnswersConcat).    *)
(* The inductive invariant then names, for each direction, the whole       *)
(* frames its pipe has taken, as many as it has counted, followed by what  *)
(* is on its way to it (Carried), and those the target has served,         *)
(* followed by what it still holds (Served).  A step that ends something   *)
(* only loses bytes of the tail (Ageing).                                  *)
(***************************************************************************)
EXTENDS SplitProxy, Recursion, FiniteSetTheorems

Bytes == Seq(Byte)

\* The stream t begins with s.
Begins(s, t) == \E u \in Bytes : t = s \o u

\* To begin with is to have as a prefix, and it is transitive.
LEMMA BeginsFacts ==
    ASSUME NEW s \in Bytes, NEW t \in Bytes, Begins(s, t)
    PROVE  /\ IsPrefix(s, t)
           /\ \A r \in Bytes : Begins(r, s) => Begins(r, t)
<1>1. PICK u \in Bytes : t = s \o u
  BY DEF Begins
<1>2. IsPrefix(s, t)
  <2>1. /\ Len(t) = Len(s) + Len(u) /\ Len(s) \in Nat /\ Len(u) \in Nat
        /\ \A i \in 1..Len(s) : t[i] = s[i]
    BY <1>1, ConcatProperties, LenProperties DEF Bytes
  <2>2. SubSeq(s, 1, Len(s)) = SubSeq(t, 1, Len(s))
    BY <2>1 DEF Bytes
  <2> QED BY <2>1, <2>2 DEF IsPrefix
<1>3. ASSUME NEW r \in Bytes, Begins(r, s) PROVE Begins(r, t)
  <2>1. PICK v \in Bytes : s = r \o v
    BY <1>3 DEF Begins
  <2>2. t = r \o (v \o u) /\ v \o u \in Bytes
    BY <1>1, <2>1, ConcatAssociative, ConcatProperties DEF Bytes
  <2> QED BY <2>2 DEF Begins
<1> QED BY <1>2, <1>3

-----------------------------------------------------------------------------
(* Frames *)

\* A stream that begins with a whole frame is the frame and a shorter stream.
LEMMA FrameParts ==
    ASSUME NEW s \in Bytes, Complete(s)
    PROVE  /\ FirstFrame(s) \in Bytes /\ AfterFrame(s) \in Bytes
           /\ s = FirstFrame(s) \o AfterFrame(s)
           /\ Len(AfterFrame(s)) < Len(s) /\ Len(FirstFrame(s)) = FrameLength(s)
           /\ FrameLength(s) \in Nat /\ FrameLength(s) >= HEADER_SIZE
           /\ \A i \in 1..FrameLength(s) : FirstFrame(s)[i] = s[i]
<1>1. Len(s) \in Nat /\ Len(s) >= 3 /\ \A i \in 1..Len(s) : s[i] \in Nat
  <2>1. s \in Seq(Byte) /\ \A b \in Byte : b \in Nat
    BY DEF Bytes, Byte
  <2>2. Len(s) >= 3
    BY DEF Complete, HEADER_SIZE
  <2> QED BY ONLY <2>1, <2>2, LenProperties
<1>2. PICK n : n = FrameLength(s)
  OBVIOUS
<1>3. n \in Nat /\ n >= 3 /\ n <= Len(s)
  <2>1. Plen(s) \in Nat
    BY <1>1 DEF Plen
  <2> QED BY <1>2, <2>1 DEF FrameLength, Complete, HEADER_SIZE
<1>4. PICK f : f = SubSeq(s, 1, n)
  OBVIOUS
<1>5. PICK r : r = SubSeq(s, n + 1, Len(s))
  OBVIOUS
<1>6. /\ f \in Bytes /\ Len(f) = n /\ \A i \in 1..n : f[i] = s[i]
      /\ r \in Bytes /\ Len(r) = Len(s) - n /\ \A i \in 1..(Len(s) - n) : r[i] = s[n + i]
  BY <1>1, <1>3, <1>4, <1>5 DEF Bytes
<1>7. s = f \o r
  <2>1. f \o r \in Bytes /\ Len(f \o r) = Len(s)
        /\ \A i \in 1..Len(s) : (f \o r)[i] = IF i <= n THEN f[i] ELSE r[i - n]
    BY <1>1, <1>3, <1>6, ConcatProperties DEF Bytes
  <2>2. \A i \in 1..Len(s) : (f \o r)[i] = s[i]
    BY <1>1, <1>3, <1>6, <2>1
  <2> QED BY <2>1, <2>2, SeqEqual DEF Bytes
<1>8. FirstFrame(s) = f /\ AfterFrame(s) = r
  BY <1>2, <1>4, <1>5 DEF FirstFrame, AfterFrame
<1>9. Len(r) < Len(s) /\ n >= HEADER_SIZE
  BY <1>1, <1>3, <1>6 DEF HEADER_SIZE
<1> QED BY ONLY <1>2, <1>3, <1>6, <1>7, <1>8, <1>9

\* A frame that is at the head of a stream is there whatever follows it.
LEMMA FrameStays ==
    ASSUME NEW s \in Bytes, Complete(s), NEW u \in Bytes
    PROVE  /\ Complete(s \o u) /\ FirstFrame(s \o u) = FirstFrame(s)
           /\ AfterFrame(s \o u) = AfterFrame(s) \o u
<1>1. PICK t : t = s \o u
  OBVIOUS
<1>2. /\ Len(s) \in Nat /\ Len(u) \in Nat /\ Len(s) >= 3 /\ t \in Bytes /\ Len(t) = Len(s) + Len(u)
      /\ \A i \in 1..Len(s) : t[i] = s[i] /\ s[i] \in Byte
  BY <1>1, ConcatProperties, LenProperties, ElementOfSeq DEF Complete, HEADER_SIZE, Bytes
<1>3. FrameLength(t) = FrameLength(s)
  BY <1>2 DEF FrameLength, Plen
<1>4. Complete(t)
  <2>1. FrameLength(s) <= Len(s) /\ FrameLength(s) \in Nat
    BY FrameParts DEF Complete
  <2> QED BY <1>2, <1>3, <2>1 DEF Complete, HEADER_SIZE
<1>5. PICK f : f = FirstFrame(s)
  OBVIOUS
<1>6. PICK r : r = AfterFrame(s)
  OBVIOUS
<1>7. f \in Bytes /\ r \in Bytes /\ s = f \o r /\ Len(f) = FrameLength(s)
  BY <1>5, <1>6, FrameParts
<1>8. t = f \o (r \o u) /\ r \o u \in Bytes
  BY <1>1, <1>7, ConcatAssociative, ConcatProperties DEF Bytes
<1>9. PICK g : g = FirstFrame(t)
  OBVIOUS
<1>10. PICK q : q = AfterFrame(t)
  OBVIOUS
<1>11. g \in Bytes /\ q \in Bytes /\ t = g \o q /\ Len(g) = Len(f) /\ \A i \in 1..Len(f) : g[i] = t[i]
  <2>1. /\ FirstFrame(t) \in Bytes /\ AfterFrame(t) \in Bytes
        /\ t = FirstFrame(t) \o AfterFrame(t)
        /\ Len(FirstFrame(t)) = FrameLength(t)
        /\ \A i \in 1..FrameLength(t) : FirstFrame(t)[i] = t[i]
    BY ONLY <1>2, <1>4, FrameParts
  <2> QED BY ONLY <2>1, <1>3, <1>7, <1>9, <1>10
<1>12. \A i \in 1..Len(f) : f[i] = t[i]
  BY <1>7, <1>8, ConcatProperties, LenProperties DEF Bytes
<1>13. f = g
  BY <1>7, <1>11, <1>12, SeqEqual DEF Bytes
<1>14. q = r \o u
  BY <1>7, <1>8, <1>11, <1>13, ConcatSimplifications DEF Bytes
<1> QED BY <1>1, <1>4, <1>5, <1>6, <1>9, <1>10, <1>13, <1>14

\* A frame has a header.
Framed == {f \in Bytes : Len(f) >= HEADER_SIZE}

\* The frames of a stream: the first, then those of the rest.
LEMMA FramesUnfold ==
    ASSUME NEW s \in Bytes
    PROVE  /\ Frames(s) \in Seq(Framed)
           /\ Frames(s) = IF Complete(s) THEN <<FirstFrame(s)>> \o Frames(AfterFrame(s)) ELSE <<>>
<1> DEFINE Solves(f) == f = [x \in Seq(Byte) |-> IF Complete(x) THEN <<FirstFrame(x)>> \o f[AfterFrame(x)]
                                                ELSE <<>>]
           from == CHOOSE f : Solves(f)
           measure == [x \in Bytes |-> Len(x)]
           stop == {x \in Bytes : ~Complete(x)}
           base == [x \in Bytes |-> <<>>]
           next == [x \in Bytes |-> IF Complete(x) THEN AfterFrame(x) ELSE x]
           step == [p \in Bytes \X Seq(Framed) |->
                      IF Complete(p[1]) THEN <<FirstFrame(p[1])>> \o p[2] ELSE <<>>]
<1>1. ASSUME NEW x \in Bytes, Complete(x)
      PROVE  /\ AfterFrame(x) \in Bytes /\ Len(AfterFrame(x)) < Len(x)
             /\ FirstFrame(x) \in Framed /\ <<FirstFrame(x)>> \in Seq(Framed)
  <2>1. /\ FirstFrame(x) \in Bytes /\ AfterFrame(x) \in Bytes
        /\ Len(AfterFrame(x)) < Len(x) /\ Len(FirstFrame(x)) >= HEADER_SIZE
    BY <1>1, FrameParts
  <2>2. FirstFrame(x) \in Framed
    BY ONLY <2>1 DEF Framed
  <2>3. <<FirstFrame(x)>> \in Seq(Framed)
    BY ONLY <2>2
  <2> QED BY <2>1, <2>2, <2>3
<1>2. Descends(Bytes, Seq(Framed), measure, stop, base, next, step)
  <2>1. measure \in [Bytes -> Nat]
    BY LenProperties DEF Bytes
  <2>2. stop \in SUBSET Bytes
    OBVIOUS
  <2>3. base \in [Bytes -> Seq(Framed)]
    <3>1. <<>> \in Seq(Framed)
      OBVIOUS
    <3> QED BY <3>1
  <2>4. next \in [Bytes -> Bytes]
    BY <1>1
  <2>5. step \in [Bytes \X Seq(Framed) -> Seq(Framed)]
    <3>1. ASSUME NEW p \in Bytes \X Seq(Framed), Complete(p[1])
          PROVE  <<FirstFrame(p[1])>> \o p[2] \in Seq(Framed)
      <4>1. p[1] \in Bytes /\ p[2] \in Seq(Framed)
        OBVIOUS
      <4>2. <<FirstFrame(p[1])>> \in Seq(Framed)
        BY <1>1, <3>1, <4>1
      <4> QED BY ONLY <4>1, <4>2, ConcatProperties
    <3>2. <<>> \in Seq(Framed)
      OBVIOUS
    <3> QED BY <3>1, <3>2
  <2>6. \A x \in Bytes \ stop : measure[next[x]] < measure[x]
    BY <1>1
  <2> HIDE DEF measure, stop, base, next, step
  <2> QED BY ONLY <2>1, <2>2, <2>3, <2>4, <2>5, <2>6 DEF Descends
<1>3. PICK g : Unfolds(Bytes, Seq(Framed), stop, base, next, step, g)
  <2> HIDE DEF measure, stop, base, next, step
  <2> QED BY ONLY <1>2, RecursionByMeasure
<1>4. /\ g \in [Bytes -> Seq(Framed)]
      /\ \A x \in Bytes : g[x] = IF x \in stop THEN base[x] ELSE step[<<x, g[next[x]]>>]
  <2> HIDE DEF measure, stop, base, next, step
  <2> QED BY ONLY <1>3 DEF Unfolds
<1>5. ASSUME NEW x \in Bytes
      PROVE  g[x] = IF Complete(x) THEN <<FirstFrame(x)>> \o g[AfterFrame(x)] ELSE <<>>
  <2>1. CASE ~Complete(x)
    <3>1. x \in stop /\ base[x] = <<>>
      BY <2>1
    <3> HIDE DEF measure, stop, base, next, step
    <3> QED BY <1>4, <2>1, <3>1
  <2>2. CASE Complete(x)
    <3>1. x \notin stop /\ next[x] = AfterFrame(x) /\ AfterFrame(x) \in Bytes
      BY <2>2, <1>1
    <3>2. <<x, g[AfterFrame(x)]>> \in Bytes \X Seq(Framed)
      BY <1>4, <3>1
    <3>3. step[<<x, g[AfterFrame(x)]>>] = <<FirstFrame(x)>> \o g[AfterFrame(x)]
      BY ONLY <2>2, <3>2
    <3> HIDE DEF measure, stop, base, next, step
    <3> QED BY <1>4, <2>2, <3>1, <3>3
  <2> QED BY <2>1, <2>2
<1>6. Solves(g)
  BY ONLY <1>4, <1>5 DEF Bytes
<1>7. Solves(from)
  <2> HIDE DEF Solves
  <2> QED BY <1>6
<1> HIDE DEF from
<1>8. ASSUME NEW x \in Bytes
      PROVE  from[x] = IF Complete(x) THEN <<FirstFrame(x)>> \o from[AfterFrame(x)] ELSE <<>>
  BY ONLY <1>7, x \in Bytes DEF Bytes
<1>9. \A x : Frames(x) = from[x]
  BY DEF Frames, from
<1>10. \A x \in Bytes : from[x] \in Seq(Framed)
  <2> DEFINE Bad == {Len(x) : x \in {y \in Bytes : from[y] \notin Seq(Framed)}}
  <2> SUFFICES ASSUME Bad # {} PROVE FALSE
    OBVIOUS
  <2>1. PICK k \in Bad : \A j \in Bad : k <= j
    <3>1. Bad \in SUBSET Nat
      BY LenProperties DEF Bytes
    <3> HIDE DEF Bad
    <3> QED BY <3>1, LeastNat
  <2>2. PICK x \in Bytes : from[x] \notin Seq(Framed) /\ k = Len(x)
    BY <2>1
  <2>3. Complete(x)
    <3>1. <<>> \in Seq(Framed)
      OBVIOUS
    <3> QED BY <1>8, <2>2, <3>1
  <2>4. /\ AfterFrame(x) \in Bytes /\ Len(AfterFrame(x)) < Len(x)
        /\ <<FirstFrame(x)>> \in Seq(Framed)
    BY <1>1, <2>2, <2>3
  <2>5. from[AfterFrame(x)] \in Seq(Framed)
    <3>1. Len(AfterFrame(x)) \in Nat /\ k \in Nat
      BY <2>2, <2>4, LenProperties DEF Bytes
    <3>2. Len(AfterFrame(x)) \notin Bad
      <4> HIDE DEF Bad
      <4> QED BY <2>1, <2>2, <2>4, <3>1
    <3> QED BY <2>4, <3>2
  <2>6. from[x] = <<FirstFrame(x)>> \o from[AfterFrame(x)]
    BY <1>8, <2>2, <2>3
  <2>7. from[x] \in Seq(Framed)
    BY ONLY <2>4, <2>5, <2>6, ConcatProperties
  <2> QED BY <2>2, <2>7
<1> QED BY <1>8, <1>9, <1>10

\* Nothing has no frames.
LEMMA NoFrame == Frames(<<>>) = <<>>
<1>1. <<>> \in Bytes /\ ~Complete(<<>>)
  BY DEF Bytes, Complete, HEADER_SIZE
<1> QED BY <1>1, FramesUnfold

\* A stream of whole frames.
Whole(s) == s \in Bytes /\ FlattenSeq(Frames(s)) = s

\* What is left of a stream of whole frames after the first is one.
LEMMA WholeParts ==
    ASSUME NEW s, Whole(s), s # <<>>
    PROVE  Complete(s) /\ Whole(AfterFrame(s))
<1>0. s \in Bytes /\ FlattenSeq(Frames(s)) = s
  BY DEF Whole
<1>1. Complete(s)
  <2>1. ~Complete(s) => Frames(s) = <<>>
    BY <1>0, FramesUnfold
  <2>2. FlattenSeq(<<>>) = <<>>
    BY <1>0, FlattenOne DEF Bytes
  <2> QED BY <1>0, <2>1, <2>2
<1>2. PICK f : f = FirstFrame(s)
  OBVIOUS
<1>3. PICK r : r = AfterFrame(s)
  OBVIOUS
<1>4. f \in Bytes /\ r \in Bytes /\ s = f \o r
  BY <1>0, <1>1, <1>2, <1>3, FrameParts
<1>5. Frames(s) = <<f>> \o Frames(r) /\ Frames(r) \in Seq(Bytes) /\ <<f>> \in Seq(Bytes)
  <2>1. Frames(s) = <<f>> \o Frames(r)
    BY <1>0, <1>1, <1>2, <1>3, FramesUnfold
  <2>2. Frames(r) \in Seq(Framed)
    BY <1>4, FramesUnfold
  <2>3. Frames(r) \in Seq(Bytes)
    BY <2>2 DEF Framed
  <2> QED BY <1>4, <2>1, <2>3
<1>6. PICK q : q = Frames(r)
  OBVIOUS
<1>7. FlattenSeq(<<f>> \o q) = FlattenSeq(<<f>>) \o FlattenSeq(q) /\ FlattenSeq(q) \in Bytes
      /\ FlattenSeq(<<f>>) = f
  <2>1. q \in Seq(Seq(Byte)) /\ <<f>> \in Seq(Seq(Byte)) /\ f \in Seq(Byte)
    BY <1>4, <1>5, <1>6 DEF Bytes
  <2> QED BY ONLY <2>1, FlattenConcat, FlattenType, FlattenOne DEF Bytes
<1>8. f \o r = f \o FlattenSeq(q)
  BY <1>0, <1>4, <1>5, <1>6, <1>7
<1>9. FlattenSeq(q) = r
  <2>1. f \in Seq(Byte) /\ r \in Seq(Byte) /\ FlattenSeq(q) \in Seq(Byte)
    BY <1>4, <1>7 DEF Bytes
  <2> QED BY ONLY <1>8, <2>1, ConcatSimplifications
<1> QED BY <1>1, <1>3, <1>4, <1>6, <1>9 DEF Whole

\* The frames of a stream that begins with whole frames.
LEMMA FramesConcat ==
    ASSUME NEW s, Whole(s), NEW u \in Bytes
    PROVE  Frames(s \o u) = Frames(s) \o Frames(u)
<1> DEFINE Good(x) == Frames(x \o u) = Frames(x) \o Frames(u)
           Bad == {Len(x) : x \in {y \in Bytes : Whole(y) /\ ~Good(y)}}
<1> SUFFICES ASSUME Bad # {} PROVE FALSE
  <2>1. s \in Bytes
    BY DEF Whole
  <2> QED BY <2>1
<1>1. PICK k \in Bad : \A j \in Bad : k <= j
  <2>1. Bad \in SUBSET Nat
    BY LenProperties DEF Bytes
  <2> HIDE DEF Bad
  <2> QED BY <2>1, LeastNat
<1>2. PICK x \in Bytes : Whole(x) /\ ~Good(x) /\ k = Len(x)
  BY <1>1
<1>3. Frames(u) \in Seq(Framed)
  BY FramesUnfold
<1>4. x # <<>>
  <2>1. <<>> \o u = u
    BY ConcatEmptySeq DEF Bytes
  <2>2. <<>> \o Frames(u) = Frames(u)
    BY <1>3, ConcatEmptySeq
  <2> QED BY <1>2, <2>1, <2>2, NoFrame
<1>5. Complete(x) /\ Whole(AfterFrame(x))
  BY ONLY <1>2, <1>4, WholeParts
<1>6. PICK r : r = AfterFrame(x)
  OBVIOUS
<1>7. PICK f : f = FirstFrame(x)
  OBVIOUS
<1>8. r \in Bytes /\ Len(r) < Len(x) /\ f \in Framed
  <2>1. AfterFrame(x) \in Bytes /\ Len(AfterFrame(x)) < Len(x) /\ FirstFrame(x) \in Bytes
        /\ Len(FirstFrame(x)) >= HEADER_SIZE
    BY ONLY <1>2, <1>5, FrameParts
  <2> QED BY ONLY <1>6, <1>7, <2>1 DEF Framed
<1>9. Good(r)
  <2>1. Len(r) \in Nat /\ k \in Nat
    BY <1>2, <1>8, LenProperties DEF Bytes
  <2>2. Len(r) \notin Bad
    <3> HIDE DEF Bad
    <3> QED BY <1>1, <1>2, <1>8, <2>1
  <2>3. Whole(r)
    BY <1>5, <1>6
  <2> HIDE DEF Good
  <2> QED BY <1>8, <2>2, <2>3
<1>10. Complete(x \o u) /\ FirstFrame(x \o u) = f /\ AfterFrame(x \o u) = r \o u
  BY ONLY <1>2, <1>5, <1>6, <1>7, FrameStays, u \in Bytes
<1>11. x \o u \in Bytes
  BY <1>2, ConcatProperties DEF Bytes
<1>12. Frames(x \o u) = <<f>> \o Frames(r \o u)
  BY ONLY <1>10, <1>11, FramesUnfold
<1>13. Frames(x) = <<f>> \o Frames(r)
  BY ONLY <1>2, <1>5, <1>6, <1>7, FramesUnfold
<1>14. <<f>> \in Seq(Framed) /\ Frames(r) \in Seq(Framed)
  <2>1. <<f>> \in Seq(Framed)
    BY ONLY <1>8
  <2>2. Frames(r) \in Seq(Framed)
    BY ONLY <1>8, FramesUnfold
  <2> QED BY ONLY <2>1, <2>2
<1>15. (<<f>> \o Frames(r)) \o Frames(u) = <<f>> \o (Frames(r) \o Frames(u))
  BY ONLY <1>3, <1>14, Regroup
<1> QED BY <1>2, <1>9, <1>12, <1>13, <1>15

\* One more frame.
LEMMA WholeAppend ==
    ASSUME NEW s, Whole(s), NEW u \in Bytes, Complete(u)
    PROVE  /\ Whole(s \o FirstFrame(u))
           /\ Frames(s \o FirstFrame(u)) = Frames(s) \o <<FirstFrame(u)>>
<1>1. PICK f : f = FirstFrame(u)
  OBVIOUS
<1>2. /\ f \in Bytes /\ Len(f) = FrameLength(u) /\ FrameLength(u) \in Nat /\ FrameLength(u) >= 3
      /\ \A i \in 1..FrameLength(u) : f[i] = u[i]
  BY <1>1, FrameParts DEF HEADER_SIZE
<1>3. FrameLength(f) = FrameLength(u)
  <2>1. f[2] = u[2] /\ f[3] = u[3]
    BY ONLY <1>2
  <2> QED BY ONLY <2>1 DEF FrameLength, Plen
<1>4. Complete(f)
  BY ONLY <1>2, <1>3 DEF Complete, HEADER_SIZE
<1>5. FirstFrame(f) = f /\ AfterFrame(f) = <<>>
  <2>1. SubSeq(f, 1, Len(f)) = f
    BY ONLY <1>2, SubSeqFull DEF Bytes
  <2>2. SubSeq(f, Len(f) + 1, Len(f)) = <<>>
    BY ONLY <1>2, SubSeqEmpty
  <2> QED BY ONLY <1>2, <1>3, <2>1, <2>2 DEF FirstFrame, AfterFrame
<1>6. Frames(f) = <<f>>
  <2>1. Frames(f) = <<f>> \o <<>>
    BY <1>2, <1>4, <1>5, FramesUnfold, NoFrame
  <2>2. <<f>> \in Seq(Bytes)
    BY <1>2
  <2> QED BY ONLY <2>1, <2>2, ConcatEmptySeq
<1>7. Frames(s \o f) = Frames(s) \o <<f>>
  BY <1>2, <1>6, FramesConcat
<1>8. Whole(s \o f)
  <2>1. s \in Seq(Byte) /\ FlattenSeq(Frames(s)) = s
    BY DEF Whole, Bytes
  <2>2. Frames(s) \in Seq(Framed)
    BY <2>1, FramesUnfold DEF Bytes
  <2>3. Frames(s) \in Seq(Seq(Byte)) /\ <<f>> \in Seq(Seq(Byte)) /\ f \in Seq(Byte)
    BY <1>2, <2>2 DEF Framed, Bytes
  <2>4. FlattenSeq(Frames(s) \o <<f>>) = FlattenSeq(Frames(s)) \o FlattenSeq(<<f>>)
    BY ONLY <2>3, FlattenConcat
  <2>5. FlattenSeq(<<f>>) = f
    BY ONLY <2>3, FlattenOne
  <2>6. s \o f \in Bytes
    BY ONLY <2>1, <2>3, ConcatProperties DEF Bytes
  <2> QED BY ONLY <1>7, <2>1, <2>4, <2>5, <2>6 DEF Whole
<1> QED BY <1>1, <1>7, <1>8

\* The powers of two are positive numbers.
LEMMA TwoToType == \A bit \in Nat : twoTo[bit] \in Nat \ {0}
<1> DEFINE Solves(f) == f = [bit \in Nat |-> IF bit = 0 THEN 1 ELSE 2 * f[bit - 1]]
           Pos == Nat \ {0}
           measure == [x \in Nat |-> x]
           base == [x \in Nat |-> 1]
           next == [x \in Nat |-> IF x = 0 THEN 0 ELSE x - 1]
           step == [p \in Nat \X Pos |-> 2 * p[2]]
<1>1. Descends(Nat, Pos, measure, {0}, base, next, step)
  <2>1. measure \in [Nat -> Nat] /\ {0} \in SUBSET Nat /\ base \in [Nat -> Pos]
    OBVIOUS
  <2>2. next \in [Nat -> Nat]
    OBVIOUS
  <2>3. step \in [Nat \X Pos -> Pos]
    OBVIOUS
  <2>4. \A x \in Nat \ {0} : measure[next[x]] < measure[x]
    OBVIOUS
  <2> HIDE DEF measure, base, next, step, Pos
  <2> QED BY <2>1, <2>2, <2>3, <2>4 DEF Descends
<1>2. PICK g : Unfolds(Nat, Pos, {0}, base, next, step, g)
  <2> HIDE DEF measure, base, next, step, Pos
  <2> QED BY ONLY <1>1, RecursionByMeasure
<1>3. /\ g \in [Nat -> Pos]
      /\ \A x \in Nat : g[x] = IF x \in {0} THEN base[x] ELSE step[<<x, g[next[x]]>>]
  <2> HIDE DEF measure, base, next, step, Pos
  <2> QED BY ONLY <1>2 DEF Unfolds
<1>4. ASSUME NEW x \in Nat PROVE g[x] = IF x = 0 THEN 1 ELSE 2 * g[x - 1]
  <2>1. CASE x = 0
    BY <1>3, <2>1
  <2>2. CASE x # 0
    <3>1. next[x] = x - 1 /\ x - 1 \in Nat
      BY <2>2
    <3>2. <<x, g[x - 1]>> \in Nat \X Pos
      BY <1>3, <3>1
    <3>3. step[<<x, g[x - 1]>>] = 2 * g[x - 1]
      BY ONLY <3>2
    <3> HIDE DEF measure, base, next, step, Pos
    <3> QED BY <1>3, <2>2, <3>1, <3>3
  <2> QED BY <2>1, <2>2
<1>5. Solves(g)
  BY ONLY <1>3, <1>4
<1>6. Solves(twoTo)
  <2>1. twoTo = CHOOSE f : Solves(f)
    BY DEF twoTo
  <2> HIDE DEF Solves
  <2> QED BY <1>5, <2>1
<1>7. \A x \in Nat : twoTo[x] = IF x = 0 THEN 1 ELSE 2 * twoTo[x - 1]
  BY ONLY <1>6
<1> DEFINE T == {x \in Nat : twoTo[x] \in Pos}
<1>8. 0 \in T
  BY <1>7
<1>9. ASSUME NEW x \in T PROVE x + 1 \in T
  <2>1. twoTo[x + 1] = 2 * twoTo[(x + 1) - 1] /\ (x + 1) - 1 = x /\ x + 1 \in Nat /\ twoTo[x] \in Pos
    BY <1>7
  <2> QED BY ONLY <2>1
<1>10. T \in SUBSET Nat
  OBVIOUS
<1>11. T = Nat
  <2> HIDE DEF T
  <2> QED BY <1>8, <1>9, <1>10, InductionOnNat
<1> QED BY <1>11

\* An octet.
LEMMA Octets == \A n \in Int : n % 256 \in Byte
BY DEF Byte

\* The bytes of an integer are bytes.
LEMMA LittleEndianType ==
    ASSUME NEW n \in Int, NEW width \in {1, 2}
    PROVE  LittleEndian(n, width) \in Bytes
<1>1. ASSUME NEW i \in 1..width PROVE (n \div 256^(i - 1)) % 256 \in Byte
  <2>1. i = 1 \/ i = 2
    OBVIOUS
  <2>2. 256^0 = 1 /\ 256^1 = 256
    OBVIOUS
  <2>3. 256^(i - 1) = 1 \/ 256^(i - 1) = 256
    <3>1. i - 1 = 0 \/ i - 1 = 1
      BY ONLY <2>1
    <3> QED BY ONLY <2>2, <3>1
  <2>4. n \div 256^(i - 1) \in Int
    BY ONLY <2>3, n \in Int
  <2> QED BY ONLY <2>4, Octets
<1> HIDE DEF Byte
<1>2. width \in Nat
  OBVIOUS
<1> QED BY ONLY <1>1, <1>2 DEF LittleEndian, Bytes

\* Overwriting bytes of a frame gives a frame of the same length.
LEMMA OverwriteType ==
    ASSUME NEW f \in Framed, NEW offset \in {1, 2}, NEW bytes \in Bytes
    PROVE  Overwrite(f, offset, bytes) \in Framed
<1>1. PICK n : n = Len(f)
  OBVIOUS
<1>2. PICK m : m = Len(bytes)
  OBVIOUS
<1>3. f \in Seq(Byte) /\ n \in Nat /\ n >= 3 /\ m \in Nat /\ bytes \in Seq(Byte)
  BY <1>1, <1>2, LenProperties DEF Framed, Bytes, HEADER_SIZE
<1>4. PICK x : x = SubSeq(f, 1, offset - 1)
  OBVIOUS
<1>5. PICK y : y = SubSeq(f, offset + m, n)
  OBVIOUS
<1>6. x \in Seq(Byte) /\ Len(x) = offset - 1
  <2>1. offset - 1 \in Int /\ 1 <= offset /\ offset - 1 <= n
    BY <1>3
  <2> QED BY <1>1, <1>3, <1>4, <2>1, SubSeqProperties
<1>7. y \in Seq(Byte) /\ Len(y) >= n - offset - m + 1 /\ Len(y) \in Nat
  <2>1. offset + m >= 1 /\ offset + m \in Int
    BY <1>3
  <2> QED BY <1>1, <1>3, <1>5, <2>1, SubSeqProperties
<1>8. PICK xb : xb = x \o bytes
  OBVIOUS
<1>9. xb \in Seq(Byte) /\ Len(xb) = offset - 1 + m
  BY <1>2, <1>3, <1>6, <1>8, ConcatProperties
<1>10. xb \o y \in Seq(Byte) /\ Len(xb \o y) = Len(xb) + Len(y)
  BY <1>7, <1>9, ConcatProperties
<1>11. Len(xb \o y) >= 3
  BY <1>3, <1>7, <1>9, <1>10
<1>12. Overwrite(f, offset, bytes) = xb \o y
  BY <1>1, <1>2, <1>4, <1>5, <1>8 DEF Overwrite
<1> QED BY ONLY <1>10, <1>11, <1>12 DEF Framed, Bytes, HEADER_SIZE

\* A mutation that does not raise leaves a frame a frame.
LEMMA ApplyType ==
    ASSUME NEW f \in Framed, NEW m \in Mutations, ~Raises(m)
    PROVE  Apply(f, m) \in Framed
<1>1. PICK offset \in {1, 2} : offset = FIELD_LAYOUT[m.path][1]
  <2>1. m.path \in DOMAIN FIELD_LAYOUT
    BY DEF Raises
  <2> QED BY <2>1 DEF FIELD_LAYOUT
<1>2. PICK width \in {1, 2} : width = FIELD_LAYOUT[m.path][2]
  <2>1. m.path \in DOMAIN FIELD_LAYOUT
    BY DEF Raises
  <2> QED BY <2>1 DEF FIELD_LAYOUT
<1>3. offset + width - 1 <= 3
  <2>1. m.path \in DOMAIN FIELD_LAYOUT
    BY DEF Raises
  <2> QED BY <2>1, <1>1, <1>2 DEF FIELD_LAYOUT
<1>4. /\ f \in Seq(Byte) /\ Len(f) \in Nat /\ Len(f) >= 3 /\ \A i \in 1..Len(f) : f[i] \in Nat
  <2>1. f \in Seq(Byte) /\ Len(f) >= 3
    BY DEF Framed, Bytes, HEADER_SIZE
  <2>2. \A b \in Byte : b \in Nat
    BY DEF Byte
  <2> QED BY ONLY <2>1, <2>2, LenProperties
<1>5. Field(f, m.path) \in Nat
  BY ONLY <1>4 DEF Field, Plen
<1>6. m.n \in Int /\ m.bytes \in Bytes
  BY DEF Mutations, Bytes
<1>7. CASE m.strategy = "bit_flip"
  <2>1. m.n \in Nat
    BY <1>6, <1>7 DEF Raises
  <2>2. twoTo[m.n] \in Int
    BY <2>1, TwoToType
  <2>3. Flip(Field(f, m.path), m.n) \in Int
    BY ONLY <1>5, <2>2 DEF Flip
  <2>4. LittleEndian(Flip(Field(f, m.path), m.n), width) \in Bytes
    BY ONLY <2>3, LittleEndianType, width \in {1, 2}
  <2>5. Overwrite(f, offset, LittleEndian(Flip(Field(f, m.path), m.n), width)) \in Framed
    BY ONLY <2>4, OverwriteType, offset \in {1, 2}, f \in Framed
  <2> QED BY <1>1, <1>2, <1>7, <2>5 DEF Apply
<1>8. CASE m.strategy = "endian_swap"
  <2>1. PICK s : s = SubSeq(f, offset, offset + width - 1)
    OBVIOUS
  <2>2. s \in Seq(Byte) /\ Len(s) \in Nat /\ \A i \in 1..Len(s) : s[i] \in Byte
    <3>1. s \in Seq(Byte)
      BY <1>3, <1>4, <2>1, SubSeqProperties
    <3> QED BY ONLY <3>1, LenProperties
  <2>3. \A i \in 1..Len(s) : (Len(s) - i) + 1 \in 1..Len(s)
    BY ONLY <2>2
  <2>4. Reverse(s) \in Bytes
    <3> HIDE DEF Byte
    <3> QED BY ONLY <2>2, <2>3 DEF Reverse, Bytes
  <2>5. Overwrite(f, offset, Reverse(s)) \in Framed
    BY ONLY <2>4, OverwriteType, offset \in {1, 2}, f \in Framed
  <2> QED BY <1>1, <1>2, <1>8, <2>1, <2>5 DEF Apply
<1>9. CASE m.strategy = "value"
  <2>1. LittleEndian(m.n, width) \in Bytes
    BY ONLY <1>6, LittleEndianType, width \in {1, 2}
  <2>2. Overwrite(f, offset, LittleEndian(m.n, width)) \in Framed
    BY ONLY <2>1, OverwriteType, offset \in {1, 2}, f \in Framed
  <2> QED BY <1>1, <1>2, <1>9, <2>2 DEF Apply
<1>10. CASE m.strategy = "bytes"
  <2>1. Overwrite(f, offset, m.bytes) \in Framed
    BY ONLY <1>6, OverwriteType, offset \in {1, 2}, f \in Framed
  <2> QED BY <1>1, <1>2, <1>10, <2>1 DEF Apply
<1>11. m.strategy \in {"bit_flip", "endian_swap", "value", "bytes"}
  BY DEF Mutations, Raises
<1> QED BY ONLY <1>7, <1>8, <1>9, <1>10, <1>11

\* What the rules of rs do with the frame of a direction and an ordinal.
RaisesOf(rs, d, k) == \E i \in DOMAIN rs : Names(rs[i], d, k) /\ Raises(rs[i].mutation)
RewrittenOf(rs, d, k, frame) ==
    FoldLeft(LAMBDA f, rule : IF Names(rule, d, k) THEN Apply(f, rule.mutation) ELSE f, frame, rs)

\* The fold of the library, unfolded to the function it recurses over.
Refolded(rs, d, k, frame, iter) ==
    iter = [s \in SUBSET DOMAIN rs |->
              IF s = {} THEN frame
              ELSE IF Names(rs[Max(s)], d, k)
                   THEN Apply(iter[s \ {Max(s)}], rs[Max(s)].mutation)
                   ELSE iter[s \ {Max(s)}]]

\* The fold over the rules is the last of its steps.
LEMMA RewritingIterates ==
    ASSUME NEW rs, NEW d, NEW k, NEW frame
    PROVE  RewrittenOf(rs, d, k, frame)
             = (CHOOSE iter : Refolded(rs, d, k, frame, iter))[DOMAIN rs]
BY DEF RewrittenOf, FoldLeft, MapThenFoldSet, Refolded

\* A set of indices, without the largest.
LEMMA WithoutLargest ==
    ASSUME NEW n \in Nat, NEW s \in SUBSET (1..n)
    PROVE  /\ Cardinality(s) \in Nat
           /\ s # {} => /\ Max(s) \in s /\ s \ {Max(s)} \in SUBSET (1..n)
                        /\ Cardinality(s \ {Max(s)}) < Cardinality(s)
<1>1. IsFiniteSet(s)
  <2>1. IsFiniteSet(1..n)
    BY FS_Interval
  <2> QED BY <2>1, FS_Subset
<1>2. ASSUME s # {} PROVE Max(s) \in s
  <2> DEFINE T == {n - x : x \in s}
  <2>1. T \in SUBSET Nat /\ T # {}
    <3>1. T \in SUBSET Nat
      OBVIOUS
    <3>2. T # {}
      BY <1>2
    <3> QED BY <3>1, <3>2
  <2>2. PICK t \in T : \A u \in T : t <= u
    <3> HIDE DEF T
    <3> QED BY <2>1, LeastNat
  <2>3. PICK x \in s : t = n - x
    BY <2>2
  <2>4. \A y \in s : x >= y
    <3>1. ASSUME NEW y \in s PROVE x >= y
      <4>1. n - y \in T /\ x \in Int /\ y \in Int
        OBVIOUS
      <4>2. n - x <= n - y
        <5> HIDE DEF T
        <5> QED BY <2>2, <2>3, <4>1
      <4> QED BY <4>1, <4>2
    <3> QED BY <3>1
  <2> QED BY <2>3, <2>4 DEF Max
<1>3. Cardinality(s) \in Nat
  BY <1>1, FS_CardinalityType
<1>4. ASSUME s # {}
      PROVE  s \ {Max(s)} \in SUBSET (1..n) /\ Cardinality(s \ {Max(s)}) < Cardinality(s)
  <2>1. PICK x \in s : x = Max(s)
    BY <1>2, <1>4
  <2>2. Cardinality(s \ {x}) = Cardinality(s) - 1
    BY <1>1, FS_RemoveElement
  <2>3. s \ {x} \in SUBSET (1..n)
    OBVIOUS
  <2> QED BY ONLY <1>3, <2>1, <2>2, <2>3
<1> QED BY ONLY <1>2, <1>3, <1>4

\* A rule of any list.
Rule == [direction : Directions, ordinal : Int, mutation : Mutations]

\* Rules that do not raise leave a frame a frame.
LEMMA RewrittenType ==
    ASSUME NEW rs \in Seq(Rule), NEW d, NEW k, ~RaisesOf(rs, d, k), NEW frame \in Framed
    PROVE  RewrittenOf(rs, d, k, frame) \in Framed
<1>1. PICK n \in Nat : DOMAIN rs = 1..n
  BY LenProperties
<1>2. ASSUME NEW i \in 1..n, Names(rs[i], d, k), NEW f \in Framed
      PROVE  Apply(f, rs[i].mutation) \in Framed
  <2>1. rs[i].mutation \in Mutations
    <3>1. rs[i] \in Rule
      BY <1>1, ElementOfSeq
    <3> QED BY <3>1 DEF Rule
  <2>2. ~Raises(rs[i].mutation)
    BY <1>1, <1>2 DEF RaisesOf
  <2> QED BY ONLY <2>1, <2>2, <1>2, ApplyType
<1> DEFINE D == SUBSET (1..n)
           measure == [s \in D |-> Cardinality(s)]
           base == [s \in D |-> frame]
           next == [s \in D |-> IF s = {} THEN s ELSE s \ {Max(s)}]
           step == [p \in D \X Framed |-> IF p[1] # {} /\ Names(rs[Max(p[1])], d, k)
                                          THEN Apply(p[2], rs[Max(p[1])].mutation) ELSE p[2]]
           Solves(iter) == Refolded(rs, d, k, frame, iter)
           fold == CHOOSE iter : Solves(iter)
<1>3. \A s \in D : /\ Cardinality(s) \in Nat
                   /\ s # {} => /\ Max(s) \in s /\ s \ {Max(s)} \in D
                                /\ Cardinality(s \ {Max(s)}) < Cardinality(s)
  BY WithoutLargest
<1>4. Descends(D, Framed, measure, {{}}, base, next, step)
  <2>1. measure \in [D -> Nat]
    BY <1>3
  <2>2. {{}} \in SUBSET D /\ base \in [D -> Framed]
    OBVIOUS
  <2>3. next \in [D -> D]
    BY <1>3
  <2>4. step \in [D \X Framed -> Framed]
    <3>1. ASSUME NEW p \in D \X Framed, p[1] # {}, Names(rs[Max(p[1])], d, k)
          PROVE  Apply(p[2], rs[Max(p[1])].mutation) \in Framed
      <4>1. Max(p[1]) \in 1..n /\ p[2] \in Framed
        BY <1>3, <3>1
      <4> QED BY ONLY <1>2, <3>1, <4>1
    <3> QED BY <3>1
  <2>5. \A s \in D \ {{}} : measure[next[s]] < measure[s]
    BY <1>3
  <2> HIDE DEF D, measure, base, next, step
  <2> QED BY ONLY <2>1, <2>2, <2>3, <2>4, <2>5 DEF Descends
<1>5. PICK g : Unfolds(D, Framed, {{}}, base, next, step, g)
  <2> HIDE DEF D, measure, base, next, step
  <2> QED BY ONLY <1>4, RecursionByMeasure
<1>6. /\ g \in [D -> Framed]
      /\ \A s \in D : g[s] = IF s \in {{}} THEN base[s] ELSE step[<<s, g[next[s]]>>]
  <2> HIDE DEF D, measure, base, next, step
  <2> QED BY ONLY <1>5 DEF Unfolds
<1>7. ASSUME NEW s \in D
      PROVE  g[s] = IF s = {} THEN frame
                    ELSE IF Names(rs[Max(s)], d, k)
                         THEN Apply(g[s \ {Max(s)}], rs[Max(s)].mutation)
                         ELSE g[s \ {Max(s)}]
  <2>1. CASE s = {}
    BY <1>6, <2>1
  <2>2. CASE s # {}
    <3>1. next[s] = s \ {Max(s)} /\ s \ {Max(s)} \in D
      BY <1>3, <2>2
    <3>2. <<s, g[s \ {Max(s)}]>> \in D \X Framed
      BY <1>6, <3>1
    <3>3. step[<<s, g[s \ {Max(s)}]>>]
            = IF Names(rs[Max(s)], d, k) THEN Apply(g[s \ {Max(s)}], rs[Max(s)].mutation)
              ELSE g[s \ {Max(s)}]
      BY ONLY <2>2, <3>2
    <3> HIDE DEF D, measure, base, next, step
    <3> QED BY <1>6, <2>2, <3>1, <3>3
  <2> QED BY <2>1, <2>2
<1>8. Solves(g)
  <2> HIDE DEF base, next, step
  <2> QED BY ONLY <1>1, <1>6, <1>7 DEF Refolded
<1>9. Solves(fold)
  <2> HIDE DEF Solves
  <2> QED BY <1>8
<1> HIDE DEF fold
<1>10. \A s \in D : fold[s] = IF s = {} THEN frame
                             ELSE IF Names(rs[Max(s)], d, k)
                                  THEN Apply(fold[s \ {Max(s)}], rs[Max(s)].mutation)
                                  ELSE fold[s \ {Max(s)}]
  <2>1. DOMAIN rs = 1..n /\ Refolded(rs, d, k, frame, fold)
    BY <1>1, <1>9
  <2> QED BY ONLY <2>1 DEF Refolded
<1> DEFINE Bad == {Cardinality(s) : s \in {r \in D : fold[r] \notin Framed}}
<1>11. Bad = {}
  <2> SUFFICES ASSUME Bad # {} PROVE FALSE
    OBVIOUS
  <2>1. PICK c \in Bad : \A j \in Bad : c <= j
    <3>1. Bad \in SUBSET Nat
      BY <1>3
    <3> HIDE DEF Bad
    <3> QED BY <3>1, LeastNat
  <2>2. PICK s \in D : fold[s] \notin Framed /\ c = Cardinality(s)
    BY <2>1
  <2>3. s # {}
    BY <1>10, <2>2
  <2> DEFINE r == s \ {Max(s)}
  <2>4. r \in D /\ Max(s) \in 1..n /\ Cardinality(r) < c /\ Cardinality(r) \in Nat /\ c \in Nat
    BY <1>3, <2>2, <2>3
  <2>5. fold[s] = IF Names(rs[Max(s)], d, k) THEN Apply(fold[r], rs[Max(s)].mutation) ELSE fold[r]
    BY <1>10, <2>2, <2>3
  <2> HIDE DEF r
  <2>6. fold[r] \in Framed
    <3>1. Cardinality(r) \notin Bad
      <4> HIDE DEF Bad
      <4> QED BY <2>1, <2>4
    <3> QED BY <2>4, <3>1
  <2>7. Names(rs[Max(s)], d, k) => Apply(fold[r], rs[Max(s)].mutation) \in Framed
    BY ONLY <1>2, <2>4, <2>6
  <2> QED BY ONLY <2>2, <2>5, <2>6, <2>7
<1>12. fold[1..n] \in Framed
  <2>1. 1..n \in D
    OBVIOUS
  <2> QED BY <1>11, <2>1
<1> QED BY <1>1, <1>12, RewritingIterates DEF fold

\* The frames that get past the rules, rewritten.
Passed(rs, d, frames) == {k \in DOMAIN frames : \A j \in 1..k : ~RaisesOf(rs, d, j)}
Rewrites(rs, d, frames) ==
    [k \in 1..Cardinality(Passed(rs, d, frames)) |-> RewrittenOf(rs, d, k, frames[k])]
StreamOf(rs, d, stream) == FlattenSeq(Rewrites(rs, d, Frames(stream)))

\* The frames before the first that raises are a beginning of them.
LEMMA PassedCount ==
    ASSUME NEW rs, NEW d, NEW n \in Nat, NEW frames, DOMAIN frames = 1..n
    PROVE  LET m == Cardinality(Passed(rs, d, frames))
           IN  m \in 0..n /\ Passed(rs, d, frames) = 1..m
<1> DEFINE Bad == {j \in 1..n : RaisesOf(rs, d, j)}
           P == Passed(rs, d, frames)
<1>1. ASSUME NEW m \in 0..n, P = 1..m PROVE Cardinality(P) = m
  <2>1. Cardinality(1..m) = m
    BY FS_Interval
  <2> QED BY ONLY <1>1, <2>1
<1>2. CASE Bad = {}
  <2>1. P = 1..n
    BY <1>2 DEF Passed
  <2>2. n \in 0..n
    OBVIOUS
  <2> HIDE DEF P
  <2> QED BY ONLY <1>1, <2>1, <2>2 DEF P
<1>3. CASE Bad # {}
  <2>1. PICK b \in Bad : \A j \in Bad : b <= j
    <3>1. Bad \in SUBSET Nat
      OBVIOUS
    <3> HIDE DEF Bad
    <3> QED BY <1>3, <3>1, LeastNat
  <2>2. PICK m : m = b - 1
    OBVIOUS
  <2>3. m \in 0..n /\ m + 1 \in 1..n /\ RaisesOf(rs, d, m + 1)
    BY <2>1, <2>2
  <2>4. \A j \in 1..m : ~RaisesOf(rs, d, j)
    BY <2>1, <2>2
  <2>5. P = 1..m
    <3>1. ASSUME NEW k \in 1..n PROVE (\A j \in 1..k : ~RaisesOf(rs, d, j)) <=> k \in 1..m
      <4>1. CASE k <= m
        BY <2>3, <2>4, <4>1
      <4>2. CASE k > m
        <5>1. m + 1 \in 1..k
          BY <2>3, <4>2
        <5>2. k \notin 1..m
          BY <2>3, <4>2
        <5> QED BY ONLY <2>3, <5>1, <5>2
      <4>3. k <= m \/ k > m
        BY <2>3
      <4> QED BY ONLY <4>1, <4>2, <4>3
    <3>2. \A k \in 1..m : k \in 1..n
      BY <2>3
    <3> QED BY <3>1, <3>2 DEF Passed
  <2> HIDE DEF P
  <2> QED BY ONLY <1>1, <2>3, <2>5 DEF P
<1> QED BY ONLY <1>2, <1>3

\* Rewritten frames are frames, as many as were passed on.
LEMMA RewritesType ==
    ASSUME NEW rs \in Seq(Rule), NEW d, NEW frames \in Seq(Framed)
    PROVE  /\ Rewrites(rs, d, frames) \in Seq(Framed)
           /\ Len(Rewrites(rs, d, frames)) = Cardinality(Passed(rs, d, frames))
           /\ Cardinality(Passed(rs, d, frames)) \in 0..Len(frames)
           /\ Passed(rs, d, frames) = 1..Cardinality(Passed(rs, d, frames))
           /\ \A k \in 1..Cardinality(Passed(rs, d, frames)) :
                 Rewrites(rs, d, frames)[k] = RewrittenOf(rs, d, k, frames[k])
<1>1. PICK n \in Nat : DOMAIN frames = 1..n /\ n = Len(frames)
  BY LenProperties
<1>2. PICK m : m = Cardinality(Passed(rs, d, frames))
  OBVIOUS
<1>3. m \in 0..n /\ Passed(rs, d, frames) = 1..m
  BY <1>1, <1>2, PassedCount
<1>4. ASSUME NEW k \in 1..m PROVE RewrittenOf(rs, d, k, frames[k]) \in Framed
  <2>1. k \in DOMAIN frames /\ ~RaisesOf(rs, d, k)
    <3>1. k \in 1..k /\ k \in Passed(rs, d, frames)
      BY <1>3
    <3> QED BY ONLY <3>1 DEF Passed
  <2>2. frames[k] \in Framed
    BY <2>1, <1>1, ElementOfSeq
  <2> QED BY ONLY <2>1, <2>2, rs \in Seq(Rule), RewrittenType
<1>5. Rewrites(rs, d, frames) = [k \in 1..m |-> RewrittenOf(rs, d, k, frames[k])]
  BY <1>2 DEF Rewrites
<1>6. m \in Nat
  BY <1>3
<1>7. Rewrites(rs, d, frames) \in Seq(Framed) /\ Len(Rewrites(rs, d, frames)) = m
  BY ONLY <1>4, <1>5, <1>6
<1>8. \A k \in 1..m : Rewrites(rs, d, frames)[k] = RewrittenOf(rs, d, k, frames[k])
  BY ONLY <1>5
<1> QED BY ONLY <1>1, <1>2, <1>3, <1>7, <1>8

\* The frames y begin with the frames x.
Starts(x, y) == \E rest \in Seq(Framed) : y = x \o rest

\* More frames are rewritten after the ones before.
LEMMA RewritesBegin ==
    ASSUME NEW rs \in Seq(Rule), NEW d, NEW a \in Seq(Framed), NEW b \in Seq(Framed)
    PROVE  Starts(Rewrites(rs, d, a), Rewrites(rs, d, a \o b))
<1>1. PICK c : c = a \o b
  OBVIOUS
<1>2. /\ c \in Seq(Framed) /\ Len(c) = Len(a) + Len(b) /\ Len(a) \in Nat /\ Len(b) \in Nat
      /\ \A i \in 1..Len(a) : c[i] = a[i]
      /\ DOMAIN a = 1..Len(a) /\ DOMAIN c = 1..Len(c)
  BY <1>1, ConcatProperties, LenProperties
<1>3. PICK x : x = Rewrites(rs, d, a)
  OBVIOUS
<1>4. PICK y : y = Rewrites(rs, d, c)
  OBVIOUS
<1>5. PICK m : m = Cardinality(Passed(rs, d, a))
  OBVIOUS
<1>6. PICK l : l = Cardinality(Passed(rs, d, c))
  OBVIOUS
<1>7. /\ x \in Seq(Framed) /\ Len(x) = m /\ m \in 0..Len(a) /\ Passed(rs, d, a) = 1..m
      /\ \A k \in 1..m : x[k] = RewrittenOf(rs, d, k, a[k])
  BY ONLY <1>3, <1>5, RewritesType, rs \in Seq(Rule), a \in Seq(Framed)
<1>8. /\ y \in Seq(Framed) /\ Len(y) = l /\ l \in 0..Len(c) /\ Passed(rs, d, c) = 1..l
      /\ \A k \in 1..l : y[k] = RewrittenOf(rs, d, k, c[k])
  BY ONLY <1>2, <1>4, <1>6, RewritesType, rs \in Seq(Rule)
<1>9. m <= l
  <2>1. Passed(rs, d, a) \subseteq Passed(rs, d, c)
    <3>1. 1..Len(a) \subseteq 1..Len(c)
      BY ONLY <1>2
    <3> QED BY ONLY <1>2, <3>1 DEF Passed
  <2>2. 1..m \subseteq 1..l
    BY ONLY <1>7, <1>8, <2>1
  <2>3. m \in Nat /\ l \in Nat
    BY ONLY <1>2, <1>7, <1>8
  <2> QED BY ONLY <2>2, <2>3
<1>10. \A k \in 1..m : y[k] = x[k]
  BY ONLY <1>2, <1>7, <1>8, <1>9
<1> DEFINE rest == [i \in 1..(l - m) |-> y[m + i]]
<1>11. rest \in Seq(Framed) /\ Len(rest) = l - m /\ \A i \in 1..(l - m) : rest[i] = y[m + i]
  <2>1. l - m \in Nat
    BY ONLY <1>2, <1>7, <1>8, <1>9
  <2>2. \A i \in 1..(l - m) : y[m + i] \in Framed
    <3>1. \A i \in 1..(l - m) : m + i \in 1..Len(y)
      BY ONLY <1>2, <1>7, <1>8, <1>9
    <3> QED BY ONLY <1>8, <3>1, ElementOfSeq
  <2> QED BY ONLY <2>1, <2>2
<1> HIDE DEF rest
<1>12. y = x \o rest
  <2>1. /\ x \o rest \in Seq(Framed) /\ Len(x \o rest) = l
        /\ \A i \in 1..l : (x \o rest)[i] = IF i <= m THEN x[i] ELSE rest[i - m]
    <3>1. l \in Nat /\ m \in Nat /\ m + (l - m) = l
      BY ONLY <1>2, <1>7, <1>8
    <3>2. /\ x \o rest \in Seq(Framed) /\ Len(x \o rest) = Len(x) + Len(rest)
          /\ \A i \in 1..Len(x) + Len(rest) :
                (x \o rest)[i] = IF i <= Len(x) THEN x[i] ELSE rest[i - Len(x)]
      BY ONLY <1>7, <1>11, ConcatProperties
    <3> QED BY ONLY <1>7, <1>11, <3>1, <3>2
  <2>2. \A i \in 1..l : (x \o rest)[i] = y[i]
    <3>1. \A i \in 1..l : i <= m => i \in 1..m
      BY ONLY <1>2, <1>7, <1>8
    <3>2. \A i \in 1..l : ~(i <= m) => i - m \in 1..(l - m) /\ m + (i - m) = i
      BY ONLY <1>2, <1>7, <1>8
    <3> QED BY ONLY <1>10, <1>11, <2>1, <3>1, <3>2
  <2> QED BY ONLY <1>8, <2>1, <2>2, SeqEqual
<1> QED BY ONLY <1>1, <1>3, <1>4, <1>11, <1>12 DEF Starts

\* When no rule has raised, the next frame is added, rewritten.
LEMMA RewritesNext ==
    ASSUME NEW rs \in Seq(Rule), NEW d, NEW a \in Seq(Framed), NEW f \in Framed,
           \A j \in 1..(Len(a) + 1) : ~RaisesOf(rs, d, j)
    PROVE  /\ RewrittenOf(rs, d, Len(a) + 1, f) \in Framed
           /\ Rewrites(rs, d, a \o <<f>>) = Rewrites(rs, d, a) \o <<RewrittenOf(rs, d, Len(a) + 1, f)>>
<1>1. PICK c : c = a \o <<f>>
  OBVIOUS
<1>2. /\ c \in Seq(Framed) /\ Len(c) = Len(a) + 1 /\ Len(a) \in Nat
      /\ \A i \in 1..Len(a) : c[i] = a[i]
      /\ c[Len(a) + 1] = f
      /\ DOMAIN a = 1..Len(a) /\ DOMAIN c = 1..Len(c)
  BY <1>1, LenProperties
<1>3. PICK n : n = Len(a)
  OBVIOUS
<1>4. PICK x : x = Rewrites(rs, d, a)
  OBVIOUS
<1>5. PICK y : y = Rewrites(rs, d, c)
  OBVIOUS
<1>6. PICK w : w = RewrittenOf(rs, d, n + 1, f)
  OBVIOUS
<1>7. w \in Framed
  <2>1. ~RaisesOf(rs, d, n + 1)
    BY <1>2, <1>3
  <2> QED BY ONLY <1>6, <2>1, RewrittenType, rs \in Seq(Rule), f \in Framed
<1>8. Passed(rs, d, a) = 1..n /\ Passed(rs, d, c) = 1..(n + 1)
  BY <1>2, <1>3 DEF Passed
<1>9. Cardinality(Passed(rs, d, a)) = n /\ Cardinality(Passed(rs, d, c)) = n + 1
  <2>1. n \in Nat /\ n + 1 \in Nat
    BY ONLY <1>2, <1>3
  <2>2. Cardinality(1..n) = n
    BY ONLY <2>1, FS_Interval
  <2>3. Cardinality(1..(n + 1)) = n + 1
    BY ONLY <2>1, FS_Interval
  <2> QED BY ONLY <1>8, <2>2, <2>3
<1>10. /\ x \in Seq(Framed) /\ Len(x) = n
       /\ \A k \in 1..n : x[k] = RewrittenOf(rs, d, k, a[k])
  BY ONLY <1>4, <1>9, RewritesType, rs \in Seq(Rule), a \in Seq(Framed)
<1>11. /\ y \in Seq(Framed) /\ Len(y) = n + 1
       /\ \A k \in 1..(n + 1) : y[k] = RewrittenOf(rs, d, k, c[k])
  BY ONLY <1>2, <1>5, <1>9, RewritesType, rs \in Seq(Rule)
<1>12. y = x \o <<w>>
  <2>1. /\ x \o <<w>> \in Seq(Framed) /\ Len(x \o <<w>>) = n + 1
        /\ (\A i \in 1..n : (x \o <<w>>)[i] = x[i]) /\ (x \o <<w>>)[n + 1] = w
    BY ONLY <1>2, <1>3, <1>7, <1>10
  <2>2. y[n + 1] = w
    <3>1. n + 1 \in 1..(n + 1)
      BY ONLY <1>2, <1>3
    <3> QED BY ONLY <1>2, <1>3, <1>6, <1>11, <3>1
  <2>3. \A i \in 1..n : y[i] = x[i]
    <3>1. \A i \in 1..n : i \in 1..(n + 1)
      BY ONLY <1>2, <1>3
    <3> QED BY ONLY <1>2, <1>3, <1>10, <1>11, <3>1
  <2>4. \A i \in 1..(n + 1) : i \in 1..n \/ i = n + 1
    BY ONLY <1>2, <1>3
  <2>5. \A i \in 1..(n + 1) : (x \o <<w>>)[i] = y[i]
    BY ONLY <2>1, <2>2, <2>3, <2>4
  <2> QED BY ONLY <1>11, <2>1, <2>5, SeqEqual
<1> QED BY ONLY <1>1, <1>3, <1>4, <1>5, <1>6, <1>7, <1>12

\* Frames are sequences of octets.
LEMMA FlattenFrames ==
    ASSUME NEW a \in Seq(Framed), NEW b \in Seq(Framed)
    PROVE  /\ FlattenSeq(a) \in Bytes /\ FlattenSeq(b) \in Bytes
           /\ FlattenSeq(a \o b) = FlattenSeq(a) \o FlattenSeq(b)
<1>1. a \in Seq(Bytes) /\ b \in Seq(Bytes)
  BY DEF Framed
<1>2. a \in Seq(Seq(Byte)) /\ b \in Seq(Seq(Byte))
  BY <1>1 DEF Bytes
<1> QED BY ONLY <1>2, FlattenType, FlattenConcat DEF Bytes

\* More frames only add to what the rules make of a stream.
LEMMA StreamBegins ==
    ASSUME NEW rs \in Seq(Rule), NEW d, NEW s, Whole(s), NEW u \in Bytes
    PROVE  /\ StreamOf(rs, d, s) \in Bytes /\ StreamOf(rs, d, s \o u) \in Bytes
           /\ Begins(StreamOf(rs, d, s), StreamOf(rs, d, s \o u))
<1>1. PICK a : a = Frames(s)
  OBVIOUS
<1>2. PICK b : b = Frames(u)
  OBVIOUS
<1>3. a \in Seq(Framed) /\ b \in Seq(Framed)
  <2>1. s \in Bytes
    BY DEF Whole
  <2> QED BY ONLY <1>1, <1>2, <2>1, u \in Bytes, FramesUnfold
<1>4. Frames(s \o u) = a \o b
  BY <1>1, <1>2, FramesConcat
<1>5. PICK x : x = Rewrites(rs, d, a)
  OBVIOUS
<1>6. PICK y : y = Rewrites(rs, d, a \o b)
  OBVIOUS
<1>7. x \in Seq(Framed)
  BY ONLY <1>3, <1>5, rs \in Seq(Rule), RewritesType
<1>8. PICK rest \in Seq(Framed) : y = x \o rest
  <2>1. Starts(Rewrites(rs, d, a), Rewrites(rs, d, a \o b))
    BY ONLY <1>3, rs \in Seq(Rule), RewritesBegin
  <2> QED BY ONLY <1>5, <1>6, <2>1 DEF Starts
<1>9. /\ FlattenSeq(x) \in Bytes /\ FlattenSeq(rest) \in Bytes
      /\ FlattenSeq(x \o rest) = FlattenSeq(x) \o FlattenSeq(rest)
  BY ONLY <1>7, rest \in Seq(Framed), FlattenFrames
<1>10. FlattenSeq(x) \o FlattenSeq(rest) \in Bytes
  BY ONLY <1>9, ConcatProperties DEF Bytes
<1>11. StreamOf(rs, d, s) = FlattenSeq(x) /\ StreamOf(rs, d, s \o u) = FlattenSeq(y)
  BY ONLY <1>1, <1>4, <1>5, <1>6 DEF StreamOf
<1> QED BY ONLY <1>8, <1>9, <1>10, <1>11 DEF Begins

\* One more frame that no rule raises on adds what the rules make of it.
LEMMA StreamNext ==
    ASSUME NEW rs \in Seq(Rule), NEW d, NEW s, Whole(s), NEW u \in Bytes, Complete(u),
           \A j \in 1..(Len(Frames(s)) + 1) : ~RaisesOf(rs, d, j)
    PROVE  LET w == RewrittenOf(rs, d, Len(Frames(s)) + 1, FirstFrame(u))
           IN  w \in Bytes /\ StreamOf(rs, d, s \o FirstFrame(u)) = StreamOf(rs, d, s) \o w
<1>1. PICK a : a = Frames(s)
  OBVIOUS
<1>2. PICK f : f = FirstFrame(u)
  OBVIOUS
<1>3. a \in Seq(Framed)
  <2>1. s \in Bytes
    BY DEF Whole
  <2> QED BY ONLY <1>1, <2>1, FramesUnfold
<1>4. f \in Framed
  <2>1. f \in Bytes /\ Len(f) = FrameLength(u) /\ FrameLength(u) >= HEADER_SIZE
    BY <1>2, FrameParts
  <2> QED BY <2>1 DEF Framed
<1>5. Frames(s \o f) = a \o <<f>>
  BY <1>1, <1>2, WholeAppend
<1>6. PICK w : w = RewrittenOf(rs, d, Len(a) + 1, f)
  OBVIOUS
<1>7. w \in Framed /\ Rewrites(rs, d, a \o <<f>>) = Rewrites(rs, d, a) \o <<w>>
  <2>1. \A j \in 1..(Len(a) + 1) : ~RaisesOf(rs, d, j)
    BY <1>1
  <2> QED BY ONLY <1>3, <1>4, <1>6, <2>1, rs \in Seq(Rule), RewritesNext
<1>8. PICK x : x = Rewrites(rs, d, a)
  OBVIOUS
<1>9. x \in Seq(Framed)
  BY ONLY <1>3, <1>8, rs \in Seq(Rule), RewritesType
<1>10. <<w>> \in Seq(Framed)
  BY ONLY <1>7
<1>11. FlattenSeq(x \o <<w>>) = FlattenSeq(x) \o FlattenSeq(<<w>>)
  BY ONLY <1>9, <1>10, FlattenFrames
<1>12. w \in Bytes /\ FlattenSeq(<<w>>) = w
  <2>1. w \in Bytes
    BY <1>7 DEF Framed
  <2> QED BY ONLY <2>1, FlattenOne DEF Bytes
<1>13. StreamOf(rs, d, s) = FlattenSeq(x) /\ StreamOf(rs, d, s \o f) = FlattenSeq(x \o <<w>>)
  BY ONLY <1>1, <1>5, <1>7, <1>8 DEF StreamOf
<1> QED BY ONLY <1>1, <1>2, <1>6, <1>11, <1>12, <1>13

-----------------------------------------------------------------------------
(* The target *)

\* An answer is bytes.
LEMMA ResponseType == \A f : Response(f) \in Bytes
<1>1. ASSUME NEW type \in Byte, NEW plen \in HEADER_SIZE + 1..65535
      PROVE  ToBytes(type, plen) \in Bytes
  <2>1. plen \in Nat /\ plen >= 3 /\ plen < 65536
    BY DEF HEADER_SIZE
  <2>2. plen % 256 \in Byte
    BY <2>1 DEF Byte
  <2>3. plen \div 256 \in Byte
    BY ONLY <2>1 DEF Byte
  <2>4. <<type, plen % 256, plen \div 256>> \in Seq(Byte)
    BY ONLY <2>2, <2>3, type \in Byte
  <2>5. 0 \in Byte
    BY DEF Byte
  <2>6. plen - HEADER_SIZE \in Nat
    BY ONLY <2>1 DEF HEADER_SIZE
  <2>7. [i \in 1..(plen - HEADER_SIZE) |-> 0] \in Seq(Byte)
    <3> HIDE DEF Byte
    <3> QED BY ONLY <2>5, <2>6
  <2> QED BY ONLY <2>4, <2>7, ConcatProperties DEF ToBytes, Bytes
<1>2. IcRespPlen \in HEADER_SIZE + 1..65535 /\ CapsulePlen \in HEADER_SIZE + 1..65535
  BY ProxyAssumption
<1>3. PduType.ICRESP \in Byte /\ PduType.RESPONSE_CAPSULE \in Byte
  BY DEF PduType, Byte
<1>4. ToBytes(PduType.ICRESP, IcRespPlen) \in Bytes
  BY ONLY <1>1, <1>2, <1>3
<1>5. ToBytes(PduType.RESPONSE_CAPSULE, CapsulePlen) \in Bytes
  BY ONLY <1>1, <1>2, <1>3
<1>6. <<>> \in Bytes
  BY DEF Bytes
<1>7. ASSUME NEW f PROVE Response(f) \in Bytes
  <2>1. PduType.ICREQ # PduType.CAPSULE_CMD
    BY DEF PduType
  <2> QED BY ONLY <1>4, <1>5, <1>6, <2>1 DEF Response
<1> QED BY <1>7

\* The responses to frames.
Responses(frames) == [k \in DOMAIN frames |-> Response(frames[k])]

\* One answer a frame.
LEMMA ResponsesType ==
    ASSUME NEW frames \in Seq(Framed)
    PROVE  /\ Responses(frames) \in Seq(Bytes) /\ Len(Responses(frames)) = Len(frames)
           /\ \A k \in 1..Len(frames) : Responses(frames)[k] = Response(frames[k])
<1>1. PICK n \in Nat : DOMAIN frames = 1..n /\ Len(frames) = n
  BY LenProperties
<1>2. Responses(frames) = [k \in 1..n |-> Response(frames[k])]
  BY <1>1 DEF Responses
<1>3. \A k \in 1..n : Response(frames[k]) \in Bytes
  BY ResponseType
<1> QED BY ONLY <1>1, <1>2, <1>3, n \in Nat

\* The answers to frames, and to more frames, one after the other.
LEMMA ResponsesConcat ==
    ASSUME NEW a \in Seq(Framed), NEW b \in Seq(Framed)
    PROVE  Responses(a \o b) = Responses(a) \o Responses(b)
<1>1. PICK c : c = a \o b
  OBVIOUS
<1>2. PICK n \in Nat : n = Len(a)
  BY LenProperties
<1>3. PICK m \in Nat : m = Len(b)
  BY LenProperties
<1>4. /\ c \in Seq(Framed) /\ Len(c) = n + m
      /\ \A i \in 1..(n + m) : c[i] = IF i <= n THEN a[i] ELSE b[i - n]
  BY ONLY <1>1, <1>2, <1>3, ConcatProperties, a \in Seq(Framed), b \in Seq(Framed)
<1>5. PICK x : x = Responses(a)
  OBVIOUS
<1>6. PICK y : y = Responses(b)
  OBVIOUS
<1>7. PICK z : z = Responses(c)
  OBVIOUS
<1>8. x \in Seq(Bytes) /\ Len(x) = n /\ \A k \in 1..n : x[k] = Response(a[k])
  BY ONLY <1>2, <1>5, ResponsesType, a \in Seq(Framed)
<1>9. y \in Seq(Bytes) /\ Len(y) = m /\ \A k \in 1..m : y[k] = Response(b[k])
  BY ONLY <1>3, <1>6, ResponsesType, b \in Seq(Framed)
<1>10. z \in Seq(Bytes) /\ Len(z) = n + m /\ \A k \in 1..(n + m) : z[k] = Response(c[k])
  BY ONLY <1>4, <1>7, ResponsesType
<1>11. /\ x \o y \in Seq(Bytes) /\ Len(x \o y) = n + m
       /\ \A i \in 1..(n + m) : (x \o y)[i] = IF i <= n THEN x[i] ELSE y[i - n]
  BY ONLY <1>8, <1>9, ConcatProperties
<1>12. \A i \in 1..(n + m) : z[i] = (x \o y)[i]
  <2>1. \A i \in 1..(n + m) : (i <= n => i \in 1..n) /\ (~(i <= n) => i - n \in 1..m)
    BY ONLY n \in Nat, m \in Nat
  <2>2. ASSUME NEW i \in 1..(n + m), i <= n PROVE z[i] = (x \o y)[i]
    <3>1. c[i] = a[i] /\ (x \o y)[i] = x[i] /\ z[i] = Response(c[i])
      BY ONLY <1>4, <1>10, <1>11, <2>2
    <3>2. x[i] = Response(a[i])
      BY ONLY <1>8, <2>1, <2>2
    <3> QED BY ONLY <3>1, <3>2
  <2>3. ASSUME NEW i \in 1..(n + m), ~(i <= n) PROVE z[i] = (x \o y)[i]
    <3>1. c[i] = b[i - n] /\ (x \o y)[i] = y[i - n] /\ z[i] = Response(c[i])
      BY ONLY <1>4, <1>10, <1>11, <2>3
    <3>2. y[i - n] = Response(b[i - n])
      BY ONLY <1>9, <2>1, <2>3
    <3> QED BY ONLY <3>1, <3>2
  <2> QED BY ONLY <2>2, <2>3
<1>13. z = x \o y
  BY ONLY <1>10, <1>11, <1>12, SeqEqual
<1> QED BY ONLY <1>1, <1>5, <1>6, <1>7, <1>13

\* What has been answered stays answered, whatever follows.
LEMMA AnswersConcat ==
    ASSUME NEW s, Whole(s), NEW u \in Bytes
    PROVE  /\ Answers(s) \in Bytes /\ Answers(u) \in Bytes
           /\ Answers(s \o u) = Answers(s) \o Answers(u)
<1>1. PICK a : a = Frames(s)
  OBVIOUS
<1>2. PICK b : b = Frames(u)
  OBVIOUS
<1>3. a \in Seq(Framed) /\ b \in Seq(Framed)
  <2>1. s \in Bytes
    BY DEF Whole
  <2> QED BY ONLY <1>1, <1>2, <2>1, u \in Bytes, FramesUnfold
<1>4. Frames(s \o u) = a \o b
  BY <1>1, <1>2, FramesConcat
<1>5. Responses(a \o b) = Responses(a) \o Responses(b)
  BY ONLY <1>3, ResponsesConcat
<1>6. Responses(a) \in Seq(Seq(Byte)) /\ Responses(b) \in Seq(Seq(Byte))
  BY ONLY <1>3, ResponsesType DEF Bytes
<1>7. PICK x : x = Responses(a)
  OBVIOUS
<1>8. PICK y : y = Responses(b)
  OBVIOUS
<1>9. FlattenSeq(x \o y) = FlattenSeq(x) \o FlattenSeq(y)
  BY ONLY <1>6, <1>7, <1>8, FlattenConcat
<1>10. FlattenSeq(x) \in Bytes /\ FlattenSeq(y) \in Bytes
  BY ONLY <1>6, <1>7, <1>8, FlattenType DEF Bytes
<1>11. \A t : Answers(t) = FlattenSeq(Responses(Frames(t)))
  BY DEF Answers, Responses
<1> QED BY ONLY <1>1, <1>2, <1>4, <1>5, <1>7, <1>8, <1>9, <1>10, <1>11

\* One more frame adds its answer.
LEMMA AnswersNext ==
    ASSUME NEW s, Whole(s), NEW u \in Bytes, Complete(u)
    PROVE  Answers(s \o FirstFrame(u)) = Answers(s) \o Response(FirstFrame(u))
<1>1. PICK f : f = FirstFrame(u)
  OBVIOUS
<1>2. f \in Bytes
  BY <1>1, FrameParts
<1>3. Frames(s \o f) = Frames(s) \o <<f>> /\ Whole(<<>> \o f) /\ Frames(<<>> \o f) = <<>> \o <<f>>
  <2>1. Whole(<<>>)
    <3>1. FlattenSeq(<<>>) = <<>>
      BY DEF FlattenSeq
    <3> QED BY <3>1, NoFrame DEF Whole, Bytes
  <2>2. Frames(<<>> \o f) = <<>> \o <<f>> /\ Whole(<<>> \o f)
    BY <1>1, <2>1, WholeAppend, NoFrame
  <2>3. Frames(s \o f) = Frames(s) \o <<f>>
    BY <1>1, WholeAppend
  <2> QED BY ONLY <2>2, <2>3
<1>4. Frames(f) = <<f>>
  <2>1. <<>> \o f = f
    BY ONLY <1>2, ConcatEmptySeq DEF Bytes
  <2>2. <<>> \o <<f>> = <<f>>
    <3>1. <<f>> \in Seq(Bytes)
      BY ONLY <1>2
    <3> QED BY ONLY <3>1, ConcatEmptySeq
  <2> QED BY ONLY <1>3, <2>1, <2>2
<1>5. Answers(f) = Response(f)
  <2>1. PICK x : x = [k \in DOMAIN <<f>> |-> Response(<<f>>[k])]
    OBVIOUS
  <2>2. x = <<Response(f)>>
    BY <2>1
  <2>3. FlattenSeq(<<Response(f)>>) = Response(f)
    BY ONLY ResponseType, FlattenOne DEF Bytes
  <2> QED BY ONLY <1>4, <2>1, <2>2, <2>3 DEF Answers
<1> QED BY <1>1, <1>2, <1>5, AnswersConcat

\* What a lost connection leaves is a beginning of what there was.
LEMMA PrefixBegins ==
    ASSUME NEW s \in Bytes, NEW p \in Prefixes(s)
    PROVE  p \in Bytes /\ Begins(p, s)
<1>1. PICK l \in 0..Len(s) : p = SubSeq(s, 1, l)
  BY DEF Prefixes
<1>2. PICK u : u = SubSeq(s, l + 1, Len(s))
  OBVIOUS
<1>3. PICK n \in Nat : n = Len(s)
  BY LenProperties DEF Bytes
<1>4. p \in Seq(Byte) /\ Len(p) = l /\ \A i \in 1..l : p[i] = s[i]
  <2>1. l \in Nat /\ l <= n /\ 1 <= l + 1
    BY <1>3
  <2> QED BY <1>1, <1>3, <2>1, SubSeqProperties DEF Bytes
<1>5. u \in Seq(Byte) /\ Len(u) = n - l /\ \A i \in 1..(n - l) : u[i] = s[l + i]
  <2>1. l \in Nat /\ l <= n
    BY <1>3
  <2> QED BY <1>2, <1>3, <2>1, SubSeqProperties DEF Bytes
<1>6. s = p \o u
  <2>1. /\ p \o u \in Seq(Byte) /\ Len(p \o u) = n
        /\ \A i \in 1..n : (p \o u)[i] = IF i <= l THEN p[i] ELSE u[i - l]
    <3>1. l + (n - l) = n
      BY <1>3
    <3>2. /\ p \o u \in Seq(Byte) /\ Len(p \o u) = Len(p) + Len(u)
          /\ \A i \in 1..Len(p) + Len(u) : (p \o u)[i] = IF i <= Len(p) THEN p[i] ELSE u[i - Len(p)]
      BY ONLY <1>4, <1>5, ConcatProperties
    <3> QED BY ONLY <1>4, <1>5, <3>1, <3>2
  <2>2. \A i \in 1..n : (p \o u)[i] = s[i]
    <3>1. l \in Nat
      OBVIOUS
    <3>2. \A i \in 1..n : (i <= l => i \in 1..l) /\ (~(i <= l) => i - l \in 1..(n - l) /\ l + (i - l) = i)
      BY ONLY <3>1, n \in Nat
    <3> QED BY ONLY <1>4, <1>5, <2>1, <3>2
  <2>3. s \in Seq(Byte)
    BY DEF Bytes
  <2> QED BY ONLY <1>3, <2>1, <2>2, <2>3, SeqEqual
<1> QED BY <1>4, <1>5, <1>6 DEF Begins, Bytes

\* One sequence of octets after the other.
LEMMA Associate == \A x, y, z \in Bytes : (x \o y) \o z = x \o (y \o z)
BY Regroup DEF Bytes

\* Streams joined, and nothing added.
LEMMA Joins ==
    /\ \A x, y \in Bytes : x \o y \in Bytes
    /\ <<>> \in Bytes /\ \A x \in Bytes : x \o <<>> = x /\ <<>> \o x = x
<1>1. \A x, y \in Bytes : x \o y \in Bytes
  BY ConcatProperties DEF Bytes
<1>2. <<>> \in Bytes /\ \A x \in Bytes : x \o <<>> = x /\ <<>> \o x = x
  BY ConcatEmptySeq DEF Bytes
<1> QED BY ONLY <1>1, <1>2

\* A stream begins with itself and with its beginnings, and so after any other.
LEMMA BeginsMore ==
    /\ \A s, u \in Bytes : Begins(s, s \o u)
    /\ \A s \in Bytes : Begins(s, s)
    /\ \A r, s, t \in Bytes : Begins(r, s) /\ Begins(s, t) => Begins(r, t)
    /\ \A r, s, t \in Bytes : Begins(s, t) => Begins(r \o s, r \o t)
<1>1. \A s, u \in Bytes : Begins(s, s \o u)
  BY DEF Begins
<1>2. \A s \in Bytes : Begins(s, s)
  <2>1. ASSUME NEW s \in Bytes PROVE Begins(s, s)
    <3>1. s = s \o <<>> /\ <<>> \in Bytes
      BY Joins
    <3> QED BY ONLY <3>1 DEF Begins
  <2> QED BY <2>1
<1>3. ASSUME NEW r \in Bytes, NEW s \in Bytes, NEW t \in Bytes, Begins(r, s), Begins(s, t)
      PROVE  Begins(r, t)
  BY ONLY <1>3, BeginsFacts
<1>4. ASSUME NEW r \in Bytes, NEW s \in Bytes, NEW t \in Bytes, Begins(s, t)
      PROVE  Begins(r \o s, r \o t)
  <2>1. PICK u \in Bytes : t = s \o u
    BY <1>4 DEF Begins
  <2>2. r \o t = (r \o s) \o u
    BY ONLY <2>1, Associate, r \in Bytes, s \in Bytes, u \in Bytes
  <2> QED BY <2>2 DEF Begins
<1> QED BY ONLY <1>1, <1>2, <1>3, <1>4

-----------------------------------------------------------------------------
(* One direction *)

\* Where a pipe that has neither ended nor failed can be.
Running == {"connecting", "read", "drain"}

\* A direction with the bytes i towards the proxy (no more will come when ie),
\* of the bytes st that were sent, and fw that were passed on by a pipe in state
\* p that has read the k frames of taken; shut when its writer no longer writes.
Carries(rs, d, taken, i, ie, st, k, p, fw, shut) ==
    /\ Whole(taken) /\ Len(Frames(taken)) = k
    /\ Begins(taken \o i, st) /\ (~ie => st = taken \o i)
    /\ Begins(fw, StreamOf(rs, d, taken))
    /\ p # "crashed" /\ ~shut => fw = StreamOf(rs, d, taken)
    /\ p \in Running => \A j \in 1..k : ~RaisesOf(rs, d, j)

\* What the end of a stream, a reset or a crash may do to it.
Later(i, ie, p, shut, i2, ie2, p2, shut2) ==
    /\ Begins(i2, i) /\ (i2 = i \/ ie2) /\ (ie => ie2)
    /\ p2 \in Running => p \in Running
    /\ p = "crashed" => p2 = "crashed"
    /\ shut => shut2

\* Losing a tail keeps what the books of a direction say.
LEMMA CarriesLater ==
    ASSUME NEW rs, NEW d, NEW taken, NEW i \in Bytes, NEW ie, NEW st \in Bytes, NEW k, NEW p,
           NEW fw, NEW shut, Carries(rs, d, taken, i, ie, st, k, p, fw, shut),
           NEW i2 \in Bytes, NEW ie2, NEW p2, NEW shut2, Later(i, ie, p, shut, i2, ie2, p2, shut2)
    PROVE  Carries(rs, d, taken, i2, ie2, st, k, p2, fw, shut2)
<1>1. /\ Whole(taken) /\ Len(Frames(taken)) = k
      /\ Begins(taken \o i, st) /\ (~ie => st = taken \o i)
      /\ Begins(fw, StreamOf(rs, d, taken))
      /\ p # "crashed" /\ ~shut => fw = StreamOf(rs, d, taken)
      /\ p \in Running => \A j \in 1..k : ~RaisesOf(rs, d, j)
  BY DEF Carries
<1>2. /\ Begins(i2, i) /\ (i2 = i \/ ie2) /\ (ie => ie2)
      /\ p2 \in Running => p \in Running
      /\ p = "crashed" => p2 = "crashed"
      /\ shut => shut2
  BY DEF Later
<1>3. taken \in Bytes
  BY <1>1 DEF Whole
<1>4. taken \o i \in Bytes /\ taken \o i2 \in Bytes
  BY ONLY <1>3, Joins, i \in Bytes, i2 \in Bytes
<1>5. Begins(taken \o i2, taken \o i)
  BY ONLY <1>2, <1>3, BeginsMore, i \in Bytes, i2 \in Bytes
<1>6. Begins(taken \o i2, st)
  BY ONLY <1>1, <1>4, <1>5, BeginsMore, st \in Bytes
<1> QED BY ONLY <1>1, <1>2, <1>6 DEF Carries

\* So does sending more.
LEMMA CarriesSend ==
    ASSUME NEW rs, NEW d, NEW taken, NEW i \in Bytes, NEW st, NEW k, NEW p, NEW fw, NEW shut,
           NEW ie, ~ie, Carries(rs, d, taken, i, ie, st, k, p, fw, shut), NEW u \in Bytes
    PROVE  Carries(rs, d, taken, i \o u, ie, st \o u, k, p, fw, shut)
<1>1. /\ Whole(taken) /\ Len(Frames(taken)) = k
      /\ st = taken \o i
      /\ Begins(fw, StreamOf(rs, d, taken))
      /\ p # "crashed" /\ ~shut => fw = StreamOf(rs, d, taken)
      /\ p \in Running => \A j \in 1..k : ~RaisesOf(rs, d, j)
  BY DEF Carries
<1>2. taken \in Bytes
  BY <1>1 DEF Whole
<1>3. taken \o (i \o u) = st \o u /\ taken \o (i \o u) \in Bytes
  <2>1. taken \o (i \o u) = (taken \o i) \o u
    BY ONLY <1>2, Associate, i \in Bytes, u \in Bytes
  <2>2. taken \o (i \o u) \in Bytes
    BY ONLY <1>2, Joins, i \in Bytes, u \in Bytes
  <2> QED BY ONLY <1>1, <2>1, <2>2
<1>4. Begins(taken \o (i \o u), st \o u)
  BY ONLY <1>3, BeginsMore
<1> QED BY ONLY <1>1, <1>3, <1>4 DEF Carries

\* The state of a direction after a frame has been read.
LEMMA CarriesRead ==
    ASSUME NEW rs \in Seq(Rule), NEW d, NEW taken, NEW i \in Bytes, NEW ie, NEW st \in Bytes,
           NEW k \in Nat, NEW fw \in Bytes, NEW shut,
           Carries(rs, d, taken, i, ie, st, k, "read", fw, shut), Complete(i)
    PROVE  LET w == RewrittenOf(rs, d, k + 1, FirstFrame(i))
               t == taken \o FirstFrame(i)
               r == AfterFrame(i)
           IN  /\ r \in Bytes
               /\ RaisesOf(rs, d, k + 1) => Carries(rs, d, t, r, ie, st, k + 1, "crashed", fw, shut)
               /\ ~RaisesOf(rs, d, k + 1) =>
                     /\ w \in Bytes
                     /\ shut => Carries(rs, d, t, r, ie, st, k + 1, "drain", fw, shut)
                     /\ ~shut => Carries(rs, d, t, r, ie, st, k + 1, "drain", fw \o w, shut)
<1>1. /\ Whole(taken) /\ Len(Frames(taken)) = k
      /\ Begins(taken \o i, st) /\ (~ie => st = taken \o i)
      /\ Begins(fw, StreamOf(rs, d, taken))
      /\ ~shut => fw = StreamOf(rs, d, taken)
      /\ \A j \in 1..k : ~RaisesOf(rs, d, j)
  BY DEF Carries, Running
<1>2. PICK f : f = FirstFrame(i)
  OBVIOUS
<1>3. PICK r : r = AfterFrame(i)
  OBVIOUS
<1>4. PICK w : w = RewrittenOf(rs, d, k + 1, f)
  OBVIOUS
<1>5. f \in Bytes /\ r \in Bytes /\ i = f \o r
  BY <1>2, <1>3, FrameParts
<1>6. taken \in Bytes
  BY <1>1 DEF Whole
<1>7. PICK t : t = taken \o f
  OBVIOUS
<1>8. t \in Bytes /\ t \o r = taken \o i
  <2>1. (taken \o f) \o r = taken \o (f \o r)
    BY ONLY <1>5, <1>6, Associate
  <2>2. taken \o f \in Bytes
    BY ONLY <1>5, <1>6, Joins
  <2> QED BY ONLY <1>5, <1>7, <2>1, <2>2
<1>9. Whole(t) /\ Len(Frames(t)) = k + 1
  <2>1. Whole(t) /\ Frames(t) = Frames(taken) \o <<f>>
    BY ONLY <1>1, <1>2, <1>7, WholeAppend, Complete(i), i \in Bytes
  <2>2. Frames(taken) \in Seq(Framed)
    BY ONLY <1>6, FramesUnfold
  <2>3. PICK a : a = Frames(taken)
    OBVIOUS
  <2>4. Len(a \o <<f>>) = Len(a) + 1
    BY ONLY <2>2, <2>3
  <2> QED BY ONLY <1>1, <2>1, <2>3, <2>4
<1>10. /\ StreamOf(rs, d, taken) \in Bytes /\ StreamOf(rs, d, t) \in Bytes
       /\ Begins(StreamOf(rs, d, taken), StreamOf(rs, d, t))
  BY ONLY <1>1, <1>5, <1>7, rs \in Seq(Rule), StreamBegins
<1>11. Begins(fw, StreamOf(rs, d, t))
  BY ONLY <1>1, <1>10, BeginsMore, fw \in Bytes
<1>12. Begins(t \o r, st) /\ (~ie => st = t \o r)
  BY ONLY <1>1, <1>8
<1>13. RaisesOf(rs, d, k + 1) => Carries(rs, d, t, r, ie, st, k + 1, "crashed", fw, shut)
  <2>1. "crashed" \notin Running
    BY DEF Running
  <2> QED BY ONLY <1>9, <1>11, <1>12, <2>1 DEF Carries
<1>14. ASSUME ~RaisesOf(rs, d, k + 1)
       PROVE  /\ w \in Bytes /\ StreamOf(rs, d, t) = StreamOf(rs, d, taken) \o w
              /\ \A j \in 1..(k + 1) : ~RaisesOf(rs, d, j)
  <2>1. \A j \in 1..(k + 1) : j \in 1..k \/ j = k + 1
    OBVIOUS
  <2>2. \A j \in 1..(k + 1) : ~RaisesOf(rs, d, j)
    BY ONLY <1>1, <1>14, <2>1
  <2>3. \A j \in 1..(Len(Frames(taken)) + 1) : ~RaisesOf(rs, d, j)
    BY ONLY <1>1, <2>2
  <2>4. w \in Bytes /\ StreamOf(rs, d, t) = StreamOf(rs, d, taken) \o w
    BY ONLY <1>1, <1>2, <1>4, <1>7, <2>3, StreamNext, rs \in Seq(Rule), i \in Bytes, Complete(i)
  <2> QED BY ONLY <2>2, <2>4
<1>15. ASSUME ~RaisesOf(rs, d, k + 1), shut
       PROVE  Carries(rs, d, t, r, ie, st, k + 1, "drain", fw, shut)
  BY ONLY <1>9, <1>11, <1>12, <1>14, <1>15 DEF Carries
<1>16. ASSUME ~RaisesOf(rs, d, k + 1), ~shut
       PROVE  Carries(rs, d, t, r, ie, st, k + 1, "drain", fw \o w, shut)
  <2>1. fw \o w = StreamOf(rs, d, t)
    BY ONLY <1>1, <1>14, <1>16
  <2>2. Begins(fw \o w, StreamOf(rs, d, t))
    BY ONLY <1>10, <2>1, BeginsMore
  <2> QED BY ONLY <1>9, <1>12, <1>14, <1>16, <2>1, <2>2 DEF Carries
<1>17. ~RaisesOf(rs, d, k + 1) => w \in Bytes
  BY <1>14
<1> QED BY ONLY <1>2, <1>3, <1>4, <1>5, <1>7, <1>13, <1>15, <1>16, <1>17

-----------------------------------------------------------------------------
(* The target *)

\* The target has served the frames of served, holds or is still to receive the
\* bytes held (no more reach it when oe), and has written st.
Serves(served, held, oe, fw, st, ie) ==
    /\ Whole(served)
    /\ Begins(served \o held, fw) /\ (~oe => fw = served \o held)
    /\ Begins(st, Answers(served)) /\ (~ie => st = Answers(served))

\* Losing a tail keeps what the books of the target say.
LEMMA ServesLater ==
    ASSUME NEW served, NEW held \in Bytes, NEW oe, NEW fw \in Bytes, NEW st, NEW ie,
           Serves(served, held, oe, fw, st, ie),
           NEW held2 \in Bytes, NEW oe2, NEW ie2, Begins(held2, held), held2 = held \/ oe2,
           oe => oe2, ie => ie2
    PROVE  Serves(served, held2, oe2, fw, st, ie2)
<1>1. /\ Whole(served)
      /\ Begins(served \o held, fw) /\ (~oe => fw = served \o held)
      /\ Begins(st, Answers(served)) /\ (~ie => st = Answers(served))
  BY DEF Serves
<1>2. served \in Bytes
  BY <1>1 DEF Whole
<1>3. served \o held \in Bytes /\ served \o held2 \in Bytes
  BY ONLY <1>2, Joins, held \in Bytes, held2 \in Bytes
<1>4. Begins(served \o held2, served \o held)
  BY ONLY <1>2, BeginsMore, held \in Bytes, held2 \in Bytes, Begins(held2, held)
<1>5. Begins(served \o held2, fw)
  BY ONLY <1>1, <1>3, <1>4, BeginsMore, fw \in Bytes
<1> QED BY <1>1, <1>5 DEF Serves

\* So does forwarding more to it.
LEMMA ServesMore ==
    ASSUME NEW served, NEW held \in Bytes, NEW oe, ~oe, NEW fw, NEW st, NEW ie,
           Serves(served, held, oe, fw, st, ie), NEW w \in Bytes
    PROVE  Serves(served, held \o w, oe, fw \o w, st, ie)
<1>1. /\ Whole(served) /\ fw = served \o held
      /\ Begins(st, Answers(served)) /\ (~ie => st = Answers(served))
  BY DEF Serves
<1>2. served \in Bytes
  BY <1>1 DEF Whole
<1>3. served \o (held \o w) = fw \o w /\ served \o (held \o w) \in Bytes
  <2>1. served \o (held \o w) = (served \o held) \o w
    BY ONLY <1>2, Associate, held \in Bytes, w \in Bytes
  <2>2. served \o (held \o w) \in Bytes
    BY ONLY <1>2, Joins, held \in Bytes, w \in Bytes
  <2> QED BY ONLY <1>1, <2>1, <2>2
<1>4. Begins(served \o (held \o w), fw \o w)
  BY ONLY <1>3, BeginsMore
<1> QED BY ONLY <1>1, <1>3, <1>4 DEF Serves

\* So does serving the first frame it holds.
LEMMA ServesNext ==
    ASSUME NEW served, NEW b \in Bytes, NEW o \in Bytes, NEW oe, NEW fw, NEW st \in Bytes, NEW ie,
           Serves(served, b \o o, oe, fw, st, ie), Complete(b)
    PROVE  LET response == Response(FirstFrame(b))
           IN  /\ AfterFrame(b) \in Bytes /\ response \in Bytes
               /\ ie => Serves(served \o FirstFrame(b), AfterFrame(b) \o o, oe, fw, st, ie)
               /\ ~ie => Serves(served \o FirstFrame(b), AfterFrame(b) \o o, oe, fw,
                                st \o response, ie)
<1>1. /\ Whole(served)
      /\ Begins(served \o (b \o o), fw) /\ (~oe => fw = served \o (b \o o))
      /\ Begins(st, Answers(served)) /\ (~ie => st = Answers(served))
  BY DEF Serves
<1>2. served \in Bytes
  BY <1>1 DEF Whole
<1>3. PICK f : f = FirstFrame(b)
  OBVIOUS
<1>4. PICK r : r = AfterFrame(b)
  OBVIOUS
<1>5. f \in Bytes /\ r \in Bytes /\ b = f \o r
  BY <1>3, <1>4, FrameParts
<1>6. PICK s : s = served \o f
  OBVIOUS
<1>7. s \o (r \o o) = served \o (b \o o)
  <2>1. b \o o = f \o (r \o o) /\ r \o o \in Bytes
    <3>1. (f \o r) \o o = f \o (r \o o)
      BY ONLY <1>5, Associate, o \in Bytes
    <3>2. r \o o \in Bytes
      BY ONLY <1>5, Joins, o \in Bytes
    <3> QED BY ONLY <1>5, <3>1, <3>2
  <2>2. PICK q \in Bytes : q = r \o o
    BY <2>1
  <2>3. (served \o f) \o q = served \o (f \o q)
    BY ONLY <1>2, <1>5, q \in Bytes, Associate
  <2> QED BY ONLY <1>6, <2>1, <2>2, <2>3
<1>8. Whole(s)
  BY ONLY <1>1, <1>3, <1>6, WholeAppend, b \in Bytes, Complete(b)
<1>9. PICK w : w = Response(f)
  OBVIOUS
<1>10. w \in Bytes
  BY ONLY <1>9, ResponseType
<1>11. Answers(s) = Answers(served) \o w
  BY ONLY <1>1, <1>3, <1>6, <1>9, AnswersNext, b \in Bytes, Complete(b)
<1>12. Answers(served) \in Bytes
  BY ONLY <1>1, AnswersConcat, Joins
<1>13. Answers(s) \in Bytes /\ Begins(Answers(served), Answers(s))
  BY ONLY <1>10, <1>11, <1>12, BeginsMore, Joins
<1>14. ASSUME ie PROVE Serves(s, r \o o, oe, fw, st, ie)
  <2>1. Begins(st, Answers(s))
    BY ONLY <1>1, <1>12, <1>13, BeginsMore, st \in Bytes
  <2> QED BY ONLY <1>1, <1>7, <1>8, <1>14, <2>1 DEF Serves
<1>15. ASSUME ~ie PROVE Serves(s, r \o o, oe, fw, st \o w, ie)
  <2>1. st \o w = Answers(s)
    BY ONLY <1>1, <1>11, <1>15
  <2>2. Begins(st \o w, Answers(s))
    BY ONLY <1>13, <2>1, BeginsMore
  <2> QED BY ONLY <1>1, <1>7, <1>8, <2>1, <2>2 DEF Serves
<1> QED BY ONLY <1>3, <1>4, <1>5, <1>6, <1>9, <1>10, <1>14, <1>15

\* What the variables range over.  The two pipes start together.
States == Running \cup {"closing", "ended", "crashed"}

Typed ==
    /\ rules \in RuleLists
    /\ pipe \in [Directions -> States]
    /\ pipe["host_to_target"] = "connecting" <=> pipe["target_to_host"] = "connecting"
    /\ ordinal \in [Directions -> Nat]
    /\ in \in [Directions -> Bytes] /\ inEof \in [Directions -> BOOLEAN]
    /\ reader \in [Directions -> Bytes] /\ eof \in [Directions -> BOOLEAN]
    /\ out \in [Directions -> Bytes] /\ writer \in [Directions -> {"open", "closing", "lost"}]
    /\ gone \subseteq {"host", "target"} /\ target \in {"read", "drain"}
    /\ buffer \in Bytes
    /\ sent \in [Directions -> Bytes] /\ forwarded \in [Directions -> Bytes]

\* Whoever reads what this pipe writes does not any more, or never will.
Shut(d) == Receiver(d) \in gone \/ writer[d] = "lost"

\* The books of a direction: the frames its pipe has taken, and the rest, received
\* by its reader or not.
Inbound(d) == reader[d] \o in[d]
CarriedBy(d, taken) ==
    Carries(rules, d, taken, Inbound(d), inEof[d], sent[d], ordinal[d], pipe[d], forwarded[d], Shut(d))
Carried == \A d \in Directions : \E taken : CarriedBy(d, taken)

\* What the target has been passed and has not served, and its books.
Held == buffer \o out["host_to_target"]
ServedBy(served) ==
    Serves(served, Held, Shut("host_to_target"), forwarded["host_to_target"],
           sent["target_to_host"], inEof["target_to_host"])
Served == \E served : ServedBy(served)

IInv == Typed /\ Carried /\ Served

\* The directions are two, and the lists and requests of the instance are typed.
LEMMA Constants ==
    /\ "host_to_target" \in Directions /\ "target_to_host" \in Directions
    /\ \A d \in Directions : Other(d) \in Directions
    /\ Other("target_to_host") = "host_to_target" /\ Other("host_to_target") = "target_to_host"
    /\ "host_to_target" # "target_to_host"
    /\ RuleLists \subseteq Seq(Rule)
    /\ \A k \in DOMAIN Requests : Requests[k] \in Bytes
<1>1. RuleLists \subseteq Seq(Rule)
  BY RulesAssumption DEF Rule
<1>2. \A k \in DOMAIN Requests : Requests[k] \in Bytes
  <2>1. Requests \in Seq(Bytes)
    BY ProxyAssumption DEF Bytes
  <2> QED BY ONLY <2>1, ElementOfSeq, LenProperties
<1> QED BY <1>1, <1>2 DEF Directions, Other

\* The target holds bytes.
LEMMA HeldType == Typed => Held \in Bytes
BY Joins, Constants DEF Typed, Held

\* So is what is on its way to a pipe, before a step and after it.
LEMMA InboundType ==
    /\ Typed => \A d \in Directions : Inbound(d) \in Bytes
    /\ Typed' => \A d \in Directions : Inbound(d)' \in Bytes
BY Joins DEF Typed, Inbound

-----------------------------------------------------------------------------
(* Steps that only end things *)

\* What is on its way gets shorter at its end at most, and what ends stays ended.
Ageing ==
    /\ rules' = rules /\ ordinal' = ordinal /\ sent' = sent /\ forwarded' = forwarded
    /\ \A d \in Directions : Later(Inbound(d), inEof[d], pipe[d], Shut(d),
                                   Inbound(d)', inEof'[d], pipe'[d], Shut(d)')
    /\ Begins(Held', Held) /\ (Held' = Held \/ Shut("host_to_target")')

\* A step that only loses or ends something preserves the invariant.
LEMMA AgeingKeeps ==
    ASSUME IInv, Typed', Ageing
    PROVE  IInv'
<1>1. ASSUME NEW d \in Directions PROVE \E taken : CarriedBy(d, taken)'
  <2>1. PICK taken : CarriedBy(d, taken)
    BY DEF IInv, Carried
  <2>2. Carries(rules, d, taken, Inbound(d), inEof[d], sent[d], ordinal[d], pipe[d], forwarded[d], Shut(d))
    BY <2>1 DEF CarriedBy
  <2>3. Inbound(d) \in Bytes /\ Inbound(d)' \in Bytes /\ sent[d] \in Bytes
    BY InboundType DEF IInv, Typed
  <2>4. Later(Inbound(d), inEof[d], pipe[d], Shut(d), Inbound(d)', inEof'[d], pipe'[d], Shut(d)')
    BY DEF Ageing
  <2>5. Carries(rules, d, taken, Inbound(d)', inEof'[d], sent[d], ordinal[d], pipe'[d], forwarded[d], Shut(d)')
    BY ONLY <2>2, <2>3, <2>4, CarriesLater
  <2> QED BY <2>5 DEF CarriedBy, Ageing
<1>2. \E served : ServedBy(served)'
  <2>1. PICK served : ServedBy(served)
    BY DEF IInv, Served
  <2>2. Serves(served, Held, Shut("host_to_target"), forwarded["host_to_target"],
               sent["target_to_host"], inEof["target_to_host"])
    BY <2>1 DEF ServedBy
  <2>3. Held \in Bytes /\ Held' \in Bytes /\ forwarded["host_to_target"] \in Bytes
    <3>1. Held \in Bytes /\ forwarded["host_to_target"] \in Bytes
      BY HeldType, Constants DEF IInv, Typed
    <3>2. Held' \in Bytes
      BY Joins, Constants DEF Typed, Held
    <3> QED BY ONLY <3>1, <3>2
  <2>4. /\ Begins(Held', Held) /\ (Held' = Held \/ Shut("host_to_target")')
        /\ Shut("host_to_target") => Shut("host_to_target")'
        /\ inEof["target_to_host"] => inEof'["target_to_host"]
    BY Constants DEF Ageing, Later
  <2>5. Serves(served, Held', Shut("host_to_target")', forwarded["host_to_target"],
               sent["target_to_host"], inEof'["target_to_host"])
    BY ONLY <2>2, <2>3, <2>4, ServesLater
  <2> QED BY <2>5 DEF ServedBy, Ageing
<1> QED BY <1>1, <1>2 DEF IInv, Carried, Served

\* What has arrived stays.
LEMMA SomeLater ==
    \A i \in Bytes : \A ie, ie2, p, p2, shut, shut2 :
       /\ ie => ie2
       /\ (p2 \in Running => p \in Running) /\ (p = "crashed" => p2 = "crashed")
       /\ shut => shut2
       => Later(i, ie, p, shut, i, ie2, p2, shut2)
BY BeginsMore DEF Later

\* A connection is lost, while a pipe may stop running.
LEMMA Losing ==
    ASSUME IInv, NEW d \in Directions, Lose(d),
           UNCHANGED <<rules, ordinal, reader, endpoints, forwarded>>,
           pipe' = pipe \/ (pipe[d] \in {"read", "drain"} /\ pipe' = [pipe EXCEPT ![d] = "closing"])
    PROVE  IInv'
<1>1. PICK o \in Directions : o = Other(d)
  BY Constants
<1>2. in' = [in EXCEPT ![o] = <<>>]
  BY <1>1 DEF Lose
<1>3. PICK delivered \in Prefixes(out[d]) : out' = [out EXCEPT ![d] = delivered]
  <2>1. out[d] \in Bytes
    BY DEF IInv, Typed
  <2>2. out[d] \in Prefixes(out[d])
    <3>1. PICK x : x = out[d]
      OBVIOUS
    <3>2. x \in Seq(Byte) /\ Len(x) \in Nat
      BY <2>1, <3>1, LenProperties DEF Bytes
    <3>3. SubSeq(x, 1, Len(x)) = x /\ Len(x) \in 0..Len(x)
      BY ONLY <3>2, SubSeqFull
    <3> QED BY ONLY <3>1, <3>3 DEF Prefixes
  <2> QED BY <2>2 DEF Lose
<1>4. /\ writer' = [writer EXCEPT ![d] = "lost"] /\ inEof' = [inEof EXCEPT ![o] = TRUE]
      /\ eof' = [eof EXCEPT ![o] = TRUE]
  BY <1>1 DEF Lose
<1>5. delivered \in Bytes /\ Begins(delivered, out[d])
  BY PrefixBegins DEF IInv, Typed
<1>6. Typed'
  <2>1. /\ rules' \in RuleLists /\ ordinal' \in [Directions -> Nat]
        /\ gone' \subseteq {"host", "target"} /\ target' \in {"read", "drain"} /\ buffer' \in Bytes
        /\ sent' \in [Directions -> Bytes] /\ reader' \in [Directions -> Bytes] /\ forwarded' \in [Directions -> Bytes]
    BY DEF IInv, Typed, endpoints
  <2>2. in' \in [Directions -> Bytes] /\ out' \in [Directions -> Bytes]
    BY <1>2, <1>3, <1>5, Joins DEF IInv, Typed
  <2>3. /\ inEof' \in [Directions -> BOOLEAN] /\ eof' \in [Directions -> BOOLEAN]
        /\ writer' \in [Directions -> {"open", "closing", "lost"}]
    BY <1>4 DEF IInv, Typed
  <2>4. /\ pipe' \in [Directions -> States]
        /\ pipe'["host_to_target"] = "connecting" <=> pipe'["target_to_host"] = "connecting"
    BY DEF IInv, Typed, States, Running, Directions
  <2> QED BY <2>1, <2>2, <2>3, <2>4 DEF Typed
<1>7. Ageing
  <2>1. ASSUME NEW e \in Directions
        PROVE  Later(Inbound(e), inEof[e], pipe[e], Shut(e), Inbound(e)', inEof'[e], pipe'[e], Shut(e)')
    <3>1. Begins(Inbound(e)', Inbound(e)) /\ (Inbound(e)' = Inbound(e) \/ inEof'[e])
          /\ (inEof[e] => inEof'[e])
      <4>1. in[e] \in Bytes /\ reader[e] \in Bytes /\ reader'[e] = reader[e]
        BY DEF IInv, Typed
      <4>2. e # o => in'[e] = in[e] /\ inEof'[e] = inEof[e]
        BY <1>2, <1>4 DEF IInv, Typed
      <4>3. e = o => in'[e] = <<>> /\ inEof'[e]
        BY <1>2, <1>4 DEF IInv, Typed
      <4>4. CASE e # o
        <5>1. Inbound(e)' = Inbound(e)
          BY <4>1, <4>2, <4>4 DEF Inbound
        <5> QED BY <4>2, <4>4, <5>1, InboundType, BeginsMore DEF IInv
      <4>5. CASE e = o
        <5>1. Inbound(e)' = reader[e]
          BY <4>1, <4>3, <4>5, Joins DEF Inbound
        <5>2. Begins(reader[e], reader[e] \o in[e])
          BY <4>1, BeginsMore
        <5> QED BY <4>3, <4>5, <5>1, <5>2 DEF Inbound
      <4> QED BY <4>4, <4>5
    <3>2. (pipe'[e] \in Running => pipe[e] \in Running) /\ (pipe[e] = "crashed" => pipe'[e] = "crashed")
      BY DEF IInv, Typed, Running
    <3>3. Shut(e) => Shut(e)'
      BY <1>4 DEF Shut, IInv, Typed, endpoints
    <3> QED BY ONLY <3>1, <3>2, <3>3 DEF Later
  <2>2. Begins(Held', Held) /\ (Held' = Held \/ Shut("host_to_target")')
    <3>1. CASE d = "host_to_target"
      <4>1. Held' = buffer \o delivered /\ Shut("host_to_target")'
        BY <1>3, <1>4, <3>1 DEF Held, Shut, IInv, Typed, endpoints
      <4>2. Begins(buffer \o delivered, Held)
        BY <1>5, <3>1, BeginsMore DEF Held, IInv, Typed
      <4> QED BY <4>1, <4>2
    <3>2. CASE d # "host_to_target"
      <4>1. Held' = Held
        BY <1>3, <3>2, Constants DEF Held, IInv, Typed, endpoints
      <4> QED BY <4>1, HeldType, BeginsMore DEF IInv
    <3> QED BY ONLY <3>1, <3>2
  <2> QED BY <2>1, <2>2 DEF Ageing, endpoints
<1> QED BY <1>6, <1>7, AgeingKeeps

\* Closing a writer: the connection is lost, now or when it is flushed.
LEMMA Closing ==
    ASSUME IInv, NEW d \in Directions, CloseWriter(d),
           UNCHANGED <<rules, ordinal, reader, endpoints, forwarded>>,
           pipe' = pipe \/ (pipe[d] \in {"read", "drain"} /\ pipe' = [pipe EXCEPT ![d] = "closing"])
    PROVE  IInv'
<1>1. CASE Lose(d)
  BY <1>1, Losing
<1>2. CASE /\ UNCHANGED <<in, inEof, eof, out>>
           /\ writer' = writer \/ (writer[d] = "open" /\ writer' = [writer EXCEPT ![d] = "closing"])
  <2>1. Typed'
    BY <1>2 DEF IInv, Typed, States, Running, Directions, endpoints
  <2>2. ASSUME NEW e \in Directions
        PROVE  Later(Inbound(e), inEof[e], pipe[e], Shut(e), Inbound(e)', inEof'[e], pipe'[e], Shut(e)')
    <3>1. Inbound(e) \in Bytes /\ Inbound(e)' = Inbound(e) /\ inEof'[e] = inEof[e]
      BY <1>2, InboundType DEF Inbound, IInv
    <3>2. (pipe'[e] \in Running => pipe[e] \in Running) /\ (pipe[e] = "crashed" => pipe'[e] = "crashed")
      BY DEF IInv, Typed, Running
    <3>3. Shut(e) => Shut(e)'
      BY <1>2 DEF Shut, IInv, Typed, endpoints
    <3> QED BY <3>1, <3>2, <3>3, SomeLater
  <2>3. Held' = Held
    BY <1>2 DEF Held, endpoints
  <2>4. Ageing
    BY <2>2, <2>3, HeldType, BeginsMore DEF Ageing, IInv, endpoints
  <2> QED BY <2>1, <2>4, AgeingKeeps
<1> QED BY <1>1, <1>2 DEF CloseWriter

\* handle() opens the connection to the target, or fails to: nothing is on its way.
LEMMA ConnectKeeps == IInv /\ Connect => IInv'
<1> SUFFICES ASSUME IInv, Connect PROVE IInv'
  OBVIOUS
<1>1. /\ pipe["host_to_target"] = "connecting" /\ pipe["target_to_host"] = "connecting"
      /\ UNCHANGED <<rules, ordinal, in, inEof, reader, eof, out, writer, target, buffer, sent, forwarded>>
      /\ \/ pipe' = [e \in Directions |-> "read"] /\ gone' = gone
         \/ pipe' = [e \in Directions |-> "crashed"] /\ gone' = gone \cup {"target"}
  BY DEF Connect, IInv, Typed
<1>2. Typed'
  BY <1>1 DEF IInv, Typed, States, Running, Directions
<1>3. Ageing
  <2>1. ASSUME NEW d \in Directions
        PROVE  Later(Inbound(d), inEof[d], pipe[d], Shut(d), Inbound(d)', inEof'[d], pipe'[d], Shut(d)')
    <3>1. Inbound(d) \in Bytes /\ Inbound(d)' = Inbound(d) /\ inEof'[d] = inEof[d]
      BY <1>1, InboundType DEF Inbound, IInv
    <3>2. pipe[d] = "connecting"
      BY <1>1 DEF Directions
    <3>3. Shut(d) => Shut(d)'
      BY <1>1 DEF Shut
    <3> QED BY <3>1, <3>2, <3>3, SomeLater DEF Running
  <2>2. Held' = Held
    BY <1>1 DEF Held
  <2> QED BY <1>1, <2>1, <2>2, HeldType, BeginsMore DEF Ageing, IInv
<1> QED BY <1>2, <1>3, AgeingKeeps

\* A pipe that neither reads nor closes.
LEMMA PipeKeeps ==
    ASSUME IInv, NEW d \in Directions, NEW p,
           \/ pipe[d] = "drain" /\ p = "read"
           \/ pipe[d] \in {"read", "drain", "closing"} /\ p \in {"ended", "crashed"},
           pipe' = [pipe EXCEPT ![d] = p],
           UNCHANGED <<rules, ordinal, in, inEof, reader, eof, out, writer, endpoints, forwarded>>
    PROVE  IInv'
<1>1. Typed'
  BY DEF IInv, Typed, States, Running, Directions, endpoints
<1>2. Ageing
  <2>1. ASSUME NEW e \in Directions
        PROVE  Later(Inbound(e), inEof[e], pipe[e], Shut(e), Inbound(e)', inEof'[e], pipe'[e], Shut(e)')
    <3>1. Inbound(e) \in Bytes /\ Inbound(e)' = Inbound(e) /\ inEof'[e] = inEof[e]
      BY InboundType DEF Inbound, IInv
    <3>2. (pipe'[e] \in Running => pipe[e] \in Running) /\ (pipe[e] = "crashed" => pipe'[e] = "crashed")
      BY DEF IInv, Typed, Running
    <3>3. Shut(e) => Shut(e)'
      BY DEF Shut, endpoints
    <3> QED BY <3>1, <3>2, <3>3, SomeLater
  <2>2. Held' = Held
    BY DEF Held, endpoints
  <2> QED BY <2>1, <2>2, HeldType, BeginsMore DEF Ageing, IInv, endpoints
<1> QED BY <1>1, <1>2, AgeingKeeps

\* The reader of a pipe receives what is on its way: the same bytes, in order.
LEMMA ReceiveKeeps == \A d \in Directions : IInv /\ Receive(d) => IInv'
<1> SUFFICES ASSUME NEW d \in Directions, IInv, Receive(d) PROVE IInv'
  OBVIOUS
<1>1. /\ reader' = [reader EXCEPT ![d] = @ \o in[d]] /\ in' = [in EXCEPT ![d] = <<>>]
      /\ eof' = [eof EXCEPT ![d] = inEof[d]]
      /\ UNCHANGED <<rules, pipe, ordinal, inEof, out, writer, endpoints, forwarded>>
  BY DEF Receive
<1>2. /\ reader \in [Directions -> Bytes] /\ in \in [Directions -> Bytes]
      /\ reader[d] \o in[d] \in Bytes /\ <<>> \in Bytes
  BY Joins DEF IInv, Typed
<1>3. Typed'
  <2>1. reader' \in [Directions -> Bytes] /\ in' \in [Directions -> Bytes]
    BY ONLY <1>1, <1>2
  <2> QED BY <1>1, <2>1 DEF IInv, Typed, endpoints
<1>4. \A e \in Directions : Inbound(e)' = Inbound(e)
  <2>1. (reader[d] \o in[d]) \o <<>> = reader[d] \o in[d]
    BY <1>2, Joins
  <2> QED BY <1>1, <1>2, <2>1 DEF Inbound
<1>5. ASSUME NEW e \in Directions
      PROVE  Later(Inbound(e), inEof[e], pipe[e], Shut(e), Inbound(e)', inEof'[e], pipe'[e], Shut(e)')
  <2>1. Shut(e)' = Shut(e)
    BY <1>1 DEF Shut, endpoints
  <2>2. Inbound(e) \in Bytes
    BY InboundType DEF IInv
  <2> QED BY <1>1, <1>4, <2>1, <2>2, SomeLater
<1>6. Held' = Held
  BY <1>1 DEF Held, endpoints
<1>7. Ageing
  BY <1>1, <1>5, <1>6, HeldType, BeginsMore DEF Ageing, IInv, endpoints
<1> QED BY <1>3, <1>7, AgeingKeeps

\* A frame read by a pipe was the next on its way, and leaves it rewritten, or the
\* pipe ends before it is counted.
LEMMA ReadFrameKeeps == \A d \in Directions : IInv /\ ReadFrame(d) => IInv'
<1> SUFFICES ASSUME NEW d \in Directions, IInv, ReadFrame(d) PROVE IInv'
  OBVIOUS
<1>0. /\ rules \in Seq(Rule) /\ reader[d] \in Bytes /\ in[d] \in Bytes /\ sent[d] \in Bytes /\ ordinal[d] \in Nat
      /\ forwarded[d] \in Bytes /\ Complete(reader[d]) /\ pipe[d] = "read"
  BY Constants DEF IInv, Typed, ReadFrame
<1>1. PICK k : k = ordinal[d]
  OBVIOUS
<1>2. PICK w : w = RewrittenOf(rules, d, k + 1, FirstFrame(reader[d]))
  OBVIOUS
<1>3. PICK q : q = AfterFrame(reader[d])
  OBVIOUS
<1>3a. PICK r : r = q \o in[d]
  OBVIOUS
<1>3b. /\ q \in Bytes /\ Inbound(d) \in Bytes /\ Complete(Inbound(d))
      /\ FirstFrame(Inbound(d)) = FirstFrame(reader[d]) /\ AfterFrame(Inbound(d)) = r
  <2>1. AfterFrame(reader[d]) \in Bytes
    BY <1>0, FrameParts
  <2>2. Inbound(d) \in Bytes
    BY InboundType DEF IInv
  <2> QED BY <1>0, <1>3, <1>3a, <2>1, <2>2, FrameStays DEF Inbound
<1>4. PICK taken : Carries(rules, d, taken, Inbound(d), inEof[d], sent[d], k, "read", forwarded[d], Shut(d))
  BY <1>0, <1>1 DEF IInv, Carried, CarriedBy
<1>5. PICK t : t = taken \o FirstFrame(reader[d])
  OBVIOUS
<1>6. /\ r \in Bytes
      /\ RaisesOf(rules, d, k + 1) =>
            Carries(rules, d, t, r, inEof[d], sent[d], k + 1, "crashed", forwarded[d], Shut(d))
      /\ ~RaisesOf(rules, d, k + 1) =>
            /\ w \in Bytes
            /\ Shut(d) => Carries(rules, d, t, r, inEof[d], sent[d], k + 1, "drain", forwarded[d], Shut(d))
            /\ ~Shut(d) => Carries(rules, d, t, r, inEof[d], sent[d], k + 1, "drain",
                                   forwarded[d] \o w, Shut(d))
  <2>1. /\ w = RewrittenOf(rules, d, k + 1, FirstFrame(Inbound(d))) /\ r = AfterFrame(Inbound(d))
        /\ t = taken \o FirstFrame(Inbound(d))
    BY <1>2, <1>5, <1>3b
  <2> QED BY ONLY <1>0, <1>1, <1>4, <1>3b, <2>1, CarriesRead
<1>7. /\ reader' = [reader EXCEPT ![d] = q] /\ ordinal' = [ordinal EXCEPT ![d] = k + 1]
      /\ UNCHANGED <<rules, in, inEof, eof, writer, gone, target, buffer, sent>>
      /\ \/ /\ RaisesOf(rules, d, k + 1) /\ pipe' = [pipe EXCEPT ![d] = "crashed"]
            /\ UNCHANGED <<out, forwarded>>
         \/ /\ ~RaisesOf(rules, d, k + 1) /\ pipe' = [pipe EXCEPT ![d] = "drain"]
            /\ Shut(d) /\ UNCHANGED <<out, forwarded>>
         \/ /\ ~RaisesOf(rules, d, k + 1) /\ pipe' = [pipe EXCEPT ![d] = "drain"]
            /\ ~Shut(d) /\ out' = [out EXCEPT ![d] = @ \o w]
            /\ forwarded' = [forwarded EXCEPT ![d] = @ \o w]
  <2>1. RuleRaises(d, k + 1) <=> RaisesOf(rules, d, k + 1)
    BY DEF RuleRaises, RaisesOf
  <2>2. Rewritten(d, k + 1, FirstFrame(reader[d])) = w
    BY <1>2 DEF Rewritten, RewrittenOf
  <2> QED BY <1>1, <1>3, <2>1, <2>2 DEF ReadFrame, Shut, endpoints
<1>8. PICK fw \in Bytes : fw = forwarded'[d]
  <2>1. forwarded \in [Directions -> Bytes]
    BY DEF IInv, Typed
  <2>2. ~RaisesOf(rules, d, k + 1) => forwarded[d] \o w \in Bytes
    BY ONLY <1>0, <1>6, Joins
  <2>3. forwarded'[d] = forwarded[d]
        \/ (~RaisesOf(rules, d, k + 1) /\ forwarded'[d] = forwarded[d] \o w)
    BY ONLY <1>7, <2>1, d \in Directions
  <2> QED BY ONLY <1>0, <2>2, <2>3
<1>9. /\ forwarded' = [forwarded EXCEPT ![d] = fw]
      /\ Carries(rules, d, t, r, inEof[d], sent[d], k + 1, pipe'[d], fw, Shut(d))
  <2>1. /\ forwarded \in [Directions -> Bytes] /\ pipe \in [Directions -> States]
    BY DEF IInv, Typed
  <2> QED BY ONLY <1>6, <1>7, <1>8, <2>1, d \in Directions
<1>10. Typed'
  <2>1. /\ rules' \in RuleLists /\ gone' \subseteq {"host", "target"} /\ target' \in {"read", "drain"}
        /\ buffer' \in Bytes /\ sent' \in [Directions -> Bytes]
        /\ in' \in [Directions -> Bytes] /\ inEof' \in [Directions -> BOOLEAN]
        /\ eof' \in [Directions -> BOOLEAN]
        /\ writer' \in [Directions -> {"open", "closing", "lost"}]
    BY <1>7 DEF IInv, Typed
  <2>2. reader' \in [Directions -> Bytes] /\ forwarded' \in [Directions -> Bytes]
    BY <1>3b, <1>7, <1>9 DEF IInv, Typed
  <2>3. out' \in [Directions -> Bytes]
    <3>1. out \in [Directions -> Bytes]
      BY DEF IInv, Typed
    <3>2. ~RaisesOf(rules, d, k + 1) => out[d] \o w \in Bytes
      BY <1>6, <3>1, Joins
    <3> QED BY ONLY <1>7, <3>1, <3>2
  <2>4. ordinal' \in [Directions -> Nat]
    BY <1>0, <1>1, <1>7 DEF IInv, Typed
  <2>5. /\ pipe' \in [Directions -> States]
        /\ pipe'["host_to_target"] = "connecting" <=> pipe'["target_to_host"] = "connecting"
    <3>1. \/ pipe' = [pipe EXCEPT ![d] = "crashed"]
          \/ pipe' = [pipe EXCEPT ![d] = "drain"]
      BY <1>7
    <3> QED BY <1>0, <3>1 DEF IInv, Typed, States, Running, Directions
  <2> QED BY <2>1, <2>2, <2>3, <2>4, <2>5 DEF Typed
<1>11. \A e : Shut(e)' = Shut(e)
  BY <1>7 DEF Shut
<1>12. ASSUME NEW e \in Directions PROVE \E x : CarriedBy(e, x)'
  <2>1. CASE e = d
    <3>1. /\ rules' = rules /\ Inbound(d)' = r /\ inEof' = inEof /\ sent' = sent
          /\ ordinal'[d] = k + 1 /\ forwarded'[d] = fw
      BY <1>3a, <1>7, <1>8 DEF IInv, Typed, Inbound
    <3>2. CarriedBy(d, t)'
      BY <1>9, <1>11, <3>1 DEF CarriedBy
    <3> QED BY <2>1, <3>2
  <2>2. CASE e # d
    <3>1. PICK x : CarriedBy(e, x)
      BY DEF IInv, Carried
    <3>2. /\ rules' = rules /\ Inbound(e)' = Inbound(e) /\ inEof' = inEof /\ sent' = sent
          /\ ordinal'[e] = ordinal[e] /\ forwarded'[e] = forwarded[e] /\ pipe'[e] = pipe[e]
      BY <1>7, <1>9, <2>2 DEF IInv, Typed, Inbound
    <3>3. CarriedBy(e, x)'
      BY <1>11, <3>1, <3>2 DEF CarriedBy
    <3> QED BY <3>3
  <2> QED BY <2>1, <2>2
<1>13. Served'
  <2>1. PICK served : Serves(served, Held, Shut("host_to_target"), forwarded["host_to_target"],
                             sent["target_to_host"], inEof["target_to_host"])
    BY DEF IInv, Served, ServedBy
  <2>2. CASE UNCHANGED <<out, forwarded>> \/ d # "host_to_target"
    <3>1. Held' = Held /\ forwarded'["host_to_target"] = forwarded["host_to_target"]
      BY <1>7, <2>2, Constants DEF Held, IInv, Typed
    <3>2. ServedBy(served)'
      BY <1>7, <1>11, <2>1, <3>1 DEF ServedBy
    <3> QED BY <3>2 DEF Served
  <2>3. CASE /\ d = "host_to_target" /\ ~RaisesOf(rules, d, k + 1) /\ ~Shut(d)
             /\ out' = [out EXCEPT ![d] = @ \o w]
             /\ forwarded' = [forwarded EXCEPT ![d] = @ \o w]
    <3>1. Held \in Bytes /\ w \in Bytes
      BY <1>6, <2>3, HeldType DEF IInv
    <3>2. Serves(served, Held \o w, Shut("host_to_target"), forwarded["host_to_target"] \o w,
                 sent["target_to_host"], inEof["target_to_host"])
      BY ONLY <2>1, <2>3, <3>1, ServesMore
    <3>3. /\ Held' = Held \o w
          /\ forwarded'["host_to_target"] = forwarded["host_to_target"] \o w
      <4>1. out[d] \in Bytes /\ buffer \in Bytes /\ out'[d] = out[d] \o w /\ buffer' = buffer
            /\ forwarded'[d] = forwarded[d] \o w
        BY <1>7, <2>3 DEF IInv, Typed
      <4>2. buffer \o (out[d] \o w) = (buffer \o out[d]) \o w
        BY ONLY <3>1, <4>1, Associate
      <4> QED BY <2>3, <4>1, <4>2 DEF Held
    <3>4. ServedBy(served)'
      BY <1>7, <1>11, <3>2, <3>3 DEF ServedBy
    <3> QED BY <3>4 DEF Served
  <2> QED BY <1>7, <2>2, <2>3
<1> QED BY <1>10, <1>12, <1>13 DEF IInv, Carried

\* A step that takes nothing from the pipes but what lies beyond them.
LEMMA EndsKeep ==
    ASSUME IInv, Typed',
           UNCHANGED <<rules, pipe, ordinal, in, reader, writer, sent, forwarded>>,
           gone \subseteq gone', \A d \in Directions : inEof[d] => inEof'[d],
           Begins(Held', Held), Held' = Held \/ Shut("host_to_target")'
    PROVE  IInv'
<1>1. ASSUME NEW d \in Directions
      PROVE  Later(Inbound(d), inEof[d], pipe[d], Shut(d), Inbound(d)', inEof'[d], pipe'[d], Shut(d)')
  <2>1. Inbound(d) \in Bytes /\ Inbound(d)' = Inbound(d) /\ pipe'[d] = pipe[d]
    BY InboundType DEF Inbound, IInv
  <2>2. Shut(d) => Shut(d)'
    BY DEF Shut
  <2> QED BY <2>1, <2>2, SomeLater
<1>2. Ageing
  BY <1>1 DEF Ageing
<1> QED BY <1>2, AgeingKeeps

\* The target holds what it held when its buffer and its way in are the same.
LEMMA SameHeld ==
    ASSUME IInv, buffer' = buffer, out'["host_to_target"] = out["host_to_target"]
    PROVE  Begins(Held', Held) /\ Held' = Held
<1>1. Held' = Held
  BY DEF Held
<1> QED BY <1>1, HeldType, BeginsMore DEF IInv

\* recv() moves bytes from the way in to the buffer: it holds the same.
LEMMA TargetPullsKeeps == IInv /\ TargetPulls => IInv'
<1> SUFFICES ASSUME IInv, TargetPulls PROVE IInv'
  OBVIOUS
<1>1. /\ UNCHANGED <<rules, pipe, ordinal, in, inEof, reader, eof, writer, gone, target, sent, forwarded>>
      /\ buffer' = buffer \o out["host_to_target"]
      /\ out' = [out EXCEPT !["host_to_target"] = <<>>]
  BY DEF TargetPulls
<1>2. buffer' \in Bytes /\ out' \in [Directions -> Bytes] /\ out'["host_to_target"] = <<>>
  BY <1>1, Joins, Constants DEF IInv, Typed
<1>3. Typed'
  BY <1>1, <1>2 DEF IInv, Typed
<1>4. Held' = Held
  <2>1. buffer' \o <<>> = buffer'
    BY <1>2, Joins
  <2> QED BY <1>1, <1>2, <2>1 DEF Held
<1>5. Begins(Held', Held)
  BY <1>4, HeldType, BeginsMore DEF IInv
<1> QED BY <1>1, <1>3, <1>4, <1>5, EndsKeep

\* drain() returns to the target: it reads on, and nothing else has changed.
LEMMA TargetDrainsKeeps == IInv /\ TargetDrains => IInv'
<1> SUFFICES ASSUME IInv, TargetDrains PROVE IInv'
  OBVIOUS
<1>1. /\ UNCHANGED <<rules, pipe, ordinal, in, inEof, reader, eof, out, writer, gone, buffer, sent, forwarded>>
      /\ target' = "read"
  BY DEF TargetDrains
<1>2. Typed'
  BY <1>1 DEF IInv, Typed
<1>3. Begins(Held', Held) /\ Held' = Held
  BY <1>1, SameHeld
<1> QED BY <1>1, <1>2, <1>3, EndsKeep

\* The target closes, and what it held is lost.
LEMMA TargetEndsKeeps == IInv /\ TargetEnds => IInv'
<1> SUFFICES ASSUME IInv, TargetEnds PROVE IInv'
  OBVIOUS
<1>1. /\ UNCHANGED <<rules, pipe, ordinal, in, inEof, reader, eof, writer, target, buffer, sent, forwarded>>
      /\ gone' = gone \cup {"target"}
      /\ out' = [out EXCEPT !["host_to_target"] = <<>>]
  BY DEF TargetEnds
<1>2. out' \in [Directions -> Bytes] /\ out'["host_to_target"] = <<>>
  BY <1>1, Joins, Constants DEF IInv, Typed
<1>3. inEof' \in [Directions -> BOOLEAN] /\ \A d \in Directions : inEof[d] => inEof'[d]
  BY <1>1 DEF IInv, Typed
<1>4. Typed'
  BY <1>1, <1>2, <1>3 DEF IInv, Typed
<1>5. Shut("host_to_target")'
  BY <1>1 DEF Shut, Receiver, Sender, Other
<1>6. Begins(Held', Held)
  <2>1. buffer \in Bytes /\ out["host_to_target"] \in Bytes
    BY Constants DEF IInv, Typed
  <2>2. Held' = buffer
    BY <1>1, <1>2, <2>1, Joins DEF Held
  <2> QED BY <2>1, <2>2, BeginsMore DEF Held
<1> QED BY <1>1, <1>3, <1>4, <1>5, <1>6, EndsKeep

\* The host reads answers, which takes nothing from any books.
LEMMA HostReadsKeeps == IInv /\ HostReads => IInv'
<1> SUFFICES ASSUME IInv, HostReads PROVE IInv'
  OBVIOUS
<1>1. /\ UNCHANGED <<rules, pipe, ordinal, in, inEof, reader, eof, writer, gone, target, buffer, sent, forwarded>>
      /\ out' = [out EXCEPT !["target_to_host"] = <<>>]
  BY DEF HostReads, endpoints
<1>2. Typed'
  BY <1>1, Joins DEF IInv, Typed
<1>3. Begins(Held', Held) /\ Held' = Held
  <2>1. out'["host_to_target"] = out["host_to_target"]
    BY <1>1, Constants DEF IInv, Typed
  <2> QED BY <1>1, <2>1, SameHeld
<1> QED BY <1>1, <1>2, <1>3, EndsKeep

\* The host closes, and what was on its way to it is lost.
LEMMA HostClosesKeeps == IInv /\ HostCloses => IInv'
<1> SUFFICES ASSUME IInv, HostCloses PROVE IInv'
  OBVIOUS
<1>1. /\ UNCHANGED <<rules, pipe, ordinal, in, reader, eof, writer, target, buffer, sent, forwarded>>
      /\ inEof' = [inEof EXCEPT !["host_to_target"] = TRUE]
      /\ \/ gone' = gone /\ out' = out
         \/ gone' = gone \cup {"host"} /\ out' = [out EXCEPT !["target_to_host"] = <<>>]
  BY DEF HostCloses
<1>2. /\ out' \in [Directions -> Bytes] /\ gone' \subseteq {"host", "target"}
      /\ out'["host_to_target"] = out["host_to_target"]
  <2>1. out \in [Directions -> Bytes] /\ gone \subseteq {"host", "target"}
    BY DEF IInv, Typed
  <2>2. <<>> \in Bytes /\ "host_to_target" \in Directions /\ "host_to_target" # "target_to_host"
    BY Joins, Constants
  <2>3. gone' \subseteq {"host", "target"}
    BY ONLY <1>1, <2>1
  <2> QED BY ONLY <1>1, <2>1, <2>2, <2>3
<1>3. inEof' \in [Directions -> BOOLEAN] /\ \A d \in Directions : inEof[d] => inEof'[d]
  BY <1>1 DEF IInv, Typed
<1>4. Typed'
  BY <1>1, <1>2, <1>3 DEF IInv, Typed
<1>5. Begins(Held', Held) /\ Held' = Held
  BY <1>1, <1>2, SameHeld
<1> QED BY <1>1, <1>3, <1>4, <1>5, EndsKeep

\* A step of another part changes nothing.
LEMMA StutterKeeps == IInv /\ UNCHANGED vars => IInv'
<1> SUFFICES ASSUME IInv, UNCHANGED vars PROVE IInv'
  OBVIOUS
<1>1. UNCHANGED <<rules, pipe, ordinal, in, inEof, reader, eof, out, writer, gone, target, buffer, sent, forwarded>>
  BY DEF vars
<1>2. Typed'
  BY <1>1 DEF IInv, Typed
<1>3. Begins(Held', Held) /\ Held' = Held
  BY <1>1, SameHeld
<1> QED BY <1>1, <1>2, <1>3, EndsKeep

-----------------------------------------------------------------------------
(* The two steps that send *)

\* The target takes the first frame it holds and puts the answer behind the others.
LEMMA TargetServesKeeps == IInv /\ TargetServes => IInv'
<1> SUFFICES ASSUME IInv, TargetServes PROVE IInv'
  OBVIOUS
<1> DEFINE back == "target_to_host"
<1>1. PICK w : w = Response(FirstFrame(buffer))
  OBVIOUS
<1>2. PICK reply : reply = IF inEof[back] THEN <<>> ELSE w
  OBVIOUS
<1>3. /\ buffer' = AfterFrame(buffer) /\ target' \in {"read", "drain"} /\ Complete(buffer)
      /\ in' = [in EXCEPT ![back] = @ \o reply]
      /\ sent' = [sent EXCEPT ![back] = @ \o reply]
      /\ UNCHANGED <<rules, pipe, ordinal, inEof, reader, eof, out, writer, gone, forwarded>>
  BY <1>1, <1>2 DEF TargetServes
<1>4. /\ buffer \in Bytes /\ in[back] \in Bytes /\ sent[back] \in Bytes
      /\ out["host_to_target"] \in Bytes /\ back \in Directions
  BY Constants DEF IInv, Typed
<1>5. PICK served : Serves(served, Held, Shut("host_to_target"), forwarded["host_to_target"],
                           sent[back], inEof[back])
  BY DEF IInv, Served, ServedBy
<1>6. PICK s : s = served \o FirstFrame(buffer)
  OBVIOUS
<1>7. PICK held : held = AfterFrame(buffer) \o out["host_to_target"]
  OBVIOUS
<1>8. /\ AfterFrame(buffer) \in Bytes /\ w \in Bytes
      /\ inEof[back] => Serves(s, held, Shut("host_to_target"), forwarded["host_to_target"],
                               sent[back], inEof[back])
      /\ ~inEof[back] => Serves(s, held, Shut("host_to_target"), forwarded["host_to_target"],
                                sent[back] \o w, inEof[back])
  <2>1. Serves(served, buffer \o out["host_to_target"], Shut("host_to_target"),
               forwarded["host_to_target"], sent[back], inEof[back])
    BY <1>5 DEF Held
  <2> HIDE DEF back
  <2> QED BY ONLY <1>1, <1>3, <1>4, <1>6, <1>7, <2>1, ServesNext
<1>9. reply \in Bytes /\ in[back] \o reply \in Bytes /\ sent[back] \o reply \in Bytes
  BY <1>2, <1>4, <1>8, Joins
<1>10. Typed'
  <2>1. in' \in [Directions -> Bytes] /\ sent' \in [Directions -> Bytes]
    <3>1. in \in [Directions -> Bytes] /\ sent \in [Directions -> Bytes]
      BY DEF IInv, Typed
    <3> QED BY ONLY <1>3, <1>9, <3>1
  <2> QED BY <1>3, <1>8, <2>1 DEF IInv, Typed
<1>11. (\A e : Shut(e)' = Shut(e)) /\ Held' = held
  BY <1>3, <1>7 DEF Shut, Held
<1>12. Served'
  <2>1. sent'[back] = IF inEof[back] THEN sent[back] ELSE sent[back] \o w
    BY <1>2, <1>3, <1>4, Joins DEF IInv, Typed
  <2>2. ServedBy(s)'
    BY <1>3, <1>8, <1>11, <2>1 DEF ServedBy
  <2> QED BY <2>2 DEF Served
<1>13. ASSUME NEW e \in Directions PROVE \E x : CarriedBy(e, x)'
  <2>1. PICK x : CarriedBy(e, x)
    BY DEF IInv, Carried
  <2>2. CASE e = back /\ ~inEof[back]
    <3>1. Carries(rules, e, x, Inbound(e) \o w, inEof[e], sent[e] \o w, ordinal[e], pipe[e],
                  forwarded[e], Shut(e))
      <4>1. Carries(rules, e, x, Inbound(e), inEof[e], sent[e], ordinal[e], pipe[e], forwarded[e], Shut(e))
        BY <2>1 DEF CarriedBy
      <4> HIDE DEF back
      <4>2. Inbound(e) \in Bytes
        BY InboundType DEF IInv
      <4> QED BY ONLY <1>4, <1>8, <2>2, <4>1, <4>2, CarriesSend
    <3>2. Inbound(e)' = Inbound(e) \o w /\ sent'[e] = sent[e] \o w
      <4>1. in'[e] = in[e] \o w /\ sent'[e] = sent[e] \o w /\ reader'[e] = reader[e]
        BY <1>2, <1>3, <2>2 DEF IInv, Typed
      <4>2. reader[e] \o (in[e] \o w) = (reader[e] \o in[e]) \o w
        <5>1. reader[e] \in Bytes /\ in[e] \in Bytes
          BY DEF IInv, Typed
        <5> QED BY ONLY <1>8, <5>1, Associate
      <4> QED BY <4>1, <4>2 DEF Inbound
    <3>3. CarriedBy(e, x)'
      BY <1>3, <1>11, <3>1, <3>2 DEF CarriedBy
    <3> QED BY <3>3
  <2>3. CASE e # back \/ inEof[back]
    <3>1. Inbound(e)' = Inbound(e) /\ sent'[e] = sent[e]
      BY <1>2, <1>3, <1>4, <2>3, Joins DEF IInv, Typed, Inbound
    <3>2. CarriedBy(e, x)'
      BY <1>3, <1>11, <2>1, <3>1 DEF CarriedBy
    <3> QED BY <3>2
  <2> QED BY <2>2, <2>3
<1> QED BY <1>10, <1>12, <1>13 DEF IInv, Carried

\* A request goes behind what is on its way to the pipe.
LEMMA HostSendsKeeps == IInv /\ HostSends => IInv'
<1> SUFFICES ASSUME IInv, HostSends PROVE IInv'
  OBVIOUS
<1> DEFINE there == "host_to_target"
<1>1. PICK u \in Bytes : /\ in' = [in EXCEPT ![there] = @ \o u]
                         /\ sent' = [sent EXCEPT ![there] = @ \o u]
  BY Constants DEF HostSends
<1>2. /\ UNCHANGED <<rules, pipe, ordinal, inEof, reader, eof, out, writer, gone, target, buffer, forwarded>>
      /\ ~inEof[there]
  BY DEF HostSends
<1>3. in[there] \in Bytes /\ sent[there] \in Bytes /\ there \in Directions
  BY Constants DEF IInv, Typed
<1>4. Typed'
  <2>1. in' \in [Directions -> Bytes] /\ sent' \in [Directions -> Bytes]
    <3>1. in \in [Directions -> Bytes] /\ sent \in [Directions -> Bytes]
      BY DEF IInv, Typed
    <3>2. in[there] \o u \in Bytes /\ sent[there] \o u \in Bytes
      BY <1>3, Joins
    <3> QED BY ONLY <1>1, <3>1, <3>2
  <2> QED BY <1>2, <2>1 DEF IInv, Typed
<1>5. (\A e : Shut(e)' = Shut(e)) /\ Held' = Held
  BY <1>2 DEF Shut, Held
<1>6. ASSUME NEW e \in Directions PROVE \E x : CarriedBy(e, x)'
  <2>1. PICK x : CarriedBy(e, x)
    BY DEF IInv, Carried
  <2>2. CASE e = there
    <3>1. Carries(rules, e, x, Inbound(e) \o u, inEof[e], sent[e] \o u, ordinal[e], pipe[e],
                  forwarded[e], Shut(e))
      <4>1. Carries(rules, e, x, Inbound(e), inEof[e], sent[e], ordinal[e], pipe[e], forwarded[e], Shut(e))
        BY <2>1 DEF CarriedBy
      <4> HIDE DEF there
      <4>2. Inbound(e) \in Bytes
        BY InboundType DEF IInv
      <4> QED BY ONLY <1>2, <1>3, <2>2, <4>1, <4>2, CarriesSend, u \in Bytes
    <3>2. Inbound(e)' = Inbound(e) \o u /\ sent'[e] = sent[e] \o u
      <4>1. in'[e] = in[e] \o u /\ sent'[e] = sent[e] \o u /\ reader'[e] = reader[e]
        BY <1>1, <1>2, <2>2 DEF IInv, Typed
      <4>2. reader[e] \o (in[e] \o u) = (reader[e] \o in[e]) \o u
        BY Associate, u \in Bytes DEF IInv, Typed
      <4> QED BY <4>1, <4>2 DEF Inbound
    <3>3. CarriedBy(e, x)'
      BY <1>2, <1>5, <3>1, <3>2 DEF CarriedBy
    <3> QED BY <3>3
  <2>3. CASE e # there
    <3>1. Inbound(e)' = Inbound(e) /\ sent'[e] = sent[e]
      BY <1>1, <1>2, <2>3 DEF IInv, Typed, Inbound
    <3>2. CarriedBy(e, x)'
      BY <1>2, <1>5, <2>1, <3>1 DEF CarriedBy
    <3> QED BY <3>2
  <2> QED BY <2>2, <2>3
<1>7. Served'
  <2>1. PICK served : ServedBy(served)
    BY DEF IInv, Served
  <2>2. sent'["target_to_host"] = sent["target_to_host"]
    BY <1>1, Constants DEF IInv, Typed
  <2>3. ServedBy(served)'
    BY <1>2, <1>5, <2>1, <2>2 DEF ServedBy
  <2> QED BY <2>3 DEF Served
<1> QED BY <1>4, <1>6, <1>7 DEF IInv, Carried

\* Nothing has been sent, taken or served at first.
LEMMA InitHolds == Init => IInv
<1> SUFFICES ASSUME Init PROVE IInv
  OBVIOUS
<1>1. /\ rules \in RuleLists /\ gone = {} /\ target = "read" /\ buffer = <<>>
      /\ pipe = [d \in Directions |-> "connecting"] /\ ordinal = [d \in Directions |-> 0]
      /\ in = [d \in Directions |-> <<>>] /\ inEof = [d \in Directions |-> FALSE]
      /\ out = [d \in Directions |-> <<>>] /\ writer = [d \in Directions |-> "open"]
      /\ reader = [d \in Directions |-> <<>>] /\ eof = [d \in Directions |-> FALSE]
      /\ sent = [d \in Directions |-> <<>>] /\ forwarded = [d \in Directions |-> <<>>]
  BY DEF Init
<1>2. Typed
  BY <1>1, Joins, Constants DEF Typed, States, Running
<1>3. PICK e : e = <<>>
  OBVIOUS
<1>4. Whole(e) /\ Len(Frames(e)) = 0 /\ e \in Bytes /\ e \o e = e /\ FlattenSeq(e) = e
  <2>1. FlattenSeq(<<>>) = <<>>
    BY DEF FlattenSeq
  <2>2. Whole(<<>>)
    BY <2>1, NoFrame, Joins DEF Whole
  <2> QED BY <1>3, <2>1, <2>2, NoFrame, Joins
<1>5. Begins(e, e)
  BY <1>4, BeginsMore
<1>6. Carried
  <2>1. ASSUME NEW d \in Directions PROVE CarriedBy(d, e)
    <3>1. StreamOf(rules, d, e) = e
      <4>1. Passed(rules, d, Frames(e)) = {}
        BY <1>3, NoFrame DEF Passed
      <4>2. Cardinality({}) = 0
        BY FS_EmptySet
      <4>3. Rewrites(rules, d, Frames(e)) = <<>>
        BY <4>1, <4>2 DEF Rewrites
      <4> QED BY <1>3, <1>4, <4>3 DEF StreamOf
    <3>2. /\ Inbound(d) = e /\ sent[d] = e /\ forwarded[d] = e /\ ordinal[d] = 0
      BY <1>1, <1>3, <1>4 DEF Inbound
    <3>3. \A j \in 1..0 : ~RaisesOf(rules, d, j)
      OBVIOUS
    <3>4. Carries(rules, d, e, e, inEof[d], e, 0, pipe[d], e, Shut(d))
      BY ONLY <1>4, <1>5, <3>1, <3>3 DEF Carries
    <3> QED BY ONLY <3>2, <3>4 DEF CarriedBy
  <2> QED BY <2>1 DEF Carried
<1>7. Served
  <2>1. Answers(e) = e
    <3>1. PICK q : q = [k \in DOMAIN Frames(e) |-> Response(Frames(e)[k])]
      OBVIOUS
    <3>2. q = <<>>
      BY <1>3, <3>1, NoFrame
    <3> QED BY <1>3, <1>4, <3>1, <3>2 DEF Answers
  <2>2. /\ Held = e /\ forwarded["host_to_target"] = e /\ sent["target_to_host"] = e
    BY <1>1, <1>3, <1>4, Constants DEF Held
  <2>3. ServedBy(e)
    BY <1>4, <1>5, <2>1, <2>2 DEF ServedBy, Serves
  <2> QED BY <2>3 DEF Served
<1> QED BY <1>2, <1>6, <1>7 DEF IInv

\* Every step preserves the invariant.
LEMMA NextKeeps == IInv /\ [Next]_vars => IInv'
<1> SUFFICES ASSUME IInv, [Next]_vars PROVE IInv'
  OBVIOUS
<1>1. CASE Connect
  BY <1>1, ConnectKeeps
<1>2. CASE \E d \in Directions : ReadFrame(d)
  BY <1>2, ReadFrameKeeps
<1>3. ASSUME NEW d \in Directions, Drain(d) \/ WaitClosed(d) PROVE IInv'
  BY <1>3, PipeKeeps DEF Drain, WaitClosed
<1>4. ASSUME NEW d \in Directions, PipeCrash(d) PROVE IInv'
  <2>1. /\ pipe[d] \in {"read", "drain"} /\ pipe' = [pipe EXCEPT ![d] = "crashed"]
        /\ UNCHANGED <<rules, ordinal, in, inEof, reader, eof, out, writer, endpoints, forwarded>>
    BY <1>4 DEF PipeCrash, Broken
  <2> QED BY <2>1, PipeKeeps
<1>5. ASSUME NEW d \in Directions, EndOfStream(d) \/ PipeReset(d) PROVE IInv'
  <2>1. /\ pipe[d] \in {"read", "drain"} /\ pipe' = [pipe EXCEPT ![d] = "closing"]
        /\ CloseWriter(d) /\ UNCHANGED <<rules, ordinal, reader, endpoints, forwarded>>
    BY <1>5 DEF EndOfStream, PipeReset, Broken
  <2> QED BY <2>1, Closing
<1>6. ASSUME NEW d \in Directions, Collect(d) \/ Flush(d) PROVE IInv'
  <2>1. /\ CloseWriter(d) \/ Lose(d)
        /\ pipe' = pipe /\ UNCHANGED <<rules, ordinal, reader, endpoints, forwarded>>
    BY <1>6 DEF Collect, Flush
  <2> QED BY <2>1, Closing, Losing
<1>7. CASE Target
  BY <1>7, TargetPullsKeeps, TargetServesKeeps, TargetDrainsKeeps, TargetEndsKeeps DEF Target
<1>8. CASE HostSends \/ HostReads \/ HostCloses
  BY <1>8, HostSendsKeeps, HostReadsKeeps, HostClosesKeeps
<1>9. CASE \E d \in Directions : Receive(d)
  BY <1>9, ReceiveKeeps
<1>10. CASE UNCHANGED vars
  BY <1>10, StutterKeeps
<1> QED BY <1>1, <1>2, <1>3, <1>4, <1>5, <1>6, <1>7, <1>8, <1>9, <1>10 DEF Next, Pipe

\* The invariant of the proxy and of the two ends.
LEMMA SpecKeeps == Spec => []IInv
<1>1. Init => IInv
  BY InitHolds
<1>2. IInv /\ [Next]_vars => IInv'
  BY NextKeeps
<1> QED BY <1>1, <1>2, PTL DEF Spec

-----------------------------------------------------------------------------

\* The stream of the proof is the one of the property.
LEMMA StreamIsRewritten == \A d, s : RewrittenStream(d, s) = StreamOf(rules, d, s)
BY DEF RewrittenStream, StreamOf, Rewrites, Passed, RaisesOf, RuleRaises, RewrittenOf, Rewritten

\* What a pipe has forwarded begins what the rules make of any stream it was sent.
LEMMA CarriedMeans ==
    ASSUME IInv, NEW d \in Directions, NEW s \in Bytes, Begins(sent[d], s)
    PROVE  /\ RewrittenStream(d, s) \in Bytes /\ Begins(forwarded[d], RewrittenStream(d, s))
<1>1. PICK taken : CarriedBy(d, taken)
  BY DEF IInv, Carried
<1>2. /\ Whole(taken) /\ Begins(taken \o Inbound(d), sent[d])
      /\ Begins(forwarded[d], StreamOf(rules, d, taken))
  BY <1>1 DEF CarriedBy, Carries
<1>3. /\ rules \in Seq(Rule) /\ Inbound(d) \in Bytes /\ sent[d] \in Bytes /\ forwarded[d] \in Bytes
  BY Constants, InboundType DEF IInv, Typed
<1>4. taken \in Bytes
  BY <1>2 DEF Whole
<1>5. taken \o Inbound(d) \in Bytes
  BY <1>3, <1>4, Joins
<1>6. Begins(taken, s)
  <2>1. Begins(taken, taken \o Inbound(d))
    BY ONLY <1>3, <1>4, BeginsMore
  <2>2. Begins(taken \o Inbound(d), s)
    BY ONLY <1>2, <1>3, <1>5, BeginsMore, s \in Bytes, Begins(sent[d], s)
  <2> QED BY ONLY <1>4, <1>5, <2>1, <2>2, BeginsMore, s \in Bytes
<1>7. PICK u \in Bytes : s = taken \o u
  BY <1>6 DEF Begins
<1>8. /\ StreamOf(rules, d, taken) \in Bytes /\ StreamOf(rules, d, s) \in Bytes
      /\ Begins(StreamOf(rules, d, taken), StreamOf(rules, d, s))
  BY ONLY <1>2, <1>3, <1>7, u \in Bytes, StreamBegins
<1>9. Begins(forwarded[d], StreamOf(rules, d, s))
  BY ONLY <1>2, <1>3, <1>8, BeginsMore
<1> QED BY <1>8, <1>9, StreamIsRewritten

\* Whatever a pipe has forwarded is a beginning of the bytes it was sent with the
\* rules applied to its frames, in their order and at their ordinals.
THEOREM OnlyTheRulesDiffer == Spec => []OnlyRulesDiffer
<1>1. IInv => OnlyRulesDiffer
  <2> SUFFICES ASSUME IInv, NEW d \in Directions
               PROVE  IsPrefix(forwarded[d], RewrittenStream(d, sent[d]))
    BY DEF OnlyRulesDiffer
  <2>1. sent[d] \in Bytes /\ forwarded[d] \in Bytes
    BY DEF IInv, Typed
  <2>2. RewrittenStream(d, sent[d]) \in Bytes /\ Begins(forwarded[d], RewrittenStream(d, sent[d]))
    BY <2>1, BeginsMore, CarriedMeans
  <2> QED BY ONLY <2>1, <2>2, BeginsFacts
<1> QED BY <1>1, SpecKeeps, PTL

\* What reaches the host is a beginning of the answers of the target to the requests
\* as the rules rewrite them, rewritten in their turn.
THEOREM EndToEndHolds == Spec => []EndToEnd
<1>1. IInv => EndToEnd
  <2> SUFFICES ASSUME IInv PROVE EndToEnd
    OBVIOUS
  <2> DEFINE there == "host_to_target"
             back == "target_to_host"
  <2>1. PICK asked : asked = RewrittenStream(there, sent[there])
    OBVIOUS
  <2>2. /\ sent[there] \in Bytes /\ forwarded[there] \in Bytes /\ sent[back] \in Bytes
        /\ forwarded[back] \in Bytes /\ there \in Directions /\ back \in Directions
    BY Constants DEF IInv, Typed
  <2>3. asked \in Bytes /\ Begins(forwarded[there], asked)
    BY <2>1, <2>2, BeginsMore, CarriedMeans
  <2>4. PICK served : ServedBy(served)
    BY DEF IInv, Served
  <2>5. Whole(served) /\ Begins(served \o Held, forwarded[there]) /\ Begins(sent[back], Answers(served))
    BY <2>4 DEF ServedBy, Serves
  <2>6. served \in Bytes /\ Held \in Bytes
    BY <2>5, HeldType DEF Whole, IInv
  <2>7. Begins(served, asked)
    <3> HIDE DEF there, back
    <3>1. served \o Held \in Bytes /\ Begins(served, served \o Held)
      BY ONLY <2>6, BeginsMore, Joins
    <3>2. Begins(served \o Held, asked)
      BY ONLY <2>2, <2>3, <2>5, <3>1, BeginsMore
    <3> QED BY ONLY <2>3, <2>6, <3>1, <3>2, BeginsMore
  <2>8. PICK u \in Bytes : asked = served \o u
    BY <2>7 DEF Begins
  <2>9. Answers(served) \in Bytes /\ Answers(asked) \in Bytes /\ Begins(Answers(served), Answers(asked))
    <3>1. /\ Answers(served) \in Bytes /\ Answers(u) \in Bytes
          /\ Answers(served \o u) = Answers(served) \o Answers(u)
      BY ONLY <2>5, u \in Bytes, AnswersConcat
    <3> QED BY ONLY <2>8, <3>1, BeginsMore, Joins
  <2>10. Begins(sent[back], Answers(asked))
    <3> HIDE DEF there, back
    <3> QED BY ONLY <2>2, <2>5, <2>9, BeginsMore
  <2>11. /\ RewrittenStream(back, Answers(asked)) \in Bytes
         /\ Begins(forwarded[back], RewrittenStream(back, Answers(asked)))
    BY <2>2, <2>9, <2>10, CarriedMeans
  <2>12. IsPrefix(forwarded[back], RewrittenStream(back, Answers(asked)))
    BY ONLY <2>2, <2>11, BeginsFacts
  <2> QED BY <2>1, <2>12 DEF EndToEnd
<1> QED BY <1>1, SpecKeeps, PTL
=============================================================================
