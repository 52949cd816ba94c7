--------------------------- MODULE IRduino_proofs ---------------------------
(***************************************************************************)
(* Proofs about IRduino, for every set of codes of every length.           *)
(*                                                                         *)
(* The argument is about the bytes that learn_code has read, those that    *)
(* wait and those that arrive, taken as one stream: whatever byte of a     *)
(* code is found there, the rest of that code follows it.                  *)
(***************************************************************************)
EXTENDS IRduino, Integers, SequenceTheorems, TLAPS

Byte == {b \in Codes \X (Nat \ {0}) : b[2] <= Len(b[1])}

\* From any byte on, the stream goes on with what is left of that byte's code.
Framed(s) ==
    \A p \in 1..Len(s) : \A m \in s[p][2]..Len(s[p][1]) :
        /\ p + m - s[p][2] <= Len(s)
        /\ s[p + m - s[p][2]] = <<s[p][1], m>>

LEMMA FrameBytes ==
    ASSUME NEW c \in Codes
    PROVE  /\ Frame(c) \in Seq(Byte)
           /\ Len(Frame(c)) = Len(c)
           /\ Len(c) \in Nat \ {0}
           /\ \A n \in 1..Len(c) : Frame(c)[n] = <<c, n>>
<1>1. Len(c) \in Nat \ {0}
  BY CodesAssumption
<1>2. \A n \in 1..Len(c) : <<c, n>> \in Byte
  BY <1>1 DEF Byte
<1>3. Frame(c) \in [1..Len(c) -> Byte]
  BY <1>1, <1>2 DEF Frame
<1>4. Frame(c) \in Seq(Byte) /\ Len(Frame(c)) = Len(c)
  BY <1>1, <1>3
<1>5. \A n \in 1..Len(c) : Frame(c)[n] = <<c, n>>
  BY DEF Frame
<1> QED
  BY <1>1, <1>4, <1>5

LEMMA ByteParts ==
    ASSUME NEW b \in Byte
    PROVE  /\ b[1] \in Codes /\ b[2] \in Nat \ {0}
           /\ Len(b[1]) \in Nat \ {0} /\ b[2] <= Len(b[1])
BY CodesAssumption DEF Byte

LEMMA EmptyIsFramed == Framed(<<>>)
BY DEF Framed

LEMMA FrameIsFramed ==
    ASSUME NEW c \in Codes
    PROVE  Framed(Frame(c))
BY FrameBytes DEF Framed

\* What is left when a beginning was read, or thrown away, is framed.
LEMMA RestIsFramed ==
    ASSUME NEW s \in Seq(Byte), NEW t \in Seq(Byte), Framed(s \o t)
    PROVE  Framed(t)
<1> DEFINE st == s \o t
<1>1. /\ st \in Seq(Byte)
      /\ Len(st) = Len(s) + Len(t) /\ Len(s) \in Nat /\ Len(t) \in Nat
      /\ \A i \in 1..Len(t) : st[Len(s) + i] = t[i]
  BY ConcatProperties, LenProperties
<1> SUFFICES ASSUME NEW p \in 1..Len(t), NEW m \in t[p][2]..Len(t[p][1])
             PROVE  /\ p + m - t[p][2] <= Len(t)
                    /\ t[p + m - t[p][2]] = <<t[p][1], m>>
  BY DEF Framed
<1>2. /\ Len(s) + p \in 1..Len(st) /\ st[Len(s) + p] = t[p] /\ t[p] \in Byte
      /\ p \in Nat \ {0}
  BY <1>1, ElementOfSeq
<1>3. t[p][2] \in Nat \ {0} /\ Len(t[p][1]) \in Nat \ {0} /\ m \in Nat /\ t[p][2] <= m
  BY <1>2, ByteParts
<1> DEFINE q == (Len(s) + p) + m - t[p][2]
<1>4. q <= Len(st) /\ st[q] = <<t[p][1], m>>
  BY <1>2 DEF Framed
<1>5. q = Len(s) + (p + m - t[p][2]) /\ p + m - t[p][2] \in 1..Len(t)
  <2>1. ASSUME NEW a \in Nat, NEW l \in Nat, NEW j \in Nat \ {0}, NEW n \in Nat,
               NEW k \in Nat, k <= n, (a + j) + n - k <= a + l
        PROVE  (a + j) + n - k = a + (j + n - k) /\ j + n - k \in 1..l
    BY <2>1
  <2>2. /\ Len(s) \in Nat /\ Len(t) \in Nat /\ p \in Nat \ {0} /\ m \in Nat
        /\ t[p][2] \in Nat /\ t[p][2] <= m
        /\ (Len(s) + p) + m - t[p][2] <= Len(s) + Len(t)
    BY <1>1, <1>2, <1>3, <1>4
  <2> QED
    BY <2>1, <2>2
<1>6. st[q] = t[p + m - t[p][2]]
  BY <1>1, <1>5
<1> QED
  BY <1>4, <1>5, <1>6

\* A code that is recorded goes to the end of the stream, whole.
LEMMA RecordedIsFramed ==
    ASSUME NEW s \in Seq(Byte), Framed(s), NEW c \in Codes
    PROVE  Framed(s \o Frame(c))
<1> DEFINE t  == Frame(c)
           st == s \o t
<1>1. /\ t \in Seq(Byte) /\ Len(t) = Len(c) /\ Len(c) \in Nat \ {0}
      /\ \A n \in 1..Len(c) : t[n] = <<c, n>>
  BY FrameBytes
<1> HIDE DEF t
<1>2. /\ Len(st) = Len(s) + Len(t) /\ Len(s) \in Nat
      /\ \A i \in 1..Len(s) : st[i] = s[i]
      /\ \A i \in 1..Len(t) : st[Len(s) + i] = t[i]
  <2>1. t \in Seq(Byte) /\ s \in Seq(Byte)
    BY <1>1
  <2>2. /\ Len(s) \in Nat /\ Len(t) \in Nat /\ Len(st) = Len(s) + Len(t)
        /\ \A i \in 1..Len(s) + Len(t) :
              st[i] = IF i <= Len(s) THEN s[i] ELSE t[i - Len(s)]
    BY <2>1, ConcatProperties, LenProperties
  <2> HIDE DEF st
  <2> QED
    BY <2>2
<1> SUFFICES ASSUME NEW p \in 1..Len(st), NEW m \in st[p][2]..Len(st[p][1])
             PROVE  /\ p + m - st[p][2] <= Len(st)
                    /\ st[p + m - st[p][2]] = <<st[p][1], m>>
  BY DEF Framed, t
<1> HIDE DEF st
<1>3. CASE p \in 1..Len(s)
  <2>1. st[p] = s[p] /\ s[p] \in Byte /\ p \in Nat \ {0}
    BY <1>2, <1>3, ElementOfSeq
  <2>2. s[p][2] \in Nat \ {0} /\ Len(s[p][1]) \in Nat \ {0} /\ m \in Nat /\ s[p][2] <= m
    BY <2>1, ByteParts
  <2>3. p + m - s[p][2] <= Len(s) /\ s[p + m - s[p][2]] = <<s[p][1], m>>
    BY <1>3, <2>1 DEF Framed
  <2>4. p + m - s[p][2] \in 1..Len(s)
    BY <1>2, <2>1, <2>2, <2>3
  <2> QED
    BY <1>1, <1>2, <2>1, <2>3, <2>4
<1>4. CASE p \notin 1..Len(s)
  <2> DEFINE n == p - Len(s)
  <2>1. n \in 1..Len(c) /\ p = Len(s) + n
    BY <1>1, <1>2, <1>4
  <2>2. st[p] = <<c, n>>
    BY <1>1, <1>2, <2>1
  <2>3. m \in n..Len(c) /\ p + m - st[p][2] = Len(s) + m
    BY <1>1, <1>2, <2>1, <2>2
  <2>4. m \in 1..Len(c)
    BY <1>1, <2>1, <2>3
  <2>5. /\ st[Len(s) + m] = t[m] /\ t[m] = <<c, m>>
        /\ Len(s) + m <= Len(st)
    <3>1. st[Len(s) + m] = t[m] /\ t[m] = <<c, m>>
      BY <1>1, <1>2, <2>4
    <3> QED
      BY <1>1, <1>2, <2>4, <3>1
  <2> QED
    BY <2>2, <2>3, <2>5
<1> QED
  BY <1>3, <1>4

-----------------------------------------------------------------------------
(***************************************************************************)
(* The invariant.                                                          *)
(***************************************************************************)
CodeRead == IF pc = "idle" THEN <<>> ELSE code

OnLine == waiting \o arriving

\* The bytes of learnings, in the order in which they are read.
Stream == CodeRead \o OnLine

LineOK ==
    /\ pc \in {"idle", "waits", "reads"}
    /\ code \in Seq(Byte) /\ waiting \in Seq(Byte) /\ arriving \in Seq(Byte)
    /\ recording \in BOOLEAN /\ cut \in BOOLEAN
    /\ pressed \subseteq Codes

\* As long as every learning got its code, the line holds the code that is being
\* learnt or nothing, and between learnings the Arduino repeats what was sent last.
Clean ==
    ~ cut =>
        /\ \/ Stream = <<>>
           \/ pc # "idle" /\ ~ recording /\ \E c \in pressed : Stream = Frame(c)
        /\ pc = "idle" => ~ recording /\ (last_code # None => memory = last_code)

IInv == LineOK /\ Framed(Stream) /\ Clean /\ LearntIsWhole /\ LearntIsNew /\ SentIsAsked

LEMMA StreamParts ==
    ASSUME LineOK
    PROVE  /\ CodeRead \in Seq(Byte) /\ OnLine \in Seq(Byte) /\ Stream \in Seq(Byte)
           /\ pc = "idle" => Stream = OnLine
           /\ pc # "idle" => Stream = code \o OnLine
<1>1. CodeRead \in Seq(Byte)
  BY EmptySeq DEF LineOK, CodeRead
<1>2. OnLine \in Seq(Byte)
  BY ConcatProperties DEF LineOK, OnLine
<1>3. Stream \in Seq(Byte)
  BY <1>1, <1>2, ConcatProperties DEF Stream
<1>4. <<>> \o OnLine = OnLine
  BY <1>2, ConcatEmptySeq
<1> QED
  BY <1>1, <1>2, <1>3, <1>4 DEF Stream, CodeRead

LEMMA InitIInv == Init => IInv
<1> SUFFICES ASSUME Init PROVE IInv
  OBVIOUS
<1>1. LineOK
  BY EmptySeq DEF Init, LineOK
<1>2. Stream = <<>>
  BY DEF Init, Stream, CodeRead, OnLine
<1>3. Clean /\ LearntIsWhole /\ LearntIsNew /\ SentIsAsked
  BY <1>2 DEF Init, Clean, LearntIsWhole, LearntIsNew, SentIsAsked
<1> QED
  BY <1>1, <1>2, <1>3, EmptyIsFramed DEF IInv

LEMMA PressRemoteStep ==
    ASSUME IInv, NEW c \in Codes, PressRemote(c)
    PROVE  IInv'
<1>1. /\ LineOK /\ recording = TRUE /\ recording' = FALSE
      /\ arriving' = arriving \o Frame(c) /\ pressed' = pressed \cup {c}
      /\ UNCHANGED pc /\ UNCHANGED code /\ UNCHANGED waiting /\ UNCHANGED stored
      /\ UNCHANGED answer /\ UNCHANGED cut /\ UNCHANGED last_code
  BY DEF IInv, LineOK, PressRemote
<1>2. Frame(c) \in Seq(Byte)
  BY FrameBytes
<1>3. LineOK'
  BY <1>1, <1>2, ConcatProperties DEF LineOK
<1>4. Stream' = Stream \o Frame(c)
  <2>1. OnLine' = OnLine \o Frame(c)
    <3>1. waiting \in Seq(Byte) /\ arriving \in Seq(Byte)
      BY <1>1 DEF LineOK
    <3>2. (waiting \o arriving) \o Frame(c) = waiting \o (arriving \o Frame(c))
      BY <1>2, <3>1, ConcatAssociative, SMTT(60)
    <3> QED
      BY <1>1, <3>2 DEF OnLine
  <2>2. CodeRead' = CodeRead
    BY <1>1 DEF CodeRead
  <2>3. CodeRead \o (OnLine \o Frame(c)) = (CodeRead \o OnLine) \o Frame(c)
    <3>1. CodeRead \in Seq(Byte) /\ OnLine \in Seq(Byte)
      BY <1>1, StreamParts
    <3> QED
      BY <1>2, <3>1, ConcatAssociative, SMTT(60)
  <2> QED
    BY <2>1, <2>2, <2>3 DEF Stream
<1>5. Framed(Stream')
  BY <1>1, <1>4, StreamParts, RecordedIsFramed DEF IInv
<1>6. Clean'
  <2> SUFFICES ASSUME ~ cut'
               PROVE  pc' # "idle" /\ \E d \in pressed' : Stream' = Frame(d)
    BY <1>1 DEF Clean
  <2>1. pc # "idle" /\ Stream = <<>>
    BY <1>1 DEF IInv, Clean
  <2>2. <<>> \o Frame(c) = Frame(c)
    BY <1>2, ConcatEmptySeq
  <2> QED
    BY <1>1, <1>4, <2>1, <2>2
<1>7. LearntIsWhole' /\ LearntIsNew' /\ SentIsAsked'
  BY <1>1 DEF IInv, LearntIsWhole, LearntIsNew, SentIsAsked
<1> QED
  BY <1>3, <1>5, <1>6, <1>7 DEF IInv

\* Bytes that pass from one part of the stream to the next leave it as it is.
LEMMA PassOn ==
    ASSUME NEW S, NEW s \in Seq(S), NEW t \in Seq(S), NEW u \in Seq(S), t # <<>>
    PROVE  /\ Append(s, Head(t)) \in Seq(S) /\ Tail(t) \in Seq(S)
           /\ Append(s, Head(t)) \o Tail(t) = s \o t
           /\ Append(s, Head(t)) \o (Tail(t) \o u) = s \o (t \o u)
<1> DEFINE s1 == Append(s, Head(t))
           t1 == Tail(t)
<1>1. /\ Head(t) \in S /\ Head(t) = t[1] /\ t1 \in Seq(S)
      /\ Len(t1) = Len(t) - 1 /\ \A i \in 1..Len(t1) : t1[i] = t[i + 1]
      /\ Len(t) \in Nat \ {0}
  BY HeadTailProperties, EmptySeq
<1>2. /\ s1 \in Seq(S) /\ Len(s1) = Len(s) + 1 /\ Len(s) \in Nat
      /\ \A i \in 1..Len(s) : s1[i] = s[i]
      /\ s1[Len(s) + 1] = t[1]
  BY <1>1, AppendProperties, LenProperties
<1> HIDE DEF s1, t1
<1>3. /\ s1 \o t1 \in Seq(S) /\ Len(s1 \o t1) = Len(s1) + Len(t1)
      /\ \A i \in 1..Len(s1) + Len(t1) :
            (s1 \o t1)[i] = IF i <= Len(s1) THEN s1[i] ELSE t1[i - Len(s1)]
  BY <1>1, <1>2, ConcatProperties
<1>4. /\ s \o t \in Seq(S) /\ Len(s \o t) = Len(s) + Len(t)
      /\ \A i \in 1..Len(s) + Len(t) :
            (s \o t)[i] = IF i <= Len(s) THEN s[i] ELSE t[i - Len(s)]
  BY ConcatProperties
<1>5. Len(s1 \o t1) = Len(s \o t)
  BY <1>1, <1>2, <1>3, <1>4
<1>6. ASSUME NEW i \in 1..Len(s \o t)
      PROVE  (s1 \o t1)[i] = (s \o t)[i]
  <2>0. i \in Nat \ {0} /\ i <= Len(s) + Len(t) /\ i \in 1..Len(s1) + Len(t1)
    BY <1>1, <1>2, <1>4
  <2>1. CASE i <= Len(s)
    <3>1. (s1 \o t1)[i] = s1[i]
      BY <1>2, <1>3, <2>0, <2>1
    <3> QED
      BY <1>2, <1>4, <2>0, <2>1, <3>1
  <2>2. CASE i = Len(s) + 1
    <3>1. (s1 \o t1)[i] = s1[i]
      BY <1>2, <1>3, <2>0, <2>2
    <3>2. (s \o t)[i] = t[1]
      BY <1>2, <1>4, <2>0, <2>2
    <3> QED
      BY <1>2, <2>2, <3>1, <3>2
  <2>3. CASE i > Len(s) + 1
    <3>1. (s1 \o t1)[i] = t1[i - Len(s1)]
      BY <1>2, <1>3, <2>0, <2>3
    <3>2. i - Len(s1) \in 1..Len(t1) /\ (i - Len(s1)) + 1 = i - Len(s)
      BY <1>1, <1>2, <2>0, <2>3
    <3>3. (s \o t)[i] = t[i - Len(s)]
      BY <1>2, <1>4, <2>0, <2>3
    <3> QED
      BY <1>1, <3>1, <3>2, <3>3
  <2> QED
    BY <1>2, <2>0, <2>1, <2>2, <2>3
<1>7. s1 \o t1 = s \o t
  BY <1>3, <1>4, <1>5, <1>6, SeqEqual
<1>8. s1 \o (t1 \o u) = s \o (t \o u)
  <2>1. (s1 \o t1) \o u = s1 \o (t1 \o u)
    <3>1. s1 \in Seq(S) /\ t1 \in Seq(S)
      BY <1>1, <1>2
    <3> QED
      BY <3>1, ConcatAssociative, SMTT(60)
  <2>2. (s \o t) \o u = s \o (t \o u)
    BY ConcatAssociative, SMTT(60)
  <2> QED
    BY <1>7, <2>1, <2>2
<1> QED
  BY <1>1, <1>2, <1>7, <1>8 DEF s1, t1

LEMMA ArriveStep == IInv /\ Arrive => IInv'
<1> SUFFICES ASSUME IInv, Arrive PROVE IInv'
  OBVIOUS
<1>1. /\ LineOK /\ arriving # <<>>
      /\ waiting' = Append(waiting, Head(arriving)) /\ arriving' = Tail(arriving)
      /\ UNCHANGED pc /\ UNCHANGED code /\ UNCHANGED last_code /\ UNCHANGED recording
      /\ UNCHANGED memory /\ UNCHANGED stored /\ UNCHANGED answer /\ UNCHANGED pressed
      /\ UNCHANGED cut
  BY DEF IInv, Arrive
<1>2. waiting \in Seq(Byte) /\ arriving \in Seq(Byte)
  BY <1>1 DEF LineOK
<1>3. /\ waiting' \in Seq(Byte) /\ arriving' \in Seq(Byte)
      /\ OnLine' = OnLine
  BY <1>1, <1>2, PassOn DEF OnLine
<1>4. LineOK'
  BY <1>1, <1>3 DEF LineOK
<1>5. Stream' = Stream
  BY <1>1, <1>3 DEF Stream, CodeRead
<1> QED
  BY <1>1, <1>4, <1>5 DEF IInv, Clean, LearntIsWhole, LearntIsNew, SentIsAsked

LEMMA SendCodeStep ==
    ASSUME IInv, NEW c \in Codes, SendCode(c)
    PROVE  IInv'
<1>1. /\ LineOK /\ pc = "idle" /\ UNCHANGED arriving
      /\ UNCHANGED pc /\ UNCHANGED code /\ UNCHANGED waiting /\ UNCHANGED stored
      /\ UNCHANGED pressed /\ UNCHANGED cut
  BY DEF IInv, SendCode, arduino, Transmits, Ignores
<1>2. recording' \in BOOLEAN /\ (recording' => recording)
  BY <1>1 DEF SendCode, arduino, Transmits, Ignores, LineOK
<1>3. LineOK'
  BY <1>1, <1>2 DEF LineOK
<1>4. Stream' = Stream
  BY <1>1 DEF Stream, CodeRead, OnLine
<1>5. c # None
  BY CodesAssumption
<1>6. ASSUME ~ cut
      PROVE  /\ last_code' # None => memory' = last_code'
             /\ answer'.sent = answer'.asked
  <2>1. ~ recording /\ (last_code # None => memory = last_code) /\ answer.sent = answer.asked
    BY <1>1, <1>6 DEF IInv, Clean, SentIsAsked
  <2>2. CASE last_code' = last_code /\ UNCHANGED <<arduino, answer>>
    BY <2>1, <2>2 DEF arduino
  <2>3. CASE /\ last_code' = c
             /\ Transmits(IF last_code = c THEN memory ELSE c)
             /\ answer' = [asked |-> c, sent |-> IF last_code = c THEN memory ELSE c]
    BY <1>5, <2>1, <2>3 DEF Transmits
  <2> QED
    BY <2>1, <2>2, <2>3 DEF SendCode, noted, Ignores
<1>7. Clean'
  BY <1>1, <1>2, <1>4, <1>6 DEF IInv, Clean
<1>8. LearntIsWhole' /\ LearntIsNew' /\ SentIsAsked'
  BY <1>1, <1>6 DEF IInv, LearntIsWhole, LearntIsNew, SentIsAsked, LineOK
<1> QED
  BY <1>3, <1>4, <1>7, <1>8 DEF IInv

LEMMA AskToRecordStep == IInv /\ AskToRecord => IInv'
<1> SUFFICES ASSUME IInv, AskToRecord PROVE IInv'
  OBVIOUS
<1>1. /\ LineOK /\ pc = "idle" /\ pc' = "waits" /\ recording' = TRUE
      /\ code' = <<>> /\ stored' = <<>> /\ pressed' = {}
      /\ UNCHANGED waiting /\ UNCHANGED arriving /\ UNCHANGED answer /\ UNCHANGED cut
  BY DEF IInv, AskToRecord
<1>2. LineOK'
  BY <1>1, EmptySeq DEF LineOK
<1>3. Stream' = Stream
  BY <1>1 DEF Stream, CodeRead, OnLine
<1>4. Clean'
  BY <1>1, <1>3 DEF IInv, Clean
<1>5. LearntIsWhole' /\ LearntIsNew' /\ SentIsAsked'
  BY <1>1 DEF IInv, LearntIsWhole, LearntIsNew, SentIsAsked
<1> QED
  BY <1>2, <1>3, <1>4, <1>5 DEF IInv

LEMMA ReadStep == IInv /\ Read => IInv'
<1> SUFFICES ASSUME IInv, Read PROVE IInv'
  OBVIOUS
<1>1. /\ LineOK /\ pc # "idle" /\ pc' = "reads" /\ waiting # <<>>
      /\ code' = Append(code, Head(waiting)) /\ waiting' = Tail(waiting)
      /\ UNCHANGED last_code /\ UNCHANGED arriving /\ UNCHANGED recording
      /\ UNCHANGED memory /\ UNCHANGED stored /\ UNCHANGED answer /\ UNCHANGED pressed
      /\ UNCHANGED cut
  BY DEF IInv, Read, arduino
<1>2. code \in Seq(Byte) /\ waiting \in Seq(Byte) /\ arriving \in Seq(Byte)
  BY <1>1 DEF LineOK
<1>3. /\ code' \in Seq(Byte) /\ waiting' \in Seq(Byte)
      /\ code' \o (waiting' \o arriving) = code \o (waiting \o arriving)
  BY <1>1, <1>2, PassOn
<1>4. LineOK'
  BY <1>1, <1>3 DEF LineOK
<1>5. Stream' = Stream
  BY <1>1, <1>3 DEF Stream, CodeRead, OnLine
<1>6. Clean'
  BY <1>1, <1>5 DEF IInv, Clean
<1> QED
  BY <1>1, <1>4, <1>5, <1>6 DEF IInv, LearntIsWhole, LearntIsNew, SentIsAsked

\* A learning that ends takes what it has read out of the stream.
LEMMA LearningEnds ==
    ASSUME IInv, pc # "idle", pc' = "idle",
           UNCHANGED waiting, UNCHANGED arriving
    PROVE  Stream = code \o Stream' /\ Stream' = OnLine /\ Framed(Stream')
<1>1. code \in Seq(Byte) /\ OnLine \in Seq(Byte) /\ Stream = code \o OnLine
  BY StreamParts DEF IInv, LineOK
<1>2. Stream' = OnLine
  <2>1. <<>> \o OnLine = OnLine
    BY <1>1, ConcatEmptySeq
  <2> QED
    BY <2>1 DEF Stream, CodeRead, OnLine
<1>3. Framed(OnLine)
  BY <1>1, RestIsFramed DEF IInv
<1> QED
  BY <1>1, <1>2, <1>3

LEMMA FalseStep ==
    ASSUME IInv, pc # "idle", pc' = "idle", ReturnFalse,
           UNCHANGED <<code, waiting, arduino, answer, pressed>>
    PROVE  IInv'
<1>1. /\ LineOK /\ cut' = TRUE
      /\ UNCHANGED code /\ UNCHANGED waiting /\ UNCHANGED arriving /\ UNCHANGED recording
      /\ UNCHANGED memory /\ UNCHANGED answer /\ UNCHANGED pressed /\ UNCHANGED stored
  BY DEF IInv, ReturnFalse, arduino
<1>2. LineOK'
  BY <1>1 DEF LineOK
<1>3. Framed(Stream')
  BY <1>1, LearningEnds
<1> QED
  BY <1>1, <1>2, <1>3 DEF IInv, Clean, LearntIsWhole, LearntIsNew, SentIsAsked

LEMMA LearnStep ==
    ASSUME IInv, pc = "reads", pc' = "idle", waiting = <<>>, whole(code), Learn,
           UNCHANGED <<code, waiting, arduino, answer, pressed>>
    PROVE  IInv'
<1>1. /\ LineOK /\ stored' = code /\ last_code' = None
      /\ UNCHANGED code /\ UNCHANGED waiting /\ UNCHANGED arriving /\ UNCHANGED recording
      /\ UNCHANGED memory /\ UNCHANGED answer /\ UNCHANGED pressed /\ UNCHANGED cut
  BY DEF IInv, Learn, arduino
<1>2. LineOK'
  BY <1>1 DEF LineOK
<1>3. Stream = code \o Stream' /\ Stream' = OnLine /\ Framed(Stream')
  BY <1>1, LearningEnds
<1>4. /\ code \in Seq(Byte) /\ OnLine \in Seq(Byte) /\ Stream \in Seq(Byte)
      /\ Len(code) \in Nat \ {0} /\ code[1] \in Byte
  <2>1. Len(code) >= 4 /\ code \in Seq(Byte)
    BY <1>1 DEF whole, LineOK
  <2>2. Len(code) \in Nat \ {0} /\ 1 \in 1..Len(code)
    BY <2>1, LenProperties
  <2> QED
    BY <1>1, <2>1, <2>2, StreamParts, ElementOfSeq
<1>5. /\ Len(Stream) = Len(code) + Len(OnLine) /\ Len(OnLine) \in Nat
      /\ \A i \in 1..Len(code) : Stream[i] = code[i]
      /\ Stream # <<>> /\ Stream[1] = code[1]
  <2>1. /\ Len(Stream) = Len(code) + Len(OnLine) /\ Len(OnLine) \in Nat
        /\ \A i \in 1..Len(code) : Stream[i] = code[i]
    BY <1>3, <1>4, ConcatProperties, LenProperties
  <2> QED
    BY <1>4, <2>1
<1>6. ASSUME code[1][2] = 1
      PROVE  LET c == code[1][1]
             IN  c \in Codes /\ Len(code) = Len(c) /\ code = Frame(c)
  <2> DEFINE c == code[1][1]
  <2>1. c \in Codes /\ code[1] = <<c, 1>>
    BY <1>4, <1>6, ByteParts DEF Byte
  <2>2. \A m \in 1..Len(c) : m <= Len(Stream) /\ Stream[m] = <<c, m>>
    <3> TAKE m \in 1..Len(c)
    <3>1. 1 \in 1..Len(Stream) /\ Len(c) \in Nat /\ m \in Nat
      BY <1>4, <1>5, <2>1, FrameBytes
    <3>2. m \in Stream[1][2]..Len(Stream[1][1])
      BY <1>5, <1>6, <3>1
    <3>3. /\ 1 + m - Stream[1][2] <= Len(Stream)
          /\ Stream[1 + m - Stream[1][2]] = <<Stream[1][1], m>>
      BY <3>1, <3>2 DEF IInv, Framed
    <3>4. Stream[1][2] = 1 /\ 1 + m - 1 = m
      BY <1>5, <1>6, <3>1
    <3> QED
      BY <1>5, <3>3, <3>4
  <2>3. Len(code) = Len(c)
    <3>1. 3 \in 1..Len(c) /\ 3 \in 1..Len(code) /\ Len(c) = c[3] * 2 + 3
      BY <1>4, <2>1, CodesAssumption DEF whole
    <3>2. code[3] = <<c, 3>>
      BY <1>5, <2>2, <3>1
    <3>3. Value(code[3]) = c[3]
      BY <3>2 DEF Value
    <3> QED
      BY <3>1, <3>3 DEF whole
  <2>4. \A m \in 1..Len(c) : code[m] = <<c, m>>
    BY <1>5, <2>2, <2>3
  <2>5. /\ Frame(c) \in Seq(Byte) /\ Len(Frame(c)) = Len(c)
        /\ \A n \in 1..Len(c) : Frame(c)[n] = <<c, n>>
    BY <2>1, FrameBytes
  <2>6. code = Frame(c)
    <3>1. Len(code) = Len(Frame(c)) /\ \A n \in 1..Len(code) : code[n] = Frame(c)[n]
      BY <2>3, <2>4, <2>5
    <3> QED
      BY <1>4, <2>5, <3>1, SeqEqual
  <2> QED
    BY <2>1, <2>3, <2>6
<1>7. ASSUME ~ cut
      PROVE  Stream' = <<>> /\ ~ recording /\ \E c \in pressed : code = Frame(c)
  <2>1. PICK d \in pressed : Stream = Frame(d) /\ ~ recording
    BY <1>5, <1>7 DEF IInv, Clean
  <2>2. d \in Codes
    BY <1>1 DEF LineOK
  <2>3. Frame(d)[1] = <<d, 1>> /\ Len(Frame(d)) = Len(d)
    BY <2>2, FrameBytes
  <2>4. code[1] = <<d, 1>>
    BY <1>5, <2>1, <2>3
  <2>5. code = Frame(d) /\ Len(code) = Len(d)
    BY <1>6, <2>4
  <2>6. Len(OnLine) = 0
    BY <1>4, <1>5, <2>1, <2>3, <2>5
  <2>7. OnLine = <<>>
    BY <1>4, <2>6, EmptySeq
  <2> QED
    BY <1>3, <2>1, <2>5, <2>7
<1>8. LearntIsWhole'
  <2>1. code[1][2] \in Nat \ {0}
    BY <1>4, ByteParts
  <2>2. CASE code[1][2] = 1
    BY <1>1, <1>6, <2>2 DEF LearntIsWhole
  <2>3. CASE code[1][2] > 1
    <3>1. cut
      <4>1. SUFFICES ASSUME ~ cut PROVE FALSE
        OBVIOUS
      <4>2. PICK c \in pressed : code = Frame(c)
        BY <1>7, <4>1
      <4>3. code[1] = <<c, 1>>
        BY <1>1, <4>2, FrameBytes DEF LineOK
      <4> QED
        BY <2>3, <4>3
    <3> QED
      BY <1>1, <2>3, <3>1 DEF LearntIsWhole
  <2> QED
    BY <2>1, <2>2, <2>3
<1>9. Clean'
  BY <1>1, <1>7 DEF Clean
<1>10. LearntIsNew'
  <2> SUFFICES ASSUME NEW n \in DOMAIN stored', ~ cut'
               PROVE  stored'[n][1] \in pressed'
    BY DEF LearntIsNew
  <2>1. PICK c \in pressed : code = Frame(c)
    BY <1>1, <1>7
  <2>2. n \in 1..Len(c) /\ code[n] = <<c, n>>
    BY <1>1, <2>1 DEF Frame
  <2> QED
    BY <1>1, <2>2
<1>11. SentIsAsked'
  BY <1>1 DEF IInv, SentIsAsked
<1> QED
  BY <1>2, <1>3, <1>8, <1>9, <1>10, <1>11 DEF IInv

LEMMA RestartStep == IInv /\ Restart => IInv'
<1> SUFFICES ASSUME IInv, Restart PROVE IInv'
  OBVIOUS
<1>1. LineOK'
  BY EmptySeq DEF Restart, LineOK
<1>2. Stream' = <<>>
  BY DEF Restart, Stream, CodeRead, OnLine
<1>3. Clean' /\ LearntIsWhole' /\ LearntIsNew' /\ SentIsAsked'
  BY <1>2 DEF Restart, Clean, LearntIsWhole, LearntIsNew, SentIsAsked
<1> QED
  BY <1>1, <1>2, <1>3, EmptyIsFramed DEF IInv

LEMMA Inductive == Spec => []IInv
<1>1. IInv /\ Next => IInv'
  <2> SUFFICES ASSUME IInv, Next PROVE IInv'
    OBVIOUS
  <2>1. ASSUME NEW c \in Codes, PressRemote(c) PROVE IInv'
    BY <2>1, PressRemoteStep
  <2>2. CASE Arrive
    BY <2>2, ArriveStep
  <2>3. ASSUME NEW c \in Codes, SendCode(c) PROVE IInv'
    BY <2>3, SendCodeStep
  <2>4. CASE AskToRecord
    BY <2>4, AskToRecordStep
  <2>5. CASE Read
    BY <2>5, ReadStep
  <2>6. CASE Judge
    <3>1. CASE whole(code)
      BY <2>6, <3>1, LearnStep DEF Judge
    <3>2. CASE ~ whole(code)
      BY <2>6, <3>2, FalseStep DEF Judge
    <3> QED
      BY <3>1, <3>2
  <2>7. CASE LearningFails
    BY <2>7, FalseStep DEF LearningFails
  <2>8. CASE Restart
    BY <2>8, RestartStep
  <2> QED
    BY <2>1, <2>2, <2>3, <2>4, <2>5, <2>6, <2>7, <2>8 DEF Next
<1>2. IInv /\ UNCHANGED vars => IInv'
  <2> SUFFICES ASSUME IInv, UNCHANGED vars PROVE IInv'
    OBVIOUS
  <2>1. LineOK' /\ Stream' = Stream
    BY DEF IInv, vars, arduino, LineOK, Stream, CodeRead, OnLine
  <2>2. Clean' /\ LearntIsWhole' /\ LearntIsNew' /\ SentIsAsked'
    BY <2>1 DEF IInv, vars, arduino, Clean, LearntIsWhole, LearntIsNew, SentIsAsked
  <2> QED
    BY <2>1, <2>2 DEF IInv
<1>3. IInv /\ [Next]_vars => IInv'
  BY <1>1, <1>2
<1> QED
  BY InitIInv, <1>3, PTL DEF Spec

-----------------------------------------------------------------------------
(***************************************************************************)
(* The theorems.                                                           *)
(***************************************************************************)

\* Whatever is left on the line by learnings that were cut off, and however the bytes
\* come in, a code that learn_code returns is the whole code of one key, or begins with
\* a byte 116 in the middle of a code that such a learning left unread.
THEOREM CodesAreWhole == Spec => []LearntIsWhole
<1>1. IInv => LearntIsWhole
  BY DEF IInv
<1> QED
  BY <1>1, Inductive, PTL

\* A button's code begins with the byte 116.
StoredStarts == stored # <<>> => stored[1] \in Byte /\ Value(stored[1]) = Start

LEMMA StoredStartsHolds == Spec => []StoredStarts
<1>1. Init => StoredStarts
  BY DEF Init, StoredStarts
<1>2. IInv /\ StoredStarts /\ [Next]_vars => StoredStarts'
  <2> SUFFICES ASSUME IInv, StoredStarts, [Next]_vars PROVE StoredStarts'
    OBVIOUS
  <2>1. CASE stored' = stored
    BY <2>1 DEF StoredStarts
  <2>2. CASE stored' = <<>>
    BY <2>2 DEF StoredStarts
  <2>3. CASE stored' = code /\ whole(code)
    <3>1. code \in Seq(Byte) /\ Len(code) \in Nat /\ 1 \in 1..Len(code)
      BY <2>3 DEF IInv, LineOK, whole
    <3> QED
      BY <2>3, <3>1, ElementOfSeq DEF StoredStarts, whole
  <2>4. stored' = stored \/ stored' = <<>> \/ (stored' = code /\ whole(code))
    BY DEF Next, vars, PressRemote, Arrive, SendCode, AskToRecord, Read, Judge, Learn,
       ReturnFalse, LearningFails, Restart
  <2> QED
    BY <2>1, <2>2, <2>3, <2>4
<1> QED
  BY <1>1, <1>2, Inductive, PTL DEF Spec

\* Where no code has the byte 116 but in the first place, what learn_code returns is a
\* whole code without exception, also after learnings that were cut off.
THEOREM UnmarkedCodesAreWhole ==
    ASSUME \A c \in Codes : \A n \in 2..Len(c) : c[n] # Start
    PROVE  Spec => [](stored # <<>> => \E c \in Codes : stored = Frame(c))
<1>1. LearntIsWhole /\ StoredStarts => (stored # <<>> => \E c \in Codes : stored = Frame(c))
  <2> SUFFICES ASSUME LearntIsWhole, StoredStarts, stored # <<>>, stored[1][2] > 1 PROVE FALSE
    BY DEF LearntIsWhole
  <2>1. stored[1] \in Byte /\ stored[1][1][stored[1][2]] = Start
    BY DEF StoredStarts, Value
  <2>2. stored[1][1] \in Codes /\ stored[1][2] \in 2..Len(stored[1][1])
    BY <2>1, ByteParts
  <2> QED
    BY <2>1, <2>2
<1> QED
  BY <1>1, CodesAreWhole, StoredStartsHolds, PTL

\* As long as no learning ended without a code, a code learnt was sent by a remote
\* after the user had asked to learn it.
THEOREM CodesAreNew == Spec => []LearntIsNew
<1>1. IInv => LearntIsNew
  BY DEF IInv
<1> QED
  BY <1>1, Inductive, PTL

\* As long as no learning ended without a code, 'd' has the Arduino send the code that
\* was asked for, although it records between two codes sent and the line may fail.
THEOREM CodesAreTheOnesAsked == Spec => []SentIsAsked
<1>1. IInv => SentIsAsked
  BY DEF IInv
<1> QED
  BY <1>1, Inductive, PTL
=============================================================================
