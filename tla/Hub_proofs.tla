----------------------------- MODULE Hub_proofs -----------------------------
(***************************************************************************)
(* Lemmas about Realtime, for the proofs about the modules that are built  *)
(* on it: what each of its actions makes of the list of listeners and of   *)
(* the streams, whatever frames and messages there are.                    *)
(***************************************************************************)
EXTENDS Realtime, SequenceTheorems, FiniteSetTheorems, TLAPS

-----------------------------------------------------------------------------
(***************************************************************************)
(* The list of listeners.                                                  *)
(***************************************************************************)
NoneTwice(s) == \A m, n \in 1..Len(s) : s[m] = s[n] => m = n

IsIn(x, s) == \E n \in 1..Len(s) : s[n] = x

\* listeners.remove(self), for a list that has nobody twice.
LEMMA RemoveOnly ==
    ASSUME NEW S, NEW s \in Seq(S), NoneTwice(s), NEW e, IsIn(e, s)
    PROVE  /\ RemoveFirst(s, e) \in Seq(S)
           /\ NoneTwice(RemoveFirst(s, e))
           /\ \A x : IsIn(x, RemoveFirst(s, e)) <=> IsIn(x, s) /\ x # e
<1>1. PICK k \in 1..Len(s) : s[k] = e
  BY DEF IsIn
<1>2. Len(s) \in Nat /\ k \in Nat \ {0} /\ k <= Len(s)
  BY <1>1, LenProperties
<1>3. {i \in 1..Len(s) : s[i] = e} = {k}
  BY <1>1 DEF NoneTwice
<1>4. Min({k}) = k
  <2>1. k \in {k} /\ \A y \in {k} : k <= y
    BY <1>2
  <2>2. Min({k}) \in {k}
    BY <2>1 DEF Min
  <2> QED
    BY <2>2
<1>5. RemoveFirst(s, e) = RemoveAt(s, k)
  <2>1. SelectInSeq(s, LAMBDA v : v = e) = k
    BY <1>3, <1>4 DEF SelectInSeq
  <2> QED
    BY <1>1, <2>1 DEF RemoveFirst
<1> DEFINE r == RemoveAt(s, k)
           a == SubSeq(s, 1, k - 1)
           b == SubSeq(s, k + 1, Len(s))
<1>6. a \in Seq(S) /\ Len(a) = k - 1 /\ \A i \in 1..(k - 1) : a[i] = s[i]
  <2>1. \A i \in 1..(k - 1) : s[i] \in S
    BY <1>2, ElementOfSeq
  <2> QED
    BY <1>2, <2>1, SubSeqProperties
<1>7. b \in Seq(S) /\ Len(b) = Len(s) - k /\ \A i \in 1..(Len(s) - k) : b[i] = s[k + i]
  <2>1. \A i \in (k + 1)..Len(s) : s[i] \in S
    BY <1>2, ElementOfSeq
  <2>2. /\ b \in Seq(S)
        /\ Len(b) = IF k + 1 <= Len(s) THEN Len(s) - (k + 1) + 1 ELSE 0
        /\ \A i \in 1..(Len(s) - (k + 1) + 1) : b[i] = s[(k + 1) + i - 1]
    BY <1>2, <2>1, SubSeqProperties
  <2> HIDE DEF b
  <2>3. Len(b) = Len(s) - k
    BY <1>2, <2>2
  <2>4. ASSUME NEW i \in 1..(Len(s) - k) PROVE b[i] = s[k + i]
    <3>1. i \in 1..(Len(s) - (k + 1) + 1) /\ (k + 1) + i - 1 = k + i
      BY <1>2
    <3> QED
      BY <2>2, <3>1
  <2> QED
    BY <2>2, <2>3, <2>4
<1>8. r = a \o b
  BY DEF RemoveAt
<1> HIDE DEF r, a, b
<1>9. /\ r \in Seq(S) /\ Len(r) = Len(s) - 1
      /\ \A i \in 1..Len(r) : r[i] = IF i < k THEN s[i] ELSE s[i + 1]
  <2>1. /\ r \in Seq(S) /\ Len(r) = Len(a) + Len(b)
        /\ \A i \in 1..Len(a) + Len(b) : r[i] = IF i <= Len(a) THEN a[i] ELSE b[i - Len(a)]
    BY <1>6, <1>7, <1>8, ConcatProperties
  <2>2. Len(r) = Len(s) - 1
    BY <1>2, <1>6, <1>7, <2>1
  <2>3. ASSUME NEW i \in 1..Len(r) PROVE r[i] = IF i < k THEN s[i] ELSE s[i + 1]
    <3>1. CASE i < k
      BY <1>2, <1>6, <1>7, <2>1, <2>2, <3>1
    <3>2. CASE ~(i < k)
      <4>1. i - Len(a) \in 1..(Len(s) - k) /\ k + (i - Len(a)) = i + 1
        BY <1>2, <1>6, <2>2, <3>2
      <4>2. r[i] = b[i - Len(a)]
        BY <1>2, <1>6, <1>7, <2>1, <2>2, <3>2
      <4> QED
        BY <1>7, <3>2, <4>1, <4>2
    <3> QED
      BY <3>1, <3>2
  <2> QED
    BY <2>1, <2>2, <2>3
<1>10. NoneTwice(r)
  <2> SUFFICES ASSUME NEW m \in 1..Len(r), NEW n \in 1..Len(r), r[m] = r[n]
               PROVE  m = n
    BY DEF NoneTwice
  <2> DEFINE at(i) == IF i < k THEN i ELSE i + 1
  <2>1. /\ at(m) \in 1..Len(s) /\ at(n) \in 1..Len(s)
        /\ r[m] = s[at(m)] /\ r[n] = s[at(n)]
    BY <1>2, <1>9
  <2>2. at(m) = at(n)
    BY <2>1 DEF NoneTwice
  <2> QED
    BY <1>2, <1>9, <2>2
<1>11. ASSUME NEW x, IsIn(x, r) PROVE IsIn(x, s) /\ x # e
  <2>1. PICK n \in 1..Len(r) : r[n] = x
    BY <1>11 DEF IsIn
  <2> DEFINE at == IF n < k THEN n ELSE n + 1
  <2>2. at \in 1..Len(s) /\ s[at] = x /\ at # k
    BY <1>2, <1>9, <2>1
  <2> QED
    BY <1>1, <2>2 DEF IsIn, NoneTwice
<1>12. ASSUME NEW x, IsIn(x, s), x # e PROVE IsIn(x, r)
  <2>1. PICK n \in 1..Len(s) : s[n] = x
    BY <1>12 DEF IsIn
  <2>2. n # k
    BY <1>1, <1>12, <2>1
  <2> DEFINE at == IF n < k THEN n ELSE n - 1
  <2>3. at \in 1..Len(r) /\ r[at] = x
    BY <1>2, <1>9, <2>1, <2>2
  <2> QED
    BY <2>3 DEF IsIn
<1> QED
  BY <1>5, <1>9, <1>10, <1>11, <1>12 DEF r

LEMMA AddNew ==
    ASSUME NEW S, NEW s \in Seq(S), NoneTwice(s), NEW e \in S, ~ IsIn(e, s)
    PROVE  /\ Append(s, e) \in Seq(S)
           /\ NoneTwice(Append(s, e))
           /\ \A x : IsIn(x, Append(s, e)) <=> IsIn(x, s) \/ x = e
<1> DEFINE r == Append(s, e)
<1>1. /\ r \in Seq(S) /\ Len(r) = Len(s) + 1 /\ Len(s) \in Nat
      /\ \A i \in 1..Len(s) : r[i] = s[i]
      /\ r[Len(s) + 1] = e
  BY AppendProperties, LenProperties
<1> HIDE DEF r
<1>2. \A i \in 1..Len(r) : i \in 1..Len(s) \/ i = Len(s) + 1
  BY <1>1
<1>3. NoneTwice(r)
  BY <1>1, <1>2 DEF NoneTwice, IsIn
<1>4. \A x : IsIn(x, r) <=> IsIn(x, s) \/ x = e
  <2>1. 1..Len(s) \subseteq 1..Len(r) /\ Len(s) + 1 \in 1..Len(r)
    BY <1>1
  <2> QED
    BY <1>1, <1>2, <2>1 DEF IsIn
<1> QED
  BY <1>1, <1>3, <1>4 DEF r

\* The list holds who the server has not seen closed, and nobody twice.
ListOK ==
    /\ listeners \in Seq(Conns)
    /\ NoneTwice(listeners)
    /\ \A c \in Conns : IsIn(c, listeners) <=> link[c] # "closed"

LEMMA TurnsOnce ==
    ASSUME ListOK, NEW c \in Conns
    PROVE  Turns(c) = IF link[c] = "closed" THEN 0 ELSE 1
<1> DEFINE at == {n \in DOMAIN listeners : listeners[n] = c}
<1>1. DOMAIN listeners = 1..Len(listeners)
  BY LenProperties DEF ListOK
<1>2. CASE link[c] = "closed"
  <2>1. at = {}
    BY <1>1, <1>2 DEF ListOK, IsIn
  <2> QED
    BY <1>2, <2>1, FS_EmptySet DEF Turns
<1>3. CASE link[c] # "closed"
  <2>1. PICK n \in 1..Len(listeners) : listeners[n] = c
    BY <1>3 DEF ListOK, IsIn
  <2>2. at = {n}
    BY <1>1, <2>1 DEF ListOK, NoneTwice
  <2> QED
    BY <1>3, <2>2, FS_Singleton DEF Turns
<1> QED
  BY <1>2, <1>3

-----------------------------------------------------------------------------
(***************************************************************************)
(* Streams.                                                                *)
(***************************************************************************)
IsSeq(s) == \E S : s \in Seq(S)

LEMMA SeqFacts ==
    ASSUME NEW s, IsSeq(s)
    PROVE  Len(s) \in Nat /\ DOMAIN s = 1..Len(s) /\ (s # <<>> <=> Len(s) > 0)
<1>1. PICK S : s \in Seq(S)
  BY DEF IsSeq
<1> QED
  BY <1>1, LenProperties, EmptySeq

LEMMA EmptyStream == IsSeq(<<>>) /\ Len(<<>>) = 0
BY EmptySeq DEF IsSeq

LEMMA OneStream == ASSUME NEW x PROVE IsSeq(<<x>>)
<1>1. <<x>> \in Seq({x})
  OBVIOUS
<1> QED
  BY <1>1 DEF IsSeq

\* The first element is taken from a stream,
LEMMA TailStream ==
    ASSUME NEW s, IsSeq(s), s # <<>>
    PROVE  /\ IsSeq(Tail(s))
           /\ Len(Tail(s)) = Len(s) - 1
           /\ \A n \in 1..(Len(s) - 1) : Tail(s)[n] = s[n + 1]
           /\ Head(s) = s[1]
<1>1. PICK S : s \in Seq(S)
  BY DEF IsSeq
<1>2. Tail(s) \in Seq(S) /\ Len(Tail(s)) = Len(s) - 1
  BY <1>1, HeadTailProperties
<1>3. \A n \in 1..(Len(s) - 1) : Tail(s)[n] = s[n + 1]
  BY <1>1, <1>2
<1> QED
  BY <1>1, <1>2, <1>3 DEF IsSeq

LEMMA TailHolds ==
    ASSUME NEW s, IsSeq(s), s # <<>>, NEW x
    PROVE  IsIn(x, s) <=> x = Head(s) \/ IsIn(x, Tail(s))
<1>1. Len(s) \in Nat /\ Len(s) > 0
  BY SeqFacts
<1>2. /\ Len(Tail(s)) = Len(s) - 1 /\ Head(s) = s[1]
      /\ \A n \in 1..(Len(s) - 1) : Tail(s)[n] = s[n + 1]
  BY TailStream
<1>3. ASSUME IsIn(x, s) PROVE x = Head(s) \/ IsIn(x, Tail(s))
  <2>1. PICK n \in 1..Len(s) : s[n] = x
    BY <1>3 DEF IsIn
  <2>2. CASE n = 1
    BY <1>2, <2>1, <2>2
  <2>3. CASE n # 1
    <3>1. n - 1 \in 1..(Len(s) - 1) /\ (n - 1) + 1 = n
      BY <1>1, <2>3
    <3> QED
      BY <1>2, <2>1, <3>1 DEF IsIn
  <2> QED
    BY <2>2, <2>3
<1>4. ASSUME x = Head(s) PROVE IsIn(x, s)
  BY <1>1, <1>2, <1>4 DEF IsIn
<1>5. ASSUME IsIn(x, Tail(s)) PROVE IsIn(x, s)
  <2>1. PICK n \in 1..Len(Tail(s)) : Tail(s)[n] = x
    BY <1>5 DEF IsIn
  <2>2. n + 1 \in 1..Len(s) /\ s[n + 1] = x
    BY <1>1, <1>2, <2>1
  <2> QED
    BY <2>2 DEF IsIn
<1> QED
  BY <1>3, <1>4, <1>5

\* one is added to it,
LEMMA AppendStream ==
    ASSUME NEW s, IsSeq(s), NEW e
    PROVE  /\ IsSeq(Append(s, e))
           /\ Len(Append(s, e)) = Len(s) + 1
           /\ \A n \in 1..Len(s) : Append(s, e)[n] = s[n]
           /\ Append(s, e)[Len(s) + 1] = e
           /\ \A x : IsIn(x, Append(s, e)) <=> IsIn(x, s) \/ x = e
<1>1. PICK S : s \in Seq(S)
  BY DEF IsSeq
<1>2. s \in Seq(S \cup {e}) /\ e \in S \cup {e}
  BY <1>1
<1> DEFINE r == Append(s, e)
<1>3. /\ r \in Seq(S \cup {e}) /\ Len(r) = Len(s) + 1 /\ Len(s) \in Nat
      /\ \A n \in 1..Len(s) : r[n] = s[n]
      /\ r[Len(s) + 1] = e
  BY <1>2, AppendProperties, LenProperties
<1> HIDE DEF r
<1>4. 1..Len(s) \subseteq 1..Len(r) /\ Len(s) + 1 \in 1..Len(r)
  BY <1>3
<1>5. \A n \in 1..Len(r) : n \in 1..Len(s) \/ n = Len(s) + 1
  BY <1>3
<1>6. \A x : IsIn(x, r) <=> IsIn(x, s) \/ x = e
  BY <1>3, <1>4, <1>5 DEF IsIn
<1> QED
  BY <1>3, <1>6 DEF r, IsSeq

\* several are,
LEMMA ConcatStream ==
    ASSUME NEW s, IsSeq(s), NEW t, IsSeq(t)
    PROVE  /\ IsSeq(s \o t)
           /\ Len(s \o t) = Len(s) + Len(t)
           /\ \A n \in 1..Len(s) : (s \o t)[n] = s[n]
           /\ \A n \in 1..Len(t) : (s \o t)[Len(s) + n] = t[n]
<1>1. PICK S : s \in Seq(S)
  BY DEF IsSeq
<1>2. PICK T : t \in Seq(T)
  BY DEF IsSeq
<1>3. s \in Seq(S \cup T) /\ t \in Seq(S \cup T)
  BY <1>1, <1>2
<1>4. Len(s) \in Nat /\ Len(t) \in Nat
  BY SeqFacts
<1> DEFINE r == s \o t
<1>5. /\ r \in Seq(S \cup T) /\ Len(r) = Len(s) + Len(t)
      /\ \A n \in 1..Len(s) + Len(t) : r[n] = IF n <= Len(s) THEN s[n] ELSE t[n - Len(s)]
  BY <1>3, ConcatProperties
<1> HIDE DEF r
<1>6. \A n \in 1..Len(s) : r[n] = s[n]
  BY <1>4, <1>5
<1>7. ASSUME NEW n \in 1..Len(t) PROVE r[Len(s) + n] = t[n]
  <2>1. /\ Len(s) + n \in 1..Len(s) + Len(t)
        /\ ~(Len(s) + n <= Len(s)) /\ (Len(s) + n) - Len(s) = n
    BY <1>4
  <2> QED
    BY <1>5, <2>1
<1> QED
  BY <1>5, <1>6, <1>7 DEF r, IsSeq

\* or only a prefix of it is left.
LEMMA PrefixStream ==
    ASSUME NEW s, IsSeq(s), NEW k \in 0..Len(s)
    PROVE  /\ IsSeq(SubSeq(s, 1, k))
           /\ Len(SubSeq(s, 1, k)) = k
           /\ \A n \in 1..k : SubSeq(s, 1, k)[n] = s[n]
<1>1. PICK S : s \in Seq(S)
  BY DEF IsSeq
<1>2. Len(s) \in Nat /\ k \in Nat /\ k <= Len(s)
  BY SeqFacts
<1>3. \A i \in 1..k : s[i] \in S
  BY <1>1, <1>2, ElementOfSeq
<1> DEFINE r == SubSeq(s, 1, k)
<1>4. /\ r \in Seq(S) /\ Len(r) = k /\ \A n \in 1..k : r[n] = s[n]
  BY <1>2, <1>3, SubSeqProperties
<1> QED
  BY <1>4 DEF IsSeq

-----------------------------------------------------------------------------
(***************************************************************************)
(* The hub.                                                                *)
(***************************************************************************)
StreamsIn ==
    /\ link \in [Conns -> {"closed", "open", "lost"}]
    /\ inbox = [c \in Conns |-> inbox[c]]
    /\ outbox = [c \in Conns |-> outbox[c]]
    /\ \A c \in Conns : IsSeq(inbox[c]) /\ IsSeq(outbox[c])
    /\ \A c \in Conns : link[c] # "open" => inbox[c] = <<>>
    /\ \A c \in Conns : link[c] = "closed" => outbox[c] = <<>>

HubOK == ListOK /\ StreamsIn

\* Connections other than c have their frames and messages, and are as they were.
OthersSame(c) ==
    \A d \in Conns \ {c} :
        link'[d] = link[d] /\ inbox'[d] = inbox[d] /\ outbox'[d] = outbox[d]

LEMMA InitHub == HubInit => HubOK
<1> SUFFICES ASSUME HubInit PROVE HubOK
  OBVIOUS
<1>1. ListOK
  BY EmptySeq DEF HubInit, ListOK, NoneTwice, IsIn
<1>2. StreamsIn
  BY EmptyStream DEF HubInit, StreamsIn
<1> QED
  BY <1>1, <1>2 DEF HubOK

LEMMA SameHub == HubOK /\ UNCHANGED hubVars => HubOK'
BY DEF HubOK, ListOK, StreamsIn, hubVars

LEMMA OpenHub ==
    ASSUME HubOK, NEW c \in Conns, Open(c)
    PROVE  /\ HubOK'
           /\ OthersSame(c)
           /\ link[c] = "closed" /\ link'[c] = "open"
           /\ inbox[c] = <<>> /\ outbox[c] = <<>>
           /\ UNCHANGED inbox /\ UNCHANGED outbox
<1>1. /\ link[c] = "closed" /\ link' = [link EXCEPT ![c] = "open"]
      /\ listeners' = Append(listeners, c)
      /\ UNCHANGED inbox /\ UNCHANGED outbox
      /\ link \in [Conns -> {"closed", "open", "lost"}]
  BY DEF Open, HubOK, StreamsIn
<1>2. inbox[c] = <<>> /\ outbox[c] = <<>>
  BY <1>1 DEF HubOK, StreamsIn
<1>3. /\ listeners' \in Seq(Conns) /\ NoneTwice(listeners')
      /\ \A d : IsIn(d, listeners') <=> IsIn(d, listeners) \/ d = c
  <2>1. ~ IsIn(c, listeners) /\ listeners \in Seq(Conns) /\ NoneTwice(listeners)
    BY <1>1 DEF HubOK, ListOK
  <2> QED
    BY <1>1, <2>1, AddNew
<1>4. \A d \in Conns : IsIn(d, listeners') <=> link'[d] # "closed"
  BY <1>1, <1>3 DEF HubOK, ListOK
<1>5. ListOK'
  BY <1>3, <1>4 DEF ListOK
<1>6. StreamsIn'
  BY <1>1, <1>2 DEF HubOK, StreamsIn
<1> QED
  BY <1>1, <1>2, <1>5, <1>6 DEF HubOK, OthersSame

LEMMA SendHub ==
    ASSUME HubOK, NEW c \in Conns, NEW messages, IsSeq(messages), Send(c, messages)
    PROVE  /\ HubOK'
           /\ OthersSame(c)
           /\ link[c] = "open"
           /\ UNCHANGED link /\ UNCHANGED inbox
           /\ outbox'[c] = outbox[c] \o messages
<1>1. /\ link[c] = "open"
      /\ outbox' = [outbox EXCEPT ![c] = @ \o messages]
      /\ UNCHANGED link /\ UNCHANGED listeners /\ UNCHANGED inbox
  BY DEF Send
<1>2. outbox = [d \in Conns |-> outbox[d]] /\ IsSeq(outbox[c])
  BY DEF HubOK, StreamsIn
<1>3. /\ outbox' = [d \in Conns |-> outbox'[d]]
      /\ outbox'[c] = outbox[c] \o messages
      /\ \A d \in Conns \ {c} : outbox'[d] = outbox[d]
  BY <1>1, <1>2
<1>4. IsSeq(outbox'[c])
  BY <1>2, <1>3, ConcatStream
<1>5. StreamsIn'
  BY <1>1, <1>3, <1>4 DEF HubOK, StreamsIn
<1> QED
  BY <1>1, <1>3, <1>5 DEF HubOK, ListOK, OthersSame

\* A frame more for every open connection.
LEMMA OnMessageHub ==
    ASSUME HubOK, NEW c \in Conns, NEW reply, OnMessage(c, reply)
    PROVE  /\ HubOK'
           /\ UNCHANGED link
           /\ outbox[c] # <<>> /\ link[c] # "closed"
           /\ outbox'[c] = Tail(outbox[c])
           /\ \A d \in Conns \ {c} : outbox'[d] = outbox[d]
           /\ \A d \in Conns :
                 inbox'[d] = IF link[d] = "open" THEN Append(inbox[d], reply) ELSE inbox[d]
<1>1. /\ link[c] # "closed" /\ outbox[c] # <<>>
      /\ outbox' = [outbox EXCEPT ![c] = Tail(@)]
      /\ inbox' = [d \in Conns |-> inbox'[d]]
      /\ UNCHANGED link /\ UNCHANGED listeners
  BY DEF OnMessage, HasMessage, Broadcast
<1>2. outbox = [d \in Conns |-> outbox[d]] /\ IsSeq(outbox[c])
  BY DEF HubOK, StreamsIn
<1>3. /\ outbox' = [d \in Conns |-> outbox'[d]]
      /\ outbox'[c] = Tail(outbox[c])
      /\ \A d \in Conns \ {c} : outbox'[d] = outbox[d]
  BY <1>1, <1>2
<1>4. IsSeq(outbox'[c])
  BY <1>1, <1>2, <1>3, TailStream
<1>5. ASSUME NEW d \in Conns
      PROVE  /\ inbox'[d] = IF link[d] = "open" THEN Append(inbox[d], reply) ELSE inbox[d]
             /\ IsSeq(inbox'[d])
  <2>1. inbox'[d] = IF link[d] = "open" THEN inbox[d] \o [n \in 1..Turns(d) |-> reply]
                                        ELSE inbox[d]
    BY DEF OnMessage, Broadcast
  <2>2. link[d] = "open" => Turns(d) = 1
    BY TurnsOnce DEF HubOK
  <2>3. [n \in 1..1 |-> reply] = <<reply>>
    OBVIOUS
  <2>4. IsSeq(inbox[d])
    BY DEF HubOK, StreamsIn
  <2>5. Append(inbox[d], reply) = inbox[d] \o <<reply>>
    <3>1. PICK S : inbox[d] \in Seq(S)
      BY <2>4 DEF IsSeq
    <3> QED
      BY <3>1, AppendIsConcat
  <2>6. IsSeq(Append(inbox[d], reply))
    BY <2>4, AppendStream
  <2> QED
    BY <2>1, <2>2, <2>3, <2>4, <2>5, <2>6
<1>6. \A d \in Conns : link[d] # "open" => inbox'[d] = <<>>
  BY <1>5 DEF HubOK, StreamsIn
<1>7. StreamsIn'
  BY <1>1, <1>3, <1>4, <1>5, <1>6 DEF HubOK, StreamsIn
<1> QED
  BY <1>1, <1>3, <1>5, <1>7 DEF HubOK, ListOK

LEMMA DroppedHub ==
    ASSUME HubOK, NEW c \in Conns, OnMessageDropped(c)
    PROVE  /\ HubOK'
           /\ OthersSame(c)
           /\ UNCHANGED link /\ UNCHANGED inbox
           /\ outbox[c] # <<>> /\ link[c] # "closed"
           /\ outbox'[c] = Tail(outbox[c])
<1>1. /\ link[c] # "closed" /\ outbox[c] # <<>>
      /\ outbox' = [outbox EXCEPT ![c] = Tail(@)]
      /\ UNCHANGED link /\ UNCHANGED listeners /\ UNCHANGED inbox
  BY DEF OnMessageDropped, HasMessage
<1>2. outbox = [d \in Conns |-> outbox[d]] /\ IsSeq(outbox[c])
  BY DEF HubOK, StreamsIn
<1>3. /\ outbox' = [d \in Conns |-> outbox'[d]]
      /\ outbox'[c] = Tail(outbox[c])
      /\ \A d \in Conns \ {c} : outbox'[d] = outbox[d]
  BY <1>1, <1>2
<1>4. IsSeq(outbox'[c])
  BY <1>1, <1>2, <1>3, TailStream
<1>5. StreamsIn'
  BY <1>1, <1>3, <1>4 DEF HubOK, StreamsIn
<1> QED
  BY <1>1, <1>3, <1>5 DEF HubOK, ListOK, OthersSame

LEMMA DeliverHub ==
    ASSUME HubOK, NEW c \in Conns, Deliver(c)
    PROVE  /\ HubOK'
           /\ OthersSame(c)
           /\ UNCHANGED link /\ UNCHANGED outbox
           /\ link[c] = "open" /\ inbox[c] # <<>>
           /\ inbox'[c] = Tail(inbox[c])
<1>1. /\ link[c] = "open" /\ inbox[c] # <<>>
      /\ inbox' = [inbox EXCEPT ![c] = Tail(@)]
      /\ UNCHANGED link /\ UNCHANGED listeners /\ UNCHANGED outbox
  BY DEF Deliver
<1>2. inbox = [d \in Conns |-> inbox[d]] /\ IsSeq(inbox[c])
  BY DEF HubOK, StreamsIn
<1>3. /\ inbox' = [d \in Conns |-> inbox'[d]]
      /\ inbox'[c] = Tail(inbox[c])
      /\ \A d \in Conns \ {c} : inbox'[d] = inbox[d]
  BY <1>1, <1>2
<1>4. IsSeq(inbox'[c])
  BY <1>1, <1>2, <1>3, TailStream
<1>5. StreamsIn'
  BY <1>1, <1>3, <1>4 DEF HubOK, StreamsIn
<1> QED
  BY <1>1, <1>3, <1>5 DEF HubOK, ListOK, OthersSame

LEMMA LoseHub ==
    ASSUME HubOK, NEW c \in Conns, Lose(c)
    PROVE  /\ HubOK'
           /\ OthersSame(c)
           /\ link[c] = "open" /\ link'[c] = "lost"
           /\ inbox'[c] = <<>>
           /\ \E n \in 0..Len(outbox[c]) : outbox'[c] = SubSeq(outbox[c], 1, n)
<1>1. PICK n \in 0..Len(outbox[c]) : outbox' = [outbox EXCEPT ![c] = SubSeq(@, 1, n)]
  BY DEF Lose
<1>2. /\ link[c] = "open" /\ link' = [link EXCEPT ![c] = "lost"]
      /\ inbox' = [inbox EXCEPT ![c] = <<>>]
      /\ UNCHANGED listeners
  BY DEF Lose
<1>3. /\ outbox = [d \in Conns |-> outbox[d]] /\ IsSeq(outbox[c])
      /\ inbox = [d \in Conns |-> inbox[d]]
      /\ link \in [Conns -> {"closed", "open", "lost"}]
  BY DEF HubOK, StreamsIn
<1>4. /\ outbox' = [d \in Conns |-> outbox'[d]]
      /\ outbox'[c] = SubSeq(outbox[c], 1, n)
      /\ \A d \in Conns \ {c} : outbox'[d] = outbox[d]
  BY <1>1, <1>3
<1>5. IsSeq(outbox'[c])
  BY <1>3, <1>4, PrefixStream
<1>6. /\ inbox' = [d \in Conns |-> inbox'[d]] /\ inbox'[c] = <<>>
      /\ \A d \in Conns \ {c} : inbox'[d] = inbox[d]
  BY <1>2, <1>3
<1>7. /\ link' \in [Conns -> {"closed", "open", "lost"}] /\ link'[c] = "lost"
      /\ \A d \in Conns \ {c} : link'[d] = link[d]
  BY <1>2, <1>3
<1>8. StreamsIn'
  BY <1>4, <1>5, <1>6, <1>7, EmptyStream DEF HubOK, StreamsIn
<1>9. ListOK'
  BY <1>2, <1>7 DEF HubOK, ListOK
<1> QED
  BY <1>2, <1>4, <1>6, <1>7, <1>8, <1>9 DEF HubOK, OthersSame

LEMMA OnCloseHub ==
    ASSUME HubOK, NEW c \in Conns, OnClose(c)
    PROVE  /\ HubOK'
           /\ OthersSame(c)
           /\ link[c] = "lost" /\ link'[c] = "closed"
           /\ inbox[c] = <<>> /\ outbox[c] = <<>>
           /\ UNCHANGED inbox /\ UNCHANGED outbox
<1>1. /\ link[c] = "lost" /\ outbox[c] = <<>>
      /\ link' = [link EXCEPT ![c] = "closed"]
      /\ listeners' = RemoveFirst(listeners, c)
      /\ UNCHANGED inbox /\ UNCHANGED outbox
      /\ link \in [Conns -> {"closed", "open", "lost"}]
  BY DEF OnClose, HubOK, StreamsIn
<1>2. inbox[c] = <<>>
  BY <1>1 DEF HubOK, StreamsIn
<1>3. /\ listeners' \in Seq(Conns) /\ NoneTwice(listeners')
      /\ \A d : IsIn(d, listeners') <=> IsIn(d, listeners) /\ d # c
  <2>1. IsIn(c, listeners) /\ listeners \in Seq(Conns) /\ NoneTwice(listeners)
    BY <1>1 DEF HubOK, ListOK
  <2> QED
    BY <1>1, <2>1, RemoveOnly
<1>4. \A d \in Conns : IsIn(d, listeners') <=> link'[d] # "closed"
  BY <1>1, <1>3 DEF HubOK, ListOK
<1>5. ListOK'
  BY <1>3, <1>4 DEF ListOK
<1>6. StreamsIn'
  BY <1>1, <1>2 DEF HubOK, StreamsIn
<1> QED
  BY <1>1, <1>2, <1>5, <1>6 DEF HubOK, OthersSame

=============================================================================
