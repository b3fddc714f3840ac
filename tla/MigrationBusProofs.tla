-------------------------- MODULE MigrationBusProofs --------------------------
(***************************************************************************)
(* TakenOnce for any ring of runs, any stream and any number of stops,     *)
(* crashes and poll errors. A message that a run holds, in the response it *)
(* works on, its buffer or its arrivals, is claimed by that run, and a run *)
(* holds it in one place only, because what it holds is in the order of    *)
(* the stream.                                                             *)
(***************************************************************************)
EXTENDS MigrationBus, TLAPS

TypeOK ==
  /\ topology \in {"bus", "ring"}
  /\ stream \in Seq(Runs) /\ Len(stream) <= MaxPublished
  /\ claim \in [Messages -> Runs \cup {Nobody}]
  /\ lapsed \subseteq Messages
  /\ phase \in [Runs -> {"off", "up", "finished", "stopped", "ended"}]
  /\ cursor \in [Runs -> Nat] /\ saved \in [Runs -> Nat]
  /\ polled \in [Runs -> Nat]
  /\ won \in [Runs -> Seq(Messages)] /\ buffer \in [Runs -> Seq(Messages)]
  /\ arrivals \in [Runs -> Seq(Messages)]
  /\ imports \in [Messages -> Seq(Runs)]

\* Cursors lie in the stream, and the buffer is no longer than it may be.
Bounded ==
  \A r \in Runs :
    /\ cursor[r] <= Len(stream) /\ polled[r] <= Len(stream)
    /\ saved[r] <= Len(stream)
    /\ Len(buffer[r]) <= BufferSize

\* Sequences of messages: what is in them, and how they are ordered.
Has(s, m) == \E i \in 1..Len(s) : s[i] = m
Increasing(s) == \A i, j \in 1..Len(s) : i < j => s[i] < s[j]
Before(s, u) == \A x, y \in Messages : Has(s, x) /\ Has(u, y) => x < y
UpTo(s, n) == \A x \in Messages : Has(s, x) => x <= n

Idle(r) == arrivals[r] = <<>> /\ buffer[r] = <<>> /\ won[r] = <<>>

\* What a run holds is in the order of the stream: its arrivals, its buffer and
\* what it has claimed out of the response; none lies beyond its cursor.
OrderedIn(r) ==
  /\ Increasing(arrivals[r]) /\ Increasing(buffer[r]) /\ Increasing(won[r])
  /\ Before(arrivals[r], buffer[r]) /\ Before(arrivals[r], won[r])
  /\ Before(buffer[r], won[r])
  /\ UpTo(arrivals[r], cursor[r]) /\ UpTo(buffer[r], cursor[r])
  /\ UpTo(won[r], cursor[r])
  /\ phase[r] = "off" => Idle(r)
Ordered == \A r \in Runs : OrderedIn(r)

Holds(r, m) == Has(arrivals[r], m) \/ Has(buffer[r], m) \/ Has(won[r], m)

\* r may import m.
Admits(r, m) == m <= Len(stream) /\ Accepts(r, stream[m])

\* As long as the claim key of a message has not expired, only its owner holds
\* it, or has imported it, and then nobody holds it.
OwnedOnce(m) ==
  /\ \A r \in Runs :
       Holds(r, m) => claim[m] = r /\ imports[m] = <<>> /\ Admits(r, m)
  /\ imports[m] # <<>> => claim[m] # Nobody
  /\ Len(imports[m]) <= 1
  /\ \A i \in 1..Len(imports[m]) : Admits(imports[m][i], m)
Owned == \A m \in Messages \ lapsed : OwnedOnce(m)

BInv == TypeOK /\ Bounded /\ Ordered /\ Owned

-----------------------------------------------------------------------------
(* Sequences of messages. *)

LEMMA EmptyHas == /\ \A m : ~Has(<<>>, m)
                  /\ Increasing(<<>>) /\ <<>> \in Seq(Messages)
BY DEF Has, Increasing

\* Bounds and order survive when a sequence loses elements.
LEMMA UpToShrinks ==
  ASSUME NEW s, NEW u, NEW n \in Nat, NEW k \in Nat, n <= k,
         UpTo(s, n), \A x : Has(u, x) => Has(s, x)
  PROVE  UpTo(u, k)
<1>1. \A x \in Messages : x \in Int
  BY DEF Messages
<1> QED
  BY <1>1 DEF UpTo

LEMMA BeforeShrinks ==
  ASSUME NEW s, NEW u, NEW s1, NEW u1, Before(s, u),
         \A x : Has(s1, x) => Has(s, x), \A x : Has(u1, x) => Has(u, x)
  PROVE  Before(s1, u1)
BY DEF Before

\* A message beyond those of a sequence keeps it in order at its end.
LEMMA AppendHas ==
  ASSUME NEW s \in Seq(Messages), NEW m \in Messages
  PROVE  /\ Append(s, m) \in Seq(Messages)
         /\ \A x : Has(Append(s, m), x) <=> Has(s, x) \/ x = m
         /\ Increasing(s) /\ (\A x \in Messages : Has(s, x) => x < m) =>
              Increasing(Append(s, m))
<1> DEFINE t == Append(s, m)
<1>1. /\ t \in Seq(Messages) /\ Len(t) = Len(s) + 1
      /\ \A i \in 1..Len(s) : t[i] = s[i]
      /\ t[Len(s) + 1] = m
  OBVIOUS
<1>2. \A i \in 1..Len(s) : s[i] \in Messages
  OBVIOUS
<1> QED
  BY <1>1, <1>2 DEF Has, Increasing, Messages

\* So does a sequence whose messages all come later.
LEMMA ConcatHas ==
  ASSUME NEW s \in Seq(Messages), NEW u \in Seq(Messages)
  PROVE  /\ s \o u \in Seq(Messages) /\ Len(s \o u) = Len(s) + Len(u)
         /\ \A x : Has(s \o u, x) <=> Has(s, x) \/ Has(u, x)
         /\ Increasing(s) /\ Increasing(u) /\ Before(s, u) => Increasing(s \o u)
<1> DEFINE t == s \o u
<1>1. /\ t \in Seq(Messages) /\ Len(t) = Len(s) + Len(u)
      /\ \A i \in 1..Len(t) :
           t[i] = IF i <= Len(s) THEN s[i] ELSE u[i - Len(s)]
  OBVIOUS
<1>2. \A i \in 1..Len(u) : i + Len(s) \in 1..Len(t) /\ t[i + Len(s)] = u[i]
  BY <1>1
<1>3. \A x : Has(t, x) <=> Has(s, x) \/ Has(u, x)
  <2>1. \A x : Has(t, x) => Has(s, x) \/ Has(u, x)
    BY <1>1 DEF Has
  <2>2. \A x : Has(u, x) => Has(t, x)
    BY <1>2 DEF Has
  <2>3. \A x : Has(s, x) => Has(t, x)
    BY <1>1 DEF Has
  <2> QED
    BY <2>1, <2>2, <2>3
<1>4. ASSUME Increasing(s), Increasing(u), Before(s, u)
      PROVE  Increasing(t)
  <2> SUFFICES ASSUME NEW i \in 1..Len(t), NEW j \in 1..Len(t), i < j
               PROVE  t[i] < t[j]
    BY DEF Increasing
  <2>1. CASE j <= Len(s)
    BY <1>1, <1>4, <2>1 DEF Increasing
  <2>2. CASE i > Len(s)
    <3>1. i - Len(s) \in 1..Len(u) /\ j - Len(s) \in 1..Len(u)
      BY <1>1, <2>2
    <3>2. u[i - Len(s)] < u[j - Len(s)]
      BY <1>4, <3>1 DEF Increasing
    <3> QED
      BY <1>1, <2>2, <3>2
  <2>3. CASE i <= Len(s) /\ j > Len(s)
    <3>1. Has(s, t[i]) /\ t[i] \in Messages
      BY <1>1, <2>3 DEF Has
    <3>2. Has(u, t[j]) /\ t[j] \in Messages
      BY <1>1, <2>3 DEF Has
    <3> QED
      BY <1>4, <3>1, <3>2 DEF Before
  <2> QED
    BY <2>1, <2>2, <2>3
<1> QED
  BY <1>1, <1>3, <1>4

\* A piece of a sequence.
LEMMA PieceHas ==
  ASSUME NEW s \in Seq(Messages), NEW a \in 1..(Len(s) + 1), NEW b \in 0..Len(s)
  PROVE  /\ SubSeq(s, a, b) \in Seq(Messages)
         /\ Len(SubSeq(s, a, b)) = IF a <= b THEN b - a + 1 ELSE 0
         /\ \A x : Has(SubSeq(s, a, b), x) <=> \E i \in a..b : s[i] = x
         /\ Increasing(s) => Increasing(SubSeq(s, a, b))
<1> DEFINE t == SubSeq(s, a, b)
<1>1. /\ t \in Seq(Messages)
      /\ Len(t) = IF a <= b THEN b - a + 1 ELSE 0
      /\ \A i \in 1..Len(t) : t[i] = s[a + i - 1]
  OBVIOUS
<1>2. \A x : Has(t, x) => \E i \in a..b : s[i] = x
  BY <1>1 DEF Has
<1>3. \A i \in a..b : i - a + 1 \in 1..Len(t) /\ t[i - a + 1] = s[i]
  BY <1>1
<1>4. Increasing(s) => Increasing(t)
  BY <1>1 DEF Increasing
<1> QED
  BY <1>1, <1>2, <1>3, <1>4 DEF Has

\* The head of a sequence in order occurs in it once.
LEMMA HeadHas ==
  ASSUME NEW s \in Seq(Messages), s # <<>>
  PROVE  /\ Head(s) \in Messages /\ Has(s, Head(s))
         /\ Tail(s) \in Seq(Messages)
         /\ \A x : Has(Tail(s), x) => Has(s, x)
         /\ Increasing(s) => Increasing(Tail(s)) /\ ~Has(Tail(s), Head(s))
<1>1. /\ Len(s) \in Nat /\ Len(s) >= 1
      /\ Head(s) = s[1]
      /\ Tail(s) \in Seq(Messages) /\ Len(Tail(s)) = Len(s) - 1
      /\ \A i \in 1..Len(Tail(s)) : Tail(s)[i] = s[i + 1]
  OBVIOUS
<1>2. \A i \in 1..Len(s) : s[i] \in Messages
  OBVIOUS
<1>3. \A i \in 1..Len(s) : s[i] \in Int
  BY <1>2 DEF Messages
<1> QED
  BY <1>1, <1>2, <1>3 DEF Has, Increasing

-----------------------------------------------------------------------------
(* Types, and cursors that stay in the stream. *)

TB == TypeOK /\ Bounded

\* The constants, one by one.
LEMMA BusConstants ==
  ASSUME BusAssumption
  PROVE  /\ PollCount \in Nat /\ PollCount > 0
         /\ BufferSize \in Nat /\ DrainCount \in Nat /\ DrainCount > 0
         /\ MaxPublished \in Nat /\ Nobody \notin Runs
<1>1. /\ PollCount \in Nat \ {0} /\ BufferSize \in Nat \ {0}
      /\ DrainCount \in Nat \ {0} /\ MaxPublished \in Nat /\ Nobody \notin Runs
  BY Zenon DEF BusAssumption
<1> QED
  BY <1>1

\* The position after a cursor inside the stream is a message.
LEMMA PublishedMessages ==
  ASSUME TypeOK, BusAssumption, NEW n \in Nat, n < Len(stream)
  PROVE  n + 1 \in Messages /\ stream[n + 1] \in Runs
<1>1. stream \in Seq(Runs) /\ Len(stream) \in Nat /\ Len(stream) <= MaxPublished
  BY DEF TypeOK
<1>2. n + 1 \in Messages
  BY <1>1, BusConstants DEF Messages
<1>3. stream[n + 1] \in Runs
  BY <1>1
<1> QED
  BY <1>2, <1>3

LEMMA CursorTypes ==
  ASSUME TB, NEW r \in Runs
  PROVE  /\ cursor[r] \in Nat /\ polled[r] \in Nat /\ Len(stream) \in Nat
         /\ cursor[r] <= Len(stream) /\ polled[r] <= Len(stream)
         /\ won[r] \in Seq(Messages) /\ buffer[r] \in Seq(Messages)
         /\ arrivals[r] \in Seq(Messages)
<1>1. cursor[r] \in Nat /\ polled[r] \in Nat /\ Len(stream) \in Nat
  BY DEF TB, TypeOK
<1>2. cursor[r] <= Len(stream) /\ polled[r] <= Len(stream)
  BY DEF TB, Bounded
<1>3. /\ won[r] \in Seq(Messages) /\ buffer[r] \in Seq(Messages)
      /\ arrivals[r] \in Seq(Messages)
  BY DEF TB, TypeOK
<1> QED
  BY <1>1, <1>2, <1>3

\* What a claim that gets no answer does.
LEMMA CutOffTyped ==
  ASSUME BusAssumption, TB, NEW r \in Runs, Claiming(r), CutOff(r)
  PROVE  /\ cursor' = [cursor EXCEPT ![r] = cursor[r] + 1]
         /\ cursor[r] + 1 \in Messages /\ cursor[r] + 1 <= polled[r]
         /\ \/ claim' = claim
            \/ /\ claim[cursor[r] + 1] = Nobody
               /\ claim' = [claim EXCEPT ![cursor[r] + 1] = r]
         /\ won' = [won EXCEPT ![r] = <<>>]
         /\ claim' \in [Messages -> Runs \cup {Nobody}]
         /\ cursor' \in [Runs -> Nat] /\ won' \in [Runs -> Seq(Messages)]
<1> DEFINE m == cursor[r] + 1
<1>1. cursor' = [cursor EXCEPT ![r] = m]
  BY DEF CutOff
<1>2. cursor[r] < polled[r]
  BY DEF Claiming
<1>3. m \in Nat /\ m <= polled[r]
  BY <1>2, CursorTypes
<1>4. m \in Messages
  <2>1. cursor[r] < Len(stream)
    BY <1>2, CursorTypes
  <2> QED
    BY <2>1, CursorTypes, PublishedMessages DEF TB
<1>5. cursor'[r] = m
  BY <1>1 DEF TB, TypeOK
<1>6. \/ claim' = claim
      \/ claim[m] = Nobody /\ claim' = [claim EXCEPT ![m] = r]
  BY <1>5 DEF CutOff
<1>7. claim' \in [Messages -> Runs \cup {Nobody}]
  BY <1>4, <1>6 DEF TB, TypeOK
<1>8. cursor' \in [Runs -> Nat]
  BY <1>1, <1>3 DEF TB, TypeOK
<1>9. won' = [won EXCEPT ![r] = <<>>] /\ won' \in [Runs -> Seq(Messages)]
  BY EmptyHas DEF CutOff, TB, TypeOK
<1> QED
  BY <1>1, <1>3, <1>4, <1>6, <1>7, <1>8, <1>9

\* A delivery keeps as much of the response as the buffer has room for.
LEMMA DeliverTyped ==
  ASSUME BusAssumption, TB, NEW r \in Runs, Deliver(r)
  PROVE  \E kept \in 0..Len(won[r]) :
           /\ buffer' = [buffer EXCEPT ![r] = buffer[r] \o SubSeq(won[r], 1, kept)]
           /\ Len(buffer[r]) + kept <= BufferSize
<1> DEFINE room == BufferSize - Len(buffer[r])
           kept == IF Len(won[r]) < room THEN Len(won[r]) ELSE room
<1>1. Len(won[r]) \in Nat /\ room \in Nat
  BY BusConstants DEF TB, TypeOK, Bounded
<1>2. kept \in 0..Len(won[r]) /\ Len(buffer[r]) + kept <= BufferSize
  BY <1>1, BusConstants DEF TB, TypeOK
<1>3. buffer' = [buffer EXCEPT ![r] = buffer[r] \o SubSeq(won[r], 1, kept)]
  BY DEF Deliver
<1> QED
  BY <1>2, <1>3

\* A drain takes the front of the buffer.
LEMMA DrainTyped ==
  ASSUME BusAssumption, TB, NEW r \in Runs, Drain(r)
  PROVE  \E n \in 0..Len(buffer[r]) :
           /\ arrivals' = [arrivals EXCEPT ![r] = SubSeq(buffer[r], 1, n)]
           /\ buffer' = [buffer EXCEPT ![r] =
                           SubSeq(buffer[r], n + 1, Len(buffer[r]))]
<1> DEFINE n == IF Len(buffer[r]) < DrainCount THEN Len(buffer[r]) ELSE DrainCount
<1>1. n \in 0..Len(buffer[r])
  BY BusConstants DEF TB, TypeOK
<1> QED
  BY <1>1 DEF Drain

LEMMA BusTypeKeeps ==
  ASSUME BusAssumption, TB, Next
  PROVE  TB'
<1>1. ASSUME NEW r \in Runs, Publish(r)
      PROVE  TB'
  <2>1. stream' \in Seq(Runs) /\ Len(stream') = Len(stream) + 1
    BY <1>1 DEF Publish, TB, TypeOK
  <2>2. Len(stream') <= MaxPublished
    BY <1>1, <2>1, BusConstants, CursorTypes DEF Publish
  <2>3. UNCHANGED <<cursor, polled, saved, buffer>>
    BY <1>1 DEF Publish
  <2>4. \A q \in Runs : cursor[q] \in Nat /\ polled[q] \in Nat /\ saved[q] \in Nat
    BY DEF TB, TypeOK
  <2>5. Bounded'
    BY <2>1, <2>3, <2>4, CursorTypes DEF TB, Bounded
  <2> QED
    BY <1>1, <2>1, <2>2, <2>5 DEF Publish, TB, TypeOK
<1>2. ASSUME NEW r \in Runs, Read(r)
      PROVE  TB'
  <2> DEFINE p == IF cursor[r] + PollCount < Len(stream)
                    THEN cursor[r] + PollCount ELSE Len(stream)
  <2>1. p \in Nat /\ p <= Len(stream)
    BY BusConstants, CursorTypes
  <2>2. polled' = [polled EXCEPT ![r] = p]
    BY <1>2 DEF Read
  <2>3. polled' \in [Runs -> Nat] /\ \A q \in Runs : polled'[q] <= Len(stream)
    BY <2>1, <2>2 DEF TB, TypeOK, Bounded
  <2> QED
    BY <1>2, <2>3 DEF Read, TB, TypeOK, Bounded
<1>3. ASSUME NEW r \in Runs, Claim(r)
      PROVE  TB'
  <2> DEFINE m == cursor[r] + 1
  <2>1. cursor[r] < Len(stream)
    BY <1>3, CursorTypes DEF Claim
  <2>2. m \in Messages /\ m \in Nat /\ m <= Len(stream)
    BY <2>1, PublishedMessages, CursorTypes DEF TB
  <2>3. cursor' = [cursor EXCEPT ![r] = m]
    BY <1>3 DEF Claim
  <2>4. \/ claim' = claim /\ won' = won
        \/ /\ claim' = [claim EXCEPT ![m] = r]
           /\ won' = [won EXCEPT ![r] = Append(won[r], m)]
    BY <1>3 DEF Claim
  <2>5. Append(won[r], m) \in Seq(Messages)
    BY <2>2, AppendHas, CursorTypes
  <2>6. claim' \in [Messages -> Runs \cup {Nobody}]
    BY <2>2, <2>4 DEF TB, TypeOK
  <2>7. won' \in [Runs -> Seq(Messages)]
    BY <2>4, <2>5 DEF TB, TypeOK
  <2>8. cursor' \in [Runs -> Nat] /\ \A q \in Runs : cursor'[q] <= Len(stream)
    BY <2>2, <2>3 DEF TB, TypeOK, Bounded
  <2> QED
    BY <1>3, <2>6, <2>7, <2>8 DEF Claim, TB, TypeOK, Bounded
<1>4. ASSUME NEW r \in Runs, Deliver(r)
      PROVE  TB'
  <2>1. PICK kept \in 0..Len(won[r]) :
          /\ buffer' = [buffer EXCEPT ![r] = buffer[r] \o SubSeq(won[r], 1, kept)]
          /\ Len(buffer[r]) + kept <= BufferSize
    BY <1>4, DeliverTyped
  <2>2. /\ SubSeq(won[r], 1, kept) \in Seq(Messages)
        /\ Len(SubSeq(won[r], 1, kept)) = kept
    BY PieceHas, CursorTypes
  <2>3. /\ buffer[r] \o SubSeq(won[r], 1, kept) \in Seq(Messages)
        /\ Len(buffer[r] \o SubSeq(won[r], 1, kept)) = Len(buffer[r]) + kept
    <3>1. buffer[r] \in Seq(Messages)
      BY CursorTypes
    <3> QED
      BY <2>2, <3>1, ConcatHas
  <2>4. /\ buffer' \in [Runs -> Seq(Messages)]
        /\ \A q \in Runs : Len(buffer'[q]) <= BufferSize
    BY <2>1, <2>3 DEF TB, TypeOK, Bounded
  <2> QED
    BY <1>4, <2>4, EmptyHas DEF Deliver, TB, TypeOK, Bounded
<1>5. ASSUME NEW r \in Runs, PollError(r)
      PROVE  TB'
  <2> DEFINE m == cursor[r] + 1
  <2>1. /\ cursor' = [cursor EXCEPT ![r] = m] /\ m \in Nat /\ m <= Len(stream)
        /\ claim' \in [Messages -> Runs \cup {Nobody}]
        /\ cursor' \in [Runs -> Nat] /\ won' \in [Runs -> Seq(Messages)]
    BY <1>5, CutOffTyped, CursorTypes DEF PollError
  <2>2. polled' = [polled EXCEPT ![r] = cursor'[r]]
    BY <1>5 DEF PollError
  <2>3. polled' \in [Runs -> Nat] /\ \A q \in Runs : cursor'[q] <= Len(stream)
                                      /\ polled'[q] <= Len(stream)
    BY <2>1, <2>2 DEF TB, TypeOK, Bounded
  <2> QED
    BY <1>5, <2>1, <2>3 DEF PollError, TB, TypeOK, Bounded
<1>6. ASSUME NEW r \in Runs, Drain(r)
      PROVE  TB'
  <2>1. PICK n \in 0..Len(buffer[r]) :
          /\ arrivals' = [arrivals EXCEPT ![r] = SubSeq(buffer[r], 1, n)]
          /\ buffer' = [buffer EXCEPT ![r] =
                          SubSeq(buffer[r], n + 1, Len(buffer[r]))]
    BY <1>6, DrainTyped
  <2>2. /\ SubSeq(buffer[r], 1, n) \in Seq(Messages)
        /\ SubSeq(buffer[r], n + 1, Len(buffer[r])) \in Seq(Messages)
        /\ Len(SubSeq(buffer[r], n + 1, Len(buffer[r]))) <= Len(buffer[r])
    BY PieceHas, CursorTypes
  <2>3. /\ buffer' \in [Runs -> Seq(Messages)]
        /\ arrivals' \in [Runs -> Seq(Messages)]
    BY <2>1, <2>2 DEF TB, TypeOK
  <2>4. \A q \in Runs : Len(buffer'[q]) <= BufferSize
    <3>1. Len(buffer'[r]) <= Len(buffer[r])
      BY <2>1, <2>2 DEF TB, TypeOK
    <3>2. Len(buffer'[r]) \in Nat /\ Len(buffer[r]) \in Nat
      BY <2>3, CursorTypes
    <3>3. \A q \in Runs \ {r} : buffer'[q] = buffer[q]
      BY <2>1 DEF TB, TypeOK
    <3>4. Len(buffer'[r]) <= BufferSize
      BY <3>1, <3>2, BusConstants DEF TB, Bounded
    <3> QED
      BY <3>3, <3>4 DEF TB, Bounded
  <2> QED
    BY <1>6, <2>3, <2>4 DEF Drain, TB, TypeOK, Bounded
<1>7. ASSUME NEW r \in Runs, Import(r)
      PROVE  TB'
  <2>1. /\ Head(arrivals[r]) \in Messages
        /\ Tail(arrivals[r]) \in Seq(Messages)
    BY <1>7, HeadHas, CursorTypes DEF Import
  <2>2. Append(imports[Head(arrivals[r])], r) \in Seq(Runs)
    BY <2>1 DEF TB, TypeOK
  <2> QED
    BY <1>7, <2>1, <2>2 DEF Import, TB, TypeOK, Bounded
<1>8. ASSUME NEW r \in Runs, Start(r)
      PROVE  TB'
  BY <1>8 DEF Start, TB, TypeOK, Bounded
<1>9. ASSUME NEW r \in Runs, StopNode(r)
      PROVE  TB'
  <2>1. /\ cursor' \in [Runs -> Nat] /\ won' \in [Runs -> Seq(Messages)]
        /\ claim' \in [Messages -> Runs \cup {Nobody}]
        /\ \A q \in Runs : cursor'[q] <= Len(stream)
    <3>1. CASE Claiming(r) /\ CutOff(r)
      <4>1. /\ cursor' = [cursor EXCEPT ![r] = cursor[r] + 1]
            /\ cursor[r] + 1 <= Len(stream)
        <5>1. /\ cursor' = [cursor EXCEPT ![r] = cursor[r] + 1]
              /\ cursor[r] + 1 <= polled[r]
          BY <3>1, CutOffTyped
        <5> QED
          BY <5>1, CursorTypes
      <4>2. \A q \in Runs : cursor'[q] <= Len(stream)
        BY <4>1 DEF TB, TypeOK, Bounded
      <4> QED
        BY <3>1, <4>2, CutOffTyped
    <3>2. CASE UNCHANGED <<cursor, claim>> /\ won' = [won EXCEPT ![r] = <<>>]
      BY <3>2, EmptyHas DEF TB, TypeOK, Bounded
    <3> QED
      BY <1>9, <3>1, <3>2 DEF StopNode
  <2>2. saved' = [saved EXCEPT ![r] = cursor'[r]]
    BY <1>9 DEF StopNode
  <2>3. phase' \in [Runs -> {"off", "up", "finished", "stopped", "ended"}]
    BY <1>9 DEF StopNode, TB, TypeOK
  <2>4. UNCHANGED <<topology, stream, lapsed, polled, buffer, arrivals, imports>>
    BY <1>9 DEF StopNode
  <2>5. saved' \in [Runs -> Nat] /\ \A q \in Runs : saved'[q] <= Len(stream)
    BY <2>1, <2>2 DEF TB, TypeOK, Bounded
  <2> QED
    BY <2>1, <2>3, <2>4, <2>5 DEF TB, TypeOK, Bounded
<1>10. ASSUME NEW r \in Runs, Finish(r)
      PROVE  TB'
  BY <1>10, EmptyHas DEF Finish, TB, TypeOK, Bounded
<1>11. ASSUME NEW r \in Runs, Exit(r) \/ Crash(r)
      PROVE  TB'
  <2>1. /\ phase' \in [Runs -> {"off", "up", "finished", "stopped", "ended"}]
        /\ won' \in [Runs -> Seq(Messages)]
        /\ arrivals' \in [Runs -> Seq(Messages)]
        /\ buffer' = [buffer EXCEPT ![r] = <<>>]
    <3>1. CASE Exit(r)
      BY <3>1, EmptyHas DEF Exit, Vanish, TB, TypeOK
    <3>2. CASE Crash(r)
      BY <3>2, EmptyHas DEF Crash, Vanish, TB, TypeOK
    <3> QED
      BY <1>11, <3>1, <3>2
  <2>2. /\ buffer' \in [Runs -> Seq(Messages)]
        /\ \A q \in Runs : Len(buffer'[q]) <= BufferSize
    BY <2>1, EmptyHas, BusConstants DEF TB, TypeOK, Bounded
  <2> QED
    BY <1>11, <2>1, <2>2 DEF Exit, Crash, TB, TypeOK, Bounded
<1>12. ASSUME NEW m \in Messages, ClaimExpires(m)
      PROVE  TB'
  BY <1>12 DEF ClaimExpires, TB, TypeOK, Bounded
<1> QED
  BY <1>1, <1>2, <1>3, <1>4, <1>5, <1>6, <1>7, <1>8, <1>9, <1>10, <1>11, <1>12
     DEF Next, Poll, DrainStep

-----------------------------------------------------------------------------
(* What a run holds stays in order. *)

\* Runs lose what they hold, or keep it with a cursor that goes on.
Fewer ==
  \A r \in Runs :
    /\ arrivals'[r] \in {arrivals[r], <<>>} /\ buffer'[r] \in {buffer[r], <<>>}
    /\ won'[r] \in {won[r], <<>>}
    /\ cursor[r] <= cursor'[r] \/ Idle(r)'
    /\ phase'[r] = "off" => Idle(r)'

\* What is left is in order.
LEMMA FewerOrdered ==
  ASSUME TB, Ordered, TB', Fewer
  PROVE  Ordered'
<1> SUFFICES ASSUME NEW r \in Runs PROVE OrderedIn(r)'
  BY DEF Ordered
<1>1. OrderedIn(r)
  BY DEF Ordered
<1>2. cursor[r] \in Nat /\ cursor'[r] \in Nat
  BY DEF TB, TypeOK
<1>3. CASE Idle(r)'
  BY <1>3, EmptyHas DEF OrderedIn, Idle, Before, UpTo
<1>4. CASE ~Idle(r)'
  <2>1. cursor[r] <= cursor'[r] /\ phase'[r] # "off"
    BY <1>4 DEF Fewer
  <2>2. /\ \A x : Has(arrivals'[r], x) => Has(arrivals[r], x)
        /\ \A x : Has(buffer'[r], x) => Has(buffer[r], x)
        /\ \A x : Has(won'[r], x) => Has(won[r], x)
        /\ Increasing(arrivals'[r]) /\ Increasing(buffer'[r])
        /\ Increasing(won'[r])
    BY <1>1, EmptyHas DEF Fewer, OrderedIn
  <2>3. /\ Before(arrivals[r], buffer[r]) /\ Before(arrivals[r], won[r])
        /\ Before(buffer[r], won[r])
        /\ UpTo(arrivals[r], cursor[r]) /\ UpTo(buffer[r], cursor[r])
        /\ UpTo(won[r], cursor[r])
    BY <1>1 DEF OrderedIn
  <2>4. /\ Before(arrivals'[r], buffer'[r]) /\ Before(arrivals'[r], won'[r])
        /\ Before(buffer'[r], won'[r])
    BY <2>2, <2>3, BeforeShrinks
  <2>5. /\ UpTo(arrivals'[r], cursor'[r]) /\ UpTo(buffer'[r], cursor'[r])
        /\ UpTo(won'[r], cursor'[r])
    BY <1>2, <2>1, <2>2, <2>3, UpToShrinks
  <2> QED
    BY <2>1, <2>2, <2>4, <2>5 DEF OrderedIn
<1> QED
  BY <1>3, <1>4

\* Every step but a claim, a delivery, a drain and an import leaves fewer.
LEMMA MostlyFewer ==
  ASSUME BusAssumption, TB, Ordered, NEW r \in Runs,
         Publish(r) \/ Read(r) \/ PollError(r) \/ Start(r) \/ StopNode(r)
           \/ Finish(r) \/ Exit(r) \/ Crash(r)
  PROVE  Fewer
<1>1. \A q \in Runs : cursor[q] \in Nat
  BY DEF TB, TypeOK
<1>2. \A q \in Runs : phase[q] = "off" => Idle(q)
  BY DEF Ordered, OrderedIn
<1>3. CASE Publish(r) \/ Read(r)
  BY <1>1, <1>2, <1>3 DEF Publish, Read, Fewer, Idle
<1>4. CASE PollError(r)
  <2>1. /\ cursor' = [cursor EXCEPT ![r] = cursor[r] + 1]
        /\ won' = [won EXCEPT ![r] = <<>>]
    BY <1>4, CutOffTyped DEF PollError
  <2>2. UNCHANGED <<arrivals, buffer, phase>>
    BY <1>4 DEF PollError
  <2>3. \A q \in Runs : cursor[q] <= cursor'[q] /\ won'[q] \in {won[q], <<>>}
    BY <1>1, <2>1 DEF TB, TypeOK
  <2> QED
    BY <1>2, <2>2, <2>3 DEF Fewer, Idle
<1>5. CASE Start(r)
  <2>1. /\ phase' = [phase EXCEPT ![r] = "up"] /\ phase[r] = "off"
        /\ UNCHANGED <<won, buffer, arrivals>>
        /\ \A q \in Runs \ {r} : cursor'[q] = cursor[q]
    BY <1>5 DEF Start, TB, TypeOK
  <2>2. \A q \in Runs : phase'[q] = "off" => phase[q] = "off"
    BY <2>1 DEF TB, TypeOK
  <2>3. \A q \in Runs : Idle(q) => Idle(q)'
    BY <2>1 DEF Idle
  <2> QED
    BY <1>1, <1>2, <2>1, <2>2, <2>3 DEF Fewer
<1>6. CASE StopNode(r)
  <2>1. /\ \A q \in Runs : cursor[q] <= cursor'[q]
        /\ \A q \in Runs : won'[q] \in {won[q], <<>>}
    <3>1. CASE Claiming(r) /\ CutOff(r)
      <4>1. /\ cursor' = [cursor EXCEPT ![r] = cursor[r] + 1]
            /\ won' = [won EXCEPT ![r] = <<>>]
        BY <3>1, CutOffTyped
      <4> QED
        BY <1>1, <4>1 DEF TB, TypeOK
    <3>2. CASE UNCHANGED cursor /\ won' = [won EXCEPT ![r] = <<>>]
      BY <1>1, <3>2 DEF TB, TypeOK
    <3> QED
      BY <1>6, <3>1, <3>2 DEF StopNode
  <2>2. UNCHANGED <<arrivals, buffer>>
    BY <1>6 DEF StopNode
  <2>3. \A q \in Runs : phase'[q] = "off" => phase[q] = "off"
    BY <1>6 DEF StopNode, TB, TypeOK
  <2> QED
    BY <1>2, <2>1, <2>2, <2>3 DEF Fewer, Idle
<1>7. CASE Finish(r)
  <2>1. \A q \in Runs : phase'[q] = "off" => phase[q] = "off"
    BY <1>7 DEF Finish, TB, TypeOK
  <2>2. \A q \in Runs : arrivals'[q] \in {arrivals[q], <<>>}
    BY <1>7 DEF Finish, TB, TypeOK
  <2> QED
    BY <1>1, <1>2, <1>7, <2>1, <2>2 DEF Finish, Fewer, Idle
<1>8. CASE Exit(r) \/ Crash(r)
  <2>1. Vanish(r) /\ UNCHANGED cursor
    BY <1>8 DEF Exit, Crash
  <2>2. Idle(r)'
    BY <2>1 DEF Vanish, Idle, TB, TypeOK
  <2>3. \A q \in Runs \ {r} : /\ arrivals'[q] = arrivals[q] /\ won'[q] = won[q]
                              /\ buffer'[q] = buffer[q] /\ phase'[q] = phase[q]
    BY <2>1 DEF Vanish, TB, TypeOK
  <2> QED
    BY <1>1, <1>2, <2>1, <2>2, <2>3 DEF Fewer, Idle
<1> QED
  BY <1>3, <1>4, <1>5, <1>6, <1>7, <1>8

\* What r alone holds may change.
LEMMA OthersOrdered ==
  ASSUME Ordered, NEW r \in Runs, OrderedIn(r)',
         \A q \in Runs \ {r} :
           /\ arrivals'[q] = arrivals[q] /\ buffer'[q] = buffer[q]
           /\ won'[q] = won[q] /\ cursor'[q] = cursor[q]
           /\ phase'[q] = phase[q]
  PROVE  Ordered'
BY DEF Ordered, OrderedIn, Idle

\* The message claimed lies beyond everything the run holds.
LEMMA ClaimOrdered ==
  ASSUME BusAssumption, TB, Ordered, NEW r \in Runs, Claim(r)
  PROVE  Ordered'
<1> DEFINE m == cursor[r] + 1
<1>1. cursor[r] < Len(stream) /\ phase[r] # "off"
  BY CursorTypes DEF Claim, Polling
<1>2. m \in Messages /\ m \in Nat /\ cursor[r] \in Nat
  BY <1>1, PublishedMessages, CursorTypes DEF TB
<1>3. cursor' = [cursor EXCEPT ![r] = m] /\ UNCHANGED <<arrivals, buffer, phase>>
  BY DEF Claim
<1>4. won' = won \/ won' = [won EXCEPT ![r] = Append(won[r], m)]
  BY DEF Claim
<1>5. OrderedIn(r)
  BY DEF Ordered
<1>6. \A x \in Messages : x \in Int
  BY DEF Messages
<1>7. cursor'[r] = m /\ \A q \in Runs \ {r} : cursor'[q] = cursor[q]
  BY <1>3 DEF TB, TypeOK
<1>8. /\ won'[r] = won[r] \/ won'[r] = Append(won[r], m)
      /\ \A q \in Runs \ {r} : won'[q] = won[q]
  BY <1>4 DEF TB, TypeOK
<1> DEFINE longer == Append(won[r], m)
<1>9. won[r] \in Seq(Messages)
  BY CursorTypes
<1>10. /\ \A x : Has(longer, x) <=> Has(won[r], x) \/ x = m
       /\ Increasing(won[r]) /\ (\A x \in Messages : Has(won[r], x) => x < m) =>
            Increasing(longer)
  BY <1>2, <1>9, AppendHas
<1> HIDE DEF longer
<1>11. \A x : Has(won'[r], x) => Has(won[r], x) \/ x = m
  BY <1>8, <1>10 DEF longer
<1>12. Increasing(won'[r])
  <2>1. \A x \in Messages : Has(won[r], x) => x < m
    BY <1>2, <1>5, <1>6 DEF OrderedIn, UpTo
  <2>2. Increasing(won[r])
    BY <1>5 DEF OrderedIn
  <2>3. Increasing(longer)
    BY <1>10, <2>1, <2>2
  <2> QED
    BY <1>8, <2>2, <2>3 DEF longer
<1>13. OrderedIn(r)'
  <2>1. /\ UpTo(arrivals[r], m) /\ UpTo(buffer[r], m) /\ UpTo(won'[r], m)
    BY <1>2, <1>5, <1>6, <1>11 DEF OrderedIn, UpTo
  <2>2. /\ Before(arrivals[r], won'[r]) /\ Before(buffer[r], won'[r])
    BY <1>2, <1>5, <1>6, <1>11 DEF OrderedIn, UpTo, Before
  <2> QED
    BY <1>1, <1>3, <1>5, <1>7, <1>12, <2>1, <2>2 DEF OrderedIn
<1> QED
  BY <1>3, <1>7, <1>8, <1>13, OthersOrdered

\* A response that is delivered leaves won for the end of the buffer.
LEMMA DeliverOrdered ==
  ASSUME BusAssumption, TB, Ordered, NEW r \in Runs, Deliver(r)
  PROVE  /\ Ordered'
         /\ \A q \in Runs, x \in Messages : Holds(q, x)' => Holds(q, x)
<1>1. PICK kept \in 0..Len(won[r]) :
        buffer' = [buffer EXCEPT ![r] = buffer[r] \o SubSeq(won[r], 1, kept)]
  BY DeliverTyped
<1> DEFINE p == SubSeq(won[r], 1, kept)
           b == buffer[r] \o p
<1>2. won[r] \in Seq(Messages) /\ buffer[r] \in Seq(Messages)
  BY CursorTypes
<1>3. OrderedIn(r) /\ phase[r] # "off"
  BY DEF Ordered, Deliver, Polling
<1>4. /\ p \in Seq(Messages) /\ Increasing(p)
      /\ \A x : Has(p, x) => Has(won[r], x)
  BY <1>2, <1>3, PieceHas DEF Has, OrderedIn
<1>5. /\ Before(buffer[r], p) /\ Before(arrivals[r], p) /\ UpTo(p, cursor[r])
  BY <1>3, <1>4 DEF OrderedIn, Before, UpTo
<1>6. /\ \A x : Has(b, x) <=> Has(buffer[r], x) \/ Has(p, x)
      /\ Increasing(b)
  BY <1>2, <1>3, <1>4, <1>5, ConcatHas DEF OrderedIn
<1> HIDE DEF p, b
<1>7. /\ Before(arrivals[r], b) /\ UpTo(b, cursor[r])
  BY <1>3, <1>5, <1>6 DEF OrderedIn, Before, UpTo
<1>8. /\ buffer'[r] = b /\ won'[r] = <<>>
      /\ \A q \in Runs \ {r} : buffer'[q] = buffer[q] /\ won'[q] = won[q]
      /\ UNCHANGED <<arrivals, cursor, phase>>
  BY <1>1 DEF Deliver, TB, TypeOK, b, p
<1>9. OrderedIn(r)'
  BY <1>3, <1>6, <1>7, <1>8, EmptyHas DEF OrderedIn, Before, UpTo
<1>10. Ordered'
  BY <1>8, <1>9, OthersOrdered
<1>11. ASSUME NEW q \in Runs, NEW x \in Messages, Holds(q, x)'
       PROVE  Holds(q, x)
  BY <1>4, <1>6, <1>8, <1>11, EmptyHas DEF Holds
<1> QED
  BY <1>10, <1>11

\* A batch leaves the front of the buffer for the arrivals.
LEMMA DrainOrdered ==
  ASSUME BusAssumption, TB, Ordered, NEW r \in Runs, Drain(r)
  PROVE  /\ Ordered'
         /\ \A q \in Runs, x \in Messages : Holds(q, x)' => Holds(q, x)
<1>1. PICK n \in 0..Len(buffer[r]) :
        /\ arrivals' = [arrivals EXCEPT ![r] = SubSeq(buffer[r], 1, n)]
        /\ buffer' = [buffer EXCEPT ![r] =
                        SubSeq(buffer[r], n + 1, Len(buffer[r]))]
  BY DrainTyped
<1> DEFINE front == SubSeq(buffer[r], 1, n)
           rest == SubSeq(buffer[r], n + 1, Len(buffer[r]))
<1>2. buffer[r] \in Seq(Messages)
  BY CursorTypes
<1>3. OrderedIn(r) /\ phase[r] # "off"
  BY DEF Ordered, Drain, Draining
<1>4. /\ \A x : Has(front, x) <=> \E i \in 1..n : buffer[r][i] = x
      /\ \A x : Has(rest, x) <=>
                \E i \in (n + 1)..Len(buffer[r]) : buffer[r][i] = x
      /\ Increasing(front) /\ Increasing(rest)
  <2>1. 1 \in 1..(Len(buffer[r]) + 1) /\ n + 1 \in 1..(Len(buffer[r]) + 1)
    BY <1>2
  <2>2. Len(buffer[r]) \in 0..Len(buffer[r])
    BY <1>2
  <2>3. Increasing(buffer[r])
    BY <1>3 DEF OrderedIn
  <2> QED
    BY <1>2, <2>1, <2>2, <2>3, PieceHas
<1>5. /\ \A x : Has(front, x) => Has(buffer[r], x)
      /\ \A x : Has(rest, x) => Has(buffer[r], x)
  BY <1>2, <1>4 DEF Has
<1>6. Before(front, rest)
  <2> SUFFICES ASSUME NEW x \in Messages, NEW y \in Messages,
                      Has(front, x), Has(rest, y)
               PROVE  x < y
    BY DEF Before
  <2>1. PICK i \in 1..n : buffer[r][i] = x
    BY <1>4
  <2>2. PICK j \in (n + 1)..Len(buffer[r]) : buffer[r][j] = y
    BY <1>4
  <2>3. Increasing(buffer[r])
    BY <1>3 DEF OrderedIn
  <2>4. i < j /\ i \in 1..Len(buffer[r]) /\ j \in 1..Len(buffer[r])
    BY <1>2, <2>1, <2>2
  <2> QED
    BY <2>1, <2>2, <2>3, <2>4 DEF Increasing
<1> HIDE DEF front, rest
<1>7. /\ arrivals'[r] = front /\ buffer'[r] = rest
      /\ \A q \in Runs \ {r} : arrivals'[q] = arrivals[q] /\ buffer'[q] = buffer[q]
      /\ UNCHANGED <<won, cursor, phase>>
  BY <1>1 DEF Drain, TB, TypeOK, front, rest
<1>8. /\ Before(buffer[r], won[r]) /\ UpTo(buffer[r], cursor[r])
      /\ Increasing(won[r]) /\ UpTo(won[r], cursor[r])
  BY <1>3 DEF OrderedIn
<1>9. /\ Before(front, won[r]) /\ Before(rest, won[r])
      /\ UpTo(front, cursor[r]) /\ UpTo(rest, cursor[r])
  BY <1>5, <1>8 DEF Before, UpTo
<1>10. OrderedIn(r)'
  BY <1>3, <1>4, <1>6, <1>7, <1>8, <1>9 DEF OrderedIn
<1>11. Ordered'
  BY <1>7, <1>10, OthersOrdered
<1>12. ASSUME NEW q \in Runs, NEW x \in Messages, Holds(q, x)'
       PROVE  Holds(q, x)
  BY <1>5, <1>7, <1>12 DEF Holds
<1> QED
  BY <1>11, <1>12

\* What is imported is nowhere else in what the run holds.
LEMMA ImportOrdered ==
  ASSUME TB, Ordered, NEW r \in Runs, Import(r)
  PROVE  /\ \E m \in Messages :
              /\ Holds(r, m) /\ ~Holds(r, m)'
              /\ imports' = [imports EXCEPT ![m] = Append(imports[m], r)]
         /\ Ordered'
         /\ \A q \in Runs, x \in Messages : Holds(q, x)' => Holds(q, x)
<1> DEFINE s == arrivals[r]
<1>1. s \in Seq(Messages) /\ s # <<>>
  BY CursorTypes DEF Import
<1>2. OrderedIn(r) /\ phase[r] # "off"
  BY DEF Ordered, Import, Draining
<1>3. Increasing(s)
  BY <1>2 DEF OrderedIn
<1>4. PICK m \in Messages : m = Head(s)
  BY <1>1, HeadHas
<1>5. /\ Has(s, m)
      /\ \A x : Has(Tail(s), x) => Has(s, x)
      /\ Increasing(Tail(s)) /\ ~Has(Tail(s), m)
  BY <1>1, <1>3, <1>4, HeadHas
<1>6. /\ arrivals'[r] = Tail(s)
      /\ \A q \in Runs \ {r} : arrivals'[q] = arrivals[q]
      /\ UNCHANGED <<buffer, won, cursor, phase>>
  BY DEF Import, TB, TypeOK
<1>7. ~Has(buffer[r], m) /\ ~Has(won[r], m)
  <2>1. ~(m < m)
    BY DEF Messages
  <2> QED
    BY <1>2, <1>5, <2>1 DEF OrderedIn, Before
<1>8. imports' = [imports EXCEPT ![m] = Append(imports[m], r)]
  BY <1>4 DEF Import
<1> HIDE DEF s
<1>9. Holds(r, m) /\ ~Holds(r, m)'
  BY <1>5, <1>6, <1>7 DEF Holds, s
<1>10. OrderedIn(r)'
  <2>1. /\ Before(s, buffer[r]) /\ Before(s, won[r]) /\ UpTo(s, cursor[r])
    BY <1>2 DEF OrderedIn, s
  <2>2. /\ Before(Tail(s), buffer[r]) /\ Before(Tail(s), won[r])
        /\ UpTo(Tail(s), cursor[r])
    BY <1>5, <2>1 DEF Before, UpTo
  <2> QED
    BY <1>2, <1>5, <1>6, <2>2 DEF OrderedIn
<1>11. Ordered'
  BY <1>6, <1>10, OthersOrdered
<1>12. ASSUME NEW q \in Runs, NEW x \in Messages, Holds(q, x)'
       PROVE  Holds(q, x)
  BY <1>5, <1>6, <1>12 DEF Holds, s
<1> QED
  BY <1>8, <1>9, <1>11, <1>12

-----------------------------------------------------------------------------
(* Who holds a message owns it. *)

\* A step after which nobody holds more, and no claim has changed hands.
LEMMA OwnedKeeps ==
  ASSUME BInv, lapsed \subseteq lapsed', imports' = imports,
         \A q \in Runs, x \in Messages : Holds(q, x)' => Holds(q, x),
         \A q \in Runs, x \in Messages : Admits(q, x) => Admits(q, x)',
         \A x \in Messages \ lapsed' :
           claim'[x] = claim[x] \/ (claim[x] = Nobody /\ claim'[x] # Nobody),
         Nobody \notin Runs
  PROVE  Owned'
<1> SUFFICES ASSUME NEW x \in Messages \ lapsed'
             PROVE  OwnedOnce(x)'
  BY DEF Owned
<1>1. OwnedOnce(x)
  BY DEF BInv, Owned
<1>2. \A i \in 1..Len(imports[x]) : imports[x][i] \in Runs
  BY DEF BInv, TypeOK
<1> QED
  BY <1>1, <1>2 DEF OwnedOnce

\* The stream only grows.
LEMMA AdmitsKept ==
  ASSUME TB, NEW r \in Runs, Publish(r)
  PROVE  \A q \in Runs, x \in Messages : Admits(q, x) => Admits(q, x)'
<1>1. /\ topology' = topology
      /\ stream' = Append(stream, r) /\ stream \in Seq(Runs)
  BY DEF Publish, TB, TypeOK
<1>2. \A x \in Messages : x <= Len(stream) =>
                            x <= Len(stream') /\ stream'[x] = stream[x]
  <2>1. \A x \in Messages : x \in Int /\ x >= 1
    BY DEF Messages
  <2> QED
    BY <1>1, <2>1
<1> QED
  BY <1>1, <1>2 DEF Admits, Accepts

\* A message nobody has claimed is held nowhere, and its claimer alone gets it.
LEMMA ClaimOwned ==
  ASSUME BusAssumption, BInv, NEW r \in Runs, Claim(r)
  PROVE  Owned'
<1> DEFINE m == cursor[r] + 1
<1>1. cursor[r] < Len(stream)
  BY CursorTypes DEF Claim, BInv, TB
<1>2. m \in Messages /\ m <= Len(stream)
  BY <1>1, PublishedMessages, CursorTypes DEF BInv, TB
<1>3. UNCHANGED <<topology, stream, lapsed, arrivals, buffer, imports>>
  BY DEF Claim
<1>4. \A q \in Runs, x \in Messages : Admits(q, x) => Admits(q, x)'
  BY <1>3 DEF Admits, Accepts
<1>5. CASE UNCHANGED <<claim, won>>
  <2>1. \A q \in Runs, x \in Messages : Holds(q, x)' => Holds(q, x)
    BY <1>3, <1>5 DEF Holds
  <2> QED
    BY <1>3, <1>4, <1>5, <2>1, BusConstants, OwnedKeeps
<1>6. CASE ~UNCHANGED <<claim, won>>
  <2>1. /\ Accepts(r, stream[m]) /\ claim[m] = Nobody
        /\ claim' = [claim EXCEPT ![m] = r]
        /\ won' = [won EXCEPT ![r] = Append(won[r], m)]
    BY <1>6 DEF Claim
  <2>2. \A q \in Runs, x \in Messages : Holds(q, x)' => Holds(q, x) \/ (q = r /\ x = m)
    <3>1. \A x : Has(Append(won[r], m), x) => Has(won[r], x) \/ x = m
      BY <1>2, AppendHas, CursorTypes DEF BInv, TB
    <3> QED
      BY <1>3, <2>1, <3>1 DEF Holds, BInv, TypeOK
  <2>3. Admits(r, m)
    BY <1>2, <2>1 DEF Admits
  <2>4. claim'[m] = r /\ \A x \in Messages : x # m => claim'[x] = claim[x]
    BY <1>2, <2>1 DEF BInv, TypeOK
  <2> HIDE DEF m
  <2> SUFFICES ASSUME NEW x \in Messages \ lapsed
               PROVE  OwnedOnce(x)'
    BY <1>3 DEF Owned
  <2>5. OwnedOnce(x)
    BY DEF BInv, Owned
  <2>6. \A i \in 1..Len(imports[x]) : imports[x][i] \in Runs
    BY DEF BInv, TypeOK
  <2>7. CASE x = m
    <3>1. imports[x] = <<>> /\ \A q \in Runs : ~Holds(q, x)
      BY <2>1, <2>5, <2>7, BusConstants DEF OwnedOnce
    <3>2. r # Nobody
      BY BusConstants
    <3> QED
      BY <1>2, <1>3, <1>4, <2>2, <2>3, <2>4, <2>7, <3>1, <3>2 DEF OwnedOnce
  <2>8. CASE x # m
    BY <1>3, <1>4, <2>2, <2>4, <2>5, <2>6, <2>8 DEF OwnedOnce
  <2> QED
    BY <2>7, <2>8
<1> QED
  BY <1>5, <1>6

\* The owner imports it once, and holds it no more.
LEMMA ImportOwned ==
  ASSUME BusAssumption, BInv, NEW r \in Runs, Import(r)
  PROVE  Owned'
<1>1. PICK m \in Messages :
        /\ Holds(r, m) /\ ~Holds(r, m)'
        /\ imports' = [imports EXCEPT ![m] = Append(imports[m], r)]
  BY ImportOrdered DEF BInv, TB
<1>2. \A q \in Runs, x \in Messages : Holds(q, x)' => Holds(q, x)
  BY ImportOrdered DEF BInv, TB
<1>3. UNCHANGED <<topology, stream, claim, lapsed>>
  BY DEF Import
<1>4. \A q \in Runs, x \in Messages : Admits(q, x) => Admits(q, x)'
  BY <1>3 DEF Admits, Accepts
<1> SUFFICES ASSUME NEW x \in Messages \ lapsed
             PROVE  OwnedOnce(x)'
  BY <1>3 DEF Owned
<1>5. OwnedOnce(x)
  BY DEF BInv, Owned
<1>6. CASE x # m
  <2>1. imports'[x] = imports[x]
    BY <1>1, <1>6 DEF BInv, TypeOK
  <2>2. \A i \in 1..Len(imports[x]) : imports[x][i] \in Runs
    BY DEF BInv, TypeOK
  <2> QED
    BY <1>2, <1>3, <1>4, <1>5, <2>1, <2>2 DEF OwnedOnce
<1>7. CASE x = m
  <2>1. imports[x] = <<>> /\ claim[x] = r /\ Admits(r, x)
    BY <1>1, <1>5, <1>7 DEF OwnedOnce
  <2>2. imports'[x] = <<r>>
    BY <1>1, <1>7, <2>1 DEF BInv, TypeOK
  <2>3. \A q \in Runs : ~Holds(q, x)'
    BY <1>1, <1>2, <1>5, <1>7, <2>1 DEF OwnedOnce
  <2>4. r # Nobody
    BY BusConstants
  <2> QED
    BY <1>3, <1>4, <2>1, <2>2, <2>3, <2>4 DEF OwnedOnce
<1> QED
  BY <1>6, <1>7

-----------------------------------------------------------------------------
LEMMA BusInvariantKeeps ==
  ASSUME BusAssumption, BInv, Next
  PROVE  BInv'
<1>1. TB /\ TB' /\ Ordered /\ Owned
  BY BusTypeKeeps DEF BInv, TB
<1>2. Nobody \notin Runs
  BY BusConstants
<1>3. ASSUME NEW r \in Runs, Publish(r)
      PROVE  Ordered' /\ Owned'
  <2>1. Ordered'
    BY <1>1, <1>3, MostlyFewer, FewerOrdered
  <2>2. /\ UNCHANGED <<claim, lapsed, imports, won, buffer, arrivals>>
    BY <1>3 DEF Publish
  <2>3. \A q \in Runs, x \in Messages : Holds(q, x)' => Holds(q, x)
    BY <2>2 DEF Holds
  <2>4. \A q \in Runs, x \in Messages : Admits(q, x) => Admits(q, x)'
    BY <1>1, <1>3, AdmitsKept
  <2> QED
    BY <1>2, <2>1, <2>2, <2>3, <2>4, OwnedKeeps
<1>4. ASSUME NEW r \in Runs,
             Read(r) \/ PollError(r) \/ Start(r) \/ StopNode(r) \/ Finish(r)
               \/ Exit(r) \/ Crash(r)
      PROVE  Ordered' /\ Owned'
  <2>1. Fewer
    BY <1>1, <1>4, MostlyFewer
  <2>2. UNCHANGED <<topology, stream, lapsed, imports>>
    BY <1>4 DEF Read, PollError, Start, StopNode, Finish, Exit, Crash
  <2>3. \A q \in Runs, x \in Messages : Holds(q, x)' => Holds(q, x)
    BY <2>1, EmptyHas DEF Holds, Fewer
  <2>4. \A q \in Runs, x \in Messages : Admits(q, x) => Admits(q, x)'
    BY <2>2 DEF Admits, Accepts
  <2>5. \A x \in Messages :
           claim'[x] = claim[x] \/ (claim[x] = Nobody /\ claim'[x] # Nobody)
    <3>1. CASE UNCHANGED claim
      BY <3>1
    <3>2. CASE Claiming(r) /\ CutOff(r)
      BY <1>1, <1>2, <3>2, CutOffTyped DEF TB, TypeOK
    <3> QED
      BY <1>4, <3>1, <3>2
         DEF Read, PollError, Start, StopNode, Finish, Exit, Crash, Claiming
  <2>6. Ordered'
    BY <1>1, <2>1, FewerOrdered
  <2>7. Owned'
    BY <1>2, <2>2, <2>3, <2>4, <2>5, OwnedKeeps
  <2> QED
    BY <2>6, <2>7
<1>5. ASSUME NEW r \in Runs, Claim(r)
      PROVE  Ordered' /\ Owned'
  BY <1>1, <1>5, ClaimOrdered, ClaimOwned
<1>6. ASSUME NEW r \in Runs, Deliver(r) \/ Drain(r)
      PROVE  Ordered' /\ Owned'
  <2>1. /\ Ordered'
        /\ \A q \in Runs, x \in Messages : Holds(q, x)' => Holds(q, x)
    BY <1>1, <1>6, DeliverOrdered, DrainOrdered
  <2>2. UNCHANGED <<topology, stream, claim, lapsed, imports>>
    BY <1>6 DEF Deliver, Drain
  <2>3. \A q \in Runs, x \in Messages : Admits(q, x) => Admits(q, x)'
    BY <2>2 DEF Admits, Accepts
  <2> QED
    BY <1>2, <2>1, <2>2, <2>3, OwnedKeeps
<1>7. ASSUME NEW r \in Runs, Import(r)
      PROVE  Ordered' /\ Owned'
  BY <1>1, <1>7, ImportOrdered, ImportOwned
<1>8. ASSUME NEW m \in Messages, ClaimExpires(m)
      PROVE  Ordered' /\ Owned'
  <2>1. /\ UNCHANGED <<topology, stream, imports, won, buffer, arrivals, cursor, phase>>
        /\ lapsed' = lapsed \cup {m} /\ claim' = [claim EXCEPT ![m] = Nobody]
    BY <1>8 DEF ClaimExpires
  <2>2. \A q \in Runs, x \in Messages : Holds(q, x)' => Holds(q, x)
    BY <2>1 DEF Holds
  <2>3. \A q \in Runs, x \in Messages : Admits(q, x) => Admits(q, x)'
    BY <2>1 DEF Admits, Accepts
  <2>4. \A x \in Messages \ lapsed' : claim'[x] = claim[x]
    BY <1>1, <2>1 DEF TB, TypeOK
  <2>5. Ordered'
    BY <1>1, <2>1 DEF Ordered, OrderedIn, Idle
  <2> QED
    BY <1>2, <2>1, <2>2, <2>3, <2>4, <2>5, OwnedKeeps
<1>9. Ordered' /\ Owned'
  BY <1>3, <1>4, <1>5, <1>6, <1>7, <1>8 DEF Next, Poll, DrainStep
<1> QED
  BY <1>1, <1>9 DEF BInv, TB

\* A migrant is imported at most once over all runs, and only where the
\* topology lets it, as long as its claim key has not expired.
THEOREM Taken ==
  ASSUME BusAssumption
  PROVE  Spec => []TakenOnce
<1>1. Init => BInv
  <2>1. ASSUME Init PROVE BInv
    <3>1. /\ TypeOK /\ Bounded
      <4>1. stream \in Seq(Runs) /\ Len(stream) = 0 /\ Len(stream) <= MaxPublished
        BY <2>1, BusConstants DEF Init
      <4>2. \A r \in Runs : Len(buffer[r]) = 0
        BY <2>1 DEF Init
      <4>3. TypeOK
        BY <2>1, <4>1, EmptyHas DEF Init, TypeOK
      <4> QED
        BY <2>1, <4>1, <4>2, <4>3, BusConstants DEF Init, Bounded
    <3>2. Ordered
      BY <2>1, EmptyHas DEF Init, Ordered, OrderedIn, Idle, Before, UpTo
    <3>3. Owned
      BY <2>1, EmptyHas DEF Init, Owned, OwnedOnce, Holds
    <3> QED
      BY <3>1, <3>2, <3>3 DEF BInv
  <2> QED
    BY <2>1
<1>2. BInv /\ [Next]_vars => BInv'
  <2>1. ASSUME BInv, UNCHANGED vars PROVE BInv'
    BY <2>1 DEF BInv, TypeOK, Bounded, Ordered, OrderedIn, Idle, Owned, OwnedOnce,
                Holds, Admits, Accepts, vars
  <2> QED
    BY <2>1, BusInvariantKeeps
<1>3. BInv => TakenOnce
  <2>1. ASSUME BInv, NEW m \in Published \ lapsed
        PROVE  /\ Len(imports[m]) <= 1
               /\ \A i \in DOMAIN imports[m] : Accepts(imports[m][i], stream[m])
    <3>1. m \in Messages
      BY <2>1, BusConstants DEF BInv, TypeOK, Published, Messages
    <3>2. OwnedOnce(m) /\ imports[m] \in Seq(Runs)
      BY <2>1, <3>1 DEF BInv, Owned, TypeOK
    <3>3. DOMAIN imports[m] = 1..Len(imports[m])
      BY <3>2
    <3> QED
      BY <3>2, <3>3 DEF OwnedOnce, Admits
  <2> QED
    BY <2>1 DEF TakenOnce
<1> QED
  BY <1>1, <1>2, <1>3, PTL DEF Spec
=============================================================================
