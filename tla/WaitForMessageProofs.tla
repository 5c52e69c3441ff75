------------------------- MODULE WaitForMessageProofs -------------------------
(***************************************************************************)
(* Proofs about WaitForMessage, for every number of messages, every        *)
(* setting of the connection, every batch size and killing threshold.      *)
(***************************************************************************)
EXTENDS WaitForMessage, TLAPS

Tasks == {"incoming", "dispatchMessages", "didClose"}

States == {"running", "dispatch", "lock", "waiting", "notified", "timedOut"}

Waits == [active : BOOLEAN, options : SUBSET WaitForOption,
          decoder : Message \cup {NoMessage}, interrupted : BOOLEAN]

TypeOK ==
    /\ pc \in States
    /\ waiting \in Waits
    /\ incoming \in Seq(Message)
    /\ toDispatch \in Seq(Message)
    /\ handled \in Seq(Message)
    /\ abandoned \in Seq(Message)
    /\ runLoop \in Seq(Tasks)
    /\ loop \in Nat
    /\ sent \in 0..MaxMessages

-----------------------------------------------------------------------------
(* Sequences *)

\* takeFirst leaves a queue, and takes at most one message out of it.
LEMMA TakingFirst ==
    ASSUME NEW S, NEW s \in Seq(S)
    PROVE  /\ RemoveFirstOf(s) \in Seq(S) /\ FirstOf(s) \in Seq(S)
           /\ s # <<>> => /\ Len(RemoveFirstOf(s)) = Len(s) - 1
                          /\ \A i \in 1..Len(s) - 1 : RemoveFirstOf(s)[i] = s[i + 1]
                          /\ FirstOf(s) = <<s[1]>>
           /\ s = <<>> => RemoveFirstOf(s) = <<>> /\ FirstOf(s) = <<>>
<1>1. CASE s = <<>>
  BY <1>1 DEF RemoveFirstOf, FirstOf
<1>2. CASE s # <<>>
  BY <1>2 DEF RemoveFirstOf, FirstOf
<1> QED
  BY <1>1, <1>2

\* Deque::remove leaves a queue, with the messages before and behind.
LEMMA TakingOne ==
    ASSUME NEW S, NEW s \in Seq(S), NEW i \in 1..Len(s)
    PROVE  /\ Without(s, i) \in Seq(S) /\ Len(Without(s, i)) = Len(s) - 1
           /\ \A j \in 1..Len(s) - 1 : Without(s, i)[j] = IF j < i THEN s[j] ELSE s[j + 1]
<1>1. Len(s) - 1 \in Nat /\ \A j \in 1..Len(s) - 1 : s[j] \in S /\ s[j + 1] \in S
  OBVIOUS
<1>2. \A j \in 1..Len(s) - 1 : (IF j < i THEN s[j] ELSE s[j + 1]) \in S
  BY <1>1
<1> QED
  BY <1>1, <1>2 DEF Without

\* takeFirst is a removal at the first place.
LEMMA TakingFirstIsTakingOne ==
    ASSUME NEW S, NEW s \in Seq(S), s # <<>>
    PROVE  RemoveFirstOf(s) = Without(s, 1)
<1>1. 1 \in 1..Len(s) /\ Len(s) - 1 \in Nat
  OBVIOUS
<1>2. Without(s, 1) \in Seq(S) /\ Len(Without(s, 1)) = Len(s) - 1
      /\ \A i \in 1..Len(s) - 1 : Without(s, 1)[i] = s[i + 1]
  BY <1>1, TakingOne
<1>3. RemoveFirstOf(s) \in Seq(S) /\ Len(RemoveFirstOf(s)) = Len(s) - 1
      /\ \A i \in 1..Len(s) - 1 : RemoveFirstOf(s)[i] = s[i + 1]
  BY TakingFirst
<1> QED
  BY <1>1, <1>2, <1>3

\* A sequence behind another.
LEMMA Joined ==
    ASSUME NEW S, NEW s \in Seq(S), NEW t \in Seq(S)
    PROVE  /\ s \o t \in Seq(S) /\ Len(s \o t) = Len(s) + Len(t)
           /\ \A i \in 1..Len(s) : (s \o t)[i] = s[i]
           /\ \A i \in 1..Len(t) : (s \o t)[Len(s) + i] = t[i]
  OBVIOUS

\* Appending a message is joining a queue of one.
LEMMA AppendedIsJoined ==
    ASSUME NEW S, NEW s \in Seq(S), NEW x \in S
    PROVE  Append(s, x) = s \o <<x>>
  OBVIOUS

-----------------------------------------------------------------------------
(* Types *)

\* Dispatching messages keeps the history a queue of messages.
LEMMA DispatchTypes ==
    ASSUME TypeOK, NEW ms \in Seq(Message), Dispatch(ms)
    PROVE  handled' \in Seq(Message)
<1>1. handled \o ms \in Seq(Message)
  BY Joined DEF TypeOK
<1> QED
  BY <1>1, Zenon DEF TypeOK, Dispatch

\* A message read from the wire has the next number, and is not the null decoder.
LEMMA ArrivingMessage ==
    ASSUME TypeOK, NEW m \in Message, NEW kind, Arrives(m, kind)
    PROVE  /\ m.id = sent + 1 /\ m.kind = kind /\ m # NoMessage
           /\ sent + 1 \in 1..MaxMessages /\ sent \in Nat
  BY WaitAssumption DEF TypeOK, Arrives, NoMessage

\* enqueueIncomingMessage keeps the queue and the run loop well formed.
LEMMA EnqueueTypes ==
    ASSUME TypeOK, NEW m \in Message, Enqueue(m)
    PROVE  incoming' \in Seq(Message) /\ runLoop' \in Seq(Tasks)
<1>1. <<>> \in Seq(Message) /\ Append(incoming, m) \in Seq(Message)
  BY DEF TypeOK
<1>2. Append(runLoop, "incoming") \in Seq(Tasks)
  BY DEF TypeOK, Tasks
<1> QED
  BY <1>1, <1>2, Zenon DEF TypeOK, Enqueue

-----------------------------------------------------------------------------
(* Places *)

OnePlace(A, P, n) ==
    /\ \A a \in A : \A i \in 1..Len(P[a]) : P[a][i].id \in 1..n
    /\ \A m \in 1..n : \E a \in A : \E i \in 1..Len(P[a]) : P[a][i].id = m
    /\ \A a, b \in A : \A i \in 1..Len(P[a]), j \in 1..Len(P[b]) :
           P[a][i].id = P[b][j].id => a = b /\ i = j

\* Moving one message behind those of another place.
LEMMA OneMoves ==
    ASSUME NEW A, NEW P \in [A -> Seq(Message)], NEW Q \in [A -> Seq(Message)], NEW n \in Nat,
           OnePlace(A, P, n), NEW a \in A, NEW b \in A, a # b, NEW k \in 1..Len(P[a]),
           \A c \in A \ {a, b} : Q[c] = P[c],
           Q[a] = Without(P[a], k), Q[b] = P[b] \o <<P[a][k]>>
    PROVE  OnePlace(A, Q, n)
<1> DEFINE place(c, j) == IF c = b /\ j = Len(P[b]) + 1 THEN a ELSE c
           index(c, j) == IF c = b /\ j = Len(P[b]) + 1 THEN k
                          ELSE IF c = a /\ j >= k THEN j + 1 ELSE j
<1>1. /\ Len(Q[a]) = Len(P[a]) - 1
      /\ \A j \in 1..Len(P[a]) - 1 : Q[a][j] = IF j < k THEN P[a][j] ELSE P[a][j + 1]
  <2>1. P[a] \in Seq(Message)
    OBVIOUS
  <2>2. /\ Len(Without(P[a], k)) = Len(P[a]) - 1
        /\ \A j \in 1..Len(P[a]) - 1 : Without(P[a], k)[j] = IF j < k THEN P[a][j] ELSE P[a][j + 1]
    BY <2>1, TakingOne, Zenon
  <2> QED
    BY <2>2, Zenon
<1>2. /\ Len(Q[b]) = Len(P[b]) + 1 /\ Q[b][Len(P[b]) + 1] = P[a][k]
      /\ \A j \in 1..Len(P[b]) : Q[b][j] = P[b][j]
  OBVIOUS
<1>3. \A c \in A : Len(P[c]) \in Nat
  OBVIOUS
<1>4. \A c \in A : \A j \in 1..Len(Q[c]) :
          /\ place(c, j) \in A /\ index(c, j) \in 1..Len(P[place(c, j)])
          /\ Q[c][j] = P[place(c, j)][index(c, j)]
  <2> SUFFICES ASSUME NEW c \in A, NEW j \in 1..Len(Q[c])
               PROVE  /\ place(c, j) \in A /\ index(c, j) \in 1..Len(P[place(c, j)])
                      /\ Q[c][j] = P[place(c, j)][index(c, j)]
    OBVIOUS
  <2>1. CASE c = a
    BY <1>1, <1>3, <2>1
  <2>2. CASE c = b
    BY <1>2, <1>3, <2>2
  <2>3. CASE c # a /\ c # b
    BY <1>3, <2>3
  <2> QED
    BY <2>1, <2>2, <2>3
<1>5. \A c, d \in A : \A j \in 1..Len(Q[c]), l \in 1..Len(Q[d]) :
          place(c, j) = place(d, l) /\ index(c, j) = index(d, l) => c = d /\ j = l
  <2> SUFFICES ASSUME NEW c \in A, NEW d \in A, NEW j \in 1..Len(Q[c]), NEW l \in 1..Len(Q[d]),
                      place(c, j) = place(d, l), index(c, j) = index(d, l)
               PROVE  c = d /\ j = l
    OBVIOUS
  <2>1. j \in Int /\ l \in Int /\ k \in Int
    OBVIOUS
  <2>2. CASE c = b /\ j = Len(P[b]) + 1
    BY <2>1, <2>2
  <2>3. CASE d = b /\ l = Len(P[b]) + 1
    BY <2>1, <2>3
  <2>4. CASE ~(c = b /\ j = Len(P[b]) + 1) /\ ~(d = b /\ l = Len(P[b]) + 1)
    BY <2>1, <2>4
  <2> QED
    BY <2>2, <2>3, <2>4, Zenon
<1>6. \A c \in A : \A i \in 1..Len(P[c]) : \E d \in A : \E j \in 1..Len(Q[d]) : Q[d][j] = P[c][i]
  <2> SUFFICES ASSUME NEW c \in A, NEW i \in 1..Len(P[c])
               PROVE  \E d \in A : \E j \in 1..Len(Q[d]) : Q[d][j] = P[c][i]
    OBVIOUS
  <2>1. CASE c = a /\ i = k
    BY <1>2, <1>3, <2>1
  <2>2. CASE c = a /\ i < k
    <3>1. i \in 1..Len(Q[a]) /\ Q[a][i] = P[c][i]
      BY <1>1, <1>3, <2>2
    <3> QED
      BY <3>1
  <2>3. CASE c = a /\ i > k
    <3>1. i - 1 \in 1..Len(Q[a]) /\ Q[a][i - 1] = P[c][i]
      BY <1>1, <1>3, <2>3
    <3> QED
      BY <3>1
  <2>4. CASE c = b
    <3>1. i \in 1..Len(Q[b]) /\ Q[b][i] = P[c][i]
      BY <1>2, <1>3, <2>4
    <3> QED
      BY <3>1
  <2>5. CASE c # a /\ c # b
    BY <2>5
  <2> QED
    BY <2>1, <2>2, <2>3, <2>4, <2>5, <1>3
<1> HIDE DEF place, index
<1>7. \A c \in A : \A i \in 1..Len(Q[c]) : Q[c][i].id \in 1..n
  <2> SUFFICES ASSUME NEW c \in A, NEW i \in 1..Len(Q[c])
               PROVE  Q[c][i].id \in 1..n
    OBVIOUS
  <2>1. PICK d \in A : \E l \in 1..Len(P[d]) : Q[c][i] = P[d][l]
    BY <1>4, Zenon
  <2> QED
    BY <2>1 DEF OnePlace
<1>8. \A m \in 1..n : \E d \in A : \E j \in 1..Len(Q[d]) : Q[d][j].id = m
  <2> SUFFICES ASSUME NEW m \in 1..n
               PROVE  \E d \in A : \E j \in 1..Len(Q[d]) : Q[d][j].id = m
    BY Zenon
  <2>1. PICK c \in A : \E i \in 1..Len(P[c]) : P[c][i].id = m
    BY Zenon DEF OnePlace
  <2>2. PICK i \in 1..Len(P[c]) : P[c][i].id = m
    BY <2>1
  <2>3. \E d \in A : \E j \in 1..Len(Q[d]) : Q[d][j] = P[c][i]
    BY <1>6, Zenon
  <2> QED
    BY <2>2, <2>3, Zenon
<1>9. \A c, d \in A : \A j \in 1..Len(Q[c]), l \in 1..Len(Q[d]) :
          Q[c][j].id = Q[d][l].id => c = d /\ j = l
  <2> SUFFICES ASSUME NEW c \in A, NEW d \in A, NEW j \in 1..Len(Q[c]), NEW l \in 1..Len(Q[d]),
                      Q[c][j].id = Q[d][l].id
               PROVE  c = d /\ j = l
    OBVIOUS
  <2>1. /\ place(c, j) \in A /\ index(c, j) \in 1..Len(P[place(c, j)])
        /\ Q[c][j] = P[place(c, j)][index(c, j)]
    BY <1>4, Zenon
  <2>2. /\ place(d, l) \in A /\ index(d, l) \in 1..Len(P[place(d, l)])
        /\ Q[d][l] = P[place(d, l)][index(d, l)]
    BY <1>4, Zenon
  <2>3. P[place(c, j)][index(c, j)].id = P[place(d, l)][index(d, l)].id
    BY <2>1, <2>2, Zenon
  <2>4. \A i \in 1..Len(P[place(c, j)]), h \in 1..Len(P[place(d, l)]) :
            P[place(c, j)][i].id = P[place(d, l)][h].id => place(c, j) = place(d, l) /\ i = h
    <3>1. \A e, g \in A : \A i \in 1..Len(P[e]), h \in 1..Len(P[g]) :
              P[e][i].id = P[g][h].id => e = g /\ i = h
      BY Zenon DEF OnePlace
    <3> QED
      BY <2>1, <2>2, <3>1, Zenon
  <2>5. place(c, j) = place(d, l) /\ index(c, j) = index(d, l)
    BY <2>1, <2>2, <2>3, <2>4, Zenon
  <2> QED
    BY <2>5, <1>5
<1> QED
  BY <1>7, <1>8, <1>9, Zenon DEF OnePlace

\* Moving all messages behind those of another place.
LEMMA AllMove ==
    ASSUME NEW A, NEW P \in [A -> Seq(Message)], NEW Q \in [A -> Seq(Message)], NEW n \in Nat,
           OnePlace(A, P, n), NEW a \in A, NEW b \in A, a # b,
           \A c \in A \ {a, b} : Q[c] = P[c],
           Q[a] = <<>>, Q[b] = P[b] \o P[a]
    PROVE  OnePlace(A, Q, n)
<1> DEFINE place(c, j) == IF c = b /\ j > Len(P[b]) THEN a ELSE c
           index(c, j) == IF c = b /\ j > Len(P[b]) THEN j - Len(P[b]) ELSE j
<1>1. Len(Q[a]) = 0
  OBVIOUS
<1>2. /\ Len(Q[b]) = Len(P[b]) + Len(P[a])
      /\ \A j \in 1..Len(P[b]) : Q[b][j] = P[b][j]
      /\ \A j \in 1..Len(P[a]) : Q[b][Len(P[b]) + j] = P[a][j]
  OBVIOUS
<1>3. \A c \in A : Len(P[c]) \in Nat
  OBVIOUS
<1>4. \A c \in A : \A j \in 1..Len(Q[c]) :
          /\ place(c, j) \in A /\ index(c, j) \in 1..Len(P[place(c, j)])
          /\ Q[c][j] = P[place(c, j)][index(c, j)]
  <2> SUFFICES ASSUME NEW c \in A, NEW j \in 1..Len(Q[c])
               PROVE  /\ place(c, j) \in A /\ index(c, j) \in 1..Len(P[place(c, j)])
                      /\ Q[c][j] = P[place(c, j)][index(c, j)]
    BY Zenon
  <2>1. CASE c = a
    BY <1>1, <1>3, <2>1
  <2>2. CASE c = b /\ j <= Len(P[b])
    BY <1>2, <1>3, <2>2
  <2>3. CASE c = b /\ j > Len(P[b])
    <3>1. j - Len(P[b]) \in 1..Len(P[a]) /\ Len(P[b]) + (j - Len(P[b])) = j
      BY <1>2, <1>3, <2>3
    <3>2. place(c, j) = a /\ index(c, j) = j - Len(P[b])
      BY <2>3, Zenon
    <3>3. Q[b][j] = P[a][j - Len(P[b])]
      BY <1>2, <3>1, Zenon
    <3> QED
      BY <2>3, <3>1, <3>2, <3>3, Zenon
  <2>4. CASE c # a /\ c # b
    BY <1>3, <2>4
  <2> QED
    BY <2>1, <2>2, <2>3, <2>4, <1>3
<1>5. \A c, d \in A : \A j \in 1..Len(Q[c]), l \in 1..Len(Q[d]) :
          place(c, j) = place(d, l) /\ index(c, j) = index(d, l) => c = d /\ j = l
  <2> SUFFICES ASSUME NEW c \in A, NEW d \in A, NEW j \in 1..Len(Q[c]), NEW l \in 1..Len(Q[d]),
                      place(c, j) = place(d, l), index(c, j) = index(d, l)
               PROVE  c = d /\ j = l
    OBVIOUS
  <2>0. \A e \in A : Len(Q[e]) = 0 => 1..Len(Q[e]) = {}
    OBVIOUS
  <2>1. c # a /\ d # a /\ Len(P[b]) \in Nat /\ j \in Int /\ l \in Int
    <3>1. c # a /\ d # a
      BY <1>1, <2>0, Zenon
    <3>2. Len(P[b]) \in Nat
      BY <1>3, Zenon
    <3> QED
      BY <3>1, <3>2
  <2>2. CASE c = b /\ d = b
    BY <2>1, <2>2
  <2>3. CASE c # b \/ d # b
    BY <2>1, <2>3, Zenon
  <2> QED
    BY <2>2, <2>3
<1>6. \A c \in A : \A i \in 1..Len(P[c]) : \E d \in A : \E j \in 1..Len(Q[d]) : Q[d][j] = P[c][i]
  <2> SUFFICES ASSUME NEW c \in A, NEW i \in 1..Len(P[c])
               PROVE  \E d \in A : \E j \in 1..Len(Q[d]) : Q[d][j] = P[c][i]
    OBVIOUS
  <2>1. CASE c = a
    <3>1. Len(P[b]) + i \in 1..Len(Q[b]) /\ Q[b][Len(P[b]) + i] = P[c][i]
      BY <1>2, <1>3, <2>1
    <3> QED
      BY <3>1, Zenon
  <2>2. CASE c = b
    <3>1. i \in 1..Len(Q[b]) /\ Q[b][i] = P[c][i]
      BY <1>2, <1>3, <2>2
    <3> QED
      BY <3>1, Zenon
  <2>3. CASE c # a /\ c # b
    BY <2>3, Zenon
  <2> QED
    BY <2>1, <2>2, <2>3
<1> HIDE DEF place, index
<1>7. \A c \in A : \A i \in 1..Len(Q[c]) : Q[c][i].id \in 1..n
  <2> SUFFICES ASSUME NEW c \in A, NEW i \in 1..Len(Q[c])
               PROVE  Q[c][i].id \in 1..n
    OBVIOUS
  <2>1. PICK d \in A : \E l \in 1..Len(P[d]) : Q[c][i] = P[d][l]
    BY <1>4, Zenon
  <2> QED
    BY <2>1 DEF OnePlace
<1>8. \A m \in 1..n : \E d \in A : \E j \in 1..Len(Q[d]) : Q[d][j].id = m
  <2> SUFFICES ASSUME NEW m \in 1..n
               PROVE  \E d \in A : \E j \in 1..Len(Q[d]) : Q[d][j].id = m
    BY Zenon
  <2>1. PICK c \in A : \E i \in 1..Len(P[c]) : P[c][i].id = m
    BY Zenon DEF OnePlace
  <2>2. PICK i \in 1..Len(P[c]) : P[c][i].id = m
    BY <2>1
  <2>3. \E d \in A : \E j \in 1..Len(Q[d]) : Q[d][j] = P[c][i]
    BY <1>6
  <2> QED
    BY <2>2, <2>3, Zenon
<1>9. \A c, d \in A : \A j \in 1..Len(Q[c]), l \in 1..Len(Q[d]) :
          Q[c][j].id = Q[d][l].id => c = d /\ j = l
  <2> SUFFICES ASSUME NEW c \in A, NEW d \in A, NEW j \in 1..Len(Q[c]), NEW l \in 1..Len(Q[d]),
                      Q[c][j].id = Q[d][l].id
               PROVE  c = d /\ j = l
    BY Zenon
  <2>1. /\ place(c, j) \in A /\ index(c, j) \in 1..Len(P[place(c, j)])
        /\ Q[c][j] = P[place(c, j)][index(c, j)]
    BY <1>4, Zenon
  <2>2. /\ place(d, l) \in A /\ index(d, l) \in 1..Len(P[place(d, l)])
        /\ Q[d][l] = P[place(d, l)][index(d, l)]
    BY <1>4, Zenon
  <2>3. P[place(c, j)][index(c, j)].id = P[place(d, l)][index(d, l)].id
    BY <2>1, <2>2, Zenon
  <2>4. \A i \in 1..Len(P[place(c, j)]), h \in 1..Len(P[place(d, l)]) :
            P[place(c, j)][i].id = P[place(d, l)][h].id => place(c, j) = place(d, l) /\ i = h
    <3>1. \A e, g \in A : \A i \in 1..Len(P[e]), h \in 1..Len(P[g]) :
              P[e][i].id = P[g][h].id => e = g /\ i = h
      BY Zenon DEF OnePlace
    <3> QED
      BY <2>1, <2>2, <3>1, Zenon
  <2>5. place(c, j) = place(d, l) /\ index(c, j) = index(d, l)
    BY <2>1, <2>2, <2>3, <2>4, Zenon
  <2> QED
    BY <2>5, <1>5
<1> QED
  BY <1>7, <1>8, <1>9, Zenon DEF OnePlace

\* A message with the next number arrives behind those of a place.
LEMMA OneArrives ==
    ASSUME NEW A, NEW P \in [A -> Seq(Message)], NEW Q \in [A -> Seq(Message)], NEW n \in Nat,
           OnePlace(A, P, n), NEW b \in A, NEW m \in Message, m.id = n + 1,
           \A c \in A \ {b} : Q[c] = P[c], Q[b] = Append(P[b], m)
    PROVE  OnePlace(A, Q, n + 1)
<1>1. /\ Len(Q[b]) = Len(P[b]) + 1 /\ Q[b][Len(P[b]) + 1] = m
      /\ \A j \in 1..Len(P[b]) : Q[b][j] = P[b][j]
  OBVIOUS
<1>2. \A c \in A : Len(P[c]) \in Nat
  OBVIOUS
<1>3. \A c \in A : \A j \in 1..Len(Q[c]) :
          \/ c = b /\ j = Len(P[b]) + 1 /\ Q[c][j].id = n + 1
          \/ j \in 1..Len(P[c]) /\ Q[c][j] = P[c][j]
  <2> SUFFICES ASSUME NEW c \in A, NEW j \in 1..Len(Q[c])
               PROVE  \/ c = b /\ j = Len(P[b]) + 1 /\ Q[c][j].id = n + 1
                      \/ j \in 1..Len(P[c]) /\ Q[c][j] = P[c][j]
    OBVIOUS
  <2>1. CASE c = b
    <3>1. j = Len(P[b]) + 1 \/ j \in 1..Len(P[b])
      BY <2>1, <1>1, <1>2
    <3> QED
      BY <2>1, <3>1, <1>1, Zenon
  <2>2. CASE c # b
    BY <2>2
  <2> QED
    BY <2>1, <2>2
<1>4. \A c \in A : \A j \in 1..Len(P[c]) : j \in 1..Len(Q[c]) /\ Q[c][j] = P[c][j]
  <2> SUFFICES ASSUME NEW c \in A, NEW j \in 1..Len(P[c])
               PROVE  j \in 1..Len(Q[c]) /\ Q[c][j] = P[c][j]
    OBVIOUS
  <2>1. CASE c = b
    <3>1. Q[c][j] = P[c][j] /\ Len(Q[c]) = Len(P[c]) + 1
      BY <2>1, <1>1, Zenon
    <3>2. j \in 1..Len(Q[c])
      BY <3>1, <1>2
    <3> QED
      BY <3>1, <3>2
  <2>2. CASE c # b
    BY <2>2
  <2> QED
    BY <2>1, <2>2
<1>5. \A c \in A : \A j \in 1..Len(P[c]) : P[c][j].id \in 1..n
  BY DEF OnePlace
<1>6. \A c \in A : \A j \in 1..Len(Q[c]) : Q[c][j].id \in 1..n + 1
  <2> SUFFICES ASSUME NEW c \in A, NEW j \in 1..Len(Q[c])
               PROVE  Q[c][j].id \in 1..n + 1
    OBVIOUS
  <2>1. Q[c][j].id = n + 1 \/ Q[c][j].id \in 1..n
    BY <1>3, <1>5, Zenon
  <2> QED
    BY <2>1
<1>7. \A k \in 1..n + 1 : \E c \in A : \E j \in 1..Len(Q[c]) : Q[c][j].id = k
  <2> SUFFICES ASSUME NEW k \in 1..n + 1
               PROVE  \E c \in A : \E j \in 1..Len(Q[c]) : Q[c][j].id = k
    BY Zenon
  <2>1. CASE k = n + 1
    <3>1. Len(P[b]) + 1 \in 1..Len(Q[b]) /\ Q[b][Len(P[b]) + 1].id = k
      BY <1>1, <1>2, <2>1
    <3> QED
      BY <3>1
  <2>2. CASE k # n + 1
    <3>1. k \in 1..n
      BY <2>2
    <3>2. PICK c \in A : \E j \in 1..Len(P[c]) : P[c][j].id = k
      BY <3>1, Zenon DEF OnePlace
    <3> QED
      BY <3>2, <1>4, Zenon
  <2> QED
    BY <2>1, <2>2
<1>8. \A c, d \in A : \A j \in 1..Len(Q[c]), l \in 1..Len(Q[d]) :
          Q[c][j].id = Q[d][l].id => c = d /\ j = l
  <2> SUFFICES ASSUME NEW c \in A, NEW d \in A, NEW j \in 1..Len(Q[c]), NEW l \in 1..Len(Q[d]),
                      Q[c][j].id = Q[d][l].id
               PROVE  c = d /\ j = l
    OBVIOUS
  <2>1. CASE j \in 1..Len(P[c]) /\ l \in 1..Len(P[d])
    <3>1. P[c][j].id = P[d][l].id
      BY <2>1, <1>4, Zenon
    <3>2. \A i \in 1..Len(P[c]), h \in 1..Len(P[d]) : P[c][i].id = P[d][h].id => c = d /\ i = h
      BY Zenon DEF OnePlace
    <3> QED
      BY <2>1, <3>1, <3>2, Zenon
  <2>2. CASE ~(j \in 1..Len(P[c])) /\ ~(l \in 1..Len(P[d]))
    BY <2>2, <1>3, Zenon
  <2>3. \A i \in 1..n : i # n + 1
    OBVIOUS
  <2>4. CASE j \in 1..Len(P[c]) /\ ~(l \in 1..Len(P[d]))
    <3>1. Q[c][j].id \in 1..n /\ Q[d][l].id = n + 1
      <4>1. Q[c][j].id \in 1..n
        BY <2>4, <1>4, <1>5, Zenon
      <4>2. Q[d][l].id = n + 1
        BY <2>4, <1>3, Zenon
      <4> QED
        BY <4>1, <4>2, Zenon
    <3> QED
      BY <3>1, <2>3, Zenon
  <2>5. CASE ~(j \in 1..Len(P[c])) /\ l \in 1..Len(P[d])
    <3>1. Q[d][l].id \in 1..n /\ Q[c][j].id = n + 1
      <4>1. Q[d][l].id \in 1..n
        BY <2>5, <1>4, <1>5, Zenon
      <4>2. Q[c][j].id = n + 1
        BY <2>5, <1>3, Zenon
      <4> QED
        BY <4>1, <4>2, Zenon
    <3> QED
      BY <3>1, <2>3, Zenon
  <2> QED
    BY <2>1, <2>2, <2>4, <2>5
<1> QED
  BY <1>6, <1>7, <1>8, Zenon DEF OnePlace

-----------------------------------------------------------------------------
(* The wait *)

\* The main thread is in waitForMessage exactly while m_waitingForMessage is
\* set; while it waits for more, no target is in the queue; and it parks only
\* without a decoder.
WaitInv ==
    /\ TypeOK
    /\ pc = "running" <=> ~waiting.active
    /\ ~waiting.active => waiting.decoder = NoMessage
    /\ pc = "waiting" => waiting.decoder = NoMessage
    /\ WaitsForMore => Positions("target") = {}

\* So does taking the first incoming message.
LEMMA FirstTypes ==
    ASSUME TypeOK
    PROVE  FirstOf(incoming) \in Seq(Message) /\ RemoveFirstOf(incoming) \in Seq(Message)
  BY TakingFirst DEF TypeOK

\* What a wait holds is a queue of at most one message.
LEMMA WaitersMessageType ==
    ASSUME TypeOK
    PROVE  WaitersMessage \in Seq(Message) /\ NotWaiting \in Waits
  BY DEF TypeOK, WaitersMessage, Waits, NotWaiting

\* dispatchIncomingMessages keeps the types, and the turns it has left are a
\* number: it is not begun with less than two messages.
LEMMA DispatchIncomingTypes ==
    ASSUME TypeOK, NEW tasks \in Seq(Tasks), NEW started, DispatchIncoming(tasks, started)
    PROVE  TypeOK'
<1>1. handled' \in Seq(Message) /\ incoming' \in Seq(Message)
  BY DispatchTypes, FirstTypes DEF DispatchIncoming
<1>2. Append(tasks, "incoming") \in Seq(Tasks)
  BY DEF Tasks
<1>3. runLoop' \in Seq(Tasks)
  BY <1>2, Zenon DEF DispatchIncoming, Rescheduled
<1>4. loop' \in Nat
  <2>1. Len(incoming) \in Nat /\ BatchSize \in Nat
    BY WaitAssumption DEF TypeOK
  <2>2. ASSUME Len(incoming) > 1, NEW batch \in 1..BatchSize
        PROVE  TurnsLeft(Len(incoming), batch) \in Nat
    BY <2>1, <2>2 DEF TurnsLeft
  <2>3. 0 \in Nat
    OBVIOUS
  <2> QED
    BY <2>2, <2>3, Zenon DEF DispatchIncoming
<1> QED
  BY <1>1, <1>3, <1>4, Zenon DEF DispatchIncoming, TypeOK

\* SyncMessageState::processIncomingMessage keeps the types.
LEMMA ProcessTypes ==
    ASSUME TypeOK, NEW m \in Message, NEW ordered \in BOOLEAN, ProcessWhileWaiting(m, ordered)
    PROVE  /\ incoming' \in Seq(Message) /\ toDispatch' \in Seq(Message)
           /\ runLoop' \in Seq(Tasks)
<1>1. toDispatch \o incoming \in Seq(Message) /\ <<>> \in Seq(Message)
  BY Joined DEF TypeOK
<1>2. Append(toDispatch \o incoming, m) \in Seq(Message) /\ Append(toDispatch, m) \in Seq(Message)
  BY <1>1 DEF TypeOK
<1>3. Append(runLoop, "dispatchMessages") \in Seq(Tasks)
  BY DEF TypeOK, Tasks
<1> QED
  BY <1>1, <1>2, <1>3, Zenon DEF TypeOK, ProcessWhileWaiting

\* Every critical section of both threads keeps the types.
LEMMA TypeStep ==
    ASSUME WaitInv, [Next]_vars
    PROVE  TypeOK'
<1> USE DEF WaitInv
<1>1. CASE WaitFindsQueuedMessage
  <2>1. PICK i \in Positions("target") : /\ handled' = Append(handled, incoming[i])
                                         /\ incoming' = Without(incoming, i)
    BY <1>1 DEF WaitFindsQueuedMessage
  <2>2. i \in 1..Len(incoming) /\ incoming[i] \in Message
    BY DEF TypeOK, Positions
  <2>3. incoming' \in Seq(Message) /\ handled' \in Seq(Message)
    <3>1. incoming' \in Seq(Message)
      BY <2>1, <2>2, TakingOne, Zenon DEF TypeOK
    <3>2. Append(handled, incoming[i]) \in Seq(Message)
      BY <2>2 DEF TypeOK
    <3> QED
      BY <2>1, <3>1, <3>2, Zenon
  <2> QED
    BY <1>1, <2>3 DEF WaitFindsQueuedMessage, TypeOK
<1>2. ASSUME NEW options \in SUBSET WaitForOption, WaitStarts(options)
      PROVE  TypeOK'
  BY <1>2, Zenon DEF WaitStarts, TypeOK, queues, NewWait, NotWaiting, Waits, States
<1>3. CASE WaitDispatchesMessages
  <2>1. handled' \in Seq(Message)
    BY <1>3, DispatchTypes DEF WaitDispatchesMessages, TypeOK
  <2> QED
    BY <1>3, <2>1 DEF WaitDispatchesMessages, TypeOK, States
<1>4. CASE WaitReturnsMessage
  BY <1>4, WaitersMessageType DEF WaitReturnsMessage, TypeOK, queues, States, Waits
<1>5. CASE WaitBlocks \/ WaitTimesOut \/ WaitLoops
  BY <1>5 DEF WaitBlocks, WaitTimesOut, WaitLoops, TypeOK, queues, States
<1>6. CASE WaitGivesUp
  <2>1. abandoned' \in Seq(Message)
    BY <1>6, WaitersMessageType, Joined DEF WaitGivesUp, TypeOK
  <2> QED
    BY <1>6, <2>1, WaitersMessageType DEF WaitGivesUp, TypeOK, queues, States
<1>7. CASE RunDispatchMessages
  <2>1. handled' \in Seq(Message)
    BY <1>7, DispatchTypes DEF RunDispatchMessages, TypeOK
  <2> QED
    BY <1>7, <2>1 DEF RunDispatchMessages, RunLoopTakes, TypeOK
<1>8. CASE RunDispatchIncoming \/ TimerFires
  <2>1. runLoop \in Seq(Tasks) /\ (runLoop # <<>> => Tail(runLoop) \in Seq(Tasks))
    BY DEF TypeOK
  <2> QED
    BY <1>8, <2>1, DispatchIncomingTypes, Zenon DEF RunDispatchIncoming, TimerFires, RunLoopTakes
<1>9. CASE ContinueDispatchIncoming
  <2>1. handled' \in Seq(Message) /\ incoming' \in Seq(Message)
    BY <1>9, DispatchTypes, FirstTypes DEF ContinueDispatchIncoming
  <2> QED
    BY <1>9, <2>1 DEF ContinueDispatchIncoming, TypeOK
<1>10. CASE RunDidClose
  BY <1>10 DEF RunDidClose, RunLoopTakes, TypeOK
<1>11. CASE DeliverToWaiter
  <2>1. PICK m \in Message : /\ Arrives(m, "target") /\ waiting' = [waiting EXCEPT !.decoder = m]
                             /\ sent' = m.id /\ pc' = Notified
    BY <1>11 DEF DeliverToWaiter
  <2>2. waiting' \in Waits /\ pc' \in States
    BY <2>1, Zenon DEF TypeOK, Waits, States, Notified
  <2>3. sent' \in 0..MaxMessages
    BY <2>1, ArrivingMessage
  <2> QED
    BY <1>11, <2>2, <2>3 DEF DeliverToWaiter, TypeOK, queues
<1>12. CASE DeliverToSyncMessageState
  <2>1. PICK m \in Message, ordered \in BOOLEAN :
            Arrives(m, "sync") /\ ProcessWhileWaiting(m, ordered) /\ sent' = m.id
    BY <1>12, Zenon DEF DeliverToSyncMessageState
  <2>2. pc' \in States
    BY <1>12, Zenon DEF DeliverToSyncMessageState, TypeOK, Notified, States
  <2>3. sent' \in 0..MaxMessages
    BY <2>1, ArrivingMessage
  <2>4. incoming' \in Seq(Message) /\ toDispatch' \in Seq(Message) /\ runLoop' \in Seq(Tasks)
    BY <2>1, ProcessTypes, Zenon
  <2> QED
    BY <1>12, <2>2, <2>3, <2>4, Zenon DEF DeliverToSyncMessageState, TypeOK
<1>13. CASE DeliverInterrupting
  <2>1. PICK m \in Message : Arrives(m, "sync") /\ Enqueue(m) /\ sent' = m.id
    BY <1>13 DEF DeliverInterrupting
  <2>2. waiting' \in Waits /\ pc' \in States
    BY <1>13, Zenon DEF DeliverInterrupting, TypeOK, Waits, States, Notified
  <2>3. sent' \in 0..MaxMessages /\ incoming' \in Seq(Message) /\ runLoop' \in Seq(Tasks)
    BY <2>1, ArrivingMessage, EnqueueTypes
  <2> QED
    BY <1>13, <2>2, <2>3 DEF DeliverInterrupting, TypeOK
<1>14. CASE DeliverToQueue
  BY <1>14, ArrivingMessage, EnqueueTypes DEF DeliverToQueue, TypeOK
<1>15. CASE CloseSetsFlags
  BY <1>15, Zenon DEF CloseSetsFlags, TypeOK, queues, Waits
<1>16. CASE CloseNotifies
  BY <1>16 DEF CloseNotifies, TypeOK, Notified, States, Tasks
<1>17. CASE UNCHANGED vars
  BY <1>17 DEF vars, TypeOK
<1> QED
  BY <1>1, <1>2, <1>3, <1>4, <1>5, <1>6, <1>7, <1>8, <1>9, <1>10, <1>11, <1>12, <1>13, <1>14,
     <1>15, <1>16, <1>17 DEF Next, MainThread, WorkQueue

\* The null decoder is not a message.
LEMMA NoMessageType == NoMessage \notin Message
  BY WaitAssumption DEF NoMessage, Message

\* Every critical section keeps WaitInv.
LEMMA WaitStep ==
    ASSUME WaitInv, [Next]_vars
    PROVE  WaitInv'
<1>0. TypeOK'
  BY TypeStep
<1>1. CASE WaitFindsQueuedMessage
  BY <1>1, <1>0 DEF WaitInv, WaitFindsQueuedMessage, WaitsForMore
<1>2. ASSUME NEW options \in SUBSET WaitForOption, WaitStarts(options)
      PROVE  WaitInv'
  BY <1>2, <1>0 DEF WaitInv, WaitStarts, queues, NewWait, NotWaiting, WaitsForMore, Positions
<1>3. CASE WaitDispatchesMessages
  BY <1>3, <1>0 DEF WaitInv, WaitDispatchesMessages, WaitsForMore, Positions
<1>4. CASE WaitReturnsMessage
  BY <1>4, <1>0 DEF WaitInv, WaitReturnsMessage, NotWaiting, WaitsForMore
<1>5. CASE WaitBlocks \/ WaitTimesOut \/ WaitLoops
  BY <1>5, <1>0 DEF WaitInv, WaitBlocks, WaitTimesOut, WaitLoops, queues, WaitsForMore, Positions
<1>6. CASE WaitGivesUp
  BY <1>6, <1>0 DEF WaitInv, WaitGivesUp, NotWaiting, WaitsForMore
<1>7. CASE RunDispatchMessages \/ RunDidClose
  BY <1>7, <1>0 DEF WaitInv, RunDispatchMessages, RunDidClose, WaitsForMore, Positions
<1>8. CASE RunDispatchIncoming \/ TimerFires \/ ContinueDispatchIncoming
  <2>1. pc = "running" /\ UNCHANGED <<pc, waiting>>
    BY <1>8, Zenon DEF RunDispatchIncoming, TimerFires, ContinueDispatchIncoming, DispatchIncoming,
                       RunLoopTakes
  <2> QED
    BY <2>1, <1>0, Zenon DEF WaitInv, WaitsForMore
<1>9. CASE DeliverToWaiter
  <2>1. PICK m \in Message : WaitsForMore /\ waiting' = [waiting EXCEPT !.decoder = m]
    BY <1>9 DEF DeliverToWaiter
  <2>2. waiting'.decoder = m /\ waiting'.active = waiting.active
    BY <2>1 DEF WaitInv, TypeOK, Waits
  <2>3. pc' = Notified
    BY <1>9 DEF DeliverToWaiter
  <2> QED
    BY <1>0, <2>1, <2>2, <2>3, NoMessageType DEF WaitInv, WaitsForMore, Notified
<1>10. CASE DeliverToSyncMessageState
  <2>1. pc' \in {pc, Notified} /\ UNCHANGED waiting /\ incoming' \in {incoming, <<>>}
    BY <1>10, Zenon DEF DeliverToSyncMessageState, ProcessWhileWaiting
  <2>2. WaitsForMore => Positions("target")' = {}
    BY <2>1 DEF WaitInv, Positions
  <2> QED
    BY <1>0, <2>1, <2>2, Zenon DEF WaitInv, WaitsForMore, Notified
<1>11. ASSUME NEW m \in Message, NEW kind, Arrives(m, kind), ~(kind = "target" /\ WaitsForMore),
              Enqueue(m), pc' \in {pc, Notified}, waiting'.active = waiting.active,
              waiting'.decoder = waiting.decoder
       PROVE  WaitInv'
  <2>1. WaitsForMore => Positions("target")' = {}
    <3>0. incoming' \in {incoming, <<>>, Append(incoming, m)}
      BY <1>11, Zenon DEF Enqueue
    <3> SUFFICES ASSUME WaitsForMore
                 PROVE  Positions("target")' = {}
      OBVIOUS
    <3>1. m.kind # "target"
      BY <1>11, ArrivingMessage DEF WaitInv
    <3>2. \A j \in 1..Len(incoming) : incoming[j].kind # "target"
      BY DEF WaitInv, TypeOK, Positions
    <3>3. \A j \in DOMAIN Append(incoming, m) : Append(incoming, m)[j].kind # "target"
      BY <3>1, <3>2 DEF WaitInv, TypeOK
    <3>4. DOMAIN incoming = 1..Len(incoming) /\ DOMAIN <<>> = {}
      BY DEF WaitInv, TypeOK
    <3>5. \A j \in DOMAIN incoming' : incoming'[j].kind # "target"
      BY <3>0, <3>2, <3>3, <3>4, Zenon
    <3> QED
      BY <3>5, Zenon DEF Positions
  <2> QED
    BY <1>0, <1>11, <2>1 DEF WaitInv, WaitsForMore, Notified
<1>12. CASE DeliverInterrupting
  <2>1. waiting'.active = waiting.active /\ waiting'.decoder = waiting.decoder
    BY <1>12 DEF DeliverInterrupting, WaitInv, TypeOK, Waits
  <2> QED
    BY <1>11, <1>12, <2>1 DEF DeliverInterrupting
<1>13. CASE DeliverToQueue
  BY <1>11, <1>13 DEF DeliverToQueue
<1>14. CASE CloseSetsFlags
  <2>1. waiting'.active = waiting.active /\ waiting'.decoder = waiting.decoder
    BY <1>14 DEF CloseSetsFlags, WaitInv, TypeOK, Waits
  <2> QED
    BY <1>0, <1>14, <2>1 DEF WaitInv, CloseSetsFlags, queues, WaitsForMore, Positions
<1>15. CASE CloseNotifies
  BY <1>0, <1>15 DEF WaitInv, CloseNotifies, WaitsForMore, Positions, Notified
<1>16. CASE UNCHANGED vars
  BY <1>0, <1>16 DEF vars, WaitInv, WaitsForMore, Positions
<1> QED
  BY <1>1, <1>2, <1>3, <1>4, <1>5, <1>6, <1>7, <1>8, <1>9, <1>10, <1>12, <1>13, <1>14,
     <1>15, <1>16 DEF Next, MainThread, WorkQueue

\* A connection starts without a wait.
LEMMA WaitInit == Init => WaitInv
  BY WaitAssumption DEF Init, WaitInv, TypeOK, States, Waits, NotWaiting, WaitsForMore, Positions

\* A thread parked in waitForMessage has missed no message: the one it waits for
\* is neither in its decoder nor in the queue (waitForMessage searches and
\* registers under one lock, processIncomingMessage looks under the same lock).
THEOREM ParkedThreadsMissNothing == Spec => []ParkedThreadMissedNoMessage
<1>1. WaitInv => ParkedThreadMissedNoMessage
  BY DEF WaitInv, ParkedThreadMissedNoMessage, WaitsForMore
<1> QED
  BY <1>1, WaitInit, WaitStep, PTL DEF Spec

-----------------------------------------------------------------------------
(* Only abandoned waits lose messages *)

PlaceNames == {"incoming", "toDispatch", "handled", "abandoned", "waiter"}

\* Every message that arrived is in one of these places, and in one only.
InOnePlace == OnePlace(PlaceNames, Places, sent)

\* That is so until the connection is invalidated or its queue overflows.
PlaceInv == valid /\ ~wasKilled => InOnePlace

\* What waits hold, and what they took with them, are messages they waited for.
TargetInv ==
    /\ waiting.decoder # NoMessage => waiting.decoder.kind = "target"
    /\ \A i \in 1..Len(abandoned) : abandoned[i].kind = "target"

\* The places a message can be in are queues of messages.
LEMMA PlacesType ==
    ASSUME TypeOK, TypeOK'
    PROVE  /\ Places \in [PlaceNames -> Seq(Message)] /\ Places' \in [PlaceNames -> Seq(Message)]
           /\ sent \in Nat
<1>1. Places \in [PlaceNames -> Seq(Message)] /\ sent \in Nat
  BY WaitersMessageType DEF TypeOK, Places, PlaceNames
<1>2. WaitersMessage' \in Seq(Message)
  BY DEF TypeOK, WaitersMessage, Waits
<1>3. Places' \in [PlaceNames -> Seq(Message)]
  BY <1>2 DEF TypeOK, Places, PlaceNames
<1> QED
  BY <1>1, <1>3

\* A step that moves nothing.
LEMMA NothingMoves ==
    ASSUME InOnePlace, UNCHANGED <<incoming, toDispatch, handled, abandoned, sent>>,
           WaitersMessage' = WaitersMessage
    PROVE  InOnePlace'
<1>1. Places' = Places
  BY DEF Places
<1> QED
  BY <1>1, Zenon DEF InOnePlace

\* The messages in toDispatch are given to the client.
LEMMA AllDispatched ==
    ASSUME TypeOK, TypeOK', InOnePlace, valid, Dispatch(toDispatch), toDispatch' = <<>>,
           UNCHANGED <<incoming, waiting, abandoned, sent>>
    PROVE  InOnePlace'
<1>1. WaitersMessage' = WaitersMessage
  BY DEF WaitersMessage
<1>2. handled' = handled \o toDispatch
  BY Zenon DEF Dispatch
<1>3. /\ Places'["toDispatch"] = <<>>
      /\ Places'["handled"] = Places["handled"] \o Places["toDispatch"]
      /\ \A c \in PlaceNames \ {"toDispatch", "handled"} : Places'[c] = Places[c]
  BY <1>1, <1>2 DEF Places, PlaceNames
<1> QED
  BY <1>3, PlacesType, AllMove, Zenon DEF InOnePlace, PlaceNames

\* So is the first message of the queue.
LEMMA FirstDispatched ==
    ASSUME TypeOK, TypeOK', InOnePlace, valid, Dispatch(FirstOf(incoming)),
           incoming' = RemoveFirstOf(incoming), UNCHANGED <<toDispatch, waiting, abandoned, sent>>
    PROVE  InOnePlace'
<1>1. WaitersMessage' = WaitersMessage
  BY DEF WaitersMessage
<1>2. handled' = handled \o FirstOf(incoming)
  BY Zenon DEF Dispatch
<1>3. CASE incoming = <<>>
  <2>1. FirstOf(incoming) = <<>> /\ RemoveFirstOf(incoming) = incoming
    BY <1>3 DEF FirstOf, RemoveFirstOf
  <2>2. handled \o <<>> = handled
    BY DEF TypeOK
  <2> QED
    BY <1>1, <1>2, <2>1, <2>2, NothingMoves
<1>4. CASE incoming # <<>>
  <2>1. 1 \in 1..Len(incoming) /\ FirstOf(incoming) = <<incoming[1]>>
    BY <1>4 DEF TypeOK, FirstOf
  <2>2. RemoveFirstOf(incoming) = Without(incoming, 1)
    BY <1>4, TakingFirstIsTakingOne DEF TypeOK
  <2>3. /\ Places'["incoming"] = Without(Places["incoming"], 1) /\ 1 \in 1..Len(Places["incoming"])
        /\ Places'["handled"] = Places["handled"] \o <<Places["incoming"][1]>>
        /\ \A c \in PlaceNames \ {"incoming", "handled"} : Places'[c] = Places[c]
    BY <1>1, <1>2, <2>1, <2>2 DEF Places, PlaceNames
  <2> QED
    BY <2>3, PlacesType, OneMoves, Zenon DEF InOnePlace, PlaceNames
<1> QED
  BY <1>3, <1>4

\* The waiter's message is returned by waitForMessage, or goes out of scope with it.
LEMMA WaitersMessageMoves ==
    ASSUME TypeOK, TypeOK', InOnePlace, WaitersMessage' = <<>>,
           \/ handled' = handled \o WaitersMessage /\ abandoned' = abandoned
           \/ abandoned' = abandoned \o WaitersMessage /\ handled' = handled,
           UNCHANGED <<incoming, toDispatch, sent>>
    PROVE  InOnePlace'
<1>1. CASE handled' = handled \o WaitersMessage /\ abandoned' = abandoned
  <2>1. /\ Places'["waiter"] = <<>>
        /\ Places'["handled"] = Places["handled"] \o Places["waiter"]
        /\ \A c \in PlaceNames \ {"waiter", "handled"} : Places'[c] = Places[c]
    BY <1>1 DEF Places, PlaceNames
  <2> QED
    BY <2>1, PlacesType, AllMove, Zenon DEF InOnePlace, PlaceNames
<1>2. CASE abandoned' = abandoned \o WaitersMessage /\ handled' = handled
  <2>1. /\ Places'["waiter"] = <<>>
        /\ Places'["abandoned"] = Places["abandoned"] \o Places["waiter"]
        /\ \A c \in PlaceNames \ {"waiter", "abandoned"} : Places'[c] = Places[c]
    BY <1>2 DEF Places, PlaceNames
  <2> QED
    BY <2>1, PlacesType, AllMove, Zenon DEF InOnePlace, PlaceNames
<1> QED
  BY <1>1, <1>2

\* A message arrives in the place b.
LEMMA MessageArrives ==
    ASSUME TypeOK, TypeOK', InOnePlace, NEW b \in PlaceNames, NEW m \in Message, m.id = sent + 1,
           sent' = m.id, Places'[b] = Append(Places[b], m),
           \A c \in PlaceNames \ {b} : Places'[c] = Places[c]
    PROVE  InOnePlace'
  BY PlacesType, OneArrives, Zenon DEF InOnePlace

\* A sync message takes the queue along to toDispatch, and arrives behind it.
LEMMA QueueMoves ==
    ASSUME TypeOK, TypeOK', InOnePlace, NEW m \in Message, m.id = sent + 1, sent' = m.id,
           toDispatch' = Append(toDispatch \o incoming, m), incoming' = <<>>,
           UNCHANGED <<waiting, handled, abandoned>>
    PROVE  InOnePlace'
<1> DEFINE R == [c \in PlaceNames |-> IF c = "incoming" THEN <<>>
                                     ELSE IF c = "toDispatch" THEN toDispatch \o incoming
                                     ELSE Places[c]]
<1>0. /\ Places \in [PlaceNames -> Seq(Message)] /\ Places' \in [PlaceNames -> Seq(Message)]
      /\ sent \in Nat
  BY PlacesType, Zenon
<1>1. toDispatch \o incoming \in Seq(Message) /\ <<>> \in Seq(Message)
  BY Joined DEF TypeOK
<1>2. R \in [PlaceNames -> Seq(Message)]
  BY <1>0, <1>1
<1>3. /\ R["incoming"] = <<>> /\ R["toDispatch"] = Places["toDispatch"] \o Places["incoming"]
      /\ \A c \in PlaceNames \ {"incoming", "toDispatch"} : R[c] = Places[c]
  BY DEF Places, PlaceNames
<1>4. WaitersMessage' = WaitersMessage
  BY DEF WaitersMessage
<1>5. /\ Places'["toDispatch"] = Append(R["toDispatch"], m)
      /\ \A c \in PlaceNames \ {"toDispatch"} : Places'[c] = R[c]
  BY <1>4 DEF Places, PlaceNames
<1> HIDE DEF R
<1>6. OnePlace(PlaceNames, R, sent)
  BY <1>0, <1>2, <1>3, AllMove, Zenon DEF InOnePlace, PlaceNames
<1>7. OnePlace(PlaceNames, Places', sent + 1)
  <2>1. "toDispatch" \in PlaceNames
    BY DEF PlaceNames
  <2> QED
    BY <1>0, <1>2, <1>5, <1>6, <2>1, OneArrives, Zenon
<1> QED
  BY <1>7, Zenon DEF InOnePlace

\* Every critical section keeps each message that arrived in one place, as long
\* as the connection is valid and its queue has not overflowed.
LEMMA MoveStep ==
    ASSUME WaitInv, InOnePlace, valid, ~wasKilled, ~wasKilled', [Next]_vars
    PROVE  InOnePlace'
<1>0. TypeOK /\ TypeOK'
  BY TypeStep DEF WaitInv
<1>1. CASE WaitFindsQueuedMessage
  <2>1. PICK i \in Positions("target") : /\ handled' = Append(handled, incoming[i])
                                         /\ incoming' = Without(incoming, i)
    BY <1>1 DEF WaitFindsQueuedMessage
  <2>2. i \in 1..Len(incoming) /\ Append(handled, incoming[i]) = handled \o <<incoming[i]>>
    <3>0. incoming \in Seq(Message)
      BY <1>0, Zenon DEF TypeOK
    <3>1. i \in 1..Len(incoming)
      <4>1. i \in DOMAIN incoming
        BY Zenon DEF Positions
      <4> QED
        BY <3>0, <4>1
    <3>2. incoming[i] \in Message
      BY <3>0, <3>1
    <3> QED
      BY <1>0, <3>1, <3>2, AppendedIsJoined, Zenon DEF TypeOK
  <2>3. UNCHANGED <<toDispatch, abandoned, sent, waiting>> /\ WaitersMessage' = WaitersMessage
    BY <1>1 DEF WaitFindsQueuedMessage, WaitersMessage
  <2>4. /\ Places'["incoming"] = Without(Places["incoming"], i) /\ i \in 1..Len(Places["incoming"])
        /\ Places'["handled"] = Places["handled"] \o <<Places["incoming"][i]>>
        /\ \A c \in PlaceNames \ {"incoming", "handled"} : Places'[c] = Places[c]
    BY <2>1, <2>2, <2>3 DEF Places, PlaceNames
  <2> QED
    BY <1>0, <2>3, <2>4, PlacesType, OneMoves, Zenon DEF InOnePlace, PlaceNames
<1>2. ASSUME NEW options \in SUBSET WaitForOption, WaitStarts(options)
      PROVE  InOnePlace'
  <2>1. WaitersMessage' = WaitersMessage
    BY <1>2 DEF WaitStarts, WaitInv, WaitersMessage, NewWait, NotWaiting
  <2> QED
    BY <1>2, <2>1, NothingMoves DEF WaitStarts, queues
<1>3. CASE WaitDispatchesMessages
  BY <1>0, <1>3, AllDispatched DEF WaitDispatchesMessages
<1>4. CASE WaitReturnsMessage
  <2>1. WaitersMessage' = <<>> /\ WaitersMessage = <<waiting.decoder>>
    BY <1>4 DEF WaitReturnsMessage, WaitersMessage, NotWaiting
  <2>2. handled' = handled \o WaitersMessage
    BY <1>0, <1>4, <2>1 DEF WaitReturnsMessage, TypeOK, Waits
  <2> QED
    BY <1>0, <1>4, <2>1, <2>2, WaitersMessageMoves DEF WaitReturnsMessage, queues
<1>5. CASE WaitBlocks \/ WaitTimesOut \/ WaitLoops \/ RunDidClose \/ CloseNotifies
  <2>1. UNCHANGED <<waiting, incoming, toDispatch, handled, abandoned, sent>>
    BY <1>5 DEF WaitBlocks, WaitTimesOut, WaitLoops, RunDidClose, CloseNotifies, queues
  <2> QED
    BY <2>1, NothingMoves DEF WaitersMessage
<1>6. CASE WaitGivesUp
  <2>1. WaitersMessage' = <<>>
    BY <1>6 DEF WaitGivesUp, WaitersMessage, NotWaiting
  <2> QED
    BY <1>0, <1>6, <2>1, WaitersMessageMoves DEF WaitGivesUp, queues
<1>7. CASE RunDispatchMessages
  BY <1>0, <1>7, AllDispatched DEF RunDispatchMessages
<1>8. CASE RunDispatchIncoming \/ TimerFires \/ ContinueDispatchIncoming
  <2>1. /\ Dispatch(FirstOf(incoming)) /\ incoming' = RemoveFirstOf(incoming)
        /\ UNCHANGED <<toDispatch, waiting, abandoned, sent>>
    BY <1>8, Zenon DEF RunDispatchIncoming, TimerFires, ContinueDispatchIncoming, DispatchIncoming
  <2> QED
    BY <1>0, <2>1, FirstDispatched, Zenon
<1>9. CASE DeliverToWaiter
  <2>1. PICK m \in Message : /\ Arrives(m, "target") /\ WaitsForMore /\ sent' = m.id
                             /\ waiting' = [waiting EXCEPT !.decoder = m]
    BY <1>9 DEF DeliverToWaiter
  <2>2. waiting'.decoder = m /\ m # NoMessage /\ m.id = sent + 1
    <3>1. waiting \in Waits
      BY <1>0, Zenon DEF TypeOK
    <3>2. waiting'.decoder = m
      BY <2>1, <3>1 DEF Waits
    <3>3. m # NoMessage /\ m.id = sent + 1
      BY <1>0, <2>1, ArrivingMessage, Zenon
    <3> QED
      BY <3>2, <3>3
  <2>3. WaitersMessage = <<>> /\ WaitersMessage' = <<m>> /\ <<m>> = Append(<<>>, m)
    BY <2>1, <2>2 DEF WaitersMessage, WaitsForMore
  <2>4. /\ Places'["waiter"] = Append(Places["waiter"], m)
        /\ \A c \in PlaceNames \ {"waiter"} : Places'[c] = Places[c]
    BY <1>9, <2>3 DEF DeliverToWaiter, queues, Places, PlaceNames
  <2> QED
    BY <1>0, <2>1, <2>2, <2>4, MessageArrives DEF PlaceNames
<1>10. CASE DeliverToSyncMessageState
  <2>1. PICK m \in Message, ordered \in BOOLEAN :
            Arrives(m, "sync") /\ sent' = m.id /\ ProcessWhileWaiting(m, ordered)
    BY <1>10, Zenon DEF DeliverToSyncMessageState
  <2>2. m.id = sent + 1
    BY <1>0, <2>1, ArrivingMessage
  <2>3. UNCHANGED <<waiting, handled, abandoned>>
    BY <1>10, Zenon DEF DeliverToSyncMessageState
  <2>4. CASE ordered
    BY <1>0, <2>1, <2>2, <2>3, <2>4, QueueMoves, Zenon DEF ProcessWhileWaiting
  <2>5. CASE ~ordered
    <3>1. toDispatch' = Append(toDispatch, m) /\ UNCHANGED incoming
      BY <2>1, <2>5, Zenon DEF ProcessWhileWaiting
    <3>2. /\ Places'["toDispatch"] = Append(Places["toDispatch"], m)
          /\ \A c \in PlaceNames \ {"toDispatch"} : Places'[c] = Places[c]
      BY <2>3, <3>1 DEF WaitersMessage, Places, PlaceNames
    <3> QED
      BY <1>0, <2>1, <2>2, <3>2, MessageArrives DEF PlaceNames
  <2> QED
    BY <2>4, <2>5
<1>11. CASE DeliverInterrupting \/ DeliverToQueue
  <2>1. PICK m \in Message : /\ \E kind \in Kinds : Arrives(m, kind)
                             /\ sent' = m.id /\ incoming' = Append(incoming, m)
    <3>1. PICK m \in Message : (\E kind \in Kinds : Arrives(m, kind)) /\ sent' = m.id /\ Enqueue(m)
      BY <1>11, Zenon DEF DeliverInterrupting, DeliverToQueue, Kinds
    <3>2. incoming' = Append(incoming, m)
      BY <3>1, Zenon DEF Enqueue
    <3> QED
      BY <3>1, <3>2, Zenon
  <2>2. m.id = sent + 1
    BY <1>0, <2>1, ArrivingMessage
  <2>3. waiting'.decoder = waiting.decoder
    BY <1>0, <1>11 DEF DeliverInterrupting, DeliverToQueue, TypeOK, Waits
  <2>4. UNCHANGED <<toDispatch, handled, abandoned>>
    BY <1>11 DEF DeliverInterrupting, DeliverToQueue
  <2>5. /\ Places'["incoming"] = Append(Places["incoming"], m)
        /\ \A c \in PlaceNames \ {"incoming"} : Places'[c] = Places[c]
    BY <2>1, <2>3, <2>4 DEF WaitersMessage, Places, PlaceNames
  <2> QED
    BY <1>0, <2>1, <2>2, <2>5, MessageArrives DEF PlaceNames
<1>12. CASE CloseSetsFlags
  <2>1. waiting'.decoder = waiting.decoder
    BY <1>0, <1>12 DEF CloseSetsFlags, TypeOK, Waits
  <2> QED
    BY <1>12, <2>1, NothingMoves DEF CloseSetsFlags, queues, WaitersMessage
<1>13. CASE UNCHANGED vars
  BY <1>13, NothingMoves DEF vars, WaitersMessage
<1> QED
  BY <1>1, <1>2, <1>3, <1>4, <1>5, <1>6, <1>7, <1>8, <1>9, <1>10, <1>11, <1>12, <1>13
  DEF Next, MainThread, WorkQueue

\* An invalidated connection stays so, and a killed process stays killed.
LEMMA FlagsStay ==
    ASSUME [Next]_vars, valid', ~wasKilled'
    PROVE  valid /\ ~wasKilled
<1>1. CASE DeliverInterrupting \/ DeliverToQueue
  <2>1. UNCHANGED valid /\ \E m \in Message : Enqueue(m)
    BY <1>1, Zenon DEF DeliverInterrupting, DeliverToQueue
  <2>2. wasKilled' = wasKilled \/ wasKilled' = TRUE
    BY <2>1, Zenon DEF Enqueue
  <2> QED
    BY <2>1, <2>2
<1>2. CASE RunDispatchIncoming \/ TimerFires
  <2>1. UNCHANGED <<valid, wasKilled>>
    BY <1>2, Zenon DEF RunDispatchIncoming, TimerFires, DispatchIncoming
  <2> QED
    BY <2>1
<1>3. ASSUME NEW options \in SUBSET WaitForOption, WaitStarts(options)
      PROVE  valid /\ ~wasKilled
  BY <1>3 DEF WaitStarts, queues
<1>4. CASE \/ WaitFindsQueuedMessage \/ WaitDispatchesMessages \/ WaitReturnsMessage \/ WaitBlocks
           \/ WaitTimesOut \/ WaitGivesUp \/ WaitLoops \/ RunDispatchMessages
           \/ ContinueDispatchIncoming \/ DeliverToWaiter \/ DeliverToSyncMessageState
           \/ CloseSetsFlags \/ CloseNotifies \/ UNCHANGED vars
  <2>1. UNCHANGED <<valid, wasKilled>>
    BY <1>4, Zenon
    DEF vars, queues, WaitFindsQueuedMessage, WaitDispatchesMessages, WaitReturnsMessage, WaitBlocks,
        WaitTimesOut, WaitGivesUp, WaitLoops, RunDispatchMessages, ContinueDispatchIncoming,
        DeliverToWaiter, DeliverToSyncMessageState, CloseSetsFlags, CloseNotifies
  <2> QED
    BY <2>1
<1>5. CASE RunDidClose
  BY <1>5 DEF RunDidClose
<1> QED
  BY <1>1, <1>2, <1>3, <1>4, <1>5, Zenon DEF Next, MainThread, WorkQueue

\* So every critical section keeps PlaceInv.
LEMMA PlaceStep ==
    ASSUME WaitInv, PlaceInv, [Next]_vars
    PROVE  PlaceInv'
<1> SUFFICES ASSUME valid', ~wasKilled'
             PROVE  InOnePlace'
  BY Zenon DEF PlaceInv
<1>1. valid /\ ~wasKilled
  BY FlagsStay, Zenon
<1> QED
  BY <1>1, MoveStep, Zenon DEF PlaceInv

\* A wait is only given a message it waits for, so it abandons no other.
LEMMA TargetStep ==
    ASSUME WaitInv, TargetInv, [Next]_vars
    PROVE  TargetInv'
<1>0. TypeOK /\ TypeOK'
  BY TypeStep DEF WaitInv
<1>1. ASSUME waiting'.decoder \in {waiting.decoder, NoMessage}, UNCHANGED abandoned
      PROVE  TargetInv'
  BY <1>1, Zenon DEF TargetInv
<1>2. ASSUME NEW options \in SUBSET WaitForOption, WaitStarts(options)
      PROVE  TargetInv'
  BY <1>1, <1>2 DEF WaitStarts, NewWait, NotWaiting
<1>3. CASE WaitReturnsMessage
  BY <1>1, <1>3 DEF WaitReturnsMessage, NotWaiting
<1>4. CASE WaitGivesUp
  <2>1. waiting'.decoder = NoMessage /\ abandoned' = abandoned \o WaitersMessage
    BY <1>4 DEF WaitGivesUp, NotWaiting
  <2>2. CASE waiting.decoder = NoMessage
    <3>1. abandoned' = abandoned
      BY <1>0, <2>1, <2>2 DEF WaitersMessage, TypeOK
    <3> QED
      BY <1>1, <2>1, <3>1
  <2>3. CASE waiting.decoder # NoMessage
    <3>1. waiting.decoder \in Message /\ waiting.decoder.kind = "target"
      BY <1>0, <2>3 DEF TypeOK, Waits, TargetInv
    <3>2. abandoned' = Append(abandoned, waiting.decoder)
      BY <1>0, <2>1, <2>3, <3>1 DEF WaitersMessage, TypeOK
    <3>3. \A i \in 1..Len(abandoned') :
              \/ i \in 1..Len(abandoned) /\ abandoned'[i] = abandoned[i]
              \/ abandoned'[i] = waiting.decoder
      BY <1>0, <3>1, <3>2 DEF TypeOK
    <3> QED
      BY <2>1, <3>1, <3>3, Zenon DEF TargetInv
  <2> QED
    BY <2>2, <2>3
<1>5. CASE DeliverToWaiter
  <2>1. PICK m \in Message : Arrives(m, "target") /\ waiting' = [waiting EXCEPT !.decoder = m]
    BY <1>5, Zenon DEF DeliverToWaiter
  <2>2. waiting'.decoder = m
    BY <1>0, <2>1 DEF TypeOK, Waits
  <2>3. m.kind = "target" /\ UNCHANGED abandoned
    BY <1>0, <1>5, <2>1, ArrivingMessage DEF DeliverToWaiter
  <2> QED
    BY <2>2, <2>3, Zenon DEF TargetInv
<1>6. CASE CloseSetsFlags \/ DeliverInterrupting
  <2>1. waiting'.decoder = waiting.decoder
    BY <1>0, <1>6 DEF CloseSetsFlags, DeliverInterrupting, TypeOK, Waits
  <2> QED
    BY <1>1, <1>6, <2>1, Zenon DEF CloseSetsFlags, DeliverInterrupting
<1>7. CASE RunDispatchIncoming \/ TimerFires
  BY <1>1, <1>7, Zenon DEF RunDispatchIncoming, TimerFires, DispatchIncoming
<1>8. CASE \/ WaitFindsQueuedMessage \/ WaitDispatchesMessages \/ WaitBlocks \/ WaitTimesOut
           \/ WaitLoops \/ RunDispatchMessages \/ ContinueDispatchIncoming \/ RunDidClose
           \/ DeliverToSyncMessageState \/ DeliverToQueue \/ CloseNotifies \/ UNCHANGED vars
  <2>1. UNCHANGED <<waiting, abandoned>>
    BY <1>8, Zenon
    DEF WaitFindsQueuedMessage, WaitDispatchesMessages, WaitBlocks, WaitTimesOut, WaitLoops,
        RunDispatchMessages, ContinueDispatchIncoming, RunDidClose, DeliverToSyncMessageState,
        DeliverToQueue, CloseNotifies, vars
  <2> QED
    BY <1>1, <2>1, Zenon
<1> QED
  BY <1>2, <1>3, <1>4, <1>5, <1>6, <1>7, <1>8, Zenon DEF Next, MainThread, WorkQueue

\* As long as the connection is valid and its queue has not overflowed, a message
\* that arrived is queued, with the waiter or was given to the client, once only,
\* by whichever way it reaches it (processIncomingMessage, waitForMessage,
\* dispatchOneIncomingMessage, dispatchMessages).  The exception is a message
\* waited for that the wait was given before it timed out or saw that it was
\* interrupted: waitForMessage returns nothing and destroys it.
THEOREM OnlyAbandonedWaitsLose == Spec => []OnlyAbandonedWaitsLoseMessages
<1>1. Init => PlaceInv /\ TargetInv
  <2> SUFFICES ASSUME Init
               PROVE  InOnePlace /\ TargetInv
    BY Zenon DEF PlaceInv
  <2>1. InOnePlace
    BY DEF Init, InOnePlace, OnePlace, Places, PlaceNames, WaitersMessage, NotWaiting
  <2>2. TargetInv
    BY DEF Init, TargetInv, NotWaiting
  <2> QED
    BY <2>1, <2>2
<1>2. WaitInv /\ PlaceInv /\ TargetInv => OnlyAbandonedWaitsLoseMessages
  <2> SUFFICES ASSUME WaitInv, InOnePlace, TargetInv
               PROVE  OnlyAbandonedWaitsLoseMessages
    BY Zenon DEF PlaceInv, OnlyAbandonedWaitsLoseMessages
  <2>1. DOMAIN Places = PlaceNames /\ \A a \in PlaceNames : DOMAIN Places[a] = 1..Len(Places[a])
    BY WaitersMessageType DEF WaitInv, TypeOK, Places, PlaceNames
  <2>2. \A a \in DOMAIN Places : \A i \in DOMAIN Places[a] : Places[a][i].id \in 1..sent
    BY <2>1 DEF InOnePlace, OnePlace
  <2>3. \A n \in 1..sent : \E a \in DOMAIN Places : \E i \in DOMAIN Places[a] : Places[a][i].id = n
    BY <2>1 DEF InOnePlace, OnePlace
  <2>4. \A a, b \in DOMAIN Places : \A i \in DOMAIN Places[a], j \in DOMAIN Places[b] :
            Places[a][i].id = Places[b][j].id => a = b /\ i = j
    BY <2>1 DEF InOnePlace, OnePlace
  <2>5. \A i \in DOMAIN abandoned : abandoned[i].kind = "target"
    BY DEF WaitInv, TypeOK, TargetInv
  <2> QED
    BY <2>2, <2>3, <2>4, <2>5, Zenon DEF OnlyAbandonedWaitsLoseMessages
<1> QED
  BY <1>1, <1>2, WaitInit, WaitStep, PlaceStep, TargetStep, PTL DEF Spec

-----------------------------------------------------------------------------
(* Every queued message is scheduled *)

\* The tasks of a sequence after one is added at the end or taken from the front.
LEMMA TaskRanges ==
    ASSUME NEW s \in Seq(Tasks), NEW t \in Range(s)
    PROVE  /\ \A x \in Tasks : t \in Range(Append(s, x))
           /\ \A u \in Seq(Tasks) : t \in Range(s \o u)
           /\ t # Head(s) => t \in Range(Tail(s))
<1>1. PICK i \in 1..Len(s) : s[i] = t
  BY DEF Range
<1>2. \A x \in Tasks : t \in Range(Append(s, x))
  <2> SUFFICES ASSUME NEW x \in Tasks
               PROVE  t \in Range(Append(s, x))
    OBVIOUS
  <2>1. i \in DOMAIN Append(s, x) /\ Append(s, x)[i] = t
    BY <1>1
  <2> QED
    BY <2>1 DEF Range
<1>3. \A u \in Seq(Tasks) : t \in Range(s \o u)
  <2> SUFFICES ASSUME NEW u \in Seq(Tasks)
               PROVE  t \in Range(s \o u)
    OBVIOUS
  <2>1. i \in DOMAIN (s \o u) /\ (s \o u)[i] = t
    BY <1>1
  <2> QED
    BY <2>1 DEF Range
<1>4. ASSUME t # Head(s)
      PROVE  t \in Range(Tail(s))
  <2>1. i - 1 \in DOMAIN Tail(s) /\ Tail(s)[i - 1] = t
    BY <1>1, <1>4
  <2> QED
    BY <2>1, Zenon DEF Range
<1> QED
  BY <1>2, <1>3, <1>4

\* A function dispatched to the run loop is on it.
LEMMA LastTask ==
    ASSUME NEW s \in Seq(Tasks), NEW x \in Tasks
    PROVE  x \in Range(Append(s, x))
<1>1. Len(s) + 1 \in DOMAIN Append(s, x) /\ Append(s, x)[Len(s) + 1] = x
  OBVIOUS
<1> QED
  BY <1>1 DEF Range

\* n tasks of a run loop, in its order, are "incoming".
Ticketed(n, tasks) ==
    \E f \in [1..n -> 1..Len(tasks)] :
        /\ \A i \in 1..n : tasks[f[i]] = "incoming"
        /\ \A i, j \in 1..n : i < j => f[i] < f[j]

\* No message needs no function.
LEMMA NoTickets ==
    ASSUME NEW s
    PROVE  Ticketed(0, s)
<1> DEFINE f == [i \in 1..0 |-> 1]
<1>1. 1..0 = {}
  OBVIOUS
<1>2. f \in [1..0 -> 1..Len(s)]
  BY <1>1
<1> QED
  BY <1>1, <1>2, Zenon DEF Ticketed

\* A message queued with a function of its own has one to dispatch it, ...
LEMMA TicketAdded ==
    ASSUME NEW n \in Nat, NEW s \in Seq(Tasks), Ticketed(n, s)
    PROVE  Ticketed(n + 1, Append(s, "incoming"))
<1>1. PICK f \in [1..n -> 1..Len(s)] : /\ \A i \in 1..n : s[f[i]] = "incoming"
                                       /\ \A i, j \in 1..n : i < j => f[i] < f[j]
  BY Zenon DEF Ticketed
<1> DEFINE g == [i \in 1..n + 1 |-> IF i = n + 1 THEN Len(s) + 1 ELSE f[i]]
           t == Append(s, "incoming")
<1>2. Len(t) = Len(s) + 1 /\ t[Len(s) + 1] = "incoming" /\ \A i \in 1..Len(s) : t[i] = s[i]
  OBVIOUS
<1>3. \A i \in 1..n + 1 : i = n + 1 \/ i \in 1..n
  OBVIOUS
<1>4. \A i \in 1..n : f[i] \in 1..Len(s)
  OBVIOUS
<1> HIDE DEF t
<1>5. g \in [1..n + 1 -> 1..Len(t)]
  BY <1>2, <1>3, <1>4
<1>6. \A i \in 1..n + 1 : t[g[i]] = "incoming"
  BY <1>1, <1>2, <1>3, <1>4, Zenon
<1>7. \A i, j \in 1..n + 1 : i < j => g[i] < g[j]
  BY <1>1, <1>3, <1>4
<1> HIDE DEF g
<1>8. Ticketed(n + 1, t)
  BY <1>5, <1>6, <1>7, Zenon DEF Ticketed
<1> QED
  BY <1>8 DEF t

\* ... and the other functions on the run loop take none away.
LEMMA OtherTaskAdded ==
    ASSUME NEW n \in Nat, NEW s \in Seq(Tasks), NEW x \in Tasks, Ticketed(n, s)
    PROVE  Ticketed(n, Append(s, x))
<1>1. PICK f \in [1..n -> 1..Len(s)] : /\ \A i \in 1..n : s[f[i]] = "incoming"
                                       /\ \A i, j \in 1..n : i < j => f[i] < f[j]
  BY Zenon DEF Ticketed
<1> DEFINE t == Append(s, x)
<1>2. Len(t) = Len(s) + 1 /\ \A i \in 1..Len(s) : t[i] = s[i]
  OBVIOUS
<1> HIDE DEF t
<1>3. \A i \in 1..n : f[i] \in 1..Len(s) /\ t[f[i]] = "incoming"
  BY <1>1, <1>2, Zenon
<1>4. f \in [1..n -> 1..Len(t)]
  BY <1>2, <1>3
<1>5. Ticketed(n, t)
  BY <1>1, <1>3, <1>4, Zenon DEF Ticketed
<1> QED
  BY <1>5 DEF t

\* One message less needs no ticket more.
LEMMA FewerTickets ==
    ASSUME NEW n \in Nat, NEW s \in Seq(Tasks), Ticketed(n + 1, s)
    PROVE  Ticketed(n, s)
<1>1. PICK f \in [1..n + 1 -> 1..Len(s)] : /\ \A i \in 1..n + 1 : s[f[i]] = "incoming"
                                           /\ \A i, j \in 1..n + 1 : i < j => f[i] < f[j]
  BY Zenon DEF Ticketed
<1> DEFINE g == [i \in 1..n |-> f[i]]
<1>2. \A i \in 1..n : i \in 1..n + 1
  OBVIOUS
<1>3. g \in [1..n -> 1..Len(s)] /\ \A i \in 1..n : g[i] = f[i]
  BY <1>2
<1> HIDE DEF g
<1>4. (\A i \in 1..n : s[g[i]] = "incoming") /\ (\A i, j \in 1..n : i < j => g[i] < g[j])
  BY <1>1, <1>2, <1>3
<1> QED
  BY <1>3, <1>4, Zenon DEF Ticketed

\* The first task is run.  Its message is the first, if it was the first ticket.
LEMMA TaskTaken ==
    ASSUME NEW n \in Nat, NEW s \in Seq(Tasks), s # <<>>
    PROVE  /\ Head(s) # "incoming" /\ Ticketed(n, s) => Ticketed(n, Tail(s))
           /\ Ticketed(n + 1, s) => Ticketed(n, Tail(s))
<1> DEFINE t == Tail(s)
<1>1. Len(t) = Len(s) - 1 /\ Len(s) \in Nat /\ \A i \in 2..Len(s) : t[i - 1] = s[i]
  OBVIOUS
<1>2. Head(s) = s[1]
  OBVIOUS
<1> HIDE DEF t
<1>3. ASSUME s[1] # "incoming", Ticketed(n, s)
      PROVE  Ticketed(n, t)
  <2>1. PICK f \in [1..n -> 1..Len(s)] : /\ \A i \in 1..n : s[f[i]] = "incoming"
                                         /\ \A i, j \in 1..n : i < j => f[i] < f[j]
    BY <1>3, Zenon DEF Ticketed
  <2> DEFINE g == [i \in 1..n |-> f[i] - 1]
  <2>2. \A i \in 1..n : f[i] \in 2..Len(s)
    BY <1>3, <2>1
  <2>3. \A i \in 1..n : f[i] - 1 \in 1..Len(t) /\ t[f[i] - 1] = s[f[i]]
    BY <1>1, <2>2
  <2>4. g \in [1..n -> 1..Len(t)] /\ \A i \in 1..n : g[i] = f[i] - 1
    BY <2>3
  <2> HIDE DEF g
  <2>5. \A i, j \in 1..n : i < j => g[i] < g[j]
    <3> SUFFICES ASSUME NEW i \in 1..n, NEW j \in 1..n, i < j
                 PROVE  g[i] < g[j]
      OBVIOUS
    <3>1. f[i] < f[j]
      BY <2>1
    <3>2. g[i] = f[i] - 1 /\ g[j] = f[j] - 1
      BY <2>4, Zenon
    <3>3. f[i] \in Nat /\ f[j] \in Nat
      BY <2>2
    <3> QED
      BY <3>1, <3>2, <3>3
  <2>6. \A i \in 1..n : t[g[i]] = "incoming"
    BY <2>1, <2>3, <2>4, Zenon
  <2> QED
    BY <2>4, <2>5, <2>6, Zenon DEF Ticketed
<1>4. ASSUME Ticketed(n + 1, s)
      PROVE  Ticketed(n, t)
  <2>1. PICK f \in [1..n + 1 -> 1..Len(s)] : /\ \A i \in 1..n + 1 : s[f[i]] = "incoming"
                                             /\ \A i, j \in 1..n + 1 : i < j => f[i] < f[j]
    BY <1>4 DEF Ticketed
  <2> DEFINE g == [i \in 1..n |-> f[i + 1] - 1]
  <2>2. \A i \in 1..n : i + 1 \in 1..n + 1 /\ 1 \in 1..n + 1 /\ 1 < i + 1
    OBVIOUS
  <2>3. \A i \in 1..n + 1 : f[i] \in 1..Len(s)
    OBVIOUS
  <2>4. \A i \in 1..n : f[i + 1] \in 2..Len(s)
    BY <2>1, <2>2, <2>3
  <2>5. \A i \in 1..n : f[i + 1] - 1 \in 1..Len(t) /\ t[f[i + 1] - 1] = s[f[i + 1]]
    BY <1>1, <2>4
  <2>6. g \in [1..n -> 1..Len(t)] /\ \A i \in 1..n : g[i] = f[i + 1] - 1
    BY <2>5
  <2> HIDE DEF g
  <2>7. \A i, j \in 1..n : i < j => g[i] < g[j]
    <3> SUFFICES ASSUME NEW i \in 1..n, NEW j \in 1..n, i < j
                 PROVE  g[i] < g[j]
      OBVIOUS
    <3>1. i + 1 \in 1..n + 1 /\ j + 1 \in 1..n + 1 /\ i + 1 < j + 1
      OBVIOUS
    <3>2. f[i + 1] < f[j + 1]
      BY <2>1, <3>1, Zenon
    <3>3. g[i] = f[i + 1] - 1 /\ g[j] = f[j + 1] - 1
      BY <2>6, Zenon
    <3>4. f[i + 1] \in Nat /\ f[j + 1] \in Nat
      BY <2>4
    <3> QED
      BY <3>2, <3>3, <3>4
  <2>8. \A i \in 1..n : t[g[i]] = "incoming"
    BY <2>1, <2>2, <2>5, <2>6, Zenon
  <2> QED
    BY <2>6, <2>7, <2>8, Zenon DEF Ticketed
<1> QED
  BY <1>2, <1>3, <1>4 DEF t

\* With throttling one task, or the timer, is enough for the whole queue, because
\* it schedules the next; without, every message has a task of its own.
ScheduleInv ==
    /\ toDispatch # <<>> => "dispatchMessages" \in Range(runLoop)
    /\ IF IsThrottled THEN incoming # <<>> => "incoming" \in Range(runLoop) \/ timer
       ELSE Ticketed(Len(incoming), runLoop)

\* A queue is empty when its length is 0.
LEMMA EmptySequence ==
    ASSUME NEW S, NEW s \in Seq(S)
    PROVE  s = <<>> <=> Len(s) = 0
  OBVIOUS

\* A step that schedules nothing and queues nothing.
LEMMA ScheduleStays ==
    ASSUME TypeOK, ScheduleInv, UNCHANGED <<runLoop, timer>>, toDispatch' \in {toDispatch, <<>>},
           incoming' = incoming
    PROVE  ScheduleInv'
  BY DEF ScheduleInv

\* A message is taken out of the queue and nothing else happens to it.
LEMMA QueueShrinks ==
    ASSUME TypeOK, TypeOK', ScheduleInv, UNCHANGED <<runLoop, timer, toDispatch>>,
           incoming # <<>>, Len(incoming') = Len(incoming) - 1
    PROVE  ScheduleInv'
<1>1. Len(incoming') \in Nat /\ Len(incoming') + 1 = Len(incoming)
  BY DEF TypeOK
<1>2. ~IsThrottled => Ticketed(Len(incoming'), runLoop)
  BY <1>1, FewerTickets DEF ScheduleInv, TypeOK
<1> QED
  BY <1>2 DEF ScheduleInv

\* A task that is neither of the two is added or run.
LEMMA TaskAppended ==
    ASSUME TypeOK, ScheduleInv, NEW x \in Tasks, runLoop' = Append(runLoop, x),
           UNCHANGED timer, incoming' \in {incoming, <<>>},
           toDispatch' # <<>> => toDispatch # <<>> \/ x = "dispatchMessages"
    PROVE  ScheduleInv'
<1>1. runLoop \in Seq(Tasks) /\ Len(incoming) \in Nat
  BY DEF TypeOK
<1>2. toDispatch' # <<>> => "dispatchMessages" \in Range(runLoop')
  BY <1>1, TaskRanges, LastTask DEF ScheduleInv
<1>3. IsThrottled => (incoming' # <<>> => "incoming" \in Range(runLoop') \/ timer')
  BY <1>1, TaskRanges DEF ScheduleInv
<1>4. ~IsThrottled => Ticketed(Len(incoming'), runLoop')
  BY <1>1, OtherTaskAdded, NoTickets DEF ScheduleInv
<1> QED
  BY <1>2, <1>3, <1>4 DEF ScheduleInv

\* dispatchMessages and didClose run without touching the queue.
LEMMA OtherTaskRuns ==
    ASSUME TypeOK, ScheduleInv, runLoop # <<>>, Head(runLoop) # "incoming", runLoop' = Tail(runLoop),
           UNCHANGED <<incoming, timer>>,
           toDispatch' # <<>> => toDispatch # <<>> /\ Head(runLoop) # "dispatchMessages"
    PROVE  ScheduleInv'
<1>1. runLoop \in Seq(Tasks) /\ Len(incoming) \in Nat
  BY DEF TypeOK
<1>2. toDispatch' # <<>> => "dispatchMessages" \in Range(runLoop')
  BY <1>1, TaskRanges DEF ScheduleInv
<1>3. IsThrottled => (incoming' # <<>> => "incoming" \in Range(runLoop') \/ timer')
  BY <1>1, TaskRanges DEF ScheduleInv
<1>4. ~IsThrottled => Ticketed(Len(incoming'), runLoop')
  BY <1>1, TaskTaken DEF ScheduleInv
<1> QED
  BY <1>2, <1>3, <1>4 DEF ScheduleInv

\* enqueueIncomingMessage schedules what it queues, with the throttler or without,
\* and empties a queue that is full.
LEMMA EnqueueSchedules ==
    ASSUME TypeOK, ScheduleInv, NEW m \in Message, Enqueue(m), UNCHANGED <<toDispatch, timer>>
    PROVE  ScheduleInv'
<1>1. runLoop \in Seq(Tasks) /\ Len(incoming) \in Nat /\ Len(Append(incoming, m)) = Len(incoming) + 1
  BY DEF TypeOK
<1>2. CASE UNCHANGED <<incoming, runLoop>>
  BY <1>2, ScheduleStays
<1>3. CASE IsThrottled /\ incoming' = <<>> /\ UNCHANGED runLoop
  BY <1>3, Zenon DEF ScheduleInv
<1>4. CASE IsThrottled /\ incoming # <<>> /\ UNCHANGED runLoop
  BY <1>4, Zenon DEF ScheduleInv
<1>5. CASE incoming' = Append(incoming, m) /\ runLoop' = Append(runLoop, "incoming")
  <2>1. "incoming" \in Tasks
    BY DEF Tasks
  <2>2. toDispatch' # <<>> => "dispatchMessages" \in Range(runLoop')
    BY <1>1, <1>5, <2>1, TaskRanges DEF ScheduleInv
  <2>3. "incoming" \in Range(runLoop')
    BY <1>1, <1>5, <2>1, LastTask
  <2>4. ~IsThrottled => Ticketed(Len(incoming'), runLoop')
    BY <1>1, <1>5, TicketAdded DEF ScheduleInv
  <2> QED
    BY <2>2, <2>3, <2>4 DEF ScheduleInv
<1> QED
  BY <1>2, <1>3, <1>4, <1>5, Zenon DEF Enqueue

\* Messages are taken, and the rest is scheduled: by a function that leaves the
\* other functions of the run loop where they are.
LEMMA DispatchReschedules ==
    ASSUME TypeOK, TypeOK', ScheduleInv, NEW tasks \in Seq(Tasks), NEW started,
           DispatchIncoming(tasks, started),
           "dispatchMessages" \in Range(runLoop) => "dispatchMessages" \in Range(tasks),
           \A n \in Nat : Ticketed(n + 1, runLoop) => Ticketed(n, tasks)
    PROVE  ScheduleInv'
<1>1. "incoming" \in Tasks /\ Len(incoming) \in Nat /\ Len(incoming') \in Nat
  BY DEF Tasks, TypeOK
<1>2. toDispatch' # <<>> => "dispatchMessages" \in Range(runLoop')
  <2>1. toDispatch' = toDispatch /\ runLoop' \in {tasks, Append(tasks, "incoming")}
    BY Zenon DEF DispatchIncoming, Rescheduled
  <2>2. toDispatch # <<>> => "dispatchMessages" \in Range(tasks)
    BY Zenon DEF ScheduleInv
  <2> QED
    BY <1>1, <2>1, <2>2, TaskRanges, Zenon
<1>3. /\ incoming = <<>> => incoming' = <<>>
      /\ incoming # <<>> => Len(incoming') = Len(incoming) - 1
  <2>1. incoming \in Seq(Message) /\ incoming' = RemoveFirstOf(incoming)
    BY Zenon DEF DispatchIncoming, TypeOK
  <2> QED
    BY <2>1, TakingFirst, Zenon
<1>4. CASE IsThrottled
  <2>1. ASSUME incoming' # <<>>
        PROVE  Len(incoming) > 1
    <3>1. Len(incoming') > 0
      BY <2>1, EmptySequence DEF TypeOK
    <3> QED
      BY <1>1, <1>3, <2>1, <3>1
  <2>2. ASSUME Len(incoming) > 1
        PROVE  "incoming" \in Range(runLoop') \/ timer'
    <3>1. runLoop' = Append(tasks, "incoming") \/ timer' = TRUE
      BY <1>4, <2>2, Zenon DEF DispatchIncoming, Rescheduled
    <3> QED
      BY <1>1, <3>1, LastTask, Zenon
  <2> QED
    BY <1>2, <1>4, <2>1, <2>2, Zenon DEF ScheduleInv
<1>5. CASE ~IsThrottled
  <2>1. runLoop' = tasks
    BY <1>5, Zenon DEF DispatchIncoming
  <2>2. CASE incoming = <<>>
    <3>1. Len(incoming') = 0 /\ Ticketed(0, runLoop')
      BY <1>3, <2>2, NoTickets
    <3> QED
      BY <1>2, <1>5, <3>1, Zenon DEF ScheduleInv
  <2>3. CASE incoming # <<>>
    <3>1. Len(incoming') + 1 = Len(incoming)
      BY <1>1, <1>3, <2>3
    <3>2. Ticketed(Len(incoming'), tasks)
      BY <1>1, <1>5, <3>1, Zenon DEF ScheduleInv
    <3> QED
      BY <1>2, <1>5, <2>1, <3>2, Zenon DEF ScheduleInv
  <2> QED
    BY <2>2, <2>3
<1> QED
  BY <1>4, <1>5

\* Every critical section keeps the queued messages scheduled.
LEMMA ScheduleStep ==
    ASSUME WaitInv, ScheduleInv, [Next]_vars
    PROVE  ScheduleInv'
<1>0. TypeOK /\ TypeOK'
  BY TypeStep DEF WaitInv
<1>1. CASE WaitFindsQueuedMessage
  <2>1. PICK i \in Positions("target") : incoming' = Without(incoming, i)
    BY <1>1 DEF WaitFindsQueuedMessage
  <2>2. incoming \in Seq(Message) /\ i \in DOMAIN incoming
    BY <1>0, Zenon DEF TypeOK, Positions
  <2>3. i \in 1..Len(incoming) /\ incoming # <<>>
    BY <2>2
  <2>4. Len(incoming') = Len(incoming) - 1
    BY <2>1, <2>2, <2>3, TakingOne, Zenon
  <2> QED
    BY <1>0, <1>1, <2>3, <2>4, QueueShrinks DEF WaitFindsQueuedMessage
<1>2. ASSUME NEW options \in SUBSET WaitForOption, WaitStarts(options)
      PROVE  ScheduleInv'
  BY <1>0, <1>2, ScheduleStays DEF WaitStarts, queues
<1>3. CASE WaitDispatchesMessages
  BY <1>0, <1>3, ScheduleStays DEF WaitDispatchesMessages
<1>4. CASE WaitReturnsMessage \/ WaitBlocks \/ WaitTimesOut \/ WaitLoops \/ WaitGivesUp
  BY <1>0, <1>4, ScheduleStays
  DEF WaitReturnsMessage, WaitBlocks, WaitTimesOut, WaitLoops, WaitGivesUp, queues
<1>5. CASE RunDispatchMessages
  BY <1>0, <1>5, OtherTaskRuns DEF RunDispatchMessages, RunLoopTakes
<1>6. CASE RunDispatchIncoming
  <2>1. /\ runLoop \in Seq(Tasks) /\ runLoop # <<>> /\ Head(runLoop) = "incoming"
        /\ DispatchIncoming(Tail(runLoop), timer)
    BY <1>0, <1>6, Zenon DEF TypeOK, RunDispatchIncoming, RunLoopTakes
  <2>2. Tail(runLoop) \in Seq(Tasks)
    BY <2>1
  <2>3. "dispatchMessages" \in Range(runLoop) => "dispatchMessages" \in Range(Tail(runLoop))
    BY <2>1, TaskRanges
  <2>4. \A n \in Nat : Ticketed(n + 1, runLoop) => Ticketed(n, Tail(runLoop))
    BY <2>1, TaskTaken, Zenon
  <2> QED
    BY <1>0, <2>1, <2>2, <2>3, <2>4, DispatchReschedules, Zenon
<1>14. CASE TimerFires
  <2>1. runLoop \in Seq(Tasks) /\ DispatchIncoming(runLoop, FALSE)
    BY <1>0, <1>14, Zenon DEF TypeOK, TimerFires
  <2>2. \A n \in Nat : Ticketed(n + 1, runLoop) => Ticketed(n, runLoop)
    BY <2>1, FewerTickets, Zenon
  <2> QED
    BY <1>0, <2>1, <2>2, DispatchReschedules, Zenon
<1>7. CASE ContinueDispatchIncoming
  <2>1. CASE incoming = <<>>
    BY <1>0, <1>7, <2>1, ScheduleStays DEF ContinueDispatchIncoming, RemoveFirstOf
  <2>2. CASE incoming # <<>>
    <3>1. Len(incoming') = Len(incoming) - 1
      BY <1>0, <1>7, <2>2, TakingFirst DEF ContinueDispatchIncoming, TypeOK
    <3> QED
      BY <1>0, <1>7, <2>2, <3>1, QueueShrinks DEF ContinueDispatchIncoming
  <2> QED
    BY <2>1, <2>2
<1>8. CASE RunDidClose
  BY <1>0, <1>8, OtherTaskRuns DEF RunDidClose, RunLoopTakes
<1>9. CASE DeliverToWaiter \/ CloseSetsFlags
  BY <1>0, <1>9, ScheduleStays DEF DeliverToWaiter, CloseSetsFlags, queues
<1>10. CASE DeliverToSyncMessageState
  <2>0. PICK m \in Message, ordered \in BOOLEAN : ProcessWhileWaiting(m, ordered) /\ UNCHANGED timer
    BY <1>10, Zenon DEF DeliverToSyncMessageState
  <2>1. incoming' \in {incoming, <<>>}
    BY <2>0, Zenon DEF ProcessWhileWaiting
  <2>2. CASE "dispatchMessages" \in Range(runLoop)
    <3>1. UNCHANGED runLoop
      BY <2>0, <2>2, Zenon DEF ProcessWhileWaiting
    <3>2. ~IsThrottled => Ticketed(Len(incoming'), runLoop)
      BY <2>1, NoTickets DEF ScheduleInv
    <3> QED
      BY <2>0, <2>1, <2>2, <3>1, <3>2 DEF ScheduleInv
  <2>3. CASE ~("dispatchMessages" \in Range(runLoop))
    <3>1. runLoop' = Append(runLoop, "dispatchMessages")
      BY <2>0, <2>3, Zenon DEF ProcessWhileWaiting
    <3> QED
      BY <1>0, <2>0, <2>1, <3>1, TaskAppended DEF Tasks
  <2> QED
    BY <2>2, <2>3
<1>11. CASE DeliverInterrupting \/ DeliverToQueue
  BY <1>0, <1>11, EnqueueSchedules DEF DeliverInterrupting, DeliverToQueue
<1>12. CASE CloseNotifies
  BY <1>0, <1>12, TaskAppended DEF CloseNotifies, Tasks
<1>13. CASE UNCHANGED vars
  BY <1>0, <1>13, ScheduleStays DEF vars
<1> QED
  BY <1>1, <1>2, <1>3, <1>4, <1>5, <1>6, <1>7, <1>8, <1>9, <1>10, <1>11, <1>12, <1>13,
     <1>14
  DEF Next, MainThread, WorkQueue

\* No queued message is left without a function on the run loop, or a timer, that
\* will dispatch it, although waitForMessage takes messages out of the queue, an
\* ordered sync message empties it and dispatchIncomingMessages stops at a batch (enqueueIncomingMessage,
\* dispatchIncomingMessages, SyncMessageState::processIncomingMessage).
THEOREM QueuedMessagesHaveTasks == Spec => []QueuedMessagesAreScheduled
<1>1. Init => ScheduleInv
  BY NoTickets DEF Init, ScheduleInv
<1>2. WaitInv /\ ScheduleInv => QueuedMessagesAreScheduled
  <2> SUFFICES ASSUME WaitInv, ScheduleInv, ~IsThrottled, incoming # <<>>
               PROVE  "incoming" \in Range(runLoop)
    BY Zenon DEF ScheduleInv, QueuedMessagesAreScheduled
  <2>1. 1 \in 1..Len(incoming) /\ runLoop \in Seq(Tasks)
    BY DEF WaitInv, TypeOK
  <2>2. PICK f \in [1..Len(incoming) -> 1..Len(runLoop)] :
            \A i \in 1..Len(incoming) : runLoop[f[i]] = "incoming"
    BY DEF ScheduleInv, Ticketed
  <2>3. f[1] \in DOMAIN runLoop /\ runLoop[f[1]] = "incoming"
    BY <2>1, <2>2
  <2> QED
    BY <2>3 DEF Range
<1> QED
  BY <1>1, <1>2, WaitInit, WaitStep, ScheduleStep, PTL DEF Spec
=============================================================================
