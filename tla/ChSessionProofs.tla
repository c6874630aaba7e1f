--------------------------- MODULE ChSessionProofs ---------------------------
(***************************************************************************)
(* ChSession with clients of any revision, any number of requests on the   *)
(* way and queues of any length: the two sides stay in step.               *)
(***************************************************************************)
EXTENDS Replies, TLAPS

Asks == {"Query", "Ping"}

\* What may come in answer to a request if the revision does not matter.
Fits(request) ==
  IF request = "Ping" THEN {"Pong"} ELSE {"Data", "Log", "EndOfStream", "Exception"}

(***************************************************************************)
(* Which request each packet of a queue is about, as a number: w[i] is the *)
(* request when packet i is reached, and the packets of the kind in steps  *)
(* lead on to the next.                                                    *)
(***************************************************************************)
Walk(ps, steps, w) ==
  /\ \A i, j \in 1 .. Len(ps) + 1 : i <= j => w[i] <= w[j]
  /\ \A i \in 1 .. Len(ps) : w[i + 1] = IF ps[i].code \in steps THEN w[i] + 1 ELSE w[i]

\* The packets ps answer the requests of q in order, up to the n-th, which is the
\* next to be answered.
Answering(q, ps, n) ==
  \E w \in [1 .. Len(ps) + 1 -> Nat \ {0}] :
    /\ Walk(ps, LastOnes, w)
    /\ w[1] = 1 /\ w[Len(ps) + 1] = n
    /\ \A i \in 1 .. Len(ps) : w[i] <= Len(q) /\ ps[i].code \in Fits(q[w[i]])

\* The requests in ps are those of q from the m-th on.
Awaiting(q, ps, m) ==
  \E w \in [1 .. Len(ps) + 1 -> Nat \ {0}] :
    /\ Walk(ps, Asks, w)
    /\ w[1] = m /\ w[Len(ps) + 1] = Len(q) + 1
    /\ \A i \in 1 .. Len(ps) : ps[i].code \in Asks => q[w[i]] = ps[i].code

-----------------------------------------------------------------------------
\* The client reads a packet.
LEMMA AnswerRead ==
  ASSUME NEW P, NEW ps \in Seq(P), ps # <<>>, NEW q \in Seq(Asks), NEW n, Answering(q, ps, n)
  PROVE  /\ q # <<>> /\ Head(ps).code \in Fits(Head(q))
         /\ Head(ps).code \notin LastOnes => Answering(q, Tail(ps), n)
         /\ Head(ps).code \in LastOnes => n >= 2 /\ n \in Nat /\ Answering(Tail(q), Tail(ps), n - 1)
<1>1. PICK w \in [1 .. Len(ps) + 1 -> Nat \ {0}] :
        /\ Walk(ps, LastOnes, w)
        /\ w[1] = 1 /\ w[Len(ps) + 1] = n
        /\ \A i \in 1 .. Len(ps) : w[i] <= Len(q) /\ ps[i].code \in Fits(q[w[i]])
  BY DEF Answering
<1>2. Len(ps) \in Nat /\ Len(ps) >= 1 /\ Len(q) \in Nat /\ Head(ps) = ps[1] /\ Len(Tail(ps)) = Len(ps) - 1
      /\ \A i \in 1 .. Len(ps) - 1 : Tail(ps)[i] = ps[i + 1]
  OBVIOUS
<1>3. q # <<>> /\ Len(q) >= 1 /\ Head(q) = q[1] /\ Head(ps).code \in Fits(Head(q))
  BY <1>1, <1>2
<1>4. w[2] = IF Head(ps).code \in LastOnes THEN 2 ELSE 1
  BY <1>1, <1>2 DEF Walk
<1>5. \A i \in 2 .. Len(ps) + 1 : w[2] <= w[i]
  BY <1>1, <1>2 DEF Walk
<1>6. CASE Head(ps).code \notin LastOnes
  <2> DEFINE v == [i \in 1 .. Len(Tail(ps)) + 1 |-> w[i + 1]]
  <2>1. v \in [1 .. Len(Tail(ps)) + 1 -> Nat \ {0}]
    BY <1>1, <1>2
  <2>2. Walk(Tail(ps), LastOnes, v)
    BY <1>1, <1>2 DEF Walk
  <2>3. v[1] = 1 /\ v[Len(Tail(ps)) + 1] = n
    BY <1>1, <1>2, <1>4, <1>6
  <2>4. \A i \in 1 .. Len(Tail(ps)) : v[i] <= Len(q) /\ Tail(ps)[i].code \in Fits(q[v[i]])
    BY <1>1, <1>2
  <2>5. Answering(q, Tail(ps), n)
    BY <2>1, <2>2, <2>3, <2>4 DEF Answering
  <2> QED BY <1>3, <1>6, <2>5
<1>7. CASE Head(ps).code \in LastOnes
  <2> DEFINE k == Len(ps) - 1
             v == [i \in 1 .. Len(Tail(ps)) + 1 |-> w[i + 1] - 1]
  <2>0. k \in Nat /\ Len(Tail(ps)) = k /\ Len(ps) = k + 1
    BY <1>2
  <2>1. \A i \in 1 .. k + 1 : w[i + 1] \in Nat /\ w[i + 1] >= 2 /\ v[i] = w[i + 1] - 1
    <3> SUFFICES ASSUME NEW i \in 1 .. k + 1
                 PROVE  w[i + 1] \in Nat /\ w[i + 1] >= 2 /\ v[i] = w[i + 1] - 1
      OBVIOUS
    <3>1. i + 1 \in 2 .. Len(ps) + 1 /\ i + 1 \in 1 .. Len(ps) + 1 /\ i \in 1 .. Len(Tail(ps)) + 1
      BY <2>0
    <3>2. w[i + 1] \in Nat /\ w[i + 1] >= 2
      BY <1>1, <1>4, <1>5, <1>7, <3>1
    <3> QED BY <3>1, <3>2
  <2>2. v \in [1 .. Len(Tail(ps)) + 1 -> Nat \ {0}]
    <3>1. \A i \in 1 .. k + 1 : w[i + 1] - 1 \in Nat \ {0}
      BY <2>1
    <3> HIDE DEF k
    <3> QED BY <2>0, <3>1
  <2> HIDE DEF v, k
  <2>3. Walk(Tail(ps), LastOnes, v)
    <3>1. ASSUME NEW i \in 1 .. k + 1, NEW j \in 1 .. k + 1, i <= j PROVE v[i] <= v[j]
      <4>1. i + 1 \in 1 .. Len(ps) + 1 /\ j + 1 \in 1 .. Len(ps) + 1 /\ i + 1 <= j + 1
        BY <2>0, <3>1
      <4>2. w[i + 1] <= w[j + 1]
        BY <1>1, <4>1 DEF Walk
      <4> QED BY <2>1, <4>2
    <3>2. ASSUME NEW i \in 1 .. k
          PROVE  v[i + 1] = IF Tail(ps)[i].code \in LastOnes THEN v[i] + 1 ELSE v[i]
      <4>1. i + 1 \in 1 .. Len(ps) /\ i \in 1 .. k + 1 /\ i + 1 \in 1 .. k + 1
        BY <2>0
      <4>2. w[(i + 1) + 1] = IF ps[i + 1].code \in LastOnes THEN w[i + 1] + 1 ELSE w[i + 1]
        BY <1>1, <4>1 DEF Walk
      <4>3. Tail(ps)[i] = ps[i + 1]
        BY <1>2, <2>0
      <4> QED BY <2>1, <4>1, <4>2, <4>3
    <3> QED BY <2>0, <3>1, <3>2 DEF Walk
  <2>4. v[1] = 1 /\ v[Len(Tail(ps)) + 1] = n - 1
    BY <1>1, <1>2, <1>4, <1>7, <2>0, <2>1
  <2>5. ASSUME NEW i \in 1 .. Len(Tail(ps))
        PROVE  v[i] <= Len(Tail(q)) /\ Tail(ps)[i].code \in Fits(Tail(q)[v[i]])
    <3>0. i \in 1 .. k + 1 /\ i + 1 \in 1 .. Len(ps) /\ Tail(ps)[i] = ps[i + 1]
      BY <1>2, <2>0
    <3>1. w[i + 1] \in Nat /\ w[i + 1] >= 2 /\ w[i + 1] <= Len(q)
          /\ Tail(ps)[i].code \in Fits(q[w[i + 1]])
      BY <1>1, <2>1, <3>0
    <3>2. Len(Tail(q)) = Len(q) - 1 /\ Tail(q)[w[i + 1] - 1] = q[w[i + 1]]
      BY <1>2, <1>3, <3>1
    <3> QED BY <1>2, <2>1, <3>0, <3>1, <3>2
  <2>6. Answering(Tail(q), Tail(ps), n - 1)
    BY <2>2, <2>3, <2>4, <2>5 DEF Answering
  <2>7. n \in Nat /\ n >= 2
    BY <1>1, <1>2, <1>4, <1>5, <1>7
  <2> QED BY <1>3, <1>7, <2>6, <2>7
<1> QED BY <1>6, <1>7

\* The server writes a complete answer to the next request.
LEMMA AnswerWritten ==
  ASSUME NEW P, NEW ps \in Seq(P), NEW q \in Seq(Asks), NEW n, Answering(q, ps, n),
         n <= Len(q),
         NEW more \in Seq(P), Len(more) >= 1,
         \A i \in 1 .. Len(more) : more[i].code \in Fits(q[n]),
         \A i \in 1 .. Len(more) : more[i].code \in LastOnes <=> i = Len(more)
  PROVE  n \in Nat /\ Answering(q, ps \o more, n + 1)
<1>1. PICK w \in [1 .. Len(ps) + 1 -> Nat \ {0}] :
        /\ Walk(ps, LastOnes, w)
        /\ w[1] = 1 /\ w[Len(ps) + 1] = n
        /\ \A i \in 1 .. Len(ps) : w[i] <= Len(q) /\ ps[i].code \in Fits(q[w[i]])
  BY DEF Answering
<1> DEFINE k == Len(ps)
           l == Len(more)
           s == ps \o more
           v == [i \in 1 .. k + l + 1 |-> IF i <= k + 1 THEN w[i] ELSE IF i = k + l + 1 THEN n + 1 ELSE n]
<1>2. k \in Nat /\ l \in Nat /\ l >= 1 /\ n \in Nat \ {0} /\ s \in Seq(P) /\ Len(s) = k + l
  BY <1>1
<1>3. \A i \in 1 .. k + l : s[i] = IF i <= k THEN ps[i] ELSE more[i - k]
  BY <1>2
<1>4. \A i \in 1 .. k + 1 : w[i] <= n
  BY <1>1, <1>2 DEF Walk
<1>a. \A i \in 1 .. k + 1 : w[i] \in Nat \ {0} /\ v[i] = w[i]
  <2> SUFFICES ASSUME NEW i \in 1 .. k + 1 PROVE w[i] \in Nat \ {0} /\ v[i] = w[i]
    OBVIOUS
  <2>1. i \in 1 .. k + l + 1 /\ i <= k + 1
    BY <1>2
  <2> QED BY <1>1, <2>1
<1>b. \A i \in k + 1 .. k + l : v[i] = n
  <2> SUFFICES ASSUME NEW i \in k + 1 .. k + l PROVE v[i] = n
    OBVIOUS
  <2>1. i \in 1 .. k + l + 1 /\ i # k + l + 1 /\ (i <= k + 1 => i = k + 1)
    BY <1>2
  <2> QED BY <1>1, <2>1
<1>c. v[k + l + 1] = n + 1
  BY <1>2
<1>5. v \in [1 .. Len(s) + 1 -> Nat \ {0}]
  <2>1. ASSUME NEW i \in 1 .. k + l + 1
        PROVE  (IF i <= k + 1 THEN w[i] ELSE IF i = k + l + 1 THEN n + 1 ELSE n) \in Nat \ {0}
    BY <1>1, <1>2
  <2>2. Len(s) + 1 = k + l + 1
    BY <1>2
  <2> HIDE DEF k, l, s
  <2> QED BY <2>1, <2>2
<1> HIDE DEF k, l, s, v
<1>6. Walk(s, LastOnes, v)
  <2>1. ASSUME NEW i \in 1 .. k + l + 1, NEW j \in 1 .. k + l + 1, i <= j PROVE v[i] <= v[j]
    <3>1. CASE j <= k + 1
      <4>1. i \in 1 .. k + 1 /\ j \in 1 .. k + 1
        BY <1>2, <2>1, <3>1
      <4>2. w[i] <= w[j]
        BY <1>1, <2>1, <4>1 DEF Walk, k
      <4> QED BY <1>a, <4>1, <4>2
    <3>2. CASE j > k + 1
      <4>1. v[j] = n \/ v[j] = n + 1
        <5>1. j \in k + 1 .. k + l \/ j = k + l + 1
          BY <1>2, <3>2
        <5> QED BY <1>b, <1>c, <5>1
      <4>2. v[i] <= n \/ (v[i] = n + 1 /\ i = k + l + 1)
        <5>1. CASE i <= k + 1
          <6>1. i \in 1 .. k + 1
            BY <1>2, <5>1
          <6> QED BY <1>4, <1>a, <6>1
        <5>2. CASE i > k + 1
          <6>1. i \in k + 1 .. k + l \/ i = k + l + 1
            BY <1>2, <5>2
          <6>2. n <= n
            BY <1>2
          <6> QED BY <1>b, <1>c, <6>1, <6>2
        <5> QED BY <1>2, <5>1, <5>2
      <4>3. i = k + l + 1 => j = k + l + 1
        BY <1>2, <2>1
      <4>4. v[i] \in Nat
        BY <1>2, <1>5
      <4> QED BY <1>2, <1>c, <4>1, <4>2, <4>3, <4>4
    <3> QED BY <1>2, <3>1, <3>2
  <2>2. ASSUME NEW i \in 1 .. k + l
        PROVE  v[i + 1] = IF s[i].code \in LastOnes THEN v[i] + 1 ELSE v[i]
    <3>1. CASE i <= k
      <4>1. i \in 1 .. k /\ i \in 1 .. k + 1 /\ i + 1 \in 1 .. k + 1 /\ s[i] = ps[i]
        BY <1>2, <1>3, <3>1
      <4>2. w[i + 1] = IF ps[i].code \in LastOnes THEN w[i] + 1 ELSE w[i]
        BY <1>1, <4>1 DEF Walk, k
      <4> QED BY <1>a, <4>1, <4>2
    <3>2. CASE i > k
      <4>1. s[i].code \in LastOnes <=> i = k + l
        <5>1. i - k \in 1 .. l /\ s[i] = more[i - k] /\ (i - k = l <=> i = k + l)
          BY <1>2, <1>3, <3>2
        <5> QED BY <5>1 DEF l
      <4>2. v[i] = n
        BY <1>2, <1>b, <3>2
      <4>3. v[i + 1] = IF i = k + l THEN n + 1 ELSE n
        BY <1>2, <1>b, <1>c, <3>2
      <4> QED BY <4>1, <4>2, <4>3
    <3> QED BY <1>2, <3>1, <3>2
  <2> QED BY <1>2, <2>1, <2>2 DEF Walk
<1>7. v[1] = 1 /\ v[Len(s) + 1] = n + 1
  BY <1>1, <1>2, <1>a, <1>c
<1>8. ASSUME NEW i \in 1 .. Len(s) PROVE v[i] <= Len(q) /\ s[i].code \in Fits(q[v[i]])
  <2>1. CASE i <= k
    <3>1. i \in 1 .. k /\ s[i] = ps[i] /\ v[i] = w[i]
      BY <1>2, <1>3, <1>a, <2>1
    <3> QED BY <1>1, <3>1 DEF k
  <2>2. CASE i > k
    <3>1. v[i] = n
      BY <1>2, <1>b, <2>2
    <3>2. i - k \in 1 .. l /\ s[i] = more[i - k]
      BY <1>2, <1>3, <2>2
    <3>3. s[i].code \in Fits(q[n])
      BY <3>2 DEF l
    <3> QED BY <3>1, <3>3
  <2> QED BY <1>2, <2>1, <2>2
<1>9. Answering(q, s, n + 1)
  BY <1>5, <1>6, <1>7, <1>8 DEF Answering
<1> QED BY <1>2, <1>9 DEF s

\* The client sends another request: the answers on the way stay where they are.
LEMMA AnswersKept ==
  ASSUME NEW P, NEW ps \in Seq(P), NEW q \in Seq(Asks), NEW n, Answering(q, ps, n), NEW r \in Asks
  PROVE  Answering(Append(q, r), ps, n)
<1>1. PICK w \in [1 .. Len(ps) + 1 -> Nat \ {0}] :
        /\ Walk(ps, LastOnes, w)
        /\ w[1] = 1 /\ w[Len(ps) + 1] = n
        /\ \A i \in 1 .. Len(ps) : w[i] <= Len(q) /\ ps[i].code \in Fits(q[w[i]])
  BY DEF Answering
<1>2. \A i \in 1 .. Len(ps) : w[i] <= Len(Append(q, r)) /\ ps[i].code \in Fits(Append(q, r)[w[i]])
  BY <1>1
<1> QED BY <1>1, <1>2 DEF Answering

\* The server takes a packet.
LEMMA AwaitRead ==
  ASSUME NEW P, NEW ps \in Seq(P), ps # <<>>, NEW q \in Seq(Asks), NEW m, Awaiting(q, ps, m)
  PROVE  /\ m \in Nat \ {0}
         /\ Head(ps).code \notin Asks => Awaiting(q, Tail(ps), m)
         /\ Head(ps).code \in Asks => m <= Len(q) /\ q[m] = Head(ps).code /\ Awaiting(q, Tail(ps), m + 1)
<1>1. PICK w \in [1 .. Len(ps) + 1 -> Nat \ {0}] :
        /\ Walk(ps, Asks, w)
        /\ w[1] = m /\ w[Len(ps) + 1] = Len(q) + 1
        /\ \A i \in 1 .. Len(ps) : ps[i].code \in Asks => q[w[i]] = ps[i].code
  BY DEF Awaiting
<1>2. Len(ps) \in Nat /\ Len(ps) >= 1 /\ Len(q) \in Nat /\ Head(ps) = ps[1] /\ Len(Tail(ps)) = Len(ps) - 1
      /\ \A i \in 1 .. Len(ps) - 1 : Tail(ps)[i] = ps[i + 1]
  OBVIOUS
<1>3. m \in Nat \ {0}
  BY <1>1, <1>2
<1>4. w[2] = IF Head(ps).code \in Asks THEN m + 1 ELSE m
  BY <1>1, <1>2 DEF Walk
<1>5. w[2] <= Len(q) + 1
  BY <1>1, <1>2 DEF Walk
<1> DEFINE v == [i \in 1 .. Len(Tail(ps)) + 1 |-> w[i + 1]]
<1>6. v \in [1 .. Len(Tail(ps)) + 1 -> Nat \ {0}]
  BY <1>1, <1>2
<1>7. Walk(Tail(ps), Asks, v)
  BY <1>1, <1>2, SMTT(60) DEF Walk
<1>8. v[1] = w[2] /\ v[Len(Tail(ps)) + 1] = Len(q) + 1
  BY <1>1, <1>2
<1>9. \A i \in 1 .. Len(Tail(ps)) : Tail(ps)[i].code \in Asks => q[v[i]] = Tail(ps)[i].code
  BY <1>1, <1>2
<1>10. Awaiting(q, Tail(ps), w[2])
  BY <1>6, <1>7, <1>8, <1>9 DEF Awaiting
<1> QED BY <1>1, <1>2, <1>3, <1>4, <1>5, <1>10

\* The client's oldest request is answered.
LEMMA AwaitAnswered ==
  ASSUME NEW P, NEW ps \in Seq(P), NEW q \in Seq(Asks), q # <<>>, NEW m, m >= 2, Awaiting(q, ps, m)
  PROVE  Awaiting(Tail(q), ps, m - 1)
<1>1. PICK w \in [1 .. Len(ps) + 1 -> Nat \ {0}] :
        /\ Walk(ps, Asks, w)
        /\ w[1] = m /\ w[Len(ps) + 1] = Len(q) + 1
        /\ \A i \in 1 .. Len(ps) : ps[i].code \in Asks => q[w[i]] = ps[i].code
  BY DEF Awaiting
<1>2. Len(ps) \in Nat /\ Len(q) \in Nat /\ Len(q) >= 1 /\ Len(Tail(q)) = Len(q) - 1
      /\ \A i \in 1 .. Len(q) - 1 : Tail(q)[i] = q[i + 1]
  OBVIOUS
<1>3. \A i \in 1 .. Len(ps) + 1 : w[i] \in Nat /\ w[i] >= 2
  BY <1>1, <1>2 DEF Walk
<1> DEFINE v == [i \in 1 .. Len(ps) + 1 |-> w[i] - 1]
<1>4. v \in [1 .. Len(ps) + 1 -> Nat \ {0}]
  BY <1>2, <1>3
<1>5. Walk(ps, Asks, v)
  BY <1>1, <1>2, <1>3 DEF Walk
<1>6. v[1] = m - 1 /\ v[Len(ps) + 1] = Len(Tail(q)) + 1
  BY <1>1, <1>2
<1>7. ASSUME NEW i \in 1 .. Len(ps), ps[i].code \in Asks PROVE Tail(q)[v[i]] = ps[i].code
  <2>1. w[i + 1] = w[i] + 1 /\ w[i + 1] <= Len(q) + 1
    BY <1>1, <1>2, <1>7 DEF Walk
  <2>2. w[i] - 1 \in 1 .. Len(q) - 1
    BY <1>2, <1>3, <2>1
  <2> QED BY <1>1, <1>2, <1>3, <1>7, <2>2
<1> QED BY <1>4, <1>5, <1>6, <1>7 DEF Awaiting

\* The client sends a packet.
LEMMA AwaitSent ==
  ASSUME NEW P, NEW ps \in Seq(P), NEW q \in Seq(Asks), NEW m, Awaiting(q, ps, m),
         NEW p \in P
  PROVE  /\ p.code \notin Asks => Awaiting(q, Append(ps, p), m)
         /\ p.code \in Asks => Awaiting(Append(q, p.code), Append(ps, p), m)
<1>1. PICK w \in [1 .. Len(ps) + 1 -> Nat \ {0}] :
        /\ Walk(ps, Asks, w)
        /\ w[1] = m /\ w[Len(ps) + 1] = Len(q) + 1
        /\ \A i \in 1 .. Len(ps) : ps[i].code \in Asks => q[w[i]] = ps[i].code
  BY DEF Awaiting
<1> DEFINE k == Len(ps)
           s == Append(ps, p)
           r == IF p.code \in Asks THEN Append(q, p.code) ELSE q
           v == [i \in 1 .. k + 2 |-> IF i <= k + 1 THEN w[i] ELSE Len(r) + 1]
<1>2. k \in Nat /\ Len(s) = k + 1 /\ \A i \in 1 .. k + 1 : s[i] = IF i <= k THEN ps[i] ELSE p
  OBVIOUS
<1>3. /\ Len(q) \in Nat /\ Len(r) = (IF p.code \in Asks THEN Len(q) + 1 ELSE Len(q))
      /\ \A i \in 1 .. Len(q) : r[i] = q[i]
      /\ p.code \in Asks => r[Len(q) + 1] = p.code
  OBVIOUS
<1>4. \A i \in 1 .. k + 1 : w[i] <= Len(q) + 1
  BY <1>1, <1>2 DEF Walk
<1>a. \A i \in 1 .. k + 1 : w[i] \in Nat \ {0} /\ v[i] = w[i]
  BY <1>1, <1>2
<1>b. v[k + 2] = Len(r) + 1
  BY <1>2
<1>5. v \in [1 .. Len(s) + 1 -> Nat \ {0}]
  BY <1>1, <1>2, <1>3
<1> HIDE DEF k, s, r, v
<1>6. Walk(s, Asks, v)
  <2>1. ASSUME NEW i \in 1 .. k + 2, NEW j \in 1 .. k + 2, i <= j PROVE v[i] <= v[j]
    <3>1. CASE j <= k + 1
      <4>1. i \in 1 .. k + 1 /\ j \in 1 .. k + 1
        BY <1>2, <2>1, <3>1
      <4>2. w[i] <= w[j]
        BY <1>1, <2>1, <4>1 DEF Walk, k
      <4> QED BY <1>a, <4>1, <4>2
    <3>2. CASE j = k + 2
      <4>1. CASE i <= k + 1
        BY <1>2, <1>3, <1>4, <1>a, <1>b, <3>2, <4>1
      <4>2. CASE i = k + 2
        BY <1>3, <1>b, <3>2, <4>2
      <4> QED BY <1>2, <4>1, <4>2
    <3> QED BY <1>2, <3>1, <3>2
  <2>2. ASSUME NEW i \in 1 .. k + 1
        PROVE  v[i + 1] = IF s[i].code \in Asks THEN v[i] + 1 ELSE v[i]
    <3>1. CASE i <= k
      <4>1. i \in 1 .. k /\ i \in 1 .. k + 1 /\ i + 1 \in 1 .. k + 1 /\ s[i] = ps[i]
        BY <1>2, <3>1
      <4>2. w[i + 1] = IF ps[i].code \in Asks THEN w[i] + 1 ELSE w[i]
        BY <1>1, <4>1 DEF Walk, k
      <4> QED BY <1>a, <4>1, <4>2
    <3>2. CASE i = k + 1
      <4>1. v[i] = Len(q) + 1 /\ v[i + 1] = Len(r) + 1 /\ s[i] = p
        BY <1>1, <1>2, <1>a, <1>b, <3>2 DEF k
      <4> QED BY <1>3, <4>1
    <3> QED BY <1>2, <3>1, <3>2
  <2> QED BY <1>2, <2>1, <2>2 DEF Walk
<1>7. v[1] = m /\ v[Len(s) + 1] = Len(r) + 1
  BY <1>1, <1>2, <1>a, <1>b
<1>8. ASSUME NEW i \in 1 .. Len(s), s[i].code \in Asks PROVE r[v[i]] = s[i].code
  <2>1. CASE i <= k
    <3>1. i \in 1 .. k /\ i + 1 \in 1 .. k + 1 /\ v[i] = w[i] /\ s[i] = ps[i] /\ w[i] \in Nat \ {0}
      BY <1>2, <1>a, <2>1
    <3>2. w[i + 1] = w[i] + 1 /\ q[w[i]] = ps[i].code
      BY <1>1, <1>8, <3>1 DEF Walk, k
    <3>3. w[i] \in 1 .. Len(q)
      BY <1>3, <1>4, <3>1, <3>2
    <3> QED BY <1>3, <3>1, <3>2, <3>3
  <2>2. CASE i = k + 1
    <3>1. v[i] = Len(q) + 1 /\ s[i] = p
      BY <1>1, <1>2, <1>a, <2>2 DEF k
    <3> QED BY <1>3, <1>8, <3>1
  <2> QED BY <1>2, <2>1, <2>2
<1>9. Awaiting(r, s, m)
  BY <1>5, <1>6, <1>7, <1>8 DEF Awaiting
<1> QED BY <1>9 DEF r, s

-----------------------------------------------------------------------------
\* What may be on the way: packets of the revision both sides speak, reports only
\* if it has them.
Codes ==
  Requests \cup LastOnes \cup {"Hello", "quota", "ServerHello"}
    \cup (IF Spoken >= ServerLogs THEN {"Log"} ELSE {})
Packets == {Packet(code, Spoken) : code \in Codes}

\* The states of handleConn in which it reads packets of the revision.
Talking == {"addendum", "ready", "drain"}

QueuesType ==
  /\ revision \in Nat \ {0}
  /\ in \in Seq(Packets) /\ out \in Seq(Packets) /\ owed \in Seq(Asks)
  /\ chServer \in Talking \cup {"hello", "over"}
  /\ chClient \in {"hello", "ready", "query", "gone"}

\* Until the server has answered the hello nothing else is on the way, and until
\* the client has read that answer nothing but it.
HelloFirst ==
  /\ chServer = "hello" => Len(in) = 1 /\ out = <<>> /\ chClient \in {"hello", "gone"}
  /\ chClient = "hello" =>
       /\ owed = <<>>
       /\ chServer # "hello" => in = <<>> /\ chServer # "drain"
       /\ chServer = "over" => out = <<>>
       /\ chServer \in {"addendum", "ready"} =>
            /\ out = <<Packet("ServerHello", Spoken)>>
            /\ chServer = "addendum" <=> Spoken >= AddendumRevision

\* The addendum is the first thing on the way exactly while the server waits for it.
AddendumFirst ==
  /\ chServer \in Talking =>
       /\ version = Spoken
       /\ \A i \in 1 .. Len(in) : in[i].code = "quota" <=> chServer = "addendum" /\ i = 1
  /\ chServer = "addendum" /\ chClient \in {"ready", "query"} => in # <<>>

\* The request being drained is the next to be answered; the ones the server has
\* not read yet follow it.
InOrder ==
  chClient \in {"ready", "query"} =>
    \E n \in Nat :
      /\ Answering(owed, out, n)
      /\ chServer = "drain" => n <= Len(owed) /\ owed[n] = "Query"
      /\ chServer \in Talking => Awaiting(owed, in, IF chServer = "drain" THEN n + 1 ELSE n)

StepInv == QueuesType /\ InStep /\ HelloFirst /\ AddendumFirst /\ InOrder

LEMMA PacketCode ==
  /\ \A code, v : Packet(code, v).code = code
  /\ \A code : code \in {"Hello", "Other"} => Packet(code, 0) = Packet(code, Spoken)
BY DEF Packet

LEMMA PacketShape ==
  ASSUME NEW p \in Packets
  PROVE  p.code \in Codes /\ p = Packet(p.code, Spoken)
BY PacketCode DEF Packets

LEMMA EmptyQueues ==
  /\ Answering(<<>>, <<>>, 1)
  /\ Awaiting(<<>>, <<>>, 1)
  /\ \A p : p.code \notin Asks => Awaiting(<<>>, <<p>>, 1)
<1>1. Answering(<<>>, <<>>, 1) /\ Awaiting(<<>>, <<>>, 1)
  <2> DEFINE w == [i \in 1 .. 1 |-> 1]
  <2>1. w \in [1 .. Len(<<>>) + 1 -> Nat \ {0}] /\ w[1] = 1 /\ Len(<<>>) = 0
    OBVIOUS
  <2>2. Walk(<<>>, LastOnes, w) /\ Walk(<<>>, Asks, w)
    BY <2>1 DEF Walk
  <2> QED BY <2>1, <2>2 DEF Answering, Awaiting
<1>2. ASSUME NEW p, p.code \notin Asks PROVE Awaiting(<<>>, <<p>>, 1)
  <2> DEFINE w == [i \in 1 .. 2 |-> 1]
  <2>1. w \in [1 .. Len(<<p>>) + 1 -> Nat \ {0}] /\ w[1] = 1 /\ w[2] = 1 /\ Len(<<p>>) = 1 /\ Len(<<>>) = 0
    OBVIOUS
  <2>2. Walk(<<p>>, Asks, w)
    BY <1>2, <2>1 DEF Walk
  <2> QED BY <1>2, <2>1, <2>2 DEF Awaiting
<1> QED BY <1>1, <1>2

LEMMA SameRevision ==
  ASSUME revision' = revision
  PROVE  Spoken' = Spoken /\ Packets' = Packets
BY DEF Spoken, Codes, Packets

LEMMA SpokenCapped ==
  ASSUME revision \in Nat \ {0}
  PROVE  Capped(revision) = Spoken /\ Spoken \in Nat
BY RevisionAssumption DEF Capped, Spoken

\* What the server leaves alone.
ServerKeeps == UNCHANGED <<revision, chClient, asked, owed>>

\* Taking a packet leaves no addendum behind it.
LEMMA TakenPacket ==
  ASSUME StepInv, chServer \in Talking, in # <<>>
  PROVE  /\ Head(in) \in Packets /\ Tail(in) \in Seq(Packets)
         /\ chClient # "hello"
         /\ Head(in).code = "quota" <=> chServer = "addendum"
         /\ \A i \in 1 .. Len(Tail(in)) : Tail(in)[i].code # "quota"
<1>1. in \in Seq(Packets) /\ Head(in) = in[1] /\ Len(in) \in Nat /\ Len(in) >= 1 /\ Len(Tail(in)) = Len(in) - 1
      /\ \A i \in 1 .. Len(in) - 1 : Tail(in)[i] = in[i + 1]
  BY DEF StepInv, QueuesType
<1>2. Head(in) \in Packets /\ Tail(in) \in Seq(Packets)
  BY <1>1
<1>3. chClient # "hello"
  BY DEF StepInv, HelloFirst, Talking
<1>4. \A i \in 1 .. Len(in) : in[i].code = "quota" <=> chServer = "addendum" /\ i = 1
  BY DEF StepInv, AddendumFirst
<1>5. Head(in).code = "quota" <=> chServer = "addendum"
  BY <1>1, <1>4
<1>6. \A i \in 1 .. Len(Tail(in)) : Tail(in)[i].code # "quota"
  BY <1>1, <1>4
<1> QED BY <1>2, <1>3, <1>5, <1>6

LEMMA HandshakeStep ==
  ASSUME StepInv, handshake, ServerKeeps
  PROVE  StepInv'
<1> USE DEF Talking
<1>1. /\ chServer = "hello" /\ in # <<>> /\ in' = Tail(in) /\ ~misread'
      /\ Len(in) = 1 /\ out = <<>> /\ chClient \in {"hello", "gone"}
  BY DEF handshake, Take, StepInv, HelloFirst
<1>2. in' = <<>> /\ Len(in') = 0
  BY <1>1 DEF StepInv, QueuesType
<1>3. Spoken' = Spoken /\ Packets' = Packets /\ revision' = revision /\ chClient' = chClient /\ owed' = owed
  BY SameRevision DEF ServerKeeps
<1>4. revision \in Nat \ {0} /\ owed \in Seq(Asks) /\ (chClient = "hello" => owed = <<>>)
  BY DEF StepInv, QueuesType, HelloFirst
<1>5. CASE chServer' = "over" /\ out' = out
  BY <1>1, <1>2, <1>3, <1>4, <1>5 DEF StepInv, QueuesType, InStep, HelloFirst, AddendumFirst, InOrder
<1>6. CASE /\ version' = Capped(revision)
           /\ out' = out \o <<Packet("ServerHello", version')>>
           /\ chServer' = IF version' >= AddendumRevision THEN "addendum" ELSE "ready"
  <2>1. version' = Spoken
    BY <1>4, <1>6, SpokenCapped
  <2>2. out' = <<Packet("ServerHello", Spoken)>>
    BY <1>1, <1>6, <2>1
  <2>3. Packet("ServerHello", Spoken) \in Packets
    BY DEF Packets, Codes
  <2>4. out' \in Seq(Packets)
    BY <2>2, <2>3
  <2>0. chServer' \in {"addendum", "ready"}
    BY <1>6
  <2>5. QueuesType'
    <3>1. in' \in Seq(Packets)
      BY <1>2
    <3> QED BY <1>1, <1>3, <1>4, <2>0, <2>4, <3>1 DEF QueuesType
  <2>6. HelloFirst'
    BY <1>1, <1>2, <1>3, <1>4, <1>6, <2>1, <2>2 DEF HelloFirst
  <2>7. AddendumFirst'
    <3>1. \A i \in 1 .. Len(in') : FALSE
      BY <1>2
    <3> QED BY <1>1, <1>3, <2>1, <3>1 DEF AddendumFirst
  <2>8. InOrder'
    BY <1>1, <1>3 DEF InOrder
  <2> QED BY <1>1, <2>5, <2>6, <2>7, <2>8 DEF StepInv, InStep
<1> QED BY <1>1, <1>5, <1>6 DEF handshake, Write

LEMMA AddendumStep ==
  ASSUME StepInv, readAddendum, ServerKeeps
  PROVE  StepInv'
<1> USE DEF Talking
<1>1. /\ chServer = "addendum" /\ in # <<>> /\ in' = Tail(in) /\ misread' = ~(Head(in).code = "quota")
      /\ chServer' = "ready" /\ out' = out /\ version' = version
  BY DEF readAddendum, Take
<1>2. Spoken' = Spoken /\ Packets' = Packets /\ revision' = revision /\ chClient' = chClient /\ owed' = owed
  BY SameRevision DEF ServerKeeps
<1>3. /\ Head(in) \in Packets /\ Tail(in) \in Seq(Packets) /\ chClient # "hello" /\ Head(in).code = "quota"
      /\ \A i \in 1 .. Len(Tail(in)) : Tail(in)[i].code # "quota"
  BY <1>1, TakenPacket
<1>4. QueuesType' /\ InStep'
  BY <1>1, <1>2, <1>3 DEF StepInv, QueuesType, InStep
<1>5. HelloFirst'
  BY <1>1, <1>2, <1>3 DEF HelloFirst
<1>6. AddendumFirst'
  BY <1>1, <1>2, <1>3 DEF StepInv, AddendumFirst
<1>7. InOrder'
  <2> SUFFICES ASSUME chClient \in {"ready", "query"} PROVE InOrder'
    BY <1>2 DEF InOrder
  <2>1. PICK n \in Nat : Answering(owed, out, n) /\ Awaiting(owed, in, n)
    BY <1>1 DEF StepInv, InOrder
  <2>2. Awaiting(owed, Tail(in), n)
    <3>1. in \in Seq(Packets) /\ owed \in Seq(Asks) /\ Head(in).code \notin Asks
      BY <1>3 DEF StepInv, QueuesType, Asks
    <3> QED BY <1>1, <2>1, <3>1, AwaitRead
  <2> QED BY <1>1, <1>2, <2>1, <2>2 DEF InOrder
<1> QED BY <1>4, <1>5, <1>6, <1>7 DEF StepInv

\* The server takes a packet and ends the session.
LEMMA OverStep ==
  ASSUME StepInv, ServerKeeps, chServer \in Talking, in # <<>>,
         in' = Tail(in), out' = out, ~misread', chServer' = "over"
  PROVE  StepInv'
<1>1. Spoken' = Spoken /\ Packets' = Packets /\ revision' = revision /\ chClient' = chClient /\ owed' = owed
  BY SameRevision DEF ServerKeeps
<1>2. chClient # "hello" /\ Tail(in) \in Seq(Packets)
  BY TakenPacket
<1>3. QueuesType' /\ InStep'
  BY <1>1, <1>2 DEF StepInv, QueuesType, InStep
<1>4. HelloFirst' /\ AddendumFirst'
  BY <1>1, <1>2 DEF HelloFirst, AddendumFirst, Talking
<1>5. InOrder'
  BY <1>1 DEF StepInv, InOrder, Talking
<1> QED BY <1>3, <1>4, <1>5 DEF StepInv

\* The server takes a packet that is no request and goes on as before.
LEMMA IgnoredStep ==
  ASSUME StepInv, ServerKeeps, chServer \in {"ready", "drain"}, in # <<>>, Head(in).code \notin Asks,
         in' = Tail(in), out' = out, version' = version, ~misread', chServer' = chServer
  PROVE  StepInv'
<1>0. chServer \in Talking
  BY DEF Talking
<1>1. Spoken' = Spoken /\ Packets' = Packets /\ revision' = revision /\ chClient' = chClient /\ owed' = owed
  BY SameRevision DEF ServerKeeps
<1>2. /\ chClient # "hello" /\ Tail(in) \in Seq(Packets)
      /\ \A i \in 1 .. Len(Tail(in)) : Tail(in)[i].code # "quota"
  BY <1>0, TakenPacket
<1>3. QueuesType' /\ InStep'
  BY <1>1, <1>2 DEF StepInv, QueuesType, InStep
<1>4. HelloFirst' /\ AddendumFirst'
  BY <1>1, <1>2 DEF StepInv, HelloFirst, AddendumFirst, Talking
<1>5. InOrder'
  <2> SUFFICES ASSUME chClient \in {"ready", "query"} PROVE InOrder'
    BY <1>1 DEF InOrder
  <2> DEFINE next(n) == IF chServer = "drain" THEN n + 1 ELSE n
  <2>1. PICK n \in Nat : /\ Answering(owed, out, n)
                         /\ chServer = "drain" => n <= Len(owed) /\ owed[n] = "Query"
                         /\ Awaiting(owed, in, next(n))
    BY <1>0 DEF StepInv, InOrder
  <2>2. in \in Seq(Packets) /\ owed \in Seq(Asks)
    BY DEF StepInv, QueuesType
  <2>3. Awaiting(owed, Tail(in), next(n))
    BY <2>1, <2>2, AwaitRead
  <2> QED BY <1>1, <2>1, <2>3 DEF InOrder
<1> QED BY <1>3, <1>4, <1>5 DEF StepInv

\* The server takes a ping, or the end of a query, and answers.
LEMMA AnswerStep ==
  ASSUME StepInv, ServerKeeps, chServer \in {"ready", "drain"}, in # <<>>,
         Head(in).code = (IF chServer = "ready" THEN "Ping" ELSE "Data"),
         in' = Tail(in), version' = version, ~misread', chServer' = "ready",
         NEW more \in Seq(Packets), out' = out \o more, Len(more) >= 1,
         \A i \in 1 .. Len(more) :
           more[i].code \in Fits(IF chServer = "ready" THEN "Ping" ELSE "Query"),
         \A i \in 1 .. Len(more) : more[i].code \in LastOnes <=> i = Len(more)
  PROVE  StepInv'
<1>0. chServer \in Talking
  BY DEF Talking
<1>1. Spoken' = Spoken /\ Packets' = Packets /\ revision' = revision /\ chClient' = chClient /\ owed' = owed
  BY SameRevision DEF ServerKeeps
<1>2. /\ chClient # "hello" /\ Tail(in) \in Seq(Packets)
      /\ \A i \in 1 .. Len(Tail(in)) : Tail(in)[i].code # "quota"
  BY <1>0, TakenPacket
<1>a. in \in Seq(Packets) /\ out \in Seq(Packets) /\ owed \in Seq(Asks)
  BY DEF StepInv, QueuesType
<1>b. out \o more \in Seq(Packets)
  BY <1>a
<1>3. QueuesType' /\ InStep'
  BY <1>1, <1>2, <1>b DEF StepInv, QueuesType, InStep, Talking
<1>4. HelloFirst' /\ AddendumFirst'
  BY <1>1, <1>2 DEF StepInv, HelloFirst, AddendumFirst, Talking
<1>5. InOrder'
  <2> SUFFICES ASSUME chClient \in {"ready", "query"} PROVE InOrder'
    BY <1>1 DEF InOrder
  <2>1. PICK n \in Nat : /\ Answering(owed, out, n)
                         /\ chServer = "drain" => n <= Len(owed) /\ owed[n] = "Query"
                         /\ Awaiting(owed, in, IF chServer = "drain" THEN n + 1 ELSE n)
    BY <1>0 DEF StepInv, InOrder
  <2>2. n <= Len(owed) /\ owed[n] = (IF chServer = "ready" THEN "Ping" ELSE "Query")
        /\ Awaiting(owed, Tail(in), n + 1)
    <3>1. CASE chServer = "ready"
      <4>1. Awaiting(owed, in, n) /\ Head(in).code = "Ping" /\ "Ping" \in Asks
        BY <2>1, <3>1 DEF Asks
      <4> QED BY <1>a, <3>1, <4>1, AwaitRead
    <3>2. CASE chServer = "drain"
      <4>1. Awaiting(owed, in, n + 1) /\ Head(in).code \notin Asks
        BY <2>1, <3>2 DEF Asks
      <4> QED BY <1>a, <2>1, <3>2, <4>1, AwaitRead
    <3> QED BY <3>1, <3>2
  <2>3. \A i \in 1 .. Len(more) : more[i].code \in Fits(owed[n])
    BY <2>2
  <2>4. Answering(owed, out \o more, n + 1)
    BY <1>a, <2>1, <2>2, <2>3, AnswerWritten
  <2> QED BY <1>1, <2>1, <2>2, <2>4 DEF InOrder, Talking
<1> QED BY <1>3, <1>4, <1>5 DEF StepInv

LEMMA PacketStep ==
  ASSUME StepInv, handlePacket, ServerKeeps
  PROVE  StepInv'
<1> DEFINE p == Head(in)
<1>0. chServer = "ready" /\ chServer \in Talking /\ version' = version /\ in # <<>> /\ in' = Tail(in)
  BY DEF handlePacket, Take, Talking
<1>1. p \in Packets /\ p.code # "quota" /\ chClient # "hello" /\ Tail(in) \in Seq(Packets)
      /\ \A i \in 1 .. Len(Tail(in)) : Tail(in)[i].code # "quota"
  BY <1>0, TakenPacket
<1>2. version = Spoken
  BY <1>0 DEF StepInv, AddendumFirst
<1>3. p = Packet(p.code, version)
  BY <1>1, <1>2, PacketShape
<1>4. ~misread'
  BY <1>1, <1>3 DEF handlePacket, Take
<1>5. CASE p.code = "Query"
  <2>0. chServer' = "drain" /\ out' = out
    BY <1>5 DEF handlePacket
  <2>1. Spoken' = Spoken /\ Packets' = Packets /\ revision' = revision /\ chClient' = chClient /\ owed' = owed
    BY SameRevision DEF ServerKeeps
  <2>3. QueuesType' /\ InStep'
    BY <1>0, <1>1, <1>4, <2>0, <2>1 DEF StepInv, QueuesType, InStep, Talking
  <2>4. HelloFirst' /\ AddendumFirst'
    BY <1>0, <1>1, <2>0, <2>1 DEF StepInv, HelloFirst, AddendumFirst, Talking
  <2>5. InOrder'
    <3> SUFFICES ASSUME chClient \in {"ready", "query"} PROVE InOrder'
      BY <2>1 DEF InOrder
    <3>1. PICK n \in Nat : Answering(owed, out, n) /\ Awaiting(owed, in, n)
      BY <1>0 DEF StepInv, InOrder
    <3>2. in \in Seq(Packets) /\ owed \in Seq(Asks) /\ p.code \in Asks
      BY <1>5 DEF StepInv, QueuesType, Asks
    <3>3. n <= Len(owed) /\ owed[n] = "Query" /\ Awaiting(owed, Tail(in), n + 1)
      BY <1>0, <1>5, <3>1, <3>2, AwaitRead
    <3> QED BY <1>0, <2>0, <2>1, <3>1, <3>3 DEF InOrder
  <2> QED BY <2>3, <2>4, <2>5 DEF StepInv
<1>6. CASE p.code = "Ping"
  <2>1. Write(<<Packet("Pong", version)>>, "ready")
    BY <1>6 DEF handlePacket
  <2>2. CASE out' = out \o <<Packet("Pong", version)>> /\ chServer' = "ready"
    <3> DEFINE more == <<Packet("Pong", version)>>
    <3>1. Packet("Pong", version) \in Packets /\ Packet("Pong", version).code = "Pong"
      BY <1>2, PacketCode DEF Packets, Codes, LastOnes
    <3>2. /\ more \in Seq(Packets) /\ Len(more) = 1
          /\ \A i \in 1 .. Len(more) : more[i].code \in Fits("Ping")
          /\ \A i \in 1 .. Len(more) : more[i].code \in LastOnes <=> i = Len(more)
      BY <3>1 DEF Fits, LastOnes
    <3>3. /\ Len(more) >= 1 /\ out' = out \o more
          /\ \A i \in 1 .. Len(more) :
               more[i].code \in Fits(IF chServer = "ready" THEN "Ping" ELSE "Query")
      BY <1>0, <2>2, <3>2
    <3> HIDE DEF more
    <3> QED BY <1>0, <1>4, <1>6, <2>2, <3>2, <3>3, AnswerStep
  <2>3. CASE chServer' = "over" /\ out' = out
    BY <1>0, <1>4, <2>3, OverStep
  <2> QED BY <2>1, <2>2, <2>3 DEF Write
<1>7. CASE p.code \in {"Data", "Cancel"}
  <2>1. UNCHANGED <<chServer, out>> /\ p.code \notin Asks
    BY <1>7 DEF handlePacket, Asks
  <2> QED BY <1>0, <1>4, <2>1, IgnoredStep
<1>8. CASE p.code \notin {"Query", "Ping", "Data", "Cancel"}
  <2>1. chServer' = "over" /\ out' = out
    BY <1>8 DEF handlePacket
  <2> QED BY <1>0, <1>4, <2>1, OverStep
<1> QED BY <1>5, <1>6, <1>7, <1>8

\* Packets of an answer to a query that do not end it.
Part(P, ps) == ps \in Seq(P) /\ \A i \in 1 .. Len(ps) : ps[i].code \in Fits("Query") \ LastOnes

LEMMA PartsJoin ==
  ASSUME NEW P, NEW ps, NEW qs, Part(P, ps), Part(P, qs)
  PROVE  Part(P, ps \o qs)
<1>1. Len(ps) \in Nat /\ Len(qs) \in Nat /\ ps \o qs \in Seq(P) /\ Len(ps \o qs) = Len(ps) + Len(qs)
      /\ \A i \in 1 .. Len(ps) + Len(qs) :
           (ps \o qs)[i] = IF i <= Len(ps) THEN ps[i] ELSE qs[i - Len(ps)]
  BY DEF Part
<1>2. ASSUME NEW i \in 1 .. Len(ps) + Len(qs) PROVE (ps \o qs)[i].code \in Fits("Query") \ LastOnes
  <2>1. CASE i <= Len(ps)
    BY <1>1, <2>1 DEF Part
  <2>2. CASE i > Len(ps)
    <3>1. i - Len(ps) \in 1 .. Len(qs) /\ (ps \o qs)[i] = qs[i - Len(ps)]
      BY <1>1, <2>2
    <3> QED BY <3>1 DEF Part
  <2> QED BY <1>1, <2>1, <2>2
<1> QED BY <1>1, <1>2 DEF Part

\* What sendResult writes.
ResultPackets(v, rows, logged) ==
  <<Packet("Data", v)>>
    \o (IF rows THEN <<Packet("Data", v)>> ELSE <<>>)
    \o (IF logged THEN <<Packet("Log", v)>> ELSE <<>>)
    \o <<Packet("EndOfStream", v)>>

\* The packets of a result make a complete answer.
LEMMA ResultComplete ==
  ASSUME NEW v, NEW rows \in BOOLEAN, NEW logged \in BOOLEAN, NEW P,
         Packet("Data", v) \in P, Packet("EndOfStream", v) \in P, logged => Packet("Log", v) \in P,
         NEW more, more = ResultPackets(v, rows, logged)
  PROVE  /\ more \in Seq(P) /\ Len(more) >= 1
         /\ \A i \in 1 .. Len(more) : more[i].code \in Fits("Query")
         /\ \A i \in 1 .. Len(more) : more[i].code \in LastOnes <=> i = Len(more)
<1> DEFINE head == <<Packet("Data", v)>>
           block == IF rows THEN <<Packet("Data", v)>> ELSE <<>>
           log == IF logged THEN <<Packet("Log", v)>> ELSE <<>>
           e == Packet("EndOfStream", v)
<1>1. Packet("Data", v).code = "Data" /\ Packet("Log", v).code = "Log" /\ e.code = "EndOfStream"
  BY PacketCode
<1>2. \A c \in {"Data", "Log", "EndOfStream"} : c \in Fits("Query") /\ (c \in LastOnes <=> c = "EndOfStream")
  BY DEF Fits, LastOnes
<1>3. Part(P, head) /\ Part(P, <<>>)
  BY <1>1, <1>2 DEF Part
<1>4. Part(P, block)
  BY <1>3
<1>5. logged => Part(P, <<Packet("Log", v)>>)
  BY <1>1, <1>2 DEF Part
<1>6. Part(P, log)
  BY <1>3, <1>5
<1>7. more = ((head \o block) \o log) \o <<e>>
  BY DEF ResultPackets
<1> DEFINE ps == (head \o block) \o log
<1> HIDE DEF head, block, log, e
<1>8. Part(P, ps)
  BY <1>3, <1>4, <1>6, PartsJoin
<1>9. more = ps \o <<e>>
  BY <1>7
<1>10. e \in P
  BY DEF e
<1> HIDE DEF ps
<1>11. ps \in Seq(P) /\ Len(ps) \in Nat /\ <<e>> \in Seq(P)
  BY <1>8, <1>10 DEF Part
<1>12. /\ more \in Seq(P) /\ Len(more) = Len(ps) + 1
       /\ \A i \in 1 .. Len(ps) + 1 : more[i] = IF i <= Len(ps) THEN ps[i] ELSE e
  BY <1>9, <1>11
<1>13. ASSUME NEW i \in 1 .. Len(more)
       PROVE  more[i].code \in Fits("Query") /\ (more[i].code \in LastOnes <=> i = Len(more))
  <2>1. CASE i <= Len(ps)
    <3>1. i \in 1 .. Len(ps) /\ i \in 1 .. Len(ps) + 1 /\ i # Len(more)
      BY <1>11, <1>12, <2>1
    <3>2. more[i] = ps[i]
      BY <1>12, <2>1, <3>1
    <3> QED BY <1>8, <3>1, <3>2 DEF Part
  <2>2. CASE i > Len(ps)
    <3>1. i = Len(more) /\ i \in 1 .. Len(ps) + 1 /\ ~(i <= Len(ps))
      BY <1>11, <1>12, <2>2
    <3>2. more[i] = e
      BY <1>12, <3>1
    <3> QED BY <1>1, <1>2, <3>1, <3>2
  <2> QED BY <1>11, <1>12, <2>1, <2>2
<1>14. Len(more) >= 1
  BY <1>11, <1>12
<1> QED BY <1>12, <1>13, <1>14

LEMMA DrainStep ==
  ASSUME StepInv, NEW results, drainAndRun(results), ServerKeeps
  PROVE  StepInv'
<1> DEFINE p == Head(in)
<1>0. chServer = "drain" /\ chServer \in Talking /\ version' = version /\ in # <<>> /\ in' = Tail(in)
  BY DEF drainAndRun, Take, Talking
<1>1. p \in Packets
  BY <1>0, TakenPacket
<1>2. version = Spoken
  BY <1>0 DEF StepInv, AddendumFirst
<1>3. p = Packet(p.code, version)
  BY <1>1, <1>2, PacketShape
<1>4. ~misread'
  BY <1>3 DEF drainAndRun, Take
<1>5. CASE p.code # "Data"
  <2>1. chServer' = "over" /\ out' = out
    BY <1>5 DEF drainAndRun
  <2> QED BY <1>0, <1>4, <2>1, OverStep
<1>6. ASSUME p.code = "Data", NEW more \in Seq(Packets), Write(more, "ready"), Len(more) >= 1,
             \A i \in 1 .. Len(more) : more[i].code \in Fits("Query"),
             \A i \in 1 .. Len(more) : more[i].code \in LastOnes <=> i = Len(more)
      PROVE  StepInv'
  <2>1. CASE out' = out \o more /\ chServer' = "ready"
    <3>1. \A i \in 1 .. Len(more) :
            more[i].code \in Fits(IF chServer = "ready" THEN "Ping" ELSE "Query")
      BY <1>0, <1>6
    <3>2. Head(in).code = (IF chServer = "ready" THEN "Ping" ELSE "Data") /\ chServer \in {"ready", "drain"}
      BY <1>0, <1>6
    <3> QED BY <1>0, <1>4, <1>6, <2>1, <3>1, <3>2, AnswerStep
  <2>2. CASE chServer' = "over" /\ out' = out
    BY <1>0, <1>4, <2>2, OverStep
  <2> QED BY <1>6, <2>1, <2>2 DEF Write
<1>7. CASE p.code = "Data"
  <2>1. \/ Write(<<Packet("Exception", version)>>, "ready")
        \/ \E res : sendResult(res, Warnings("clickhouse", res))
    BY <1>7 DEF drainAndRun, readClientBlock
  <2>2. CASE Write(<<Packet("Exception", version)>>, "ready")
    <3> DEFINE more == <<Packet("Exception", version)>>
    <3>1. Packet("Exception", version) \in Packets /\ Packet("Exception", version).code = "Exception"
      BY <1>2, PacketCode DEF Packets, Codes, LastOnes
    <3>2. /\ more \in Seq(Packets) /\ Len(more) >= 1
          /\ \A i \in 1 .. Len(more) : more[i].code \in Fits("Query")
          /\ \A i \in 1 .. Len(more) : more[i].code \in LastOnes <=> i = Len(more)
      BY <3>1 DEF Fits, LastOnes
    <3> HIDE DEF more
    <3>3. Write(more, "ready")
      BY <2>2 DEF more
    <3> QED BY <1>6, <1>7, <3>2, <3>3
  <2>3. ASSUME NEW res, sendResult(res, Warnings("clickhouse", res)) PROVE StepInv'
    <3> DEFINE rows == res.rows # <<>>
               logged == Warnings("clickhouse", res) # {} /\ version >= ServerLogs
               more == ResultPackets(version, rows, logged)
    <3>1. Write(more, "ready")
      BY <2>3 DEF sendResult, ResultPackets
    <3>2. rows \in BOOLEAN /\ logged \in BOOLEAN
      OBVIOUS
    <3>3. Packet("Data", version) \in Packets /\ Packet("EndOfStream", version) \in Packets
      BY <1>2 DEF Packets, Codes, LastOnes, Requests
    <3>4. logged => Packet("Log", version) \in Packets
      BY <1>2 DEF Packets, Codes
    <3> HIDE DEF rows, logged
    <3>5. /\ more \in Seq(Packets) /\ Len(more) >= 1
          /\ \A i \in 1 .. Len(more) : more[i].code \in Fits("Query")
          /\ \A i \in 1 .. Len(more) : more[i].code \in LastOnes <=> i = Len(more)
      BY <3>2, <3>3, <3>4, ResultComplete
    <3> HIDE DEF more
    <3> QED BY <1>6, <1>7, <3>1, <3>5
  <2> QED BY <2>1, <2>2, <2>3
<1> QED BY <1>5, <1>7

LEMMA ServerStep ==
  ASSUME StepInv, NEW results, ChServerNext(results)
  PROVE  StepInv'
<1>1. ServerKeeps
  BY DEF ChServerNext, ServerKeeps
<1>2. CASE readEnds
  <2>1. Spoken' = Spoken /\ Packets' = Packets /\ revision' = revision /\ chClient' = chClient /\ owed' = owed
    BY <1>1, SameRevision DEF ServerKeeps
  <2>2. chClient = "gone" /\ chServer' = "over" /\ in' = in /\ out' = out /\ misread' = misread
    BY <1>2 DEF readEnds
  <2> QED BY <2>1, <2>2
       DEF StepInv, QueuesType, InStep, HelloFirst, AddendumFirst, InOrder, Talking
<1> QED BY <1>1, <1>2, HandshakeStep, AddendumStep, PacketStep, DrainStep DEF ChServerNext

-----------------------------------------------------------------------------
LEMMA ClientHello ==
  ASSUME StepInv, ClientReads, chClient = "hello"
  PROVE  StepInv'
<1> USE DEF Talking
<1>1. /\ out # <<>> /\ out' = Tail(out) /\ revision' = revision /\ chServer' = chServer /\ version' = version
      /\ chClient' = "ready"
      /\ misread' = (Head(out).code # "ServerHello" \/ Head(out) # Packet(Head(out).code, Spoken))
      /\ in' = IF Spoken >= AddendumRevision THEN Append(in, Packet("quota", Spoken)) ELSE in
  BY DEF ClientReads
<1>2. /\ in = <<>> /\ owed = <<>> /\ out = <<Packet("ServerHello", Spoken)>>
      /\ chServer \in {"addendum", "ready"} /\ (chServer = "addendum" <=> Spoken >= AddendumRevision)
  BY <1>1 DEF StepInv, QueuesType, HelloFirst
<1>3. Spoken' = Spoken /\ Packets' = Packets
  BY <1>1, SameRevision
<1>4. owed' = <<>> /\ out' = <<>> /\ ~misread'
  <2>1. Head(out) = Packet("ServerHello", Spoken) /\ Tail(out) = <<>>
    BY <1>2
  <2> QED BY <1>1, <1>2, <2>1, PacketCode DEF ClientReads
<1> DEFINE a == Packet("quota", Spoken)
<1>5. a \in Packets /\ a.code = "quota" /\ a.code \notin Asks
  BY PacketCode DEF Packets, Codes, Asks
<1> HIDE DEF a
<1>6. in' = IF chServer = "addendum" THEN <<a>> ELSE <<>>
  BY <1>1, <1>2 DEF a
<1>7. QueuesType'
  <2>1. in' \in Seq(Packets) /\ out' \in Seq(Packets) /\ owed' \in Seq(Asks)
    BY <1>4, <1>5, <1>6
  <2> QED BY <1>1, <1>2, <1>3, <2>1 DEF StepInv, QueuesType
<1>8. HelloFirst'
  BY <1>1, <1>2 DEF HelloFirst
<1>9. AddendumFirst'
  <2>1. chServer = "addendum" => Len(in') = 1 /\ in'[1] = a /\ in' # <<>>
    BY <1>6
  <2>2. chServer = "ready" => Len(in') = 0
    BY <1>6
  <2>3. \A i \in 1 .. Len(in') : in'[i].code = "quota" <=> chServer = "addendum" /\ i = 1
    BY <1>2, <1>5, <2>1, <2>2
  <2> QED BY <1>1, <1>2, <1>3, <2>1, <2>3 DEF StepInv, AddendumFirst
<1>10. InOrder'
  <2>1. Answering(owed', out', 1) /\ Awaiting(owed', in', 1)
    BY <1>4, <1>5, <1>6, EmptyQueues
  <2> QED BY <1>1, <1>2, <2>1 DEF InOrder
<1> QED BY <1>4, <1>7, <1>8, <1>9, <1>10 DEF StepInv, InStep

LEMMA ClientAnswer ==
  ASSUME StepInv, ClientReads, chClient # "hello"
  PROVE  StepInv'
<1> USE DEF Talking
<1> DEFINE p == Head(out)
<1>1. /\ out # <<>> /\ out' = Tail(out) /\ revision' = revision /\ chServer' = chServer /\ version' = version
      /\ chClient' = chClient /\ in' = in /\ chClient # "gone"
      /\ misread' = (p.code \notin (IF owed = <<>> THEN {} ELSE AnswersTo(Head(owed))) \/ p # Packet(p.code, Spoken))
      /\ owed' = IF owed # <<>> /\ p.code \in LastOnes THEN Tail(owed) ELSE owed
  BY DEF ClientReads
<1>2. Spoken' = Spoken /\ Packets' = Packets
  BY <1>1, SameRevision
<1>3. /\ in \in Seq(Packets) /\ out \in Seq(Packets) /\ owed \in Seq(Asks) /\ chClient \in {"ready", "query"}
      /\ p \in Packets /\ Tail(out) \in Seq(Packets)
  BY <1>1 DEF StepInv, QueuesType
<1>4. PICK n \in Nat : /\ Answering(owed, out, n)
                       /\ chServer = "drain" => n <= Len(owed) /\ owed[n] = "Query"
                       /\ chServer \in Talking => Awaiting(owed, in, IF chServer = "drain" THEN n + 1 ELSE n)
  BY <1>3 DEF StepInv, InOrder
<1>5. /\ owed # <<>> /\ p.code \in Fits(Head(owed))
      /\ p.code \notin LastOnes => Answering(owed, Tail(out), n)
      /\ p.code \in LastOnes => n >= 2 /\ Answering(Tail(owed), Tail(out), n - 1)
  BY <1>1, <1>3, <1>4, AnswerRead
<1>6. ~misread'
  <2>1. p.code \in Codes /\ p = Packet(p.code, Spoken)
    BY <1>3, PacketShape
  <2>2. p.code \in AnswersTo(Head(owed))
    BY <1>5, <2>1 DEF Fits, AnswersTo, Codes, Requests, LastOnes
  <2> QED BY <1>1, <1>5, <2>1, <2>2
<1>7. QueuesType'
  <2>1. owed' \in Seq(Asks)
    BY <1>1, <1>3, <1>5
  <2> QED BY <1>1, <1>2, <1>3, <2>1 DEF StepInv, QueuesType
<1>8. HelloFirst' /\ AddendumFirst'
  BY <1>1, <1>2, <1>3 DEF StepInv, HelloFirst, AddendumFirst
<1>9. InOrder'
  <2>1. CASE p.code \notin LastOnes
    BY <1>1, <1>4, <1>5, <2>1 DEF InOrder
  <2>2. CASE p.code \in LastOnes
    <3>1. owed' = Tail(owed) /\ n - 1 \in Nat /\ Answering(Tail(owed), Tail(out), n - 1)
      BY <1>1, <1>5, <2>2
    <3>2. chServer = "drain" => n - 1 <= Len(Tail(owed)) /\ Tail(owed)[n - 1] = "Query"
      BY <1>3, <1>4, <1>5, <2>2
    <3>3. ASSUME chServer = "drain" PROVE Awaiting(Tail(owed), in, n)
      <4>1. Awaiting(owed, in, n + 1) /\ n + 1 >= 2
        BY <1>4, <1>5, <2>2, <3>3
      <4>2. Awaiting(Tail(owed), in, (n + 1) - 1)
        BY <1>3, <1>5, <4>1, AwaitAnswered
      <4>3. (n + 1) - 1 = n
        OBVIOUS
      <4> QED BY <4>2, <4>3
    <3>4. chServer \in Talking \ {"drain"} => Awaiting(Tail(owed), in, n - 1)
      BY <1>3, <1>4, <1>5, <2>2, AwaitAnswered
    <3>5. chServer = "drain" => (n - 1) + 1 = n
      OBVIOUS
    <3> QED BY <1>1, <3>1, <3>2, <3>3, <3>4, <3>5 DEF InOrder
  <2> QED BY <2>1, <2>2
<1> QED BY <1>6, <1>7, <1>8, <1>9 DEF StepInv, InStep

\* The client sends a packet other than the addendum.
LEMMA SentStep ==
  ASSUME StepInv, NEW code \in Requests, chClient \in {"ready", "query"}, chClient' \in {"ready", "query"},
         in' = Append(in, Packet(code, Spoken)),
         owed' = (IF code \in {"Query", "Ping"} THEN Append(owed, code) ELSE owed),
         UNCHANGED <<revision, chServer, version, out, misread>>
  PROVE  StepInv'
<1> USE DEF Talking
<1> DEFINE p == Packet(code, Spoken)
<1>1. p.code = code /\ p \in Packets /\ code # "quota"
  BY PacketCode DEF Packets, Codes, Requests
<1>2. Spoken' = Spoken /\ Packets' = Packets
  BY SameRevision
<1>3. in \in Seq(Packets) /\ out \in Seq(Packets) /\ owed \in Seq(Asks) /\ in' = Append(in, p)
  BY DEF StepInv, QueuesType
<1> HIDE DEF p
<1>4. Asks = {"Query", "Ping"}
  BY DEF Asks
<1>5. in' \in Seq(Packets) /\ owed' \in Seq(Asks)
  BY <1>1, <1>3, <1>4
<1>6. QueuesType' /\ InStep'
  BY <1>2, <1>3, <1>5 DEF StepInv, QueuesType, InStep
<1>7. HelloFirst'
  BY DEF StepInv, HelloFirst
<1>8. AddendumFirst'
  <2>1. /\ Len(in) \in Nat /\ Len(in') = Len(in) + 1 /\ in' # <<>>
        /\ \A i \in 1 .. Len(in) + 1 : in'[i] = IF i <= Len(in) THEN in[i] ELSE p
    BY <1>3
  <2>2. ASSUME chServer \in Talking, NEW i \in 1 .. Len(in')
        PROVE  in'[i].code = "quota" <=> chServer = "addendum" /\ i = 1
    <3>1. chServer = "addendum" => Len(in) >= 1
      BY <1>3, <2>1 DEF StepInv, AddendumFirst
    <3>2. CASE i <= Len(in)
      <4>1. i \in 1 .. Len(in) /\ in'[i] = in[i]
        BY <2>1, <3>2
      <4> QED BY <2>2, <4>1 DEF StepInv, AddendumFirst
    <3>3. CASE i = Len(in) + 1
      BY <1>1, <2>1, <3>1, <3>3
    <3> QED BY <2>1, <3>2, <3>3
  <2> QED BY <1>2, <2>1, <2>2 DEF StepInv, AddendumFirst
<1>9. InOrder'
  <2>1. PICK n \in Nat : /\ Answering(owed, out, n)
                         /\ chServer = "drain" => n <= Len(owed) /\ owed[n] = "Query"
                         /\ chServer \in Talking => Awaiting(owed, in, IF chServer = "drain" THEN n + 1 ELSE n)
    BY DEF StepInv, InOrder
  <2> DEFINE m == IF chServer = "drain" THEN n + 1 ELSE n
  <2>2. Answering(owed', out, n)
    BY <1>3, <1>4, <2>1, AnswersKept
  <2>a. n \in Nat /\ n # 0
    BY <2>1, <1>3 DEF Answering
  <2>3. chServer = "drain" => n <= Len(owed') /\ owed'[n] = "Query"
    BY <1>3, <1>4, <2>1, <2>a
  <2> HIDE DEF m
  <2>b. chServer \in Talking => Awaiting(owed, in, m)
    BY <2>1 DEF m
  <2>4. chServer \in Talking => Awaiting(owed', in', m)
    BY <1>1, <1>3, <1>4, <2>b, AwaitSent
  <2> QED BY <2>2, <2>3, <2>4 DEF InOrder, m
<1> QED BY <1>6, <1>7, <1>8, <1>9 DEF StepInv

LEMMA InStepInit ==
  ASSUME Init
  PROVE  StepInv
<1>1. serverRevision \in Nat \ {0} /\ Revisions \subseteq Nat \ {0}
  BY RevisionAssumption
<1>2. CASE ChIdle
  <2>1. <<>> \in Seq(Packets) /\ <<>> \in Seq(Asks)
    OBVIOUS
  <2> QED BY <1>2, <2>1
       DEF ChIdle, StepInv, QueuesType, InStep, HelloFirst, AddendumFirst, InOrder, Talking
<1>3. ASSUME NEW revisions \in SUBSET (Nat \ {0}), ChInit(revisions) PROVE StepInv
  <2>1. PICK first \in {"Hello", "Other"} : in = <<Packet(first, 0)>>
    BY <1>3, Zenon DEF ChInit
  <2>2. Packet(first, 0) \in Packets
    BY PacketCode DEF Packets, Codes, Requests
  <2>3. in \in Seq(Packets) /\ Len(in) = 1
    BY <2>1, <2>2
  <2>4. /\ revision \in Nat \ {0} /\ chClient = "hello" /\ chServer = "hello"
        /\ out = <<>> /\ owed = <<>> /\ misread = FALSE
    BY <1>3 DEF ChInit
  <2> QED BY <2>3, <2>4
       DEF StepInv, QueuesType, InStep, HelloFirst, AddendumFirst, InOrder, Talking
<1> QED BY <1>1, <1>2, <1>3 DEF Init

LEMMA InStepStep ==
  ASSUME StepInv, [Next]_vars
  PROVE  StepInv'
<1>1. CASE UNCHANGED ch
  <2>1. Spoken' = Spoken /\ Packets' = Packets
    BY <1>1, SameRevision DEF ch
  <2> QED BY <1>1, <2>1 DEF ch, StepInv, QueuesType, InStep, HelloFirst, AddendumFirst, InOrder
<1>2. CASE Serving
  BY <1>2, ServerStep DEF Serving
<1>3. CASE Reading
  BY <1>3, ClientHello, ClientAnswer DEF Reading
<1>4. CASE Ending
  <2>1. "Data" \in Requests /\ "Data" \notin {"Query", "Ping"}
    BY DEF Requests
  <2> QED BY <1>4, <2>1, SentStep DEF Ending, ClientEndsQuery
<1>5. ASSUME NEW request \in Requests, NEW bound, ClientAsks(request, bound) PROVE StepInv'
  BY <1>5, SentStep DEF ClientAsks
<1>6. CASE ClientLeaves
  <2>1. Spoken' = Spoken /\ Packets' = Packets
    BY <1>6, SameRevision DEF ClientLeaves
  <2> QED BY <1>6, <2>1
       DEF ClientLeaves, StepInv, QueuesType, InStep, HelloFirst, AddendumFirst, InOrder
<1>7. CASE Asking
  <2>1. "Query" \in Requests
    BY DEF Requests
  <2> QED BY <1>5, <1>6, <1>7, <2>1 DEF Asking
<1>8. CASE Postgres \/ Mysql \/ UNCHANGED vars
  BY <1>1, <1>8 DEF Postgres, PgReply, PgPrepared, Mysql, vars
<1> QED BY <1>2, <1>3, <1>4, <1>7, <1>8 DEF Next

(***************************************************************************)
(* The server and its client stay in step, for every revision either of    *)
(* them may have, every result a query may give, and every number of       *)
(* requests the client sends ahead of the answers: no packet is ever read  *)
(* as something it is not (handshake, the loop of handleConn,              *)
(* drainClientData, sendResult).                                           *)
(***************************************************************************)
THEOREM KeepsInStep == Spec => []InStep
<1>1. Init => StepInv
  BY InStepInit
<1>2. StepInv /\ [Next]_vars => StepInv'
  BY InStepStep
<1>3. StepInv => InStep
  BY DEF StepInv
<1> QED BY <1>1, <1>2, <1>3, PTL DEF Spec
=============================================================================
