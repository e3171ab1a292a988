---------------------------- MODULE CodecProofs ----------------------------
(***************************************************************************)
(* Proofs about AsyncCodec, for streams, queues, pools and decoders of any *)
(* size and any number of calls: the sink receives the frames of the       *)
(* generation that is being read, in order and without a gap.              *)
(***************************************************************************)
EXTENDS AsyncCodec, SequenceTheorems, TLAPS

-----------------------------------------------------------------------------
(* The frames under way, in eight stages, the one next to the sink first.  *)

Stages == 1 .. 8
Lines == [Stages -> Seq(Frame)]
One(b, f) == IF b THEN <<f>> ELSE <<>>

HandleHolds == {"queue", "again", "wait", "asleep"}
DemuxHolds == {"check", "queue"}

LineOf(a, h, out, dec, rest, in) ==
    [s \in Stages |->
        CASE s = 1 -> One(a["push"] = "deliver", h["push"])
          [] s = 2 -> out
          [] s = 3 -> One(a["decode"] = "done" /\ h["decode"] # NoFrame, h["decode"])
          [] s = 4 -> dec
          [] s = 5 -> One(rest # NoFrame, rest)
          [] s = 6 -> One(a["handle"] \in HandleHolds, h["handle"])
          [] s = 7 -> in
          [] s = 8 -> One(a["demux"] \in DemuxHolds, h["demux"])]

Line == LineOf(at, hold, outBufQue, decoded, draining, inBufQue)

\* The line holds frames of generation g below number next, in order, and behind f.
Before(s, i, r, j) == s < r \/ (s = r /\ i < j)

InOrder(L, g, next, f) ==
    \A s \in Stages : \A i \in DOMAIN L[s] :
        /\ L[s][i] \in Frame /\ L[s][i].gen = g /\ L[s][i].n < next
        /\ f.gen = g => f.n < L[s][i].n
        /\ \A r \in Stages : \A j \in DOMAIN L[r] : Before(s, i, r, j) => L[s][i].n < L[r][j].n

\* Frame n is under way.
Carries(L, n) == \E s \in Stages : \E i \in DOMAIN L[s] : L[s][i].n = n

\* The oldest frame of stage r moves to the end of stage s, which comes next in the line.
MovesTo(L, M, r, s) ==
    /\ s < r /\ \A q \in Stages : s < q /\ q < r => L[q] = <<>>
    /\ L[r] # <<>> /\ M[r] = Tail(L[r]) /\ M[s] = Append(L[s], Head(L[r]))
    /\ \A q \in Stages : q # r /\ q # s => M[q] = L[q]

\* Some stages are emptied.
Loses(L, M) == \A q \in Stages : M[q] \in {L[q], <<>>}

LEMMA SequenceEnds ==
    ASSUME NEW S, NEW q \in Seq(S)
    PROVE  /\ Len(q) \in Nat /\ DOMAIN q = 1 .. Len(q) /\ \A i \in 1 .. Len(q) : q[i] \in S
           /\ q # <<>> => /\ Len(q) >= 1 /\ Head(q) = q[1] /\ Head(q) \in S
                          /\ Tail(q) \in Seq(S) /\ Len(Tail(q)) = Len(q) - 1
                          /\ \A i \in 1 .. Len(q) - 1 : Tail(q)[i] = q[i + 1]
           /\ \A x \in S : /\ Append(q, x) \in Seq(S) /\ Len(Append(q, x)) = Len(q) + 1
                           /\ \A i \in 1 .. Len(q) : Append(q, x)[i] = q[i]
                           /\ Append(q, x)[Len(q) + 1] = x
<1>1. Len(q) \in Nat /\ DOMAIN q = 1 .. Len(q) /\ \A i \in 1 .. Len(q) : q[i] \in S
  BY LenProperties
<1>2. ASSUME q # <<>>
      PROVE  /\ Len(q) >= 1 /\ Head(q) = q[1] /\ Head(q) \in S
             /\ Tail(q) \in Seq(S) /\ Len(Tail(q)) = Len(q) - 1
             /\ \A i \in 1 .. Len(q) - 1 : Tail(q)[i] = q[i + 1]
  BY <1>1, <1>2, HeadTailProperties, EmptySeq
<1>3. ASSUME NEW x \in S
      PROVE  /\ Append(q, x) \in Seq(S) /\ Len(Append(q, x)) = Len(q) + 1
             /\ \A i \in 1 .. Len(q) : Append(q, x)[i] = q[i]
             /\ Append(q, x)[Len(q) + 1] = x
  BY <1>1, <1>3, AppendProperties
<1> QED  BY <1>1, <1>2, <1>3

\* Where each frame was before a move, and where it is after it.
LEMMA MovedFrom ==
    ASSUME NEW L \in Lines, NEW M \in Lines, NEW r \in Stages, NEW s \in Stages, MovesTo(L, M, r, s),
           NEW q \in Stages, NEW j \in DOMAIN M[q]
    PROVE  /\ q = r => j + 1 \in DOMAIN L[r] /\ M[q][j] = L[r][j + 1]
           /\ q = s /\ j = Len(L[s]) + 1 => 1 \in DOMAIN L[r] /\ M[q][j] = L[r][1]
           /\ q # r /\ ~(q = s /\ j = Len(L[s]) + 1) => j \in DOMAIN L[q] /\ M[q][j] = L[q][j]
           /\ j \in Nat /\ j >= 1 /\ Len(L[s]) \in Nat
           /\ q = s => j <= Len(L[s]) + 1
<1>1. /\ L[r] \in Seq(Frame) /\ L[s] \in Seq(Frame) /\ L[q] \in Seq(Frame) /\ M[q] \in Seq(Frame)
      /\ L[r] # <<>> /\ M[r] = Tail(L[r]) /\ M[s] = Append(L[s], Head(L[r])) /\ r # s
      /\ q # r /\ q # s => M[q] = L[q]
  BY DEF Lines, MovesTo, Stages
<1>2. /\ DOMAIN M[q] = 1 .. Len(M[q]) /\ Len(M[q]) \in Nat
      /\ DOMAIN L[s] = 1 .. Len(L[s]) /\ Len(L[s]) \in Nat
      /\ DOMAIN L[r] = 1 .. Len(L[r]) /\ Len(L[r]) \in Nat /\ Len(L[r]) >= 1
      /\ DOMAIN L[q] = 1 .. Len(L[q]) /\ Len(L[q]) \in Nat
  BY <1>1, SequenceEnds
<1>3. CASE q = r
  <2>1. Len(Tail(L[r])) = Len(L[r]) - 1 /\ \A i \in 1 .. Len(L[r]) - 1 : Tail(L[r])[i] = L[r][i + 1]
    BY <1>1, SequenceEnds
  <2>2. j \in 1 .. Len(L[r]) - 1 /\ M[q] = Tail(L[r])
    BY <1>1, <1>2, <1>3, <2>1
  <2>3. M[q][j] = L[r][j + 1] /\ j + 1 \in 1 .. Len(L[r]) /\ j \in Nat /\ j >= 1
    BY <1>2, <2>1, <2>2
  <2> QED  BY <1>1, <1>2, <1>3, <2>3
<1>4. CASE q = s
  <2>1. /\ Len(Append(L[s], Head(L[r]))) = Len(L[s]) + 1 /\ Head(L[r]) = L[r][1]
        /\ \A i \in 1 .. Len(L[s]) : Append(L[s], Head(L[r]))[i] = L[s][i]
        /\ Append(L[s], Head(L[r]))[Len(L[s]) + 1] = Head(L[r])
    BY <1>1, SequenceEnds
  <2>2. M[q] = Append(L[s], Head(L[r])) /\ j \in 1 .. Len(L[s]) + 1
    BY <1>1, <1>2, <1>4, <2>1
  <2>3. CASE j = Len(L[s]) + 1
    BY <1>1, <1>2, <1>4, <2>1, <2>2, <2>3
  <2>4. CASE j # Len(L[s]) + 1
    <3>1. j \in 1 .. Len(L[s])
      BY <1>2, <2>2, <2>4
    <3> QED  BY <1>1, <1>2, <1>4, <2>1, <2>2, <2>4, <3>1
  <2> QED  BY <2>3, <2>4
<1>5. CASE q # r /\ q # s
  BY <1>1, <1>2, <1>5
<1> QED  BY <1>3, <1>4, <1>5

LEMMA MovedTo ==
    ASSUME NEW L \in Lines, NEW M \in Lines, NEW r \in Stages, NEW s \in Stages, MovesTo(L, M, r, s),
           NEW n, Carries(L, n)
    PROVE  Carries(M, n)
<1>1. PICK q \in Stages : \E i \in DOMAIN L[q] : L[q][i].n = n
  BY DEF Carries
<1>2. PICK i \in DOMAIN L[q] : L[q][i].n = n
  BY <1>1
<1>3. /\ L[r] \in Seq(Frame) /\ L[s] \in Seq(Frame) /\ L[q] \in Seq(Frame)
      /\ L[r] # <<>> /\ M[r] = Tail(L[r]) /\ M[s] = Append(L[s], Head(L[r])) /\ r # s
      /\ q # r /\ q # s => M[q] = L[q]
      /\ M[r] \in Seq(Frame) /\ M[s] \in Seq(Frame)
  BY DEF Lines, MovesTo, Stages
<1>4. /\ DOMAIN L[s] = 1 .. Len(L[s]) /\ Len(L[s]) \in Nat
      /\ DOMAIN L[r] = 1 .. Len(L[r]) /\ Len(L[r]) \in Nat
      /\ DOMAIN M[s] = 1 .. Len(L[s]) + 1 /\ DOMAIN M[r] = 1 .. Len(L[r]) - 1
      /\ \A k \in 1 .. Len(L[s]) : M[s][k] = L[s][k]
      /\ M[s][Len(L[s]) + 1] = L[r][1]
      /\ \A k \in 1 .. Len(L[r]) - 1 : M[r][k] = L[r][k + 1]
  BY <1>3, SequenceEnds
<1>5. CASE q = r /\ i = 1
  <2>1. Len(L[s]) + 1 \in DOMAIN M[s] /\ M[s][Len(L[s]) + 1].n = n
    BY <1>2, <1>4, <1>5
  <2> QED  BY <2>1 DEF Carries
<1>6. CASE q = r /\ i # 1
  <2>1. i - 1 \in DOMAIN M[r] /\ M[r][i - 1].n = n
    <3>1. i \in 1 .. Len(L[r]) /\ i - 1 \in 1 .. Len(L[r]) - 1 /\ (i - 1) + 1 = i
      BY <1>2, <1>4, <1>6
    <3> QED  BY <1>2, <1>4, <1>6, <3>1
  <2> QED  BY <2>1 DEF Carries
<1>7. CASE q = s
  <2>1. i \in DOMAIN M[s] /\ M[s][i].n = n
    BY <1>2, <1>4, <1>7, SMTT(60)
  <2> QED  BY <2>1 DEF Carries
<1>8. CASE q # r /\ q # s
  BY <1>2, <1>3, <1>8 DEF Carries
<1> QED  BY <1>5, <1>6, <1>7, <1>8

\* A move keeps the order of the line.
LEMMA MoveKeepsOrder ==
    ASSUME NEW L \in Lines, NEW M \in Lines, NEW r \in Stages, NEW s \in Stages, MovesTo(L, M, r, s),
           NEW g, NEW next, NEW f, InOrder(L, g, next, f)
    PROVE  InOrder(M, g, next, f)
<1> DEFINE row(q, j) == IF q = s /\ j = Len(L[s]) + 1 THEN r ELSE q
           col(q, j) == IF q = r THEN j + 1 ELSE IF q = s /\ j = Len(L[s]) + 1 THEN 1 ELSE j
<1>0. s < r /\ s \in Nat /\ r \in Nat /\ (\A q \in Stages : s < q /\ q < r => L[q] = <<>>)
  BY SMTT(60) DEF MovesTo, Stages
<1>1. ASSUME NEW q \in Stages, NEW j \in DOMAIN M[q]
      PROVE  /\ row(q, j) \in Stages /\ col(q, j) \in DOMAIN L[row(q, j)]
             /\ M[q][j] = L[row(q, j)][col(q, j)]
  BY <1>0, <1>1, MovedFrom
<1>2. ASSUME NEW q \in Stages, NEW j \in DOMAIN M[q], NEW p \in Stages, NEW k \in DOMAIN M[p],
             Before(q, j, p, k)
      PROVE  Before(row(q, j), col(q, j), row(p, k), col(p, k))
  <2>a. j \in Nat /\ j >= 1 /\ Len(L[s]) \in Nat /\ (q = s => j <= Len(L[s]) + 1)
    BY MovedFrom
  <2>b. k \in Nat /\ k >= 1 /\ (p = s => k <= Len(L[s]) + 1)
    BY MovedFrom
  <2>1. q \in Nat /\ p \in Nat
    BY DEF Stages
  <2>2. ASSUME s < p, p < r PROVE FALSE
    <3>1. L[p] = <<>>
      BY <1>0, <2>2
    <3>2. M[p] = L[p]
      BY <1>0, <2>1, <2>2 DEF MovesTo
    <3> QED  BY <3>1, <3>2
  <2> QED  BY <1>0, <1>2, <2>a, <2>b, <2>1, <2>2 DEF Before
<1> HIDE DEF row, col
<1>3. SUFFICES ASSUME NEW q \in Stages, NEW j \in DOMAIN M[q]
               PROVE  /\ M[q][j] \in Frame /\ M[q][j].gen = g /\ M[q][j].n < next
                      /\ f.gen = g => f.n < M[q][j].n
                      /\ \A p \in Stages : \A k \in DOMAIN M[p] :
                            Before(q, j, p, k) => M[q][j].n < M[p][k].n
  BY DEF InOrder
<1>4. /\ M[q][j] \in Frame /\ M[q][j].gen = g /\ M[q][j].n < next
      /\ f.gen = g => f.n < M[q][j].n
  BY <1>1 DEF InOrder
<1>5. ASSUME NEW p \in Stages, NEW k \in DOMAIN M[p], Before(q, j, p, k)
      PROVE  M[q][j].n < M[p][k].n
  BY <1>1, <1>2, <1>5 DEF InOrder
<1> QED  BY <1>4, <1>5

\* So does losing frames.
LEMMA LossKeepsOrder ==
    ASSUME NEW L \in Lines, NEW M \in Lines, Loses(L, M),
           NEW g, NEW next, NEW f, InOrder(L, g, next, f)
    PROVE  InOrder(M, g, next, f)
<1>1. \A q \in Stages : \A j \in DOMAIN M[q] : j \in DOMAIN L[q] /\ M[q][j] = L[q][j]
  <2>1. DOMAIN <<>> = {}
    OBVIOUS
  <2> QED  BY <2>1 DEF Loses
<1> QED  BY <1>1 DEF InOrder

\* What each stage is.
LEMMA StageIs ==
    ASSUME NEW a, NEW h, NEW out, NEW dec, NEW rest, NEW in
    PROVE  LET L == LineOf(a, h, out, dec, rest, in) IN
           /\ L[1] = One(a["push"] = "deliver", h["push"]) /\ L[2] = out
           /\ L[3] = One(a["decode"] = "done" /\ h["decode"] # NoFrame, h["decode"])
           /\ L[4] = dec /\ L[5] = One(rest # NoFrame, rest)
           /\ L[6] = One(a["handle"] \in HandleHolds, h["handle"]) /\ L[7] = in
           /\ L[8] = One(a["demux"] \in DemuxHolds, h["demux"])
  BY DEF LineOf, Stages

-----------------------------------------------------------------------------
(* The calls of the player.                                                *)

\* The steps that the player's call has left are the last ones of its steps.
StepsLeft == Len(todo)

StepNames == {AllFlushStartSteps[i] : i \in 1 .. 10} \union {"pause demux", "seek", "start demux"}
             \union {FlushEndSteps[i] : i \in 1 .. 8} \union {StopSteps[i] : i \in 1 .. 12}
             \union {RestartSteps[i] : i \in 1 .. 12}

ScriptGoes ==
    /\ call \in {"none", "Flush", "Stop", "Restart"} /\ todo \in Seq(StepNames)
    /\ call = "none" => todo = <<>>
    /\ call # "none" =>
          /\ StepsLeft <= Len(Steps(call))
          /\ \A i \in 1 .. StepsLeft : todo[i] = Steps(call)[Len(Steps(call)) - StepsLeft + i]

LEMMA IsSequence ==
    ASSUME NEW S, NEW n \in Nat, NEW f, f = [i \in 1 .. n |-> f[i]], \A i \in 1 .. n : f[i] \in S
    PROVE  f \in Seq(S) /\ Len(f) = n
<1>1. f \in [1 .. n -> S]
  OBVIOUS
<1>2. f \in Seq(S)
  BY <1>1, SeqDef
<1>3. DOMAIN f = 1 .. n /\ Len(f) \in Nat /\ DOMAIN f = 1 .. Len(f)
  BY <1>1, <1>2, LenProperties
<1> QED  BY <1>2, <1>3

\* The steps of a flush one after another.
LEMMA FlushStepsAre ==
    /\ FlushSteps \in Seq(StepNames) /\ Len(FlushSteps) = 21
    /\ \A i \in 1 .. 10 : FlushSteps[i] = AllFlushStartSteps[i]
    /\ FlushSteps[11] = "pause demux" /\ FlushSteps[12] = "seek"
    /\ \A i \in 1 .. 8 : FlushSteps[12 + i] = FlushEndSteps[i]
    /\ FlushSteps[21] = "start demux"
<1> DEFINE A == AllFlushStartSteps
           B == <<"pause demux", "seek">>
           C == FlushEndSteps
           D == <<"start demux">>
<1>a. A \in Seq(StepNames) /\ Len(A) = 10
  <2>1. A = [i \in 1 .. 10 |-> A[i]]
    BY DEF AllFlushStartSteps
  <2> HIDE DEF A
  <2> QED  BY <2>1, IsSequence DEF StepNames, A
<1>b. B \in Seq(StepNames) /\ Len(B) = 2
  <2>1. B = [i \in 1 .. 2 |-> B[i]] /\ B[1] = "pause demux" /\ B[2] = "seek"
    OBVIOUS
  <2> HIDE DEF B
  <2>2. \A i \in 1 .. 2 : B[i] \in StepNames
    <3>1. \A i \in 1 .. 2 : i = 1 \/ i = 2
      OBVIOUS
    <3> QED  BY <2>1, <3>1 DEF StepNames
  <2> QED  BY <2>1, <2>2, IsSequence, ZenonT(60)
<1>c. C \in Seq(StepNames) /\ Len(C) = 8
  <2>1. C = [i \in 1 .. 8 |-> C[i]]
    BY DEF FlushEndSteps
  <2> HIDE DEF C
  <2> QED  BY <2>1, IsSequence DEF StepNames, C
<1>d. D \in Seq(StepNames) /\ Len(D) = 1
  <2>1. D = [i \in 1 .. 1 |-> D[i]] /\ D[1] = "start demux"
    OBVIOUS
  <2> HIDE DEF D
  <2>2. \A i \in 1 .. 1 : D[i] \in StepNames
    <3>1. \A i \in 1 .. 1 : i = 1
      OBVIOUS
    <3> QED  BY <2>1, <3>1 DEF StepNames
  <2> QED  BY <2>1, <2>2, IsSequence
<1>i. B[1] = "pause demux" /\ B[2] = "seek" /\ D[1] = "start demux"
  OBVIOUS
<1>e. FlushSteps = A \o B \o C \o D
  BY DEF FlushSteps, FlushStartSteps
<1> HIDE DEF A, B, C, D
<1>f. PICK E : E = A \o B
  OBVIOUS
<1>g. PICK F : F = E \o C
  OBVIOUS
<1>h. FlushSteps = F \o D
  BY <1>e, <1>f, <1>g
<1>1. /\ E \in Seq(StepNames) /\ Len(E) = 12
      /\ \A i \in 1 .. 10 : E[i] = A[i]
      /\ \A i \in 1 .. 2 : E[10 + i] = B[i]
  <2>1. /\ E \in Seq(StepNames) /\ Len(E) = Len(A) + Len(B)
        /\ \A i \in 1 .. Len(A) + Len(B) : E[i] = IF i <= Len(A) THEN A[i] ELSE B[i - Len(A)]
    BY <1>a, <1>b, <1>f, ConcatProperties
  <2>2. E \in Seq(StepNames) /\ Len(E) = 12
    BY <1>a, <1>b, <2>1
  <2>3. ASSUME NEW i \in 1 .. 10 PROVE E[i] = A[i]
    <3>1. i \in 1 .. Len(A) + Len(B) /\ i <= Len(A)
      BY <1>a, <1>b
    <3> QED  BY <2>1, <3>1
  <2>4. ASSUME NEW i \in 1 .. 2 PROVE E[10 + i] = B[i]
    <3>1. 10 + i \in 1 .. Len(A) + Len(B) /\ ~(10 + i <= Len(A)) /\ 10 + i - Len(A) = i
      BY <1>a, <1>b
    <3> QED  BY <2>1, <3>1
  <2> QED  BY <2>2, <2>3, <2>4
<1>2. /\ F \in Seq(StepNames) /\ Len(F) = 20
      /\ \A i \in 1 .. 12 : F[i] = E[i]
      /\ \A i \in 1 .. 8 : F[12 + i] = C[i]
  <2>1. /\ F \in Seq(StepNames) /\ Len(F) = Len(E) + Len(C)
        /\ \A i \in 1 .. Len(E) + Len(C) : F[i] = IF i <= Len(E) THEN E[i] ELSE C[i - Len(E)]
    BY <1>1, <1>c, <1>g, ConcatProperties, ZenonT(60)
  <2>2. F \in Seq(StepNames) /\ Len(F) = 20
    BY <1>1, <1>c, <2>1
  <2>3. ASSUME NEW i \in 1 .. 12 PROVE F[i] = E[i]
    <3>1. i \in 1 .. Len(E) + Len(C) /\ i <= Len(E)
      BY <1>1, <1>c
    <3> QED  BY <2>1, <3>1
  <2>4. ASSUME NEW i \in 1 .. 8 PROVE F[12 + i] = C[i]
    <3>1. 12 + i \in 1 .. Len(E) + Len(C) /\ ~(12 + i <= Len(E)) /\ 12 + i - Len(E) = i
      BY <1>1, <1>c
    <3> QED  BY <2>1, <3>1
  <2> QED  BY <2>2, <2>3, <2>4
<1>3. /\ FlushSteps \in Seq(StepNames) /\ Len(FlushSteps) = 21
      /\ \A i \in 1 .. 20 : FlushSteps[i] = F[i]
      /\ \A i \in 1 .. 1 : FlushSteps[20 + i] = D[i]
  <2>1. /\ FlushSteps \in Seq(StepNames) /\ Len(FlushSteps) = Len(F) + Len(D)
        /\ \A i \in 1 .. Len(F) + Len(D) : FlushSteps[i] = IF i <= Len(F) THEN F[i] ELSE D[i - Len(F)]
    BY <1>2, <1>d, <1>h, ConcatProperties, ZenonT(60)
  <2>2. FlushSteps \in Seq(StepNames) /\ Len(FlushSteps) = 21
    BY <1>2, <1>d, <2>1
  <2>3. ASSUME NEW i \in 1 .. 20 PROVE FlushSteps[i] = F[i]
    <3>1. i \in 1 .. Len(F) + Len(D) /\ i <= Len(F)
      BY <1>2, <1>d, SMTT(60)
    <3> QED  BY <2>1, <3>1
  <2>4. ASSUME NEW i \in 1 .. 1 PROVE FlushSteps[20 + i] = D[i]
    <3>1. 20 + i \in 1 .. Len(F) + Len(D) /\ ~(20 + i <= Len(F)) /\ 20 + i - Len(F) = i
      BY <1>2, <1>d
    <3> QED  BY <2>1, <3>1
  <2> QED  BY <2>2, <2>3, <2>4
<1>4. E[11] = "pause demux" /\ E[12] = "seek" /\ FlushSteps[21] = "start demux"
  <2>1. 10 + 1 = 11 /\ 10 + 2 = 12 /\ 20 + 1 = 21 /\ 1 \in 1 .. 1 /\ 1 \in 1 .. 2 /\ 2 \in 1 .. 2
    OBVIOUS
  <2>2. E[11] = B[1] /\ E[12] = B[2]
    BY <1>1, <2>1
  <2>3. FlushSteps[21] = D[1]
    BY <1>3, <2>1
  <2> QED  BY <1>i, <2>2, <2>3, Zenon
<1>5. \A i \in 1 .. 12 : FlushSteps[i] = E[i]
  <2>1. \A i \in 1 .. 12 : i \in 1 .. 20
    OBVIOUS
  <2> QED  BY <1>2, <1>3, <2>1
<1>6. \A i \in 1 .. 8 : FlushSteps[12 + i] = C[i]
  <2>1. \A i \in 1 .. 8 : 12 + i \in 1 .. 20
    OBVIOUS
  <2> QED  BY <1>2, <1>3, <2>1, ZenonT(60)
<1>7. \A i \in 1 .. 10 : FlushSteps[i] = A[i]
  <2>1. \A i \in 1 .. 10 : i \in 1 .. 12
    OBVIOUS
  <2> QED  BY <1>1, <1>5, <2>1
<1>8. FlushSteps[11] = "pause demux" /\ FlushSteps[12] = "seek"
  <2>1. 11 \in 1 .. 12 /\ 12 \in 1 .. 12
    OBVIOUS
  <2>2. FlushSteps[11] = E[11] /\ FlushSteps[12] = E[12]
    BY <1>5, <2>1
  <2> QED  BY <1>4, <2>2, Zenon
<1> QED  BY <1>3, <1>4, <1>6, <1>7, <1>8, Zenon DEF A, C

LEMMA OtherStepsAre ==
    /\ StopSteps \in Seq(StepNames) /\ Len(StopSteps) = 12
    /\ RestartSteps \in Seq(StepNames) /\ Len(RestartSteps) = 12
<1>1. StopSteps = [i \in 1 .. 12 |-> StopSteps[i]]
  BY DEF StopSteps
<1>2. RestartSteps = [i \in 1 .. 12 |-> RestartSteps[i]]
  BY DEF RestartSteps
<1> QED  BY <1>1, <1>2, IsSequence DEF StepNames

LEMMA StepsAre ==
    Steps("Flush") = FlushSteps /\ Steps("Stop") = StopSteps /\ Steps("Restart") = RestartSteps
  BY DEF Steps

LEMMA StepsAreSequences ==
    ASSUME NEW c \in {"Flush", "Stop", "Restart"}
    PROVE  /\ Steps(c) \in Seq(StepNames) /\ Len(Steps(c)) \in Nat
           /\ c = "Flush" => Len(Steps(c)) = 21
           /\ c # "Flush" => Len(Steps(c)) = 12
<1>1. CASE c = "Flush"
  <2>1. Steps(c) = FlushSteps
    BY <1>1, StepsAre
  <2>2. FlushSteps \in Seq(StepNames) /\ Len(FlushSteps) = 21 /\ 21 \in Nat
    BY FlushStepsAre
  <2> QED  BY <1>1, <2>1, <2>2
<1>2. CASE c = "Stop"
  <2>1. Steps(c) = StopSteps
    BY <1>2, StepsAre
  <2> QED  BY <1>2, <2>1, OtherStepsAre
<1>3. CASE c = "Restart"
  <2>1. Steps(c) = RestartSteps
    BY <1>3, StepsAre
  <2> QED  BY <1>3, <2>1, OtherStepsAre
<1> QED  BY <1>1, <1>2, <1>3

\* Where in its call the player is when it is to take a step.
StepPlaces(c, left, step) ==
    /\ step = "stop" => (c = "Flush" /\ left = 21) \/ (c = "Stop" /\ left = 10)
    /\ step = "inQueOff" => (c = "Flush" /\ left = 20) \/ (c = "Stop" /\ left = 6)
    /\ step = "kick" => (c = "Flush" /\ left \in {19, 7}) \/ (c = "Stop" /\ left = 4) \/ (c = "Restart" /\ left = 7)
    /\ step = "pause handle" => c = "Flush" /\ left = 18
    /\ step = "poolOff" => (c = "Flush" /\ left = 17) \/ (c = "Stop" /\ left = 9)
    /\ step = "pause decode" => c = "Flush" /\ left = 16
    /\ step = "pause push" => c = "Flush" /\ left = 15
    /\ step = "clearOut" => (c = "Flush" /\ left = 14) \/ (c = "Stop" /\ left = 5)
    /\ step = "flushing" => c = "Flush" /\ left = 13
    /\ step = "pluginFlush" => (c = "Flush" /\ left = 12) \/ (c = "Stop" /\ left = 12)
    /\ step = "pause demux" => c = "Flush" /\ left = 11
    /\ step = "seek" => (c = "Flush" /\ left = 10) \/ (c = "Restart" /\ left = 2)
    /\ step = "unstop" => (c = "Flush" /\ left = 9) \/ (c = "Restart" /\ left = 9)
    /\ step = "inQueOn" => (c = "Flush" /\ left = 8) \/ (c = "Restart" /\ left = 12)
    /\ step = "start handle" => (c = "Flush" /\ left = 6) \/ (c = "Restart" /\ left = 6)
    /\ step = "poolOn" => c = "Flush" /\ left = 5
    /\ step = "start decode" => (c = "Flush" /\ left = 4) \/ (c = "Restart" /\ left = 5)
    /\ step = "start push" => (c = "Flush" /\ left = 3) \/ (c = "Restart" /\ left = 4)
    /\ step = "flushed" => c = "Flush" /\ left = 2
    /\ step = "start demux" => (c = "Flush" /\ left = 1) \/ (c = "Restart" /\ left = 1)
    /\ step = "pluginStop" => c = "Stop" /\ left = 11
    /\ step = "stop decode" => c = "Stop" /\ left = 8
    /\ step = "stop push" => c = "Stop" /\ left = 7
    /\ step = "stop handle" => c = "Stop" /\ left = 3
    /\ step = "initialized" => c = "Stop" /\ left = 2
    /\ step = "stop demux" => c = "Stop" /\ left = 1
    /\ step = "preparing" => c = "Restart" /\ left = 11
    /\ step = "newPool" => c = "Restart" /\ left = 10
    /\ step = "pluginStart" => c = "Restart" /\ left = 8
    /\ step = "ready" => c = "Restart" /\ left = 3

LEMMA NextStep ==
    ASSUME ScriptGoes, todo # <<>>
    PROVE  /\ StepsLeft \in Nat /\ StepsLeft >= 1 /\ Tail(todo) \in Seq(StepNames)
           /\ Len(Tail(todo)) = StepsLeft - 1
           /\ StepPlaces(call, StepsLeft, Head(todo))
           /\ call = "Flush" => StepsLeft <= 21
           /\ call # "Flush" => StepsLeft <= 12
           /\ call # "none"
<1>1. /\ StepsLeft \in Nat /\ StepsLeft >= 1 /\ Tail(todo) \in Seq(StepNames)
      /\ Len(Tail(todo)) = StepsLeft - 1 /\ Head(todo) = todo[1]
  BY SequenceEnds DEF ScriptGoes, StepsLeft
<1>2. /\ call # "none" /\ StepsLeft <= Len(Steps(call))
      /\ Head(todo) = Steps(call)[Len(Steps(call)) - StepsLeft + 1]
  BY <1>1 DEF ScriptGoes
<1>3. PICK left : left = StepsLeft
  OBVIOUS
<1>4. PICK step : step = Head(todo)
  OBVIOUS
<1>5. CASE call = "Flush"
  <2>1. left \in 1 .. 21 /\ step = FlushSteps[22 - left]
    <3>1. Steps(call) = FlushSteps /\ Len(FlushSteps) = 21
      BY <1>5, StepsAre, FlushStepsAre
    <3> QED  BY <1>1, <1>2, <1>3, <1>4, <3>1
  <2>2. ASSUME left \in 12 .. 21 PROVE StepPlaces("Flush", left, step)
    <3>1. 22 - left \in 1 .. 10
      BY <2>2
    <3>2. step = AllFlushStartSteps[22 - left]
      BY <2>1, <3>1, FlushStepsAre
    <3>3. /\ left = 21 => step = "stop"
          /\ left = 20 => step = "inQueOff"
          /\ left = 19 => step = "kick"
          /\ left = 18 => step = "pause handle"
          /\ left = 17 => step = "poolOff"
          /\ left = 16 => step = "pause decode"
          /\ left = 15 => step = "pause push"
          /\ left = 14 => step = "clearOut"
          /\ left = 13 => step = "flushing"
          /\ left = 12 => step = "pluginFlush"
      <4>1. /\ AllFlushStartSteps[1] = "stop"
            /\ AllFlushStartSteps[2] = "inQueOff"
            /\ AllFlushStartSteps[3] = "kick"
            /\ AllFlushStartSteps[4] = "pause handle"
            /\ AllFlushStartSteps[5] = "poolOff"
            /\ AllFlushStartSteps[6] = "pause decode"
            /\ AllFlushStartSteps[7] = "pause push"
            /\ AllFlushStartSteps[8] = "clearOut"
            /\ AllFlushStartSteps[9] = "flushing"
            /\ AllFlushStartSteps[10] = "pluginFlush"
        BY DEF AllFlushStartSteps
      <4>2. /\ (left = 21 => 22 - left = 1) /\ (left = 20 => 22 - left = 2)
            /\ (left = 19 => 22 - left = 3) /\ (left = 18 => 22 - left = 4)
            /\ (left = 17 => 22 - left = 5) /\ (left = 16 => 22 - left = 6)
            /\ (left = 15 => 22 - left = 7) /\ (left = 14 => 22 - left = 8)
            /\ (left = 13 => 22 - left = 9) /\ (left = 12 => 22 - left = 10)
        OBVIOUS
      <4> QED  BY <3>2, <4>1, <4>2, ZenonT(60)
    <3>4. \/ left = 12 \/ left = 13 \/ left = 14 \/ left = 15 \/ left = 16
          \/ left = 17 \/ left = 18 \/ left = 19 \/ left = 20 \/ left = 21
      BY <2>2
    <3> QED  BY <3>3, <3>4 DEF StepPlaces
  <2>3. ASSUME left \in 2 .. 9 PROVE StepPlaces("Flush", left, step)
    <3>1. 10 - left \in 1 .. 8 /\ 12 + (10 - left) = 22 - left
      BY <2>3
    <3>2. step = FlushEndSteps[10 - left]
      BY <2>1, <3>1, FlushStepsAre, ZenonT(60)
    <3>3. /\ left = 9 => step = "unstop"
          /\ left = 8 => step = "inQueOn"
          /\ left = 7 => step = "kick"
          /\ left = 6 => step = "start handle"
          /\ left = 5 => step = "poolOn"
          /\ left = 4 => step = "start decode"
          /\ left = 3 => step = "start push"
          /\ left = 2 => step = "flushed"
      <4>1. /\ FlushEndSteps[1] = "unstop"
            /\ FlushEndSteps[2] = "inQueOn"
            /\ FlushEndSteps[3] = "kick"
            /\ FlushEndSteps[4] = "start handle"
            /\ FlushEndSteps[5] = "poolOn"
            /\ FlushEndSteps[6] = "start decode"
            /\ FlushEndSteps[7] = "start push"
            /\ FlushEndSteps[8] = "flushed"
        BY DEF FlushEndSteps
      <4>2. /\ (left = 9 => 10 - left = 1) /\ (left = 8 => 10 - left = 2)
            /\ (left = 7 => 10 - left = 3) /\ (left = 6 => 10 - left = 4)
            /\ (left = 5 => 10 - left = 5) /\ (left = 4 => 10 - left = 6)
            /\ (left = 3 => 10 - left = 7) /\ (left = 2 => 10 - left = 8)
        OBVIOUS
      <4> QED  BY <3>2, <4>1, <4>2, ZenonT(60)
    <3>4. \/ left = 2 \/ left = 3 \/ left = 4 \/ left = 5
          \/ left = 6 \/ left = 7 \/ left = 8 \/ left = 9
      BY <2>3
    <3> QED  BY <3>3, <3>4 DEF StepPlaces
  <2>4. ASSUME left \in {1, 10, 11} PROVE StepPlaces("Flush", left, step)
    <3>1. /\ left = 1 => step = "start demux"
          /\ left = 10 => step = "seek"
          /\ left = 11 => step = "pause demux"
      <4>1. /\ left = 1 => 22 - left = 21
            /\ left = 10 => 22 - left = 12
            /\ left = 11 => 22 - left = 11
        OBVIOUS
      <4> QED  BY <2>1, <4>1, FlushStepsAre, Zenon
    <3> QED  BY <2>4, <3>1 DEF StepPlaces
  <2>5. StepPlaces("Flush", left, step) /\ left <= 21
    <3>1. left \in 12 .. 21 \/ left \in 2 .. 9 \/ left \in {1, 10, 11}
      BY <2>1
    <3>2. StepPlaces("Flush", left, step)
      BY <3>1, <2>2, <2>3, <2>4
    <3> QED  BY <2>1, <3>2
  <2> QED  BY <1>1, <1>2, <1>3, <1>4, <1>5, <2>5
<1>6. ASSUME left \in 1 .. 12
      PROVE  \/ left = 1 \/ left = 2 \/ left = 3 \/ left = 4 \/ left = 5 \/ left = 6
             \/ left = 7 \/ left = 8 \/ left = 9 \/ left = 10 \/ left = 11 \/ left = 12
  BY <1>6
<1>7. CASE call = "Stop"
  <2>1. left \in 1 .. 12 /\ step = StopSteps[13 - left]
    <3>1. Steps(call) = StopSteps /\ Len(StopSteps) = 12
      BY <1>7, StepsAre, OtherStepsAre
    <3> QED  BY <1>1, <1>2, <1>3, <1>4, <3>1
  <2>2. /\ left = 12 => step = "pluginFlush"
        /\ left = 11 => step = "pluginStop"
        /\ left = 10 => step = "stop"
        /\ left = 9 => step = "poolOff"
        /\ left = 8 => step = "stop decode"
        /\ left = 7 => step = "stop push"
        /\ left = 6 => step = "inQueOff"
        /\ left = 5 => step = "clearOut"
        /\ left = 4 => step = "kick"
        /\ left = 3 => step = "stop handle"
        /\ left = 2 => step = "initialized"
        /\ left = 1 => step = "stop demux"
    <3>1. /\ StopSteps[1] = "pluginFlush"
          /\ StopSteps[2] = "pluginStop"
          /\ StopSteps[3] = "stop"
          /\ StopSteps[4] = "poolOff"
          /\ StopSteps[5] = "stop decode"
          /\ StopSteps[6] = "stop push"
          /\ StopSteps[7] = "inQueOff"
          /\ StopSteps[8] = "clearOut"
          /\ StopSteps[9] = "kick"
          /\ StopSteps[10] = "stop handle"
          /\ StopSteps[11] = "initialized"
          /\ StopSteps[12] = "stop demux"
      BY DEF StopSteps
    <3>2. /\ (left = 12 => 13 - left = 1) /\ (left = 11 => 13 - left = 2)
          /\ (left = 10 => 13 - left = 3) /\ (left = 9 => 13 - left = 4)
          /\ (left = 8 => 13 - left = 5) /\ (left = 7 => 13 - left = 6)
          /\ (left = 6 => 13 - left = 7) /\ (left = 5 => 13 - left = 8)
          /\ (left = 4 => 13 - left = 9) /\ (left = 3 => 13 - left = 10)
          /\ (left = 2 => 13 - left = 11) /\ (left = 1 => 13 - left = 12)
      OBVIOUS
    <3> QED  BY <2>1, <3>1, <3>2, ZenonT(150)
  <2>3. StepPlaces("Stop", left, step)
    BY <1>6, <2>1, <2>2 DEF StepPlaces
  <2> QED  BY <1>1, <1>2, <1>3, <1>4, <1>7, <2>1, <2>3
<1>8. CASE call = "Restart"
  <2>1. left \in 1 .. 12 /\ step = RestartSteps[13 - left]
    <3>1. Steps(call) = RestartSteps /\ Len(RestartSteps) = 12
      BY <1>8, StepsAre, OtherStepsAre
    <3> QED  BY <1>1, <1>2, <1>3, <1>4, <3>1
  <2>2. /\ left = 12 => step = "inQueOn"
        /\ left = 11 => step = "preparing"
        /\ left = 10 => step = "newPool"
        /\ left = 9 => step = "unstop"
        /\ left = 8 => step = "pluginStart"
        /\ left = 7 => step = "kick"
        /\ left = 6 => step = "start handle"
        /\ left = 5 => step = "start decode"
        /\ left = 4 => step = "start push"
        /\ left = 3 => step = "ready"
        /\ left = 2 => step = "seek"
        /\ left = 1 => step = "start demux"
    <3>1. /\ RestartSteps[1] = "inQueOn"
          /\ RestartSteps[2] = "preparing"
          /\ RestartSteps[3] = "newPool"
          /\ RestartSteps[4] = "unstop"
          /\ RestartSteps[5] = "pluginStart"
          /\ RestartSteps[6] = "kick"
          /\ RestartSteps[7] = "start handle"
          /\ RestartSteps[8] = "start decode"
          /\ RestartSteps[9] = "start push"
          /\ RestartSteps[10] = "ready"
          /\ RestartSteps[11] = "seek"
          /\ RestartSteps[12] = "start demux"
      BY DEF RestartSteps
    <3>2. /\ (left = 12 => 13 - left = 1) /\ (left = 11 => 13 - left = 2)
          /\ (left = 10 => 13 - left = 3) /\ (left = 9 => 13 - left = 4)
          /\ (left = 8 => 13 - left = 5) /\ (left = 7 => 13 - left = 6)
          /\ (left = 6 => 13 - left = 7) /\ (left = 5 => 13 - left = 8)
          /\ (left = 4 => 13 - left = 9) /\ (left = 3 => 13 - left = 10)
          /\ (left = 2 => 13 - left = 11) /\ (left = 1 => 13 - left = 12)
      OBVIOUS
    <3> QED  BY <2>1, <3>1, <3>2, ZenonT(150)
  <2>3. StepPlaces("Restart", left, step)
    BY <1>6, <2>1, <2>2 DEF StepPlaces
  <2> QED  BY <1>1, <1>2, <1>3, <1>4, <1>8, <2>1, <2>3
<1> QED  BY <1>2, <1>5, <1>7, <1>8 DEF ScriptGoes

\* The player's call goes on, begins, or stays where it is.
LEMMA ScriptGoesOn ==
    ASSUME ScriptGoes, todo # <<>>, todo' = Tail(todo), call' = call
    PROVE  ScriptGoes' /\ StepsLeft' = StepsLeft - 1 /\ StepsLeft' \in Nat
<1>1. /\ StepsLeft \in Nat /\ StepsLeft >= 1 /\ todo' \in Seq(StepNames) /\ Len(todo') = StepsLeft - 1
      /\ call # "none" /\ todo \in Seq(StepNames) /\ StepsLeft = Len(todo)
  BY NextStep DEF ScriptGoes, StepsLeft
<1>2. \A i \in 1 .. Len(todo) - 1 : todo'[i] = todo[i + 1]
  BY <1>1, SequenceEnds
<1>3. Len(Steps(call)) \in Nat
  BY <1>1, StepsAreSequences DEF ScriptGoes
<1>4. ASSUME NEW i \in 1 .. StepsLeft - 1
      PROVE  todo'[i] = Steps(call)[Len(Steps(call)) - (StepsLeft - 1) + i]
  <2>1. i + 1 \in 1 .. StepsLeft
    BY <1>1
  <2>2. Len(Steps(call)) - StepsLeft + (i + 1) = Len(Steps(call)) - (StepsLeft - 1) + i
    BY <1>1, <1>3
  <2> QED  BY <1>1, <1>2, <1>4, <2>1, <2>2 DEF ScriptGoes
<1>5. StepsLeft' = StepsLeft - 1
  BY <1>1 DEF StepsLeft
<1> QED  BY <1>1, <1>3, <1>4, <1>5 DEF ScriptGoes

LEMMA ScriptBegins ==
    ASSUME NEW c \in {"Flush", "Stop", "Restart"}, call' = c, todo' = Steps(c)
    PROVE  /\ ScriptGoes' /\ StepsLeft' \in Nat
           /\ c = "Flush" => StepsLeft' = 21
           /\ c # "Flush" => StepsLeft' = 12
<1>1. /\ Steps(c) \in Seq(StepNames) /\ Len(Steps(c)) \in Nat
      /\ c = "Flush" => Len(Steps(c)) = 21
      /\ c # "Flush" => Len(Steps(c)) = 12
  BY StepsAreSequences
<1>2. StepsLeft' = Len(Steps(c)) /\ (Steps(call))' = Steps(c)
  BY StepsAre DEF StepsLeft, Steps, FlushSteps, StopSteps, RestartSteps
<1>3. ASSUME NEW i \in 1 .. StepsLeft'
      PROVE  todo'[i] = Steps(c)[Len(Steps(c)) - StepsLeft' + i]
  <2>1. Len(Steps(c)) - StepsLeft' + i = i
    BY <1>1, <1>2
  <2> QED  BY <2>1
<1> QED  BY <1>1, <1>2, <1>3 DEF ScriptGoes

LEMMA ScriptStays ==
    ASSUME UNCHANGED <<call, todo>>, ScriptGoes
    PROVE  ScriptGoes' /\ StepsLeft' = StepsLeft /\ StepsLeft \in Nat
<1>1. todo \in Seq(StepNames) /\ StepsLeft \in Nat
  BY LenProperties DEF ScriptGoes, StepsLeft
<1> QED  BY <1>1 DEF ScriptGoes, StepsLeft, Steps

-----------------------------------------------------------------------------
(* What holds in every state.                                              *)

RunStates == {"STARTED", "PAUSING", "PAUSED", "STOPPING", "STOPPED"}
Rests(t) == run[t] \in {"PAUSED", "STOPPED"}

\* The types that the proof needs; a thread that holds a frame in the line has one.
TypesHold ==
    /\ gen \in Nat /\ nextFrame \in 1 .. Eos + 1
    /\ inBufQue \in Seq(Frame) /\ outBufQue \in Seq(Frame) /\ decoded \in Seq(Frame)
    /\ draining \in Frame \union {NoFrame} /\ last \in Frame \union {NoFrame}
    /\ run \in [Threads -> RunStates] /\ at \in [Threads -> Places]
    /\ hold \in [Threads -> Frame \union {NoFrame}]
    /\ at["push"] = "deliver" => hold["push"] \in Frame
    /\ at["handle"] \in HandleHolds => hold["handle"] \in Frame
    /\ at["demux"] \in DemuxHolds => hold["demux"] \in Frame

RestIsIdle == \A t \in Threads : Rests(t) => at[t] = "idle"
DrainsLast == draining # NoFrame => IsEos(draining)

Fits == InOrder(Line, gen, nextFrame, last)
LastFits == last.gen <= gen /\ (last.gen = gen => last.n < nextFrame)

LineIsEmpty == \A s \in Stages : Line[s] = <<>>
Clean == LineIsEmpty /\ Rests("demux")
Fresh == nextFrame = 1 /\ last.gen < gen
Whole == \A n \in Due .. nextFrame - 1 : Carries(Line, n)
Working == inActive /\ ~stopped /\ ~isFlushing /\ codecState = "READY" /\ ctxOpen

\* What each call of the player has done so far.
FlushDoes ==
    /\ ctxOpen /\ codecState = "READY"
    /\ StepsLeft \in 8 .. 19 => ~inActive /\ inBufQue = <<>>
    /\ StepsLeft \in 6 .. 17 => Rests("handle")
    /\ StepsLeft \in 4 .. 15 => Rests("decode")
    /\ StepsLeft \in 3 .. 14 => Rests("push")
    /\ StepsLeft \in 11 .. 13 => outBufQue = <<>>
    /\ StepsLeft = 11 => decoded = <<>> /\ draining = NoFrame
    /\ StepsLeft \in 1 .. 10 => Clean
    /\ StepsLeft \in 1 .. 9 => Fresh
    /\ StepsLeft <= 8 => ~stopped
    /\ StepsLeft <= 7 => inActive
    /\ StepsLeft <= 1 => ~isFlushing

StopDoes ==
    /\ StepsLeft <= 10 => ~ctxOpen /\ Line[3] = <<>> /\ decoded = <<>> /\ draining = NoFrame
    /\ StepsLeft <= 6 => Rests("push")
    /\ StepsLeft <= 5 => ~inActive /\ inBufQue = <<>>
    /\ StepsLeft <= 4 => outBufQue = <<>>
    /\ StepsLeft <= 2 => Rests("handle")
    /\ StepsLeft <= 1 => codecState = "INITIALIZED"
    /\ StepsLeft = 0 => Clean

RestartDoes ==
    /\ StepsLeft >= 1 => Clean
    /\ StepsLeft = 1 => Fresh
    /\ StepsLeft <= 11 => inActive
    /\ StepsLeft <= 8 => ~stopped
    /\ StepsLeft <= 7 => ctxOpen
    /\ StepsLeft <= 2 => codecState = "READY"

CallDoes ==
    /\ call # "Stop" /\ StepsLeft = 0 => Whole /\ Working
    /\ call # "Flush" => ~isFlushing
    /\ call = "Flush" => FlushDoes
    /\ call = "Stop" => StopDoes
    /\ call = "Restart" => RestartDoes

CodecInv == TypesHold /\ RestIsIdle /\ DrainsLast /\ Fits /\ LastFits /\ ScriptGoes /\ CallDoes

-----------------------------------------------------------------------------
(* The line, stage by stage.                                               *)

LEMMA EosIs == Eos \in Nat \ {0} /\ NoFrame \notin Frame
  BY CodecAssumption DEF Frame, NoFrame

LEMMA OneIs ==
    ASSUME NEW f
    PROVE  /\ One(TRUE, f) = <<f>> /\ One(FALSE, f) = <<>>
           /\ <<f>> # <<>> /\ Head(<<f>>) = f /\ Tail(<<f>>) = <<>> /\ Append(<<>>, f) = <<f>>
           /\ DOMAIN <<f>> = {1} /\ <<f>>[1] = f /\ DOMAIN <<>> = {}
           /\ \A S : f \in S => <<f>> \in Seq(S)
<1>1. ASSUME NEW S, f \in S PROVE <<f>> \in Seq(S)
  <2>1. <<f>> = [i \in 1 .. 1 |-> <<f>>[i]] /\ \A i \in 1 .. 1 : <<f>>[i] \in S
    BY <1>1
  <2> QED  BY <2>1, IsSequence
<1>2. Tail(<<f>>) = <<>> /\ Append(<<>>, f) = <<f>>
  OBVIOUS
<1>3. DOMAIN <<f>> = {1} /\ DOMAIN <<>> = {}
  OBVIOUS
<1> QED  BY <1>1, <1>2, <1>3 DEF One

LEMMA LineIs ==
    /\ Line[1] = One(at["push"] = "deliver", hold["push"])
    /\ Line[2] = outBufQue
    /\ Line[3] = One(at["decode"] = "done" /\ hold["decode"] # NoFrame, hold["decode"])
    /\ Line[4] = decoded
    /\ Line[5] = One(draining # NoFrame, draining)
    /\ Line[6] = One(at["handle"] \in HandleHolds, hold["handle"])
    /\ Line[7] = inBufQue
    /\ Line[8] = One(at["demux"] \in DemuxHolds, hold["demux"])
  BY StageIs DEF Line

LEMMA LineIsNext ==
    /\ Line'[1] = One(at'["push"] = "deliver", hold'["push"])
    /\ Line'[2] = outBufQue'
    /\ Line'[3] = One(at'["decode"] = "done" /\ hold'["decode"] # NoFrame, hold'["decode"])
    /\ Line'[4] = decoded'
    /\ Line'[5] = One(draining' # NoFrame, draining')
    /\ Line'[6] = One(at'["handle"] \in HandleHolds, hold'["handle"])
    /\ Line'[7] = inBufQue'
    /\ Line'[8] = One(at'["demux"] \in DemuxHolds, hold'["demux"])
  BY StageIs DEF Line

LEMMA StagesAre ==
    ASSUME NEW s \in Stages
    PROVE  s = 1 \/ s = 2 \/ s = 3 \/ s = 4 \/ s = 5 \/ s = 6 \/ s = 7 \/ s = 8
  BY DEF Stages

LEMMA LineIsTyped ==
    ASSUME NEW a, NEW h, NEW out \in Seq(Frame), NEW dec \in Seq(Frame), NEW rest \in Frame \union {NoFrame},
           NEW in \in Seq(Frame), h["decode"] \in Frame \union {NoFrame},
           a["push"] = "deliver" => h["push"] \in Frame,
           a["handle"] \in HandleHolds => h["handle"] \in Frame,
           a["demux"] \in DemuxHolds => h["demux"] \in Frame
    PROVE  LineOf(a, h, out, dec, rest, in) \in Lines
<1> DEFINE L == LineOf(a, h, out, dec, rest, in)
<1>1. ASSUME NEW b \in BOOLEAN, NEW f, b => f \in Frame
      PROVE  One(b, f) \in Seq(Frame)
  <2>1. CASE b
    BY <1>1, <2>1, OneIs DEF One
  <2>2. CASE ~b
    BY <2>2, EmptySeq DEF One
  <2> QED  BY <2>1, <2>2
<1>2. /\ One(a["push"] = "deliver", h["push"]) \in Seq(Frame)
      /\ One(a["decode"] = "done" /\ h["decode"] # NoFrame, h["decode"]) \in Seq(Frame)
      /\ One(rest # NoFrame, rest) \in Seq(Frame)
      /\ One(a["handle"] \in HandleHolds, h["handle"]) \in Seq(Frame)
      /\ One(a["demux"] \in DemuxHolds, h["demux"]) \in Seq(Frame)
  <2>1. One(a["push"] = "deliver", h["push"]) \in Seq(Frame)
    BY <1>1
  <2>2. One(a["decode"] = "done" /\ h["decode"] # NoFrame, h["decode"]) \in Seq(Frame)
    <3>1. (a["decode"] = "done" /\ h["decode"] # NoFrame) \in BOOLEAN
      OBVIOUS
    <3> QED  BY <1>1, <3>1
  <2>3. One(rest # NoFrame, rest) \in Seq(Frame)
    BY <1>1
  <2>4. One(a["handle"] \in HandleHolds, h["handle"]) \in Seq(Frame)
    <3>1. CASE a["handle"] \in HandleHolds
      BY <3>1, OneIs DEF One
    <3>2. CASE a["handle"] \notin HandleHolds
      BY <3>2, EmptySeq DEF One
    <3> QED  BY <3>1, <3>2
  <2>5. One(a["demux"] \in DemuxHolds, h["demux"]) \in Seq(Frame)
    <3>1. CASE a["demux"] \in DemuxHolds
      BY <3>1, OneIs DEF One
    <3>2. CASE a["demux"] \notin DemuxHolds
      BY <3>2, EmptySeq DEF One
    <3> QED  BY <3>1, <3>2
  <2> QED  BY <2>1, <2>2, <2>3, <2>4, <2>5
<1>3. /\ L[1] \in Seq(Frame) /\ L[2] \in Seq(Frame) /\ L[3] \in Seq(Frame) /\ L[4] \in Seq(Frame)
      /\ L[5] \in Seq(Frame) /\ L[6] \in Seq(Frame) /\ L[7] \in Seq(Frame) /\ L[8] \in Seq(Frame)
  <2> HIDE DEF L
  <2>1. /\ L[1] = One(a["push"] = "deliver", h["push"]) /\ L[2] = out
        /\ L[3] = One(a["decode"] = "done" /\ h["decode"] # NoFrame, h["decode"])
        /\ L[4] = dec /\ L[5] = One(rest # NoFrame, rest)
        /\ L[6] = One(a["handle"] \in HandleHolds, h["handle"]) /\ L[7] = in
        /\ L[8] = One(a["demux"] \in DemuxHolds, h["demux"])
    BY StageIs DEF L
  <2> QED  BY <1>2, <2>1
<1>4. L = [s \in Stages |-> L[s]]
  <2> DEFINE stage(s) ==
        CASE s = 1 -> One(a["push"] = "deliver", h["push"])
          [] s = 2 -> out
          [] s = 3 -> One(a["decode"] = "done" /\ h["decode"] # NoFrame, h["decode"])
          [] s = 4 -> dec
          [] s = 5 -> One(rest # NoFrame, rest)
          [] s = 6 -> One(a["handle"] \in HandleHolds, h["handle"])
          [] s = 7 -> in
          [] s = 8 -> One(a["demux"] \in DemuxHolds, h["demux"])
  <2>1. L = [s \in Stages |-> stage(s)]
    BY DEF LineOf
  <2> HIDE DEF L, stage
  <2> QED  BY <2>1
<1> HIDE DEF L
<1>5. \A s \in Stages : L[s] \in Seq(Frame)
  BY <1>3, StagesAre
<1> QED  BY <1>4, <1>5 DEF Lines, L

LEMMA LinesHold ==
    /\ TypesHold => Line \in Lines
    /\ TypesHold' => Line' \in Lines
<1>1. ASSUME TypesHold PROVE Line \in Lines
  <2>1. hold["decode"] \in Frame \union {NoFrame}
    BY <1>1 DEF TypesHold, Threads
  <2> QED  BY <1>1, <2>1, LineIsTyped DEF TypesHold, Line
<1>2. ASSUME TypesHold' PROVE Line' \in Lines
  <2>1. hold'["decode"] \in Frame \union {NoFrame}
    BY <1>2 DEF TypesHold, Threads
  <2> QED  BY <1>2, <2>1, LineIsTyped DEF TypesHold, Line
<1> QED  BY <1>1, <1>2

-----------------------------------------------------------------------------
(* What the step of a thread does, and that it is enough.                  *)

OrderKept ==
    /\ Fits' /\ LastFits'
    /\ Clean => LineIsEmpty' /\ UNCHANGED <<nextFrame, last>>
    /\ Whole /\ Working => Whole'

StaysAtRest ==
    \A t \in Threads : (Rests(t) => Rests(t)') /\ (Rests(t)' => at'[t] = "idle")

StaysEmpty ==
    /\ ~inActive /\ inBufQue = <<>> => inBufQue' = <<>>
    /\ (Line[3] = <<>> \/ Rests("decode")) /\ outBufQue = <<>> => outBufQue' = <<>>
    /\ (Rests("handle") \/ ~ctxOpen) /\ decoded = <<>> => decoded' = <<>>
    /\ (Rests("handle") \/ ~ctxOpen) /\ draining = NoFrame => draining' = NoFrame
    /\ ~ctxOpen /\ Line[3] = <<>> => Line'[3] = <<>>

PlayerWaits ==
    UNCHANGED <<gen, inActive, stopped, isFlushing, codecState, ctxOpen, call, todo>>

ThreadGoes ==
    PlayerWaits /\ TypesHold' /\ DrainsLast' /\ StaysAtRest /\ StaysEmpty /\ OrderKept

LEMMA ThreadsKeep == CodecInv /\ ThreadGoes => CodecInv'
<1> SUFFICES ASSUME CodecInv, ThreadGoes PROVE CodecInv'
  OBVIOUS
<1>1. TypesHold' /\ RestIsIdle' /\ DrainsLast' /\ Fits' /\ LastFits'
  BY DEF ThreadGoes, OrderKept, StaysAtRest, RestIsIdle
<1>2. ScriptGoes' /\ StepsLeft' = StepsLeft /\ StepsLeft \in Nat
  BY ScriptStays DEF CodecInv, ThreadGoes, PlayerWaits
<1>3. \A t \in Threads : Rests(t) => Rests(t)'
  BY DEF ThreadGoes, StaysAtRest
<1>4. Clean => Clean'
  BY <1>3 DEF ThreadGoes, OrderKept, Clean, Threads
<1>5. Clean /\ Fresh => Fresh'
  BY DEF ThreadGoes, OrderKept, Fresh, PlayerWaits
<1>6. Whole /\ Working => Whole' /\ Working'
  BY DEF ThreadGoes, OrderKept, Working, PlayerWaits
<1>7. ASSUME call = "Flush" PROVE FlushDoes'
  <2>1. FlushDoes
    BY <1>7 DEF CodecInv, CallDoes
  <2>2. /\ Rests("handle") => Rests("handle")'
        /\ Rests("decode") => Rests("decode")'
        /\ Rests("push") => Rests("push")'
    BY <1>3 DEF Threads
  <2>3. StepsLeft \in 11 .. 13 => outBufQue' = <<>>
    BY <1>2, <2>1 DEF FlushDoes, ThreadGoes, StaysEmpty
  <2>4. StepsLeft = 11 => decoded' = <<>> /\ draining' = NoFrame
    BY <1>2, <2>1 DEF FlushDoes, ThreadGoes, StaysEmpty
  <2>5. StepsLeft \in 8 .. 19 => ~inActive' /\ inBufQue' = <<>>
    BY <1>2, <2>1 DEF FlushDoes, ThreadGoes, StaysEmpty, PlayerWaits
  <2>6. (StepsLeft \in 1 .. 10 => Clean') /\ (StepsLeft \in 1 .. 9 => Fresh')
    <3>1. StepsLeft \in 1 .. 9 => StepsLeft \in 1 .. 10
      BY <1>2
    <3> QED  BY <1>4, <1>5, <2>1, <3>1 DEF FlushDoes
  <2>7. /\ ctxOpen' = ctxOpen /\ codecState' = codecState /\ stopped' = stopped
        /\ inActive' = inActive /\ isFlushing' = isFlushing
    BY DEF ThreadGoes, PlayerWaits
  <2> HIDE DEF Clean, Fresh, Rests
  <2> QED  BY <1>2, <2>1, <2>2, <2>3, <2>4, <2>5, <2>6, <2>7 DEF FlushDoes
<1>8. ASSUME call = "Stop" PROVE StopDoes'
  <2>1. StopDoes
    BY <1>8 DEF CodecInv, CallDoes
  <2>2. (Rests("handle") => Rests("handle")') /\ (Rests("push") => Rests("push")')
    BY <1>3 DEF Threads
  <2>3. StepsLeft <= 10 => Line'[3] = <<>> /\ decoded' = <<>> /\ draining' = NoFrame
    BY <1>2, <2>1 DEF StopDoes, ThreadGoes, StaysEmpty
  <2>4. StepsLeft <= 5 => inBufQue' = <<>>
    BY <1>2, <2>1 DEF StopDoes, ThreadGoes, StaysEmpty
  <2>5. StepsLeft <= 4 => outBufQue' = <<>>
    BY <1>2, <2>1 DEF StopDoes, ThreadGoes, StaysEmpty
  <2> QED  BY <1>2, <1>4, <2>1, <2>2, <2>3, <2>4, <2>5 DEF StopDoes, ThreadGoes, PlayerWaits
<1>9. ASSUME call = "Restart" PROVE RestartDoes'
  <2>1. RestartDoes
    BY <1>9 DEF CodecInv, CallDoes
  <2> QED  BY <1>2, <1>4, <1>5, <2>1 DEF RestartDoes, ThreadGoes, PlayerWaits
<1>10. CallDoes'
  BY <1>2, <1>6, <1>7, <1>8, <1>9 DEF CodecInv, CallDoes, ThreadGoes, PlayerWaits
<1> QED  BY <1>1, <1>2, <1>10 DEF CodecInv

\* The line as it was, after a move and after a loss.
LEMMA SameLineKept ==
    ASSUME CodecInv, Line' = Line, UNCHANGED <<gen, nextFrame, last>>
    PROVE  OrderKept
  BY DEF CodecInv, Fits, LastFits, LineIsEmpty, Whole, Due, OrderKept, Clean

LEMMA MovedLineKept ==
    ASSUME CodecInv, TypesHold', NEW r \in Stages, NEW s \in Stages, MovesTo(Line, Line', r, s),
           UNCHANGED <<gen, nextFrame, last>>
    PROVE  OrderKept
<1>1. Line \in Lines /\ Line' \in Lines
  BY LinesHold DEF CodecInv
<1>2. Fits'
  BY <1>1, MoveKeepsOrder DEF CodecInv, Fits
<1>3. Whole => Whole'
  BY <1>1, MovedTo DEF Whole, Due
<1>4. ~Clean
  BY DEF MovesTo, Clean, LineIsEmpty
<1> QED  BY <1>2, <1>3, <1>4 DEF CodecInv, LastFits, OrderKept

LEMMA LostLineKept ==
    ASSUME CodecInv, TypesHold', Loses(Line, Line'), ~(Whole /\ Working),
           UNCHANGED <<gen, nextFrame, last>>
    PROVE  OrderKept
<1>1. Line \in Lines /\ Line' \in Lines
  BY LinesHold DEF CodecInv
<1>2. Fits'
  BY <1>1, LossKeepsOrder DEF CodecInv, Fits
<1>3. LineIsEmpty => LineIsEmpty'
  BY DEF Loses, LineIsEmpty
<1> QED  BY <1>2, <1>3 DEF CodecInv, LastFits, OrderKept, Clean

LEMMA SameStages ==
    ASSUME Line \in Lines, Line' \in Lines,
           Line'[1] = Line[1], Line'[2] = Line[2], Line'[3] = Line[3], Line'[4] = Line[4],
           Line'[5] = Line[5], Line'[6] = Line[6], Line'[7] = Line[7], Line'[8] = Line[8]
    PROVE  Line' = Line
<1>1. \A s \in Stages : Line'[s] = Line[s]
  BY StagesAre
<1> QED  BY <1>1 DEF Lines

\* A stage of one frame depends on who has it in hand.
LEMMA PushHolds ==
    ASSUME at'["push"] = "deliver" <=> at["push"] = "deliver",
           at["push"] = "deliver" => hold'["push"] = hold["push"]
    PROVE  Line'[1] = Line[1]
  BY LineIs, LineIsNext DEF One

LEMMA DecodeHoldsFrame ==
    ASSUME at'["decode"] = "done" /\ hold'["decode"] # NoFrame
               <=> at["decode"] = "done" /\ hold["decode"] # NoFrame,
           at["decode"] = "done" => hold'["decode"] = hold["decode"]
    PROVE  Line'[3] = Line[3]
  BY LineIs, LineIsNext DEF One

LEMMA HandleHoldsFrame ==
    ASSUME at'["handle"] \in HandleHolds <=> at["handle"] \in HandleHolds,
           at["handle"] \in HandleHolds => hold'["handle"] = hold["handle"]
    PROVE  Line'[6] = Line[6]
  BY LineIs, LineIsNext DEF One

LEMMA DemuxHoldsFrame ==
    ASSUME at'["demux"] \in DemuxHolds <=> at["demux"] \in DemuxHolds,
           at["demux"] \in DemuxHolds => hold'["demux"] = hold["demux"]
    PROVE  Line'[8] = Line[8]
  BY LineIs, LineIsNext DEF One

LEMMA QueuesStay ==
    /\ outBufQue' = outBufQue => Line'[2] = Line[2]
    /\ decoded' = decoded => Line'[4] = Line[4]
    /\ draining' = draining => Line'[5] = Line[5]
    /\ inBufQue' = inBufQue => Line'[7] = Line[7]
  BY LineIs, LineIsNext

-----------------------------------------------------------------------------
(* The steps of the threads.                                               *)

LEMMA SettleKeeps ==
    ASSUME CodecInv, NEW t \in Threads, TaskSettles(t)
    PROVE  ThreadGoes
<1> USE DEF CodecInv
<1>1. PlayerWaits
  BY DEF TaskSettles, PlayerWaits, demuxed, codecQueues, codecFlags, codecPlugin, player
<1>2. TypesHold'
  BY DEF TypesHold, TaskSettles, RunStates, demuxed, codecQueues, codecFlags, codecPlugin, player
<1>3. DrainsLast'
  BY DEF DrainsLast, TaskSettles, codecPlugin
<1>4. StaysAtRest
  BY DEF TypesHold, RestIsIdle, StaysAtRest, Rests, TaskSettles
<1>5. Line' = Line
  BY DEF Line, TaskSettles, codecQueues, codecPlugin
<1>6. StaysEmpty
  BY <1>5 DEF StaysEmpty, TaskSettles, codecQueues, codecPlugin
<1>7. OrderKept
  BY <1>5, SameLineKept DEF TaskSettles, demuxed
<1> QED  BY <1>1, <1>2, <1>3, <1>4, <1>6, <1>7 DEF ThreadGoes

LEMMA DemuxPushesKeeps ==
    ASSUME CodecInv, DemuxPushes
    PROVE  ThreadGoes
<1> USE DEF CodecInv
<1>1. PlayerWaits /\ UNCHANGED <<nextFrame, last, outBufQue, decoded, draining>>
  BY DEF DemuxPushes, PlayerWaits, demuxed, codecFlags, codecPlugin, player
<1>2. /\ at["demux"] = "queue" /\ hold["demux"] \in Frame /\ at' = [at EXCEPT !["demux"] = "idle"] /\ hold' = hold
      /\ inBufQue' = IF inActive THEN Append(inBufQue, hold["demux"]) ELSE inBufQue
      /\ run' = run \/ run' = PausedAsync("demux")
      /\ at'["demux"] = "idle" /\ at'["push"] = at["push"] /\ at'["decode"] = at["decode"]
      /\ at'["handle"] = at["handle"]
  BY DEF TypesHold, DemuxPushes, DemuxDone, Goes, DemuxHolds, Threads
<1>3. TypesHold'
  <2>1. inBufQue' \in Seq(Frame)
    BY <1>2, SequenceEnds DEF TypesHold
  <2>2. run' \in [Threads -> RunStates]
    BY <1>2 DEF TypesHold, PausedAsync, RunStates
  <2>3. at' \in [Threads -> Places]
    BY <1>2 DEF TypesHold, Places
  <2> QED  BY <1>1, <1>2, <2>1, <2>2, <2>3 DEF TypesHold, DemuxHolds, PlayerWaits
<1>4. DrainsLast'
  BY <1>1 DEF DrainsLast
<1>5. StaysAtRest
  BY <1>2 DEF TypesHold, RestIsIdle, StaysAtRest, Rests, PausedAsync, Threads
<1>6. /\ Line'[1] = Line[1] /\ Line'[2] = Line[2] /\ Line'[3] = Line[3] /\ Line'[4] = Line[4]
      /\ Line'[5] = Line[5] /\ Line'[6] = Line[6]
  BY <1>1, <1>2, PushHolds, DecodeHoldsFrame, HandleHoldsFrame, QueuesStay
<1>7. Line[8] = <<hold["demux"]>> /\ Line'[8] = <<>>
  BY <1>2, LineIs, LineIsNext, OneIs DEF DemuxHolds, One
<1>8. StaysEmpty
  BY <1>1, <1>2, <1>6 DEF StaysEmpty
<1>9. OrderKept
  <2>1. CASE inActive
    <3>1. Line'[7] = Append(Line[7], hold["demux"])
      BY <1>2, <2>1, LineIs, LineIsNext
    <3>2. MovesTo(Line, Line', 8, 7)
      BY <1>6, <1>7, <3>1, OneIs, StagesAre DEF MovesTo, Stages
    <3> QED  BY <1>1, <1>3, <3>2, MovedLineKept DEF Stages, PlayerWaits
  <2>2. CASE ~inActive
    <3>1. Line'[7] = Line[7]
      BY <1>2, <2>2, QueuesStay
    <3>2. Loses(Line, Line')
      BY <1>6, <1>7, <3>1, StagesAre DEF Loses
    <3> QED  BY <1>1, <1>3, <2>2, <3>2, LostLineKept DEF Working, PlayerWaits
  <2> QED  BY <2>1, <2>2
<1> QED  BY <1>1, <1>3, <1>4, <1>5, <1>8, <1>9 DEF ThreadGoes

\* Steps that take a thread to another place, and no frame out of or into a hand.
LEMMA PlacesChange ==
    ASSUME CodecInv, PlayerWaits, at' \in [Threads -> Places],
           UNCHANGED <<nextFrame, last, outBufQue, decoded, draining, inBufQue, run, hold>>,
           \A t \in Threads : Rests(t) => at'[t] = "idle",
           at'["push"] = "deliver" <=> at["push"] = "deliver",
           at'["decode"] = "done" <=> at["decode"] = "done",
           at'["handle"] \in HandleHolds <=> at["handle"] \in HandleHolds,
           at'["demux"] \in DemuxHolds <=> at["demux"] \in DemuxHolds
    PROVE  ThreadGoes
<1> USE DEF CodecInv
<1>1. TypesHold' /\ DrainsLast'
  BY DEF TypesHold, DrainsLast, PlayerWaits
<1>2. StaysAtRest
  BY DEF StaysAtRest, Rests
<1>3. Line'[1] = Line[1] /\ Line'[3] = Line[3] /\ Line'[6] = Line[6] /\ Line'[8] = Line[8]
  BY PushHolds, DecodeHoldsFrame, HandleHoldsFrame, DemuxHoldsFrame
<1>4. Line' = Line
  BY <1>1, <1>3, QueuesStay, LinesHold, SameStages
<1>5. StaysEmpty
  BY <1>4 DEF StaysEmpty
<1>6. OrderKept
  BY <1>4, SameLineKept DEF PlayerWaits
<1> QED  BY <1>1, <1>2, <1>5, <1>6 DEF ThreadGoes

LEMMA HandleEntersKeeps ==
    ASSUME CodecInv, HandleEnters
    PROVE  ThreadGoes
<1>1. PlayerWaits /\ UNCHANGED <<nextFrame, last, outBufQue, decoded, draining, inBufQue, run, hold>>
  BY DEF HandleEnters, PlayerWaits, demuxed, codecQueues, codecFlags, codecPlugin, player
<1>2. /\ at["handle"] = "idle" /\ at' = [at EXCEPT !["handle"] = at'["handle"]]
      /\ at'["handle"] = "alloc" /\ at \in [Threads -> Places]
      /\ \A t \in Threads : Rests(t) => at[t] = "idle"
  BY DEF CodecInv, TypesHold, RestIsIdle, HandleEnters, Enters, Goes, Threads
<1>3. ~Rests("handle")
  BY <1>2 DEF Rests, HandleEnters, Enters, Threads
<1> QED  BY <1>1, <1>2, <1>3, PlacesChange DEF Threads, Places, HandleHolds

LEMMA HandleWaitsKeeps ==
    ASSUME CodecInv, HandleWaits
    PROVE  ThreadGoes
<1>1. PlayerWaits /\ UNCHANGED <<nextFrame, last, outBufQue, decoded, draining, inBufQue, run, hold>>
  BY DEF HandleWaits, PlayerWaits, demuxed, codecQueues, codecFlags, codecPlugin, player
<1>2. /\ at["handle"] = "wait" /\ at' = [at EXCEPT !["handle"] = at'["handle"]]
      /\ at'["handle"] = "asleep" /\ at \in [Threads -> Places]
      /\ \A t \in Threads : Rests(t) => at[t] = "idle"
  BY DEF CodecInv, TypesHold, RestIsIdle, HandleWaits, Enters, Goes, Threads
<1>3. ~Rests("handle")
  BY <1>2 DEF Rests, HandleWaits, Enters, Threads
<1> QED  BY <1>1, <1>2, <1>3, PlacesChange DEF Threads, Places, HandleHolds

LEMMA DecodeEntersKeeps ==
    ASSUME CodecInv, DecodeEnters
    PROVE  ThreadGoes
<1>1. PlayerWaits /\ UNCHANGED <<nextFrame, last, outBufQue, decoded, draining, inBufQue, run, hold>>
  BY DEF DecodeEnters, PlayerWaits, demuxed, codecQueues, codecFlags, codecPlugin, player
<1>2. /\ at["decode"] = "idle" /\ at' = [at EXCEPT !["decode"] = at'["decode"]]
      /\ at'["decode"] = "alloc" /\ at \in [Threads -> Places]
      /\ \A t \in Threads : Rests(t) => at[t] = "idle"
  BY DEF CodecInv, TypesHold, RestIsIdle, DecodeEnters, Enters, Goes, Threads
<1>3. ~Rests("decode")
  BY <1>2 DEF Rests, DecodeEnters, Enters, Threads
<1> QED  BY <1>1, <1>2, <1>3, PlacesChange DEF Threads, Places, HandleHolds

LEMMA DecodeAllocatesKeeps ==
    ASSUME CodecInv, DecodeAllocates
    PROVE  ThreadGoes
<1>1. PlayerWaits /\ UNCHANGED <<nextFrame, last, outBufQue, decoded, draining, inBufQue, run, hold>>
  BY DEF DecodeAllocates, PlayerWaits, demuxed, codecQueues, codecFlags, codecPlugin, player
<1>2. /\ at["decode"] = "alloc" /\ at' = [at EXCEPT !["decode"] = at'["decode"]]
      /\ at'["decode"] \in {"idle", "receive"} /\ at \in [Threads -> Places]
      /\ \A t \in Threads : Rests(t) => at[t] = "idle"
  BY DEF CodecInv, TypesHold, RestIsIdle, DecodeAllocates, Enters, Goes, Threads
<1>3. ~Rests("decode")
  BY <1>2 DEF Rests, DecodeAllocates, Enters, Threads
<1> QED  BY <1>1, <1>2, <1>3, PlacesChange DEF Threads, Places, HandleHolds

\* "decode" ends its turn, and wakes "handle" or not.
LEMMA DecodeEndsKeeps ==
    ASSUME CodecInv, DecodeKicks \/ DecodeStarves
    PROVE  ThreadGoes
<1>1. PlayerWaits /\ UNCHANGED <<nextFrame, last, outBufQue, decoded, draining, inBufQue, run, hold>>
  BY DEF DecodeKicks, DecodeStarves, PlayerWaits, demuxed, codecQueues, codecFlags, codecPlugin, player
<1>2. /\ at["decode"] \in {"kick", "starved"} /\ at \in [Threads -> Places]
      /\ \A t \in Threads : Rests(t) => at[t] = "idle"
  BY DEF CodecInv, TypesHold, RestIsIdle, DecodeKicks, DecodeStarves
<1>3. PICK a : at' = [a EXCEPT !["decode"] = "idle"] /\ (a = at \/ a = Woken(at))
  BY DEF DecodeKicks, DecodeStarves
<1>4. /\ a \in [Threads -> Places]
      /\ a["push"] = at["push"] /\ a["demux"] = at["demux"]
      /\ a["handle"] = at["handle"] \/ (at["handle"] = "asleep" /\ a["handle"] = "queue")
  BY <1>2, <1>3 DEF Woken, Threads, Places
<1>5. /\ at'["decode"] = "idle" /\ at' \in [Threads -> Places]
      /\ at'["push"] = at["push"] /\ at'["demux"] = at["demux"]
      /\ at'["handle"] = at["handle"] \/ (at["handle"] = "asleep" /\ at'["handle"] = "queue")
  BY <1>3, <1>4 DEF Threads, Places
<1>6. \A t \in Threads : Rests(t) => at'[t] = "idle"
  BY <1>2, <1>5 DEF Threads
<1>7. /\ at'["decode"] = "done" <=> at["decode"] = "done"
      /\ at'["handle"] \in HandleHolds <=> at["handle"] \in HandleHolds
  BY <1>2, <1>5 DEF HandleHolds
<1>8. /\ at'["push"] = "deliver" <=> at["push"] = "deliver"
      /\ at'["demux"] \in DemuxHolds <=> at["demux"] \in DemuxHolds
  BY <1>5
<1> QED  BY <1>1, <1>5, <1>6, <1>7, <1>8, PlacesChange

LEMMA DemuxChecksKeeps ==
    ASSUME CodecInv, DemuxChecks
    PROVE  ThreadGoes
<1> USE DEF CodecInv
<1>1. PlayerWaits /\ UNCHANGED <<nextFrame, last, outBufQue, decoded, draining, inBufQue, hold>>
  BY DEF DemuxChecks, PlayerWaits, demuxed, codecQueues, codecFlags, codecPlugin, player
<1>2. CASE codecState = "READY" /\ ~isFlushing /\ ~stopped
  <2>1. /\ at["demux"] = "check" /\ at' = [at EXCEPT !["demux"] = "queue"] /\ run' = run
        /\ at \in [Threads -> Places] /\ \A t \in Threads : Rests(t) => at[t] = "idle"
    BY <1>2 DEF TypesHold, RestIsIdle, DemuxChecks, Goes
  <2> QED  BY <1>1, <2>1, PlacesChange DEF Threads, Places, DemuxHolds
<1>3. CASE ~(codecState = "READY" /\ ~isFlushing /\ ~stopped)
  <2>1. /\ at["demux"] = "check" /\ at' = [at EXCEPT !["demux"] = "idle"]
        /\ run' = run \/ run' = PausedAsync("demux")
        /\ at'["demux"] = "idle" /\ at'["push"] = at["push"] /\ at'["decode"] = at["decode"]
        /\ at'["handle"] = at["handle"]
    BY <1>3 DEF TypesHold, DemuxChecks, DemuxDone, Goes, Threads
  <2>2. TypesHold'
    <3>1. run' \in [Threads -> RunStates] /\ at' \in [Threads -> Places]
      BY <2>1 DEF TypesHold, PausedAsync, RunStates, Places
    <3> QED  BY <1>1, <2>1, <3>1 DEF TypesHold, DemuxHolds, PlayerWaits
  <2>3. DrainsLast'
    BY <1>1 DEF DrainsLast
  <2>4. StaysAtRest
    BY <2>1 DEF TypesHold, RestIsIdle, StaysAtRest, Rests, PausedAsync, Threads
  <2>5. /\ Line'[1] = Line[1] /\ Line'[2] = Line[2] /\ Line'[3] = Line[3] /\ Line'[4] = Line[4]
        /\ Line'[5] = Line[5] /\ Line'[6] = Line[6] /\ Line'[7] = Line[7]
    BY <1>1, <2>1, PushHolds, DecodeHoldsFrame, HandleHoldsFrame, QueuesStay
  <2>6. Line'[8] = <<>>
    BY <2>1, LineIsNext DEF One, DemuxHolds
  <2>7. StaysEmpty
    BY <1>1, <2>5 DEF StaysEmpty
  <2>8. Loses(Line, Line')
    BY <2>5, <2>6, StagesAre DEF Loses
  <2>9. OrderKept
    BY <1>1, <1>3, <2>2, <2>8, LostLineKept DEF Working, PlayerWaits
  <2> QED  BY <1>1, <2>2, <2>3, <2>4, <2>7, <2>9 DEF ThreadGoes
<1> QED  BY <1>2, <1>3

LEMMA DemuxReadsKeeps ==
    ASSUME CodecInv, DemuxReads
    PROVE  ThreadGoes
<1> USE DEF CodecInv
<1> DEFINE f == [gen |-> gen, n |-> nextFrame]
<1>1. PlayerWaits /\ UNCHANGED <<last, outBufQue, decoded, draining, inBufQue, run>>
  BY DEF DemuxReads, PlayerWaits, codecQueues, codecFlags, codecPlugin, player
<1>2. /\ at["demux"] = "idle" /\ run["demux"] = "STARTED" /\ at' = [at EXCEPT !["demux"] = "check"]
      /\ hold' = [hold EXCEPT !["demux"] = f] /\ nextFrame' = nextFrame + 1 /\ nextFrame <= Eos
      /\ at \in [Threads -> Places] /\ hold \in [Threads -> Frame \union {NoFrame}]
      /\ gen \in Nat /\ nextFrame \in 1 .. Eos + 1 /\ Eos \in Nat
  BY EosIs DEF TypesHold, DemuxReads, Enters, Goes
<1>3. f \in Frame /\ f.gen = gen /\ f.n = nextFrame
  BY <1>2 DEF Frame
<1> HIDE DEF f
<1>4. /\ at'["demux"] = "check" /\ at'["push"] = at["push"] /\ at'["decode"] = at["decode"]
      /\ at'["handle"] = at["handle"] /\ at' \in [Threads -> Places]
      /\ hold'["demux"] = f /\ hold'["push"] = hold["push"] /\ hold'["decode"] = hold["decode"]
      /\ hold'["handle"] = hold["handle"] /\ hold' \in [Threads -> Frame \union {NoFrame}]
  BY <1>2, <1>3 DEF Threads, Places
<1>5. TypesHold'
  <2>1. nextFrame' \in 1 .. Eos + 1
    BY <1>2
  <2> QED  BY <1>1, <1>3, <1>4, <2>1 DEF TypesHold, PlayerWaits
<1>6. DrainsLast'
  BY <1>1 DEF DrainsLast
<1>7. StaysAtRest
  BY <1>1, <1>2, <1>4 DEF RestIsIdle, StaysAtRest, Rests, Threads
<1>8. /\ Line'[1] = Line[1] /\ Line'[2] = Line[2] /\ Line'[3] = Line[3] /\ Line'[4] = Line[4]
      /\ Line'[5] = Line[5] /\ Line'[6] = Line[6] /\ Line'[7] = Line[7]
  BY <1>1, <1>4, PushHolds, DecodeHoldsFrame, HandleHoldsFrame, QueuesStay
<1>9. Line[8] = <<>> /\ Line'[8] = <<f>>
  BY <1>2, <1>4, LineIs, LineIsNext DEF One, DemuxHolds
<1>10. StaysEmpty
  BY <1>1, <1>8 DEF StaysEmpty
<1>11. OrderKept
  <2>1. ASSUME NEW s \in Stages, NEW i \in DOMAIN Line'[s]
        PROVE  \/ s # 8 /\ i \in DOMAIN Line[s] /\ Line'[s] = Line[s]
               \/ s = 8 /\ i = 1 /\ Line'[s][i] = f
    BY <1>8, <1>9, StagesAre, OneIs
  <2>2. \A s \in Stages : s # 8 => s < 8 /\ s \in Nat
    BY DEF Stages
  <2>3. \A s \in Stages : \A i \in DOMAIN Line[s] :
           /\ Line[s][i] \in Frame /\ Line[s][i].gen = gen /\ Line[s][i].n < nextFrame
           /\ last.gen = gen => last.n < Line[s][i].n
           /\ \A r \in Stages : \A j \in DOMAIN Line[r] :
                  Before(s, i, r, j) => Line[s][i].n < Line[r][j].n
    BY DEF Fits, InOrder
  <2>4. Fits'
    <3>1. SUFFICES ASSUME NEW s \in Stages, NEW i \in DOMAIN Line'[s]
                   PROVE  /\ Line'[s][i] \in Frame /\ Line'[s][i].gen = gen' /\ Line'[s][i].n < nextFrame'
                          /\ last'.gen = gen' => last'.n < Line'[s][i].n
                          /\ \A r \in Stages : \A j \in DOMAIN Line'[r] :
                                 Before(s, i, r, j) => Line'[s][i].n < Line'[r][j].n
      BY DEF Fits, InOrder
    <3>2. UNCHANGED <<gen, last>>
      BY <1>1 DEF PlayerWaits
    <3>3. CASE s # 8
      <4>1. i \in DOMAIN Line[s] /\ Line'[s] = Line[s]
        BY <2>1, <3>3
      <4>2. Line[s][i] \in Frame /\ Line[s][i].n \in Nat /\ Line[s][i].n < nextFrame /\ Line[s][i].gen = gen
        BY <2>3, <4>1 DEF Frame
      <4>3. ASSUME NEW r \in Stages, NEW j \in DOMAIN Line'[r], Before(s, i, r, j)
            PROVE  Line'[s][i].n < Line'[r][j].n
        <5>1. CASE r # 8
          <6>1. j \in DOMAIN Line[r] /\ Line'[r] = Line[r]
            BY <2>1, <5>1
          <6> QED  BY <2>3, <4>1, <4>3, <6>1
        <5>2. CASE r = 8
          <6>1. Line'[r][j] = f
            BY <2>1, <5>2
          <6> QED  BY <1>3, <4>1, <4>2, <6>1
        <5> QED  BY <5>1, <5>2
      <4>4. last.gen = gen => last.n < Line[s][i].n
        BY <2>3, <4>1
      <4>5. Line[s][i].n < nextFrame'
        BY <1>2, <4>2
      <4> QED  BY <3>2, <4>1, <4>2, <4>3, <4>4, <4>5
    <3>4. CASE s = 8
      <4>1. i = 1 /\ Line'[s][i] = f
        BY <2>1, <3>4
      <4>2. ASSUME NEW r \in Stages, NEW j \in DOMAIN Line'[r], Before(s, i, r, j)
            PROVE  FALSE
        BY <2>1, <2>2, <3>4, <4>1, <4>2 DEF Before
      <4>3. last.gen = gen => last.n < f.n
        BY <1>3 DEF LastFits
      <4> QED  BY <1>2, <1>3, <3>2, <4>1, <4>2, <4>3
    <3> QED  BY <3>3, <3>4
  <2>5. LastFits'
    <3>1. last \in Frame \union {NoFrame} /\ last.n \in Nat
      BY EosIs DEF TypesHold, Frame, NoFrame
    <3> QED  BY <1>1, <1>2, <3>1 DEF LastFits, PlayerWaits
  <2>6. ~Clean
    BY <1>2 DEF Clean, Rests
  <2>7. Whole => Whole'
    <3>1. SUFFICES ASSUME Whole, NEW n \in Due .. nextFrame' - 1 PROVE Carries(Line', n)
      BY <1>1 DEF Whole, Due, PlayerWaits
    <3>2. CASE n = nextFrame
      <4>1. 8 \in Stages /\ 1 \in DOMAIN Line'[8] /\ Line'[8][1].n = n
        BY <1>3, <1>9, <3>2, OneIs DEF Stages
      <4> QED  BY <4>1 DEF Carries
    <3>3. CASE n # nextFrame
      <4>1. Due \in Nat
        BY EosIs, SMTT(60) DEF TypesHold, Due, Frame, NoFrame
      <4>2. n \in Due .. nextFrame - 1
        BY <1>2, <3>3, <4>1
      <4>3. PICK s \in Stages : \E i \in DOMAIN Line[s] : Line[s][i].n = n
        BY <3>1, <4>2 DEF Whole, Carries
      <4>4. s # 8
        BY <1>9, <4>3, OneIs
      <4>5. Line'[s] = Line[s]
        BY <1>8, <4>4, StagesAre
      <4> QED  BY <4>3, <4>5 DEF Carries
    <3> QED  BY <3>2, <3>3
  <2> QED  BY <2>4, <2>5, <2>6, <2>7 DEF OrderKept
<1> QED  BY <1>1, <1>5, <1>6, <1>7, <1>10, <1>11 DEF ThreadGoes

LEMMA HandlePopsKeeps ==
    ASSUME CodecInv, HandlePops
    PROVE  ThreadGoes
<1> USE DEF CodecInv
<1>1. /\ PlayerWaits /\ UNCHANGED <<nextFrame, last, outBufQue, decoded, draining, run>>
      /\ at["handle"] = "alloc" /\ at \in [Threads -> Places]
      /\ hold \in [Threads -> Frame \union {NoFrame}]
      /\ \A t \in Threads : Rests(t) => at[t] = "idle"
  BY DEF TypesHold, RestIsIdle, HandlePops, PlayerWaits, demuxed, codecFlags, codecPlugin, player
<1>2. CASE ~inActive
  <2>1. at' = [at EXCEPT !["handle"] = "idle"] /\ UNCHANGED <<inBufQue, hold>>
    BY <1>2 DEF HandlePops, Goes
  <2> QED  BY <1>1, <2>1, PlacesChange DEF Threads, Places, HandleHolds
<1>3. CASE inActive
  <2>1. /\ inBufQue # <<>> /\ hold' = [hold EXCEPT !["handle"] = Head(inBufQue)]
        /\ inBufQue' = Tail(inBufQue) /\ at' = [at EXCEPT !["handle"] = "queue"]
    BY <1>3 DEF HandlePops, Goes
  <2>2. Head(inBufQue) \in Frame /\ Tail(inBufQue) \in Seq(Frame)
    BY <2>1, SequenceEnds DEF TypesHold
  <2>3. /\ at'["handle"] = "queue" /\ at'["push"] = at["push"] /\ at'["decode"] = at["decode"]
        /\ at'["demux"] = at["demux"] /\ at' \in [Threads -> Places]
        /\ hold'["handle"] = Head(inBufQue) /\ hold'["push"] = hold["push"]
        /\ hold'["decode"] = hold["decode"] /\ hold'["demux"] = hold["demux"]
        /\ hold' \in [Threads -> Frame \union {NoFrame}]
    BY <1>1, <2>1, <2>2 DEF Threads, Places
  <2>4. TypesHold'
    BY <1>1, <2>1, <2>2, <2>3 DEF TypesHold, PlayerWaits
  <2>5. DrainsLast'
    BY <1>1 DEF DrainsLast
  <2>6. StaysAtRest
    BY <1>1, <2>3 DEF StaysAtRest, Rests, Threads
  <2>7. /\ Line'[1] = Line[1] /\ Line'[2] = Line[2] /\ Line'[3] = Line[3] /\ Line'[4] = Line[4]
        /\ Line'[5] = Line[5] /\ Line'[8] = Line[8]
    BY <1>1, <2>3, PushHolds, DecodeHoldsFrame, DemuxHoldsFrame, QueuesStay
  <2>8. /\ Line[6] = <<>> /\ Line'[6] = <<Head(inBufQue)>>
        /\ Line[7] = inBufQue /\ Line'[7] = Tail(inBufQue)
    BY <1>1, <2>1, <2>3, LineIs, LineIsNext DEF One, HandleHolds
  <2>9. StaysEmpty
    BY <1>1, <1>3, <2>7 DEF StaysEmpty
  <2>10. MovesTo(Line, Line', 7, 6)
    BY <2>1, <2>7, <2>8, OneIs, StagesAre DEF MovesTo, Stages
  <2>11. OrderKept
    BY <1>1, <2>4, <2>10, MovedLineKept DEF Stages, PlayerWaits
  <2> QED  BY <1>1, <2>4, <2>5, <2>6, <2>9, <2>11 DEF ThreadGoes
<1> QED  BY <1>2, <1>3

\* "handle" leaves with the frame in its hand, which is lost or was taken.
LEMMA HandleGoesIdle ==
    ASSUME CodecInv, at["handle"] \in HandleHolds, HandleLeaves, PlayerWaits,
           UNCHANGED <<nextFrame, last, outBufQue, inBufQue, hold>>,
           decoded' \in Seq(Frame), draining' \in Frame \union {NoFrame}
    PROVE  /\ TypesHold' /\ StaysAtRest
           /\ Line'[1] = Line[1] /\ Line'[2] = Line[2] /\ Line'[3] = Line[3]
           /\ Line'[6] = <<>> /\ Line'[7] = Line[7] /\ Line'[8] = Line[8]
           /\ Line[6] = <<hold["handle"]>> /\ hold["handle"] \in Frame
<1> USE DEF CodecInv
<1>1. /\ at' = [at EXCEPT !["handle"] = "idle"] /\ (run' = run \/ run' = PausedAsync("handle"))
      /\ at \in [Threads -> Places] /\ run \in [Threads -> RunStates]
      /\ \A t \in Threads : Rests(t) => at[t] = "idle"
  BY DEF HandleLeaves, Goes, TypesHold, RestIsIdle
<1>2. /\ at'["handle"] = "idle" /\ at'["push"] = at["push"] /\ at'["decode"] = at["decode"]
      /\ at'["demux"] = at["demux"] /\ at' \in [Threads -> Places] /\ run' \in [Threads -> RunStates]
  <2>1. run' \in [Threads -> RunStates]
    BY <1>1 DEF PausedAsync, RunStates
  <2> QED  BY <1>1, <2>1 DEF Threads, Places
<1>3. TypesHold' /\ hold["handle"] \in Frame
  BY <1>2 DEF TypesHold, PlayerWaits, HandleHolds
<1>4. StaysAtRest
  BY <1>1, <1>2 DEF StaysAtRest, Rests, PausedAsync, Threads
<1>5. /\ Line'[1] = Line[1] /\ Line'[2] = Line[2] /\ Line'[3] = Line[3]
      /\ Line'[7] = Line[7] /\ Line'[8] = Line[8]
  BY <1>2, PushHolds, DecodeHoldsFrame, DemuxHoldsFrame, QueuesStay
<1>6. Line'[6] = <<>> /\ Line[6] = <<hold["handle"]>>
  BY <1>2, LineIs, LineIsNext DEF One, HandleHolds
<1> QED  BY <1>3, <1>4, <1>5, <1>6

LEMMA HandleRefusedKeeps ==
    ASSUME CodecInv, HandleRefused
    PROVE  ThreadGoes
<1> USE DEF CodecInv
<1>1. /\ PlayerWaits /\ UNCHANGED <<nextFrame, last, outBufQue, inBufQue, hold, decoded, draining>>
      /\ at["handle"] = "again" /\ at \in [Threads -> Places]
      /\ decoded \in Seq(Frame) /\ draining \in Frame \union {NoFrame}
      /\ \A t \in Threads : Rests(t) => at[t] = "idle"
  BY DEF TypesHold, RestIsIdle, HandleRefused, PlayerWaits, demuxed, codecQueues, codecFlags, codecPlugin, player
<1>2. CASE stopped
  <2>1. HandleLeaves
    BY <1>2 DEF HandleRefused
  <2>2. /\ TypesHold' /\ StaysAtRest
        /\ Line'[1] = Line[1] /\ Line'[2] = Line[2] /\ Line'[3] = Line[3]
        /\ Line'[6] = <<>> /\ Line'[7] = Line[7] /\ Line'[8] = Line[8]
    BY <1>1, <2>1, HandleGoesIdle DEF HandleHolds
  <2>3. Line'[4] = Line[4] /\ Line'[5] = Line[5]
    BY <1>1, QueuesStay
  <2>4. Loses(Line, Line')
    BY <2>2, <2>3, StagesAre DEF Loses
  <2>5. OrderKept
    BY <1>1, <1>2, <2>2, <2>4, LostLineKept DEF Working, PlayerWaits
  <2>6. StaysEmpty /\ DrainsLast'
    BY <1>1, <2>2 DEF StaysEmpty, DrainsLast
  <2> QED  BY <1>1, <2>2, <2>5, <2>6 DEF ThreadGoes
<1>3. CASE ~stopped
  <2>1. at' = [at EXCEPT !["handle"] = "wait"] /\ run' = run
    BY <1>3 DEF HandleRefused, Goes
  <2> QED  BY <1>1, <2>1, PlacesChange DEF Threads, Places, HandleHolds
<1> QED  BY <1>2, <1>3

LEMMA HandleQueuesKeeps ==
    ASSUME CodecInv, HandleQueues
    PROVE  ThreadGoes
<1> USE DEF CodecInv
<1>1. /\ PlayerWaits /\ UNCHANGED <<nextFrame, last, outBufQue, inBufQue, hold>>
      /\ at["handle"] = "queue" /\ at["handle"] \in HandleHolds /\ at \in [Threads -> Places]
      /\ decoded \in Seq(Frame) /\ draining \in Frame \union {NoFrame} /\ hold["handle"] \in Frame
      /\ \A t \in Threads : Rests(t) => at[t] = "idle"
  BY DEF TypesHold, RestIsIdle, HandleQueues, PlayerWaits, HandleHolds, demuxed, codecQueues, codecFlags, player
<1>2. ~Rests("handle")
  BY <1>1 DEF Threads
<1>3. CASE QueueInputStatus = "AGAIN"
  <2>1. at' = [at EXCEPT !["handle"] = "again"] /\ run' = run /\ UNCHANGED <<decoded, draining>>
    BY <1>3 DEF HandleQueues, Goes
  <2> QED  BY <1>1, <2>1, PlacesChange DEF Threads, Places, HandleHolds
<1>4. CASE QueueInputStatus = "OK"
  <2>1. HandleLeaves /\ ctxOpen /\ draining = NoFrame
    BY <1>4 DEF HandleQueues, QueueInputStatus
  <2>2. Line[5] = <<>>
    BY <2>1, LineIs DEF One
  <2>3. CASE IsEos(hold["handle"])
    <3>1. draining' = hold["handle"] /\ decoded' = decoded
      BY <1>4, <2>3 DEF HandleQueues
    <3>2. /\ TypesHold' /\ StaysAtRest
          /\ Line'[1] = Line[1] /\ Line'[2] = Line[2] /\ Line'[3] = Line[3]
          /\ Line'[6] = <<>> /\ Line'[7] = Line[7] /\ Line'[8] = Line[8]
          /\ Line[6] = <<hold["handle"]>>
      BY <1>1, <2>1, <3>1, HandleGoesIdle
    <3>3. Line'[4] = Line[4] /\ Line'[5] = <<hold["handle"]>>
      <4>1. hold["handle"] # NoFrame
        BY <1>1, EosIs
      <4> QED  BY <3>1, <4>1, QueuesStay, LineIsNext DEF One
    <3>4. MovesTo(Line, Line', 6, 5)
      BY <2>2, <3>2, <3>3, OneIs, StagesAre DEF MovesTo, Stages
    <3>5. OrderKept
      BY <1>1, <3>2, <3>4, MovedLineKept DEF Stages, PlayerWaits
    <3>6. StaysEmpty /\ DrainsLast'
      BY <1>1, <1>2, <2>1, <2>3, <3>1, <3>2 DEF StaysEmpty, DrainsLast
    <3> QED  BY <1>1, <3>2, <3>5, <3>6 DEF ThreadGoes
  <2>4. CASE ~IsEos(hold["handle"])
    <3>1. draining' = draining /\ decoded' = Append(decoded, hold["handle"]) /\ decoded' \in Seq(Frame)
      BY <1>1, <1>4, <2>4, SequenceEnds DEF HandleQueues
    <3>2. /\ TypesHold' /\ StaysAtRest
          /\ Line'[1] = Line[1] /\ Line'[2] = Line[2] /\ Line'[3] = Line[3]
          /\ Line'[6] = <<>> /\ Line'[7] = Line[7] /\ Line'[8] = Line[8]
          /\ Line[6] = <<hold["handle"]>>
      BY <1>1, <2>1, <3>1, HandleGoesIdle
    <3>3. Line'[4] = Append(Line[4], hold["handle"]) /\ Line'[5] = Line[5]
      BY <3>1, QueuesStay, LineIs, LineIsNext
    <3>4. MovesTo(Line, Line', 6, 4)
      BY <2>2, <3>2, <3>3, OneIs, StagesAre DEF MovesTo, Stages
    <3>5. OrderKept
      BY <1>1, <3>2, <3>4, MovedLineKept DEF Stages, PlayerWaits
    <3>6. StaysEmpty /\ DrainsLast'
      BY <1>1, <1>2, <2>1, <3>1, <3>2 DEF StaysEmpty, DrainsLast
    <3> QED  BY <1>1, <3>2, <3>5, <3>6 DEF ThreadGoes
  <2> QED  BY <2>3, <2>4
<1>5. CASE QueueInputStatus \notin {"AGAIN", "OK"}
  <2>1. HandleLeaves /\ UNCHANGED <<decoded, draining>>
    BY <1>5 DEF HandleQueues
  <2>2. /\ TypesHold' /\ StaysAtRest
        /\ Line'[1] = Line[1] /\ Line'[2] = Line[2] /\ Line'[3] = Line[3]
        /\ Line'[6] = <<>> /\ Line'[7] = Line[7] /\ Line'[8] = Line[8]
        /\ Line[6] = <<hold["handle"]>>
    BY <1>1, <2>1, HandleGoesIdle
  <2>3. Line'[4] = Line[4] /\ Line'[5] = Line[5]
    BY <2>1, QueuesStay
  <2>4. Loses(Line, Line')
    BY <2>2, <2>3, StagesAre DEF Loses
  \* The decoder drains only after the EOS frame, and no frame follows that one.
  <2>5. ~Working
    <3>1. ASSUME ctxOpen PROVE FALSE
      <4>1. draining # NoFrame
        BY <1>5, <3>1 DEF QueueInputStatus
      <4>2. Line[5] = <<draining>> /\ draining.n = Eos
        BY <4>1, LineIs DEF One, DrainsLast, IsEos
      <4>3. /\ 5 \in Stages /\ 6 \in Stages /\ 1 \in DOMAIN Line[5] /\ 1 \in DOMAIN Line[6]
            /\ Line[5][1] = draining /\ Line[6][1] = hold["handle"] /\ Before(5, 1, 6, 1)
        BY <2>2, <4>2, OneIs DEF Stages, Before
      <4>4. draining.n < hold["handle"].n
        BY <4>3 DEF Fits, InOrder
      <4> QED  BY <1>1, <4>2, <4>4, EosIs DEF Frame
    <3> QED  BY <3>1 DEF Working
  <2>6. OrderKept
    BY <1>1, <2>2, <2>4, <2>5, LostLineKept DEF PlayerWaits
  <2>7. StaysEmpty /\ DrainsLast'
    BY <1>1, <2>1, <2>2 DEF StaysEmpty, DrainsLast
  <2> QED  BY <1>1, <2>2, <2>6, <2>7 DEF ThreadGoes
<1> QED  BY <1>3, <1>4, <1>5

LEMMA DecodeReceivesKeeps ==
    ASSUME CodecInv, DecodeReceives
    PROVE  ThreadGoes
<1> USE DEF CodecInv
<1>1. /\ PlayerWaits /\ UNCHANGED <<nextFrame, last, outBufQue, inBufQue, run>>
      /\ at["decode"] = "receive" /\ at \in [Threads -> Places]
      /\ hold \in [Threads -> Frame \union {NoFrame}]
      /\ decoded \in Seq(Frame) /\ draining \in Frame \union {NoFrame}
      /\ \A t \in Threads : Rests(t) => at[t] = "idle"
  BY DEF TypesHold, RestIsIdle, DecodeReceives, PlayerWaits, demuxed, codecFlags, player
<1>2. CASE ~ctxOpen \/ (decoded = <<>> /\ draining = NoFrame)
  <2>1. /\ at' = [at EXCEPT !["decode"] = at'["decode"]] /\ at'["decode"] \in {"starved", "idle"}
        /\ UNCHANGED <<decoded, draining, hold>>
    BY <1>1, <1>2 DEF DecodeReceives, Goes, Threads
  <2> QED  BY <1>1, <2>1, PlacesChange DEF Threads, Places
<1>3. ASSUME ctxOpen, decoded # <<>> \/ draining # NoFrame
      PROVE  ThreadGoes
  <2> DEFINE f == IF decoded # <<>> THEN Head(decoded) ELSE draining
  <2>1. /\ hold' = [hold EXCEPT !["decode"] = f] /\ at' = [at EXCEPT !["decode"] = "done"]
        /\ decoded' = IF decoded # <<>> THEN Tail(decoded) ELSE decoded
        /\ draining' = IF decoded # <<>> THEN draining ELSE NoFrame
    BY <1>3 DEF DecodeReceives, Goes
  <2>2. f \in Frame /\ decoded' \in Seq(Frame) /\ draining' \in Frame \union {NoFrame}
    <3>1. decoded # <<>> => Head(decoded) \in Frame /\ Tail(decoded) \in Seq(Frame)
      BY <1>1, SequenceEnds
    <3> QED  BY <1>1, <1>3, <2>1, <3>1
  <2> HIDE DEF f
  <2>3. /\ at'["decode"] = "done" /\ at'["push"] = at["push"] /\ at'["handle"] = at["handle"]
        /\ at'["demux"] = at["demux"] /\ at' \in [Threads -> Places]
        /\ hold'["decode"] = f /\ hold'["push"] = hold["push"]
        /\ hold'["handle"] = hold["handle"] /\ hold'["demux"] = hold["demux"]
        /\ hold' \in [Threads -> Frame \union {NoFrame}]
    BY <1>1, <2>1, <2>2 DEF Threads, Places
  <2>4. TypesHold'
    BY <1>1, <2>2, <2>3 DEF TypesHold, PlayerWaits
  <2>5. DrainsLast'
    BY <2>1 DEF DrainsLast
  <2>6. StaysAtRest
    BY <1>1, <2>3 DEF StaysAtRest, Rests, Threads
  <2>7. /\ Line'[1] = Line[1] /\ Line'[2] = Line[2] /\ Line'[6] = Line[6] /\ Line'[7] = Line[7]
        /\ Line'[8] = Line[8]
    BY <1>1, <2>3, PushHolds, HandleHoldsFrame, DemuxHoldsFrame, QueuesStay
  <2>8. Line[3] = <<>> /\ Line'[3] = <<f>>
    BY <1>1, <2>2, <2>3, EosIs, LineIs, LineIsNext DEF One
  <2>9. StaysEmpty
    BY <1>1, <1>3, <2>1 DEF StaysEmpty
  <2>10. CASE decoded # <<>>
    <3>1. Line'[4] = Tail(Line[4]) /\ Line[4] = decoded /\ f = Head(Line[4]) /\ Line'[5] = Line[5]
      BY <2>1, <2>10, QueuesStay, LineIs, LineIsNext DEF f
    <3>2. MovesTo(Line, Line', 4, 3)
      BY <2>7, <2>8, <2>10, <3>1, OneIs, StagesAre DEF MovesTo, Stages
    <3>3. OrderKept
      BY <1>1, <2>4, <3>2, MovedLineKept DEF Stages, PlayerWaits
    <3> QED  BY <1>1, <2>4, <2>5, <2>6, <2>9, <3>3 DEF ThreadGoes
  <2>11. CASE decoded = <<>>
    <3>1. Line[4] = <<>> /\ Line'[4] = Line[4] /\ Line[5] = <<f>> /\ Line'[5] = <<>>
      BY <1>3, <2>1, <2>11, QueuesStay, LineIs, LineIsNext DEF f, One
    <3>2. MovesTo(Line, Line', 5, 3)
      BY <2>7, <2>8, <3>1, OneIs, StagesAre DEF MovesTo, Stages
    <3>3. OrderKept
      BY <1>1, <2>4, <3>2, MovedLineKept DEF Stages, PlayerWaits
    <3> QED  BY <1>1, <2>4, <2>5, <2>6, <2>9, <3>3 DEF ThreadGoes
  <2> QED  BY <2>10, <2>11
<1> QED  BY <1>2, <1>3

LEMMA DecodeQueuesKeeps ==
    ASSUME CodecInv, DecodeQueues
    PROVE  ThreadGoes
<1> USE DEF CodecInv
<1>1. /\ UNCHANGED <<gen, inActive, stopped, isFlushing, codecState, ctxOpen, call, todo>>
      /\ UNCHANGED <<nextFrame, last, inBufQue, decoded, draining, hold>>
      /\ at["decode"] = "done" /\ at \in [Threads -> Places] /\ run \in [Threads -> RunStates]
      /\ hold \in [Threads -> Frame \union {NoFrame}] /\ outBufQue \in Seq(Frame)
      /\ \A t \in Threads : Rests(t) => at[t] = "idle"
  BY DEF TypesHold, RestIsIdle, DecodeQueues, demuxed, codecFlags, codecPlugin, player
<1>2. /\ at' = [at EXCEPT !["decode"] = at'["decode"]] /\ at'["decode"] \in {"kick", "idle"}
      /\ run' = run \/ (run' = PausedAsync("decode"))
      /\ hold["decode"] = NoFrame => outBufQue' = outBufQue
      /\ hold["decode"] # NoFrame => outBufQue' = Append(outBufQue, hold["decode"])
  BY <1>1 DEF DecodeQueues, Goes, Threads
<1>3. /\ at'["push"] = at["push"] /\ at'["handle"] = at["handle"] /\ at'["demux"] = at["demux"]
      /\ at' \in [Threads -> Places]
  BY <1>1, <1>2 DEF Threads, Places
<1>4. TypesHold'
  <2>1. outBufQue' \in Seq(Frame)
    <3>1. hold["decode"] # NoFrame => hold["decode"] \in Frame
      BY <1>1 DEF Threads
    <3> QED  BY <1>1, <1>2, <3>1, SequenceEnds, SMTT(60)
  <2>2. run' \in [Threads -> RunStates]
    BY <1>1, <1>2 DEF PausedAsync, RunStates
  <2> QED  BY <1>1, <1>3, <2>1, <2>2 DEF TypesHold
<1>5. DrainsLast'
  BY <1>1 DEF DrainsLast
<1>6. StaysAtRest
  <2>1. at'["decode"] = "idle" => run' = run
    BY <1>1 DEF DecodeQueues, Goes, Threads
  <2>2. ~Rests("decode")
    BY <1>1 DEF Threads
  <2>3. Rests("decode")' => FALSE
    BY <1>1, <1>2, <2>2 DEF Rests, PausedAsync, Threads
  <2>4. \A t \in Threads : t # "decode" => run'[t] = run[t]
    BY <1>1, <1>2 DEF PausedAsync
  <2> QED  BY <1>1, <1>3, <2>2, <2>3, <2>4 DEF StaysAtRest, Rests, Threads
<1>7. /\ Line'[1] = Line[1] /\ Line'[4] = Line[4] /\ Line'[5] = Line[5] /\ Line'[6] = Line[6]
      /\ Line'[7] = Line[7] /\ Line'[8] = Line[8] /\ Line'[3] = <<>>
      /\ Line[2] = outBufQue /\ Line'[2] = outBufQue'
  <2>1. Line'[3] = <<>>
    BY <1>2, LineIsNext DEF One
  <2> QED  BY <1>1, <1>3, <2>1, PushHolds, HandleHoldsFrame, DemuxHoldsFrame, QueuesStay, LineIs, LineIsNext
<1>8. StaysEmpty
  <2>1. ~Rests("decode")
    BY <1>1 DEF Threads
  <2>2. Line[3] = <<>> => hold["decode"] = NoFrame
    BY <1>1, LineIs, OneIs, ZenonT(60) DEF One
  <2> QED  BY <1>1, <1>2, <1>7, <2>1, <2>2 DEF StaysEmpty
<1>9. OrderKept
  <2>1. CASE hold["decode"] = NoFrame
    <3>1. Line[3] = <<>>
      BY <2>1, LineIs DEF One
    <3>2. Line' = Line
      BY <1>2, <1>4, <1>7, <2>1, <3>1, LinesHold, SameStages
    <3> QED  BY <1>1, <3>2, SameLineKept
  <2>2. CASE hold["decode"] # NoFrame
    <3>1. Line[3] = <<hold["decode"]>>
      BY <1>1, <2>2, LineIs DEF One
    <3>2. MovesTo(Line, Line', 3, 2)
      BY <1>2, <1>7, <2>2, <3>1, OneIs, StagesAre DEF MovesTo, Stages
    <3> QED  BY <1>1, <1>4, <3>2, MovedLineKept DEF Stages
  <2> QED  BY <2>1, <2>2
<1> QED  BY <1>1, <1>4, <1>5, <1>6, <1>8, <1>9 DEF ThreadGoes, PlayerWaits

LEMMA PushTakesKeeps ==
    ASSUME CodecInv, PushTakes
    PROVE  ThreadGoes
<1> USE DEF CodecInv
<1>1. /\ PlayerWaits /\ UNCHANGED <<nextFrame, last, inBufQue, decoded, draining, run>>
      /\ at["push"] = "idle" /\ run["push"] = "STARTED" /\ at \in [Threads -> Places]
      /\ hold \in [Threads -> Frame \union {NoFrame}] /\ outBufQue \in Seq(Frame)
      /\ outBufQue # <<>> /\ outBufQue' = Tail(outBufQue) /\ at' = [at EXCEPT !["push"] = "deliver"]
      /\ hold' = [hold EXCEPT !["push"] = Head(outBufQue)]
      /\ \A t \in Threads : Rests(t) => at[t] = "idle"
  BY DEF TypesHold, RestIsIdle, PushTakes, Enters, Goes, PlayerWaits, demuxed, codecFlags, codecPlugin, player
<1>2. Head(outBufQue) \in Frame /\ Tail(outBufQue) \in Seq(Frame)
  BY <1>1, SequenceEnds
<1>3. /\ at'["push"] = "deliver" /\ at'["decode"] = at["decode"] /\ at'["handle"] = at["handle"]
      /\ at'["demux"] = at["demux"] /\ at' \in [Threads -> Places]
      /\ hold'["push"] = Head(outBufQue) /\ hold'["decode"] = hold["decode"]
      /\ hold'["handle"] = hold["handle"] /\ hold'["demux"] = hold["demux"]
      /\ hold' \in [Threads -> Frame \union {NoFrame}]
  BY <1>1, <1>2 DEF Threads, Places
<1>4. TypesHold'
  BY <1>1, <1>2, <1>3 DEF TypesHold, PlayerWaits
<1>5. DrainsLast'
  BY <1>1 DEF DrainsLast
<1>6. StaysAtRest
  BY <1>1, <1>3 DEF StaysAtRest, Rests, Threads
<1>7. /\ Line'[3] = Line[3] /\ Line'[4] = Line[4] /\ Line'[5] = Line[5] /\ Line'[6] = Line[6]
      /\ Line'[7] = Line[7] /\ Line'[8] = Line[8]
  BY <1>1, <1>3, DecodeHoldsFrame, HandleHoldsFrame, DemuxHoldsFrame, QueuesStay
<1>8. /\ Line[1] = <<>> /\ Line'[1] = <<Head(outBufQue)>>
      /\ Line[2] = outBufQue /\ Line'[2] = Tail(outBufQue)
  BY <1>1, <1>3, LineIs, LineIsNext DEF One
<1>9. StaysEmpty
  BY <1>1, <1>7 DEF StaysEmpty
<1>10. MovesTo(Line, Line', 2, 1)
  BY <1>1, <1>7, <1>8, OneIs, StagesAre DEF MovesTo, Stages
<1>11. OrderKept
  BY <1>1, <1>4, <1>10, MovedLineKept DEF Stages, PlayerWaits
<1> QED  BY <1>1, <1>4, <1>5, <1>6, <1>9, <1>11 DEF ThreadGoes

\* The frame that is delivered is the next one of the line.
LEMMA DeliversFirst ==
    ASSUME CodecInv, at["push"] = "deliver"
    PROVE  /\ Line[1] = <<hold["push"]>> /\ hold["push"] \in Frame
           /\ hold["push"].gen = gen /\ hold["push"].n < nextFrame
           /\ last.gen = gen => last.n < hold["push"].n
           /\ \A s \in Stages : \A i \in DOMAIN Line[s] :
                  s = 1 \/ hold["push"].n < Line[s][i].n
           /\ Due \in Nat /\ Due <= hold["push"].n
<1> USE DEF CodecInv
<1>1. Line[1] = <<hold["push"]>> /\ hold["push"] \in Frame
  BY LineIs DEF One, TypesHold
<1>2. 1 \in Stages /\ 1 \in DOMAIN Line[1] /\ Line[1][1] = hold["push"]
  BY <1>1, OneIs DEF Stages
<1>3. /\ hold["push"].gen = gen /\ hold["push"].n < nextFrame
      /\ last.gen = gen => last.n < hold["push"].n
      /\ \A s \in Stages : \A i \in DOMAIN Line[s] :
             Before(1, 1, s, i) => hold["push"].n < Line[s][i].n
  BY <1>2 DEF Fits, InOrder
<1>4. \A s \in Stages : s = 1 \/ 1 < s
  BY DEF Stages
<1>5. Due \in Nat /\ Due <= hold["push"].n
  <2>1. last.n \in Nat /\ hold["push"].n \in Nat /\ hold["push"].n >= 1
    BY <1>1, EosIs, SMTT(60) DEF TypesHold, Frame, NoFrame
  <2> QED  BY <1>3, <2>1 DEF Due
<1> QED  BY <1>1, <1>3, <1>4, <1>5 DEF Before

LEMMA PushDeliversKeeps ==
    ASSUME CodecInv, PushDelivers
    PROVE  ThreadGoes
<1> USE DEF CodecInv
<1> DEFINE f == hold["push"]
<1>1. /\ PlayerWaits /\ UNCHANGED <<nextFrame, inBufQue, outBufQue, decoded, draining, hold>>
      /\ at["push"] = "deliver" /\ at \in [Threads -> Places] /\ run \in [Threads -> RunStates]
      /\ last' = f
      /\ \A t \in Threads : Rests(t) => at[t] = "idle"
  BY DEF TypesHold, RestIsIdle, PushDelivers, PlayerWaits, demuxed, codecFlags, codecPlugin, player
<1>2. at' = [at EXCEPT !["push"] = "idle"]
  BY DEF PushDelivers, Goes
<1>3. run' = run \/ run' = PausedAsync("push")
  BY DEF PushDelivers
<1>4. /\ at'["push"] = "idle" /\ at'["decode"] = at["decode"] /\ at'["handle"] = at["handle"]
      /\ at'["demux"] = at["demux"] /\ at' \in [Threads -> Places]
  BY <1>1, <1>2 DEF Threads, Places
<1>5. /\ Line[1] = <<f>> /\ f \in Frame /\ f.gen = gen /\ f.n < nextFrame
      /\ \A s \in Stages : \A i \in DOMAIN Line[s] : s = 1 \/ f.n < Line[s][i].n
      /\ Due \in Nat /\ Due <= f.n /\ f.n \in Nat
  BY <1>1, DeliversFirst DEF Frame
<1> HIDE DEF f
<1>6. TypesHold'
  <2>1. run' \in [Threads -> RunStates]
    BY <1>1, <1>3 DEF PausedAsync, RunStates
  <2> QED  BY <1>1, <1>4, <1>5, <2>1 DEF TypesHold, PlayerWaits
<1>7. DrainsLast'
  BY <1>1 DEF DrainsLast
<1>8. StaysAtRest
  BY <1>1, <1>3, <1>4 DEF StaysAtRest, Rests, PausedAsync, Threads
<1>9. /\ Line'[2] = Line[2] /\ Line'[3] = Line[3] /\ Line'[4] = Line[4] /\ Line'[5] = Line[5]
      /\ Line'[6] = Line[6] /\ Line'[7] = Line[7] /\ Line'[8] = Line[8] /\ Line'[1] = <<>>
  <2>1. Line'[1] = <<>>
    BY <1>4, LineIsNext DEF One
  <2> QED  BY <1>1, <1>4, <2>1, DecodeHoldsFrame, HandleHoldsFrame, DemuxHoldsFrame, QueuesStay
<1>10. StaysEmpty
  BY <1>1, <1>9 DEF StaysEmpty
<1>11. \A s \in Stages : \A i \in DOMAIN Line'[s] :
          s # 1 /\ i \in DOMAIN Line[s] /\ Line'[s] = Line[s] /\ f.n < Line[s][i].n
  <2>1. \A s \in Stages : s = 1 \/ Line'[s] = Line[s]
    BY <1>9, StagesAre
  <2>2. DOMAIN Line'[1] = {}
    BY <1>9, OneIs
  <2> QED  BY <1>5, <2>1, <2>2
<1>12. UNCHANGED <<gen, nextFrame>>
  BY <1>1 DEF PlayerWaits
<1>13. Fits'
  <2>1. ASSUME NEW s \in Stages, NEW i \in DOMAIN Line'[s]
        PROVE  /\ Line'[s][i] \in Frame /\ Line'[s][i].gen = gen /\ Line'[s][i].n < nextFrame
               /\ \A r \in Stages : \A j \in DOMAIN Line'[r] :
                      Before(s, i, r, j) => Line'[s][i].n < Line'[r][j].n
    BY <1>11 DEF Fits, InOrder
  <2> QED  BY <1>1, <1>11, <1>12, <2>1 DEF Fits, InOrder
<1>14. LastFits'
  BY <1>1, <1>5, <1>12 DEF LastFits, TypesHold
<1>15. ~Clean
  <2>1. 1 \in Stages /\ Line[1] # <<>>
    BY <1>5, OneIs DEF Stages
  <2> QED  BY <2>1 DEF Clean, LineIsEmpty
<1>16. Whole => Whole'
  <2>1. Due' = f.n + 1
    BY <1>1, <1>5, <1>12 DEF Due
  <2>2. SUFFICES ASSUME Whole, NEW n \in f.n + 1 .. nextFrame - 1 PROVE Carries(Line', n)
    BY <1>12, <2>1 DEF Whole
  <2>3. n \in Due .. nextFrame - 1 /\ n # f.n
    BY <1>5
  <2>4. PICK s \in Stages : \E i \in DOMAIN Line[s] : Line[s][i].n = n
    BY <2>2, <2>3 DEF Whole, Carries
  <2>5. s # 1
    BY <1>5, <2>3, <2>4, OneIs
  <2>6. Line'[s] = Line[s]
    BY <1>9, <2>5, StagesAre
  <2> QED  BY <2>4, <2>6 DEF Carries
<1>17. OrderKept
  BY <1>13, <1>14, <1>15, <1>16 DEF OrderKept
<1> QED  BY <1>1, <1>6, <1>7, <1>8, <1>10, <1>17 DEF ThreadGoes

-----------------------------------------------------------------------------
(* The steps of the player.                                                *)

LEMMA StepIsTaken ==
    ASSUME CodecInv, NEW step, Does(step)
    PROVE  /\ ScriptGoes' /\ StepsLeft' = StepsLeft - 1 /\ call' = call
           /\ StepPlaces(call, StepsLeft, step)
           /\ StepsLeft \in Nat /\ call \in {"Flush", "Stop", "Restart"}
<1>1. ScriptGoes /\ todo # <<>> /\ Head(todo) = step /\ todo' = Tail(todo) /\ call' = call
  BY DEF CodecInv, Does
<1> QED  BY <1>1, NextStep, ScriptGoesOn DEF ScriptGoes

\* A step that leaves the threads alone, and the frames or some of them.
LEMMA LossIsFine ==
    ASSUME CodecInv, TypesHold', Loses(Line, Line'), UNCHANGED <<gen, nextFrame, run, last>>,
           \A t \in Threads : Rests(t) => at'[t] = "idle"
    PROVE  /\ RestIsIdle' /\ Fits' /\ LastFits'
           /\ (Clean => Clean') /\ (Fresh => Fresh')
           /\ \A t \in Threads : Rests(t) => Rests(t)'
<1>1. Fits'
  BY LossKeepsOrder, LinesHold DEF CodecInv, Fits
<1>2. LineIsEmpty => LineIsEmpty'
  BY DEF Loses, LineIsEmpty
<1> QED  BY <1>1, <1>2 DEF CodecInv, RestIsIdle, LastFits, Clean, Fresh, Rests

LineAlone ==
    UNCHANGED <<gen, nextFrame, inBufQue, outBufQue, decoded, draining, run, at, hold, last>>

LEMMA LineAloneIsFine ==
    ASSUME CodecInv, LineAlone
    PROVE  /\ TypesHold' /\ RestIsIdle' /\ DrainsLast' /\ Fits' /\ LastFits'
           /\ Line' = Line /\ (Clean => Clean') /\ (Fresh => Fresh')
           /\ Rests("handle") => Rests("handle")'
           /\ Rests("decode") => Rests("decode")'
           /\ Rests("push") => Rests("push")'
<1>1. Line' = Line
  BY DEF LineAlone, Line
<1>2. TypesHold' /\ RestIsIdle' /\ DrainsLast' /\ Fits' /\ LastFits'
  BY <1>1 DEF CodecInv, TypesHold, RestIsIdle, DrainsLast, Fits, LastFits, LineAlone, Rests
<1> QED  BY <1>1, <1>2 DEF LineAlone, Clean, LineIsEmpty, Fresh, Rests

\* A call goes on when the step has done what it is for.
LEMMA CallGoesOn ==
    ASSUME CodecInv, StepsLeft \in Nat, call' = call, call \in {"Flush", "Stop", "Restart"},
           call = "Flush" => FlushDoes' /\ StepsLeft' # 0,
           call = "Stop" => StopDoes' /\ isFlushing' = isFlushing,
           call = "Restart" => RestartDoes' /\ isFlushing' = isFlushing /\ StepsLeft' # 0
    PROVE  CallDoes'
  BY DEF CodecInv, CallDoes

LEMMA FlagsKeep ==
    ASSUME CodecInv, SetsFlags
    PROVE  CodecInv'
<1>1. LineAlone /\ UNCHANGED <<inActive, ctxOpen>>
  BY DEF SetsFlags, LineAlone, demuxed, codecQueues, codecPlugin
<1>2. PICK step : Does(step) /\
         \/ step = "stop"        /\ stopped' = TRUE  /\ UNCHANGED <<isFlushing, codecState>>
         \/ step = "unstop"      /\ stopped' = FALSE /\ UNCHANGED <<isFlushing, codecState>>
         \/ step = "flushing"    /\ isFlushing' = TRUE  /\ UNCHANGED <<stopped, codecState>>
         \/ step = "flushed"     /\ isFlushing' = FALSE /\ UNCHANGED <<stopped, codecState>>
         \/ step = "initialized" /\ codecState' = "INITIALIZED" /\ UNCHANGED <<stopped, isFlushing>>
         \/ step = "preparing"   /\ codecState' = "PREPARING" /\ UNCHANGED <<stopped, isFlushing>>
         \/ step = "ready"       /\ codecState' = "READY" /\ UNCHANGED <<stopped, isFlushing>>
  BY DEF SetsFlags
<1>3. /\ ScriptGoes' /\ StepsLeft' = StepsLeft - 1 /\ call' = call
      /\ StepPlaces(call, StepsLeft, step)
      /\ StepsLeft \in Nat /\ call \in {"Flush", "Stop", "Restart"}
  BY <1>2, StepIsTaken
<1>4. /\ TypesHold' /\ RestIsIdle' /\ DrainsLast' /\ Fits' /\ LastFits'
      /\ Line' = Line /\ (Clean => Clean') /\ (Fresh => Fresh')
      /\ UNCHANGED <<inBufQue, outBufQue, decoded, draining>>
      /\ Rests("handle") => Rests("handle")'
      /\ Rests("decode") => Rests("decode")'
      /\ Rests("push") => Rests("push")'
  BY <1>1, LineAloneIsFine DEF LineAlone
<1>5. ASSUME call = "Flush" PROVE FlushDoes' /\ StepsLeft' # 0
  <2>1. codecState' = codecState /\
           \/ StepsLeft = 21 /\ stopped' = TRUE  /\ isFlushing' = isFlushing
           \/ StepsLeft = 9  /\ stopped' = FALSE /\ isFlushing' = isFlushing
           \/ StepsLeft = 13 /\ isFlushing' = TRUE  /\ stopped' = stopped
           \/ StepsLeft = 2  /\ isFlushing' = FALSE /\ stopped' = stopped
    BY <1>2, <1>3, <1>5 DEF StepPlaces
  <2>2. FlushDoes
    BY <1>5 DEF CodecInv, CallDoes
  <2> QED  BY <1>1, <1>3, <1>4, <2>1, <2>2 DEF FlushDoes
<1>6. ASSUME call = "Stop" PROVE StopDoes' /\ isFlushing' = isFlushing
  <2>1. isFlushing' = isFlushing /\
           \/ StepsLeft = 10 /\ codecState' = codecState
           \/ StepsLeft = 2  /\ codecState' = "INITIALIZED"
    BY <1>2, <1>3, <1>6 DEF StepPlaces
  <2>2. StopDoes
    BY <1>6 DEF CodecInv, CallDoes
  <2> QED  BY <1>1, <1>3, <1>4, <2>1, <2>2 DEF StopDoes
<1>7. ASSUME call = "Restart" PROVE RestartDoes' /\ isFlushing' = isFlushing /\ StepsLeft' # 0
  <2>1. isFlushing' = isFlushing /\
           \/ StepsLeft = 9  /\ stopped' = FALSE /\ codecState' = codecState
           \/ StepsLeft = 11 /\ codecState' = "PREPARING" /\ stopped' = stopped
           \/ StepsLeft = 3  /\ codecState' = "READY" /\ stopped' = stopped
    BY <1>2, <1>3, <1>7 DEF StepPlaces
  <2>2. RestartDoes
    BY <1>7 DEF CodecInv, CallDoes
  <2> QED  BY <1>1, <1>3, <1>4, <2>1, <2>2 DEF RestartDoes
<1>8. CallDoes'
  BY <1>3, <1>5, <1>6, <1>7, CallGoesOn
<1> QED  BY <1>3, <1>4, <1>8 DEF CodecInv

LEMMA QueuesKeep ==
    ASSUME CodecInv, SetsQueues
    PROVE  CodecInv'
<1>1. UNCHANGED <<gen, nextFrame, decoded, draining, run, at, hold, last, stopped, isFlushing, codecState, ctxOpen>>
  BY DEF SetsQueues, demuxed, codecFlags, codecPlugin
<1>2. PICK step : Does(step) /\
         \/ step = "inQueOff" /\ inActive' = FALSE /\ inBufQue' = <<>> /\ outBufQue' = outBufQue
         \/ step = "inQueOn"  /\ inActive' = TRUE /\ inBufQue' = inBufQue /\ outBufQue' = outBufQue
         \/ /\ step \in {"poolOff", "poolOn"}
            /\ inActive' = inActive /\ inBufQue' = inBufQue /\ outBufQue' = outBufQue
         \/ step = "newPool" /\ inActive' = inActive /\ inBufQue' = inBufQue /\ outBufQue' = outBufQue
         \/ step = "clearOut" /\ inActive' = inActive /\ inBufQue' = inBufQue /\ outBufQue' = <<>>
  BY DEF SetsQueues
<1>3. /\ ScriptGoes' /\ StepsLeft' = StepsLeft - 1 /\ call' = call
      /\ StepPlaces(call, StepsLeft, step)
      /\ StepsLeft \in Nat /\ call \in {"Flush", "Stop", "Restart"}
  BY <1>2, StepIsTaken
<1>4. TypesHold' /\ DrainsLast'
  <2>1. inBufQue' \in Seq(Frame) /\ outBufQue' \in Seq(Frame)
    BY <1>2, EmptySeq DEF CodecInv, TypesHold
  <2> QED  BY <1>1, <2>1 DEF CodecInv, TypesHold, DrainsLast
<1>5. /\ Line'[1] = Line[1] /\ Line'[3] = Line[3] /\ Line'[4] = Line[4] /\ Line'[5] = Line[5]
      /\ Line'[6] = Line[6] /\ Line'[8] = Line[8]
  BY <1>1, LineIs, LineIsNext
<1>6. Loses(Line, Line')
  <2>1. Line'[2] \in {Line[2], <<>>} /\ Line'[7] \in {Line[7], <<>>}
    BY <1>2, LineIs, LineIsNext
  <2> QED  BY <1>5, <2>1, StagesAre DEF Loses
<1>7. /\ RestIsIdle' /\ Fits' /\ LastFits' /\ (Clean => Clean') /\ (Fresh => Fresh')
      /\ Rests("handle") => Rests("handle")'
      /\ Rests("decode") => Rests("decode")'
      /\ Rests("push") => Rests("push")'
  <2>1. \A t \in Threads : Rests(t) => at'[t] = "idle"
    BY <1>1 DEF CodecInv, RestIsIdle
  <2> QED  BY <1>1, <1>4, <1>6, <2>1, LossIsFine DEF Threads
<1>8. ASSUME call = "Flush" PROVE FlushDoes' /\ StepsLeft' # 0
  <2>1. \/ StepsLeft = 20 /\ inActive' = FALSE /\ inBufQue' = <<>> /\ outBufQue' = outBufQue
        \/ StepsLeft = 8  /\ inActive' = TRUE /\ inBufQue' = inBufQue /\ outBufQue' = outBufQue
        \/ /\ StepsLeft \in {5, 17}
           /\ inActive' = inActive /\ inBufQue' = inBufQue /\ outBufQue' = outBufQue
        \/ StepsLeft = 14 /\ inActive' = inActive /\ inBufQue' = inBufQue /\ outBufQue' = <<>>
    BY <1>2, <1>3, <1>8 DEF StepPlaces
  <2>2. FlushDoes
    BY <1>8 DEF CodecInv, CallDoes
  <2> QED  BY <1>1, <1>3, <1>7, <2>1, <2>2 DEF FlushDoes
<1>9. ASSUME call = "Stop" PROVE StopDoes' /\ isFlushing' = isFlushing
  <2>1. \/ StepsLeft = 6 /\ inActive' = FALSE /\ inBufQue' = <<>> /\ outBufQue' = outBufQue
        \/ StepsLeft = 9 /\ inActive' = inActive /\ inBufQue' = inBufQue /\ outBufQue' = outBufQue
        \/ StepsLeft = 5 /\ inActive' = inActive /\ inBufQue' = inBufQue /\ outBufQue' = <<>>
    BY <1>2, <1>3, <1>9 DEF StepPlaces
  <2>2. StopDoes
    BY <1>9 DEF CodecInv, CallDoes
  <2> QED  BY <1>1, <1>3, <1>5, <1>7, <2>1, <2>2 DEF StopDoes
<1>10. ASSUME call = "Restart" PROVE RestartDoes' /\ isFlushing' = isFlushing /\ StepsLeft' # 0
  <2>1. \/ StepsLeft = 12 /\ inActive' = TRUE
        \/ StepsLeft = 10 /\ inActive' = inActive
    BY <1>2, <1>3, <1>10 DEF StepPlaces
  <2>2. RestartDoes
    BY <1>10 DEF CodecInv, CallDoes
  <2> QED  BY <1>1, <1>3, <1>7, <2>1, <2>2 DEF RestartDoes
<1>11. CallDoes'
  BY <1>3, <1>8, <1>9, <1>10, CallGoesOn
<1> QED  BY <1>3, <1>4, <1>7, <1>11 DEF CodecInv

LEMMA KicksKeep ==
    ASSUME CodecInv, PlayerKicks
    PROVE  CodecInv'
<1>1. /\ UNCHANGED <<gen, nextFrame, decoded, draining, run, hold, last, stopped, isFlushing, codecState, ctxOpen>>
      /\ UNCHANGED <<inActive, inBufQue, outBufQue>> /\ Does("kick")
  BY DEF PlayerKicks, demuxed, codecQueues, codecFlags, codecPlugin
<1>2. /\ ScriptGoes' /\ StepsLeft' = StepsLeft - 1 /\ call' = call
      /\ StepPlaces(call, StepsLeft, "kick")
      /\ StepsLeft \in Nat /\ call \in {"Flush", "Stop", "Restart"}
  BY <1>1, StepIsTaken
<1>3. /\ at \in [Threads -> Places] /\ \A t \in Threads : Rests(t) => at[t] = "idle"
      /\ at' = at \/ at' = Woken(at)
  BY DEF CodecInv, TypesHold, RestIsIdle, PlayerKicks
<1>4. /\ at'["push"] = at["push"] /\ at'["decode"] = at["decode"] /\ at'["demux"] = at["demux"]
      /\ at'["handle"] = at["handle"] \/ (at["handle"] = "asleep" /\ at'["handle"] = "queue")
      /\ at' \in [Threads -> Places]
  BY <1>3 DEF Woken, Threads, Places
<1>5. at'["handle"] \in HandleHolds <=> at["handle"] \in HandleHolds
  BY <1>4 DEF HandleHolds
<1>6. TypesHold' /\ DrainsLast'
  BY <1>1, <1>4, <1>5 DEF CodecInv, TypesHold, DrainsLast
<1>7. Line' = Line
  <2>1. Line'[1] = Line[1] /\ Line'[3] = Line[3] /\ Line'[6] = Line[6] /\ Line'[8] = Line[8]
    BY <1>1, <1>4, <1>5, PushHolds, DecodeHoldsFrame, HandleHoldsFrame, DemuxHoldsFrame
  <2> QED  BY <1>1, <1>6, <2>1, QueuesStay, LinesHold, SameStages DEF CodecInv
<1>8. /\ RestIsIdle' /\ Fits' /\ LastFits' /\ (Clean => Clean') /\ (Fresh => Fresh')
      /\ Rests("handle") => Rests("handle")'
      /\ Rests("decode") => Rests("decode")'
      /\ Rests("push") => Rests("push")'
  <2>1. \A t \in Threads : Rests(t) => at'[t] = "idle"
    BY <1>3, <1>4 DEF Threads
  <2>2. Loses(Line, Line')
    BY <1>7 DEF Loses
  <2> QED  BY <1>1, <1>6, <2>1, <2>2, LossIsFine DEF Threads
<1>9. ASSUME call = "Flush" PROVE FlushDoes' /\ StepsLeft' # 0
  <2>1. StepsLeft \in {7, 19} /\ FlushDoes
    BY <1>2, <1>9 DEF StepPlaces, CodecInv, CallDoes
  <2> QED  BY <1>1, <1>2, <1>8, <2>1 DEF FlushDoes
<1>10. ASSUME call = "Stop" PROVE StopDoes' /\ isFlushing' = isFlushing
  <2>1. StepsLeft = 4 /\ StopDoes
    BY <1>2, <1>10 DEF StepPlaces, CodecInv, CallDoes
  <2> QED  BY <1>1, <1>2, <1>7, <1>8, <2>1 DEF StopDoes
<1>11. ASSUME call = "Restart" PROVE RestartDoes' /\ isFlushing' = isFlushing /\ StepsLeft' # 0
  <2>1. StepsLeft = 7 /\ RestartDoes
    BY <1>2, <1>11 DEF StepPlaces, CodecInv, CallDoes
  <2> QED  BY <1>1, <1>2, <1>8, <2>1 DEF RestartDoes
<1>12. CallDoes'
  BY <1>2, <1>9, <1>10, <1>11, CallGoesOn
<1> QED  BY <1>2, <1>6, <1>8, <1>12 DEF CodecInv

LEMMA PluginKeep ==
    ASSUME CodecInv, SetsPlugin
    PROVE  CodecInv'
<1>1. /\ UNCHANGED <<gen, nextFrame, run, at, last, stopped, isFlushing, codecState>>
      /\ UNCHANGED <<inActive, inBufQue, outBufQue>>
  BY DEF SetsPlugin, demuxed, codecQueues, codecFlags
<1>2. PICK step : Does(step) /\
         \/ step = "pluginFlush" /\ decoded' = <<>> /\ draining' = NoFrame /\ ctxOpen' = ctxOpen /\ hold' = hold
         \/ /\ step = "pluginStop" /\ decoded' = <<>> /\ draining' = NoFrame /\ ctxOpen' = FALSE
            /\ hold' = [hold EXCEPT !["decode"] = NoFrame]
         \/ step = "pluginStart" /\ decoded' = decoded /\ draining' = draining /\ ctxOpen' = TRUE /\ hold' = hold
  BY DEF SetsPlugin
<1>3. /\ ScriptGoes' /\ StepsLeft' = StepsLeft - 1 /\ call' = call
      /\ StepPlaces(call, StepsLeft, step)
      /\ StepsLeft \in Nat /\ call \in {"Flush", "Stop", "Restart"}
  BY <1>2, StepIsTaken
<1>4. /\ hold'["push"] = hold["push"] /\ hold'["handle"] = hold["handle"] /\ hold'["demux"] = hold["demux"]
      /\ hold' \in [Threads -> Frame \union {NoFrame}]
      /\ hold' = hold \/ hold'["decode"] = NoFrame
  <2>1. hold \in [Threads -> Frame \union {NoFrame}]
    BY DEF CodecInv, TypesHold
  <2>2. hold' = hold \/ hold' = [hold EXCEPT !["decode"] = NoFrame]
    BY <1>2
  <2> QED  BY <2>1, <2>2 DEF Threads
<1>5. /\ decoded' \in {decoded, <<>>} /\ draining' \in {draining, NoFrame}
  BY <1>2
<1>6. TypesHold' /\ DrainsLast'
  <2>1. decoded' \in Seq(Frame) /\ draining' \in Frame \union {NoFrame}
    BY <1>5, EmptySeq DEF CodecInv, TypesHold
  <2>2. DrainsLast'
    BY <1>5 DEF CodecInv, DrainsLast
  <2> QED  BY <1>1, <1>4, <2>1, <2>2 DEF CodecInv, TypesHold
<1>7. /\ Line'[1] = Line[1] /\ Line'[2] = Line[2] /\ Line'[6] = Line[6] /\ Line'[7] = Line[7]
      /\ Line'[8] = Line[8]
  BY <1>1, <1>4, LineIs, LineIsNext
<1>8. /\ Line'[3] \in {Line[3], <<>>}
      /\ hold'["decode"] = NoFrame => Line'[3] = <<>>
  <2>1. hold'["decode"] = NoFrame => Line'[3] = <<>>
    BY LineIsNext DEF One
  <2>2. hold' = hold => Line'[3] = Line[3]
    BY <1>1, LineIs, LineIsNext
  <2> QED  BY <1>4, <2>1, <2>2
<1>9. Line'[4] \in {Line[4], <<>>} /\ Line'[5] \in {Line[5], <<>>}
  <2>1. Line'[4] \in {Line[4], <<>>}
    BY <1>5, LineIs, LineIsNext
  <2>2. draining' = NoFrame => Line'[5] = <<>>
    BY LineIsNext DEF One
  <2>3. draining' = draining => Line'[5] = Line[5]
    BY LineIs, LineIsNext
  <2> QED  BY <1>5, <2>1, <2>2, <2>3
<1>10. Loses(Line, Line')
  <2>1. Line'[3] \in {Line[3], <<>>}
    BY <1>8
  <2> QED  BY <1>7, <1>9, <2>1, StagesAre DEF Loses
<1>11. /\ RestIsIdle' /\ Fits' /\ LastFits' /\ (Clean => Clean') /\ (Fresh => Fresh')
       /\ Rests("handle") => Rests("handle")'
       /\ Rests("decode") => Rests("decode")'
       /\ Rests("push") => Rests("push")'
  <2>1. \A t \in Threads : Rests(t) => at'[t] = "idle"
    BY <1>1 DEF CodecInv, RestIsIdle
  <2> QED  BY <1>1, <1>6, <1>10, <2>1, LossIsFine DEF Threads
<1>12. ASSUME call = "Flush" PROVE FlushDoes' /\ StepsLeft' # 0
  <2>1. StepsLeft = 12 /\ decoded' = <<>> /\ draining' = NoFrame /\ ctxOpen' = ctxOpen
    BY <1>2, <1>3, <1>12 DEF StepPlaces
  <2>2. FlushDoes
    BY <1>12 DEF CodecInv, CallDoes
  <2> HIDE DEF Clean, Fresh, Rests
  <2> QED  BY <1>1, <1>3, <1>11, <2>1, <2>2 DEF FlushDoes
<1>13. ASSUME call = "Stop" PROVE StopDoes' /\ isFlushing' = isFlushing
  <2>1. \/ StepsLeft = 12
        \/ StepsLeft = 11 /\ decoded' = <<>> /\ draining' = NoFrame /\ ctxOpen' = FALSE /\ Line'[3] = <<>>
    <3>1. StepsLeft = 12 \/ (StepsLeft = 11 /\ step = "pluginStop")
      BY <1>2, <1>3, <1>13 DEF StepPlaces
    <3>2. step = "pluginStop" => /\ decoded' = <<>> /\ draining' = NoFrame /\ ctxOpen' = FALSE
                                 /\ hold' = [hold EXCEPT !["decode"] = NoFrame]
      BY <1>2
    <3>3. hold' = [hold EXCEPT !["decode"] = NoFrame] => hold'["decode"] = NoFrame
      BY DEF CodecInv, TypesHold, Threads
    <3>4. step = "pluginStop" => Line'[3] = <<>>
      BY <1>8, <3>2, <3>3
    <3>5. CASE StepsLeft = 12
      BY <3>5
    <3>6. CASE StepsLeft = 11 /\ step = "pluginStop"
      BY <3>2, <3>4, <3>6
    <3> QED  BY <3>1, <3>5, <3>6
  <2>2. StopDoes
    BY <1>13 DEF CodecInv, CallDoes
  <2> QED  BY <1>1, <1>3, <1>11, <2>1, <2>2 DEF StopDoes
<1>14. ASSUME call = "Restart" PROVE RestartDoes' /\ isFlushing' = isFlushing /\ StepsLeft' # 0
  <2>1. StepsLeft = 8 /\ ctxOpen' = TRUE
    BY <1>2, <1>3, <1>14 DEF StepPlaces
  <2>2. RestartDoes
    BY <1>14 DEF CodecInv, CallDoes
  <2> QED  BY <1>1, <1>3, <1>11, <2>1, <2>2 DEF RestartDoes
<1>15. CallDoes'
  BY <1>3, <1>12, <1>13, <1>14, CallGoesOn
<1> QED  BY <1>3, <1>6, <1>11, <1>15 DEF CodecInv

LEMMA SeeksKeep ==
    ASSUME CodecInv, Seeks
    PROVE  CodecInv'
<1>1. /\ UNCHANGED <<inBufQue, outBufQue, decoded, draining, run, at, hold, last>>
      /\ UNCHANGED <<stopped, isFlushing, codecState, ctxOpen, inActive>>
      /\ gen' = gen + 1 /\ nextFrame' = 1 /\ Does("seek")
  BY DEF Seeks, codecQueues, codecFlags, codecPlugin
<1>2. /\ ScriptGoes' /\ StepsLeft' = StepsLeft - 1 /\ call' = call
      /\ StepPlaces(call, StepsLeft, "seek")
      /\ StepsLeft \in Nat /\ call \in {"Flush", "Stop", "Restart"}
  BY <1>1, StepIsTaken
<1>3. (call = "Flush" /\ StepsLeft = 10) \/ (call = "Restart" /\ StepsLeft = 2)
  BY <1>2 DEF StepPlaces
<1>4. Clean
  BY <1>3 DEF CodecInv, CallDoes, FlushDoes, RestartDoes
<1>5. Line' = Line
  BY <1>1 DEF Line
<1>6. TypesHold' /\ RestIsIdle' /\ DrainsLast'
  BY <1>1, EosIs DEF CodecInv, TypesHold, RestIsIdle, DrainsLast, Rests
<1>7. Clean'
  BY <1>1, <1>4, <1>5 DEF Clean, LineIsEmpty, Rests
<1>8. Fits'
  <2>1. \A s \in Stages : DOMAIN Line'[s] = {}
    BY <1>7, OneIs DEF Clean, LineIsEmpty
  <2> QED  BY <2>1 DEF Fits, InOrder
<1>9. LastFits' /\ Fresh'
  <2>1. gen \in Nat /\ last.gen <= gen /\ last.gen \in Nat
    BY DEF CodecInv, TypesHold, LastFits, Frame, NoFrame
  <2> QED  BY <1>1, <2>1 DEF LastFits, Fresh
<1>10. /\ Rests("handle") => Rests("handle")'
       /\ Rests("decode") => Rests("decode")'
       /\ Rests("push") => Rests("push")'
  BY <1>1 DEF Rests
<1>11. ASSUME call = "Flush" PROVE FlushDoes' /\ StepsLeft' # 0
  <2>1. StepsLeft = 10 /\ FlushDoes
    BY <1>3, <1>11 DEF CodecInv, CallDoes
  <2> HIDE DEF Clean, Fresh, Rests
  <2> QED  BY <1>1, <1>2, <1>7, <1>9, <1>10, <2>1 DEF FlushDoes
<1>12. ASSUME call = "Restart" PROVE RestartDoes' /\ isFlushing' = isFlushing /\ StepsLeft' # 0
  <2>1. StepsLeft = 2 /\ RestartDoes
    BY <1>3, <1>12 DEF CodecInv, CallDoes
  <2> QED  BY <1>1, <1>2, <1>7, <1>9, <2>1 DEF RestartDoes
<1>13. CallDoes'
  BY <1>2, <1>3, <1>11, <1>12, CallGoesOn
<1> QED  BY <1>2, <1>6, <1>8, <1>9, <1>13 DEF CodecInv

\* A task is asked to pause or to stop, or starts.
LEMMA TaskTurns ==
    ASSUME CodecInv, NEW t \in Threads, NEW state \in {"STARTED", "PAUSING", "STOPPING"},
           run' = [run EXCEPT ![t] = state],
           UNCHANGED <<gen, nextFrame, inBufQue, outBufQue, decoded, draining, at, hold, last>>
    PROVE  /\ TypesHold' /\ RestIsIdle' /\ DrainsLast' /\ Fits' /\ LastFits'
           /\ Line' = Line /\ (Fresh => Fresh') /\ (t # "demux" /\ Clean => Clean')
           /\ \A u \in Threads : u # t => (Rests(u) => Rests(u)')
<1>1. Line' = Line
  BY DEF Line
<1>2. run \in [Threads -> RunStates]
  BY DEF CodecInv, TypesHold
<1>3. run' \in [Threads -> RunStates] /\ run'[t] = state /\ \A u \in Threads : u # t => run'[u] = run[u]
  BY <1>2 DEF RunStates
<1>4. TypesHold' /\ DrainsLast' /\ Fits' /\ LastFits'
  BY <1>1, <1>3 DEF CodecInv, TypesHold, DrainsLast, Fits, LastFits
<1>5. RestIsIdle'
  BY <1>3 DEF CodecInv, RestIsIdle, Rests
<1>6. t # "demux" /\ Clean => Clean'
  BY <1>1, <1>3 DEF Clean, LineIsEmpty, Rests, Threads
<1> QED  BY <1>1, <1>3, <1>4, <1>5, <1>6 DEF Fresh, Rests

\* The step of a task that the player takes is the step of that task.
LEMMA TaskStepIs ==
    ASSUME NEW t \in Threads
    PROVE  /\ t = "demux" => /\ TaskStep.pause[t] = "pause demux" /\ TaskStep.stop[t] = "stop demux"
                             /\ TaskStep.start[t] = "start demux"
           /\ t = "handle" => /\ TaskStep.pause[t] = "pause handle" /\ TaskStep.stop[t] = "stop handle"
                              /\ TaskStep.start[t] = "start handle"
           /\ t = "decode" => /\ TaskStep.pause[t] = "pause decode" /\ TaskStep.stop[t] = "stop decode"
                              /\ TaskStep.start[t] = "start decode"
           /\ t = "push" => /\ TaskStep.pause[t] = "pause push" /\ TaskStep.stop[t] = "stop push"
                            /\ TaskStep.start[t] = "start push"
           /\ t \in {"demux", "handle", "decode", "push"}
<1>1. /\ TaskStep.pause["demux"] = "pause demux" /\ TaskStep.pause["handle"] = "pause handle"
      /\ TaskStep.pause["decode"] = "pause decode" /\ TaskStep.pause["push"] = "pause push"
  BY DEF TaskStep
<1>2. /\ TaskStep.stop["demux"] = "stop demux" /\ TaskStep.stop["handle"] = "stop handle"
      /\ TaskStep.stop["decode"] = "stop decode" /\ TaskStep.stop["push"] = "stop push"
  BY DEF TaskStep
<1>3. /\ TaskStep.start["demux"] = "start demux" /\ TaskStep.start["handle"] = "start handle"
      /\ TaskStep.start["decode"] = "start decode" /\ TaskStep.start["push"] = "start push"
  BY DEF TaskStep
<1> QED  BY <1>1, <1>2, <1>3, Zenon DEF Threads

LEMMA TaskPlaces ==
    ASSUME NEW t \in Threads, NEW c, NEW left
    PROVE  /\ StepPlaces(c, left, TaskStep.pause[t]) =>
                  /\ c = "Flush"
                  /\ \/ t = "handle" /\ left = 18
                     \/ t = "decode" /\ left = 16
                     \/ t = "push" /\ left = 15
                     \/ t = "demux" /\ left = 11
           /\ StepPlaces(c, left, TaskStep.stop[t]) =>
                  /\ c = "Stop"
                  /\ \/ t = "decode" /\ left = 8
                     \/ t = "push" /\ left = 7
                     \/ t = "handle" /\ left = 3
                     \/ t = "demux" /\ left = 1
           /\ StepPlaces(c, left, TaskStep.start[t]) =>
                  \/ t = "handle" /\ c \in {"Flush", "Restart"} /\ left = 6
                  \/ t = "decode" /\ ((c = "Flush" /\ left = 4) \/ (c = "Restart" /\ left = 5))
                  \/ t = "push" /\ ((c = "Flush" /\ left = 3) \/ (c = "Restart" /\ left = 4))
                  \/ t = "demux" /\ c \in {"Flush", "Restart"} /\ left = 1
<1>1. t = "demux" \/ t = "handle" \/ t = "decode" \/ t = "push"
  BY DEF Threads
<1>2. ASSUME StepPlaces(c, left, TaskStep.pause[t])
      PROVE  /\ c = "Flush"
             /\ \/ t = "handle" /\ left = 18
                \/ t = "decode" /\ left = 16
                \/ t = "push" /\ left = 15
                \/ t = "demux" /\ left = 11
  BY <1>1, <1>2, TaskStepIs, ZenonT(60) DEF StepPlaces
<1>3. ASSUME StepPlaces(c, left, TaskStep.stop[t])
      PROVE  /\ c = "Stop"
             /\ \/ t = "decode" /\ left = 8
                \/ t = "push" /\ left = 7
                \/ t = "handle" /\ left = 3
                \/ t = "demux" /\ left = 1
  BY <1>1, <1>3, TaskStepIs, ZenonT(60) DEF StepPlaces
<1>4. ASSUME StepPlaces(c, left, TaskStep.start[t])
      PROVE  \/ t = "handle" /\ c \in {"Flush", "Restart"} /\ left = 6
             \/ t = "decode" /\ ((c = "Flush" /\ left = 4) \/ (c = "Restart" /\ left = 5))
             \/ t = "push" /\ ((c = "Flush" /\ left = 3) \/ (c = "Restart" /\ left = 4))
             \/ t = "demux" /\ c \in {"Flush", "Restart"} /\ left = 1
  BY <1>1, <1>4, TaskStepIs, ZenonT(60) DEF StepPlaces
<1> QED  BY <1>2, <1>3, <1>4

\* When every thread is out of its handler and the queues and the decoder hold nothing.
LEMMA NothingIsLeft ==
    ASSUME CodecInv, Rests("push"), Rests("handle"), Rests("demux"), Line[3] = <<>>,
           outBufQue = <<>>, inBufQue = <<>>, decoded = <<>>, draining = NoFrame
    PROVE  Clean
<1>1. at["push"] = "idle" /\ at["handle"] = "idle" /\ at["demux"] = "idle"
  BY DEF CodecInv, RestIsIdle, Threads
<1>2. /\ Line[1] = <<>> /\ Line[2] = <<>> /\ Line[3] = <<>> /\ Line[4] = <<>> /\ Line[5] = <<>>
      /\ Line[6] = <<>> /\ Line[7] = <<>> /\ Line[8] = <<>>
  BY <1>1, LineIs DEF One, HandleHolds, DemuxHolds
<1> QED  BY <1>2, StagesAre DEF Clean, LineIsEmpty

LEMMA PausesKeep ==
    ASSUME CodecInv, NEW t \in Threads, PausesTask(t)
    PROVE  CodecInv'
<1>1. /\ UNCHANGED <<gen, nextFrame, inBufQue, outBufQue, decoded, draining, at, hold, last>>
      /\ UNCHANGED <<inActive, ctxOpen, stopped, isFlushing, codecState>>
  BY DEF PausesTask, demuxed, codecQueues, codecPlugin, codecFlags
<1>2. CASE run[t] = "STARTED" /\ run' = [run EXCEPT ![t] = "PAUSING"] /\ UNCHANGED player
  <2>1. /\ TypesHold' /\ RestIsIdle' /\ DrainsLast' /\ Fits' /\ LastFits'
        /\ Line' = Line /\ (Fresh => Fresh') /\ (t # "demux" /\ Clean => Clean')
        /\ \A u \in Threads : u # t => (Rests(u) => Rests(u)')
    BY <1>1, <1>2, TaskTurns
  <2>2. ~Rests(t)
    BY <1>2 DEF Rests
  <2>3. \A u \in Threads : Rests(u) => Rests(u)'
    BY <2>1, <2>2
  <2>4. Clean => Clean'
    BY <2>1, <2>2 DEF Clean
  <2>5. ThreadGoes
    <3>1. PlayerWaits
      BY <1>1, <1>2 DEF PlayerWaits, player
    <3>2. StaysAtRest
      BY <2>1, <2>3 DEF StaysAtRest, RestIsIdle
    <3>3. StaysEmpty
      BY <1>1, <2>1 DEF StaysEmpty
    <3>4. OrderKept
      BY <1>1, <2>1, SameLineKept
    <3> QED  BY <2>1, <3>1, <3>2, <3>3, <3>4 DEF ThreadGoes
  <2> QED  BY <2>5, ThreadsKeep
<1>3. CASE run[t] \in {"PAUSED", "STOPPED"} /\ Does(TaskStep.pause[t]) /\ UNCHANGED run
  <2>1. /\ ScriptGoes' /\ StepsLeft' = StepsLeft - 1 /\ call' = call
        /\ StepPlaces(call, StepsLeft, TaskStep.pause[t])
        /\ StepsLeft \in Nat /\ call \in {"Flush", "Stop", "Restart"}
    BY <1>3, StepIsTaken
  <2>2. /\ call = "Flush"
        /\ \/ t = "handle" /\ StepsLeft = 18
           \/ t = "decode" /\ StepsLeft = 16
           \/ t = "push" /\ StepsLeft = 15
           \/ t = "demux" /\ StepsLeft = 11
    BY <2>1, TaskPlaces
  <2>3. /\ TypesHold' /\ RestIsIdle' /\ DrainsLast' /\ Fits' /\ LastFits'
        /\ Line' = Line /\ (Clean => Clean') /\ (Fresh => Fresh')
        /\ Rests("handle") => Rests("handle")'
        /\ Rests("decode") => Rests("decode")'
        /\ Rests("push") => Rests("push")'
    BY <1>1, <1>3, LineAloneIsFine DEF LineAlone
  <2>4. FlushDoes
    BY <2>2 DEF CodecInv, CallDoes
  <2>5. Rests(t)
    BY <1>3 DEF Rests
  <2>6. \/ StepsLeft = 18 /\ Rests("handle")
        \/ StepsLeft = 16 /\ Rests("decode")
        \/ StepsLeft = 15 /\ Rests("push")
        \/ StepsLeft = 11 /\ Rests("demux")
    BY <2>2, <2>5
  <2>7. StepsLeft = 11 => Clean
    <3>1. SUFFICES ASSUME StepsLeft = 11 PROVE Clean
      OBVIOUS
    <3>2. /\ Rests("push") /\ Rests("decode") /\ Rests("handle") /\ Rests("demux")
          /\ outBufQue = <<>> /\ inBufQue = <<>> /\ decoded = <<>> /\ draining = NoFrame
      <4> HIDE DEF Rests, Clean, Fresh
      <4> QED  BY <2>4, <2>6, <3>1 DEF FlushDoes
    <3>3. Line[3] = <<>>
      <4>1. at["decode"] = "idle"
        BY <3>2 DEF CodecInv, RestIsIdle, Threads
      <4> QED  BY <4>1, LineIs DEF One
    <3> QED  BY <3>2, <3>3, NothingIsLeft
  <2>8. FlushDoes' /\ StepsLeft' # 0
    <3> HIDE DEF Rests, Clean, Fresh
    <3> QED  BY <1>1, <2>1, <2>3, <2>4, <2>6, <2>7 DEF FlushDoes
  <2>9. CallDoes'
    BY <2>1, <2>2, <2>8, CallGoesOn
  <2> QED  BY <2>1, <2>3, <2>9 DEF CodecInv
<1> QED  BY <1>2, <1>3 DEF PausesTask

LEMMA StopsKeep ==
    ASSUME CodecInv, NEW t \in Threads, StopsTask(t)
    PROVE  CodecInv'
<1>1. /\ UNCHANGED <<gen, nextFrame, inBufQue, outBufQue, decoded, draining, at, hold, last>>
      /\ UNCHANGED <<inActive, ctxOpen, stopped, isFlushing, codecState>>
  BY DEF StopsTask, demuxed, codecQueues, codecPlugin, codecFlags
<1>2. /\ StepsLeft \in Nat /\ call = "Stop"
      /\ \/ t = "decode" /\ StepsLeft = 8
         \/ t = "push" /\ StepsLeft = 7
         \/ t = "handle" /\ StepsLeft = 3
         \/ t = "demux" /\ StepsLeft = 1
  <2>1. StepsLeft \in Nat /\ StepPlaces(call, StepsLeft, TaskStep.stop[t])
    BY NextStep DEF CodecInv, StopsTask
  <2> QED  BY <2>1, TaskPlaces
<1>3. StopDoes
  BY <1>2 DEF CodecInv, CallDoes
<1>4. CASE run' = [run EXCEPT ![t] = "STOPPING"] /\ UNCHANGED player
  <2>1. /\ TypesHold' /\ RestIsIdle' /\ DrainsLast' /\ Fits' /\ LastFits'
        /\ Line' = Line
        /\ \A u \in Threads : u # t => (Rests(u) => Rests(u)')
    BY <1>1, <1>4, TaskTurns
  <2>2. ScriptGoes' /\ StepsLeft' = StepsLeft /\ call' = call
    BY <1>4, ScriptStays DEF CodecInv, player
  <2>3. /\ t # "push" => (Rests("push") => Rests("push")')
        /\ t # "handle" => (Rests("handle") => Rests("handle")')
    BY <2>1 DEF Threads
  <2>4. /\ StepsLeft <= 6 => (Rests("push") => Rests("push")')
        /\ StepsLeft <= 2 => (Rests("handle") => Rests("handle")')
    <3>1. (StepsLeft <= 6 => t # "push") /\ (StepsLeft <= 2 => t # "handle")
      BY <1>2
    <3> HIDE DEF Rests
    <3> QED  BY <2>3, <3>1
  <2>5. StopDoes'
    <3> HIDE DEF Rests, Clean
    <3> QED  BY <1>1, <1>2, <1>3, <2>1, <2>2, <2>4 DEF StopDoes
  <2>6. CallDoes'
    BY <1>1, <1>2, <2>2, <2>5, CallGoesOn
  <2> QED  BY <2>1, <2>2, <2>6 DEF CodecInv
<1>5. CASE run[t] = "STOPPED" /\ Does(TaskStep.stop[t]) /\ UNCHANGED run
  <2>1. /\ ScriptGoes' /\ StepsLeft' = StepsLeft - 1 /\ call' = call
    BY <1>5, StepIsTaken
  <2>2. /\ TypesHold' /\ RestIsIdle' /\ DrainsLast' /\ Fits' /\ LastFits'
        /\ Line' = Line /\ (Clean => Clean')
        /\ Rests("handle") => Rests("handle")'
        /\ Rests("push") => Rests("push")'
    BY <1>1, <1>5, LineAloneIsFine DEF LineAlone
  <2>3. Rests(t)
    BY <1>5 DEF Rests
  <2>4. \/ StepsLeft = 8
        \/ StepsLeft = 7 /\ Rests("push")
        \/ StepsLeft = 3 /\ Rests("handle")
        \/ StepsLeft = 1 /\ Rests("demux")
    BY <1>2, <2>3
  <2>5. StepsLeft = 1 => Clean
    <3>1. SUFFICES ASSUME StepsLeft = 1 PROVE Clean
      OBVIOUS
    <3>2. /\ Rests("push") /\ Rests("handle") /\ Rests("demux") /\ Line[3] = <<>>
          /\ outBufQue = <<>> /\ inBufQue = <<>> /\ decoded = <<>> /\ draining = NoFrame
      <4> HIDE DEF Rests, Clean
      <4> QED  BY <1>3, <2>4, <3>1 DEF StopDoes
    <3> QED  BY <3>2, NothingIsLeft
  <2>6. StopDoes'
    <3> HIDE DEF Rests, Clean
    <3> QED  BY <1>1, <1>3, <2>1, <2>2, <2>4, <2>5 DEF StopDoes
  <2>7. CallDoes'
    BY <1>1, <1>2, <2>1, <2>6, CallGoesOn
  <2> QED  BY <2>1, <2>2, <2>7 DEF CodecInv
<1> QED  BY <1>4, <1>5 DEF StopsTask

LEMMA StartsKeep ==
    ASSUME CodecInv, NEW t \in Threads, StartsTask(t)
    PROVE  CodecInv'
<1>1. /\ UNCHANGED <<gen, nextFrame, inBufQue, outBufQue, decoded, draining, at, hold, last>>
      /\ UNCHANGED <<inActive, ctxOpen, stopped, isFlushing, codecState>>
      /\ Does(TaskStep.start[t]) /\ run' = [run EXCEPT ![t] = "STARTED"]
  BY DEF StartsTask, demuxed, codecQueues, codecPlugin, codecFlags
<1>2. /\ ScriptGoes' /\ StepsLeft' = StepsLeft - 1 /\ call' = call
      /\ StepPlaces(call, StepsLeft, TaskStep.start[t])
      /\ StepsLeft \in Nat /\ call \in {"Flush", "Stop", "Restart"}
  BY <1>1, StepIsTaken
<1>3. \/ t = "handle" /\ call \in {"Flush", "Restart"} /\ StepsLeft = 6
      \/ t = "decode" /\ ((call = "Flush" /\ StepsLeft = 4) \/ (call = "Restart" /\ StepsLeft = 5))
      \/ t = "push" /\ ((call = "Flush" /\ StepsLeft = 3) \/ (call = "Restart" /\ StepsLeft = 4))
      \/ t = "demux" /\ call \in {"Flush", "Restart"} /\ StepsLeft = 1
  BY <1>2, TaskPlaces
<1>4. /\ TypesHold' /\ RestIsIdle' /\ DrainsLast' /\ Fits' /\ LastFits'
      /\ Line' = Line /\ (Fresh => Fresh') /\ (t # "demux" /\ Clean => Clean')
      /\ \A u \in Threads : u # t => (Rests(u) => Rests(u)')
  BY <1>1, TaskTurns
<1>5. t # "demux" => /\ Clean => Clean'
                     /\ Fresh => Fresh'
  BY <1>4
<1>6. /\ t # "decode" => (Rests("decode") => Rests("decode")')
      /\ t # "push" => (Rests("push") => Rests("push")')
  BY <1>4 DEF Threads
<1>7. ASSUME call = "Flush" PROVE FlushDoes'
  <2>1. FlushDoes
    BY <1>7 DEF CodecInv, CallDoes
  <2>2. \/ /\ StepsLeft = 6 /\ (Clean => Clean') /\ (Fresh => Fresh')
           /\ (Rests("decode") => Rests("decode")') /\ (Rests("push") => Rests("push")')
        \/ StepsLeft = 4 /\ (Clean => Clean') /\ (Fresh => Fresh') /\ (Rests("push") => Rests("push")')
        \/ StepsLeft = 3 /\ (Clean => Clean') /\ (Fresh => Fresh')
        \/ StepsLeft = 1
    <3>1. \/ StepsLeft = 6 /\ t = "handle"
          \/ StepsLeft = 4 /\ t = "decode"
          \/ StepsLeft = 3 /\ t = "push"
          \/ StepsLeft = 1 /\ t = "demux"
      BY <1>3, <1>7
    <3> HIDE DEF Rests, Clean, Fresh
    <3> QED  BY <1>5, <1>6, <3>1
  <2> HIDE DEF Rests, Clean, Fresh
  <2> QED  BY <1>1, <1>2, <2>1, <2>2 DEF FlushDoes
<1>8. ASSUME call = "Restart" PROVE RestartDoes'
  <2>1. RestartDoes
    BY <1>8 DEF CodecInv, CallDoes
  <2>2. \/ StepsLeft \in {4, 5, 6} /\ (Clean => Clean') /\ (Fresh => Fresh')
        \/ StepsLeft = 1
    <3>1. (StepsLeft \in {4, 5, 6} /\ t # "demux") \/ StepsLeft = 1
      BY <1>3, <1>8
    <3> HIDE DEF Rests, Clean, Fresh
    <3> QED  BY <1>5, <3>1
  <2> HIDE DEF Rests, Clean, Fresh
  <2> QED  BY <1>1, <1>2, <2>1, <2>2 DEF RestartDoes
<1>9. ASSUME StepsLeft' = 0 PROVE Whole' /\ Working'
  <2>1. StepsLeft = 1
    BY <1>2, <1>9
  <2>2. Fresh /\ Working
    <3>1. CASE call = "Flush"
      <4> HIDE DEF Fresh
      <4> QED  BY <2>1, <3>1 DEF CodecInv, CallDoes, FlushDoes, Working
    <3>2. CASE call = "Restart"
      <4> HIDE DEF Fresh
      <4> QED  BY <2>1, <3>2 DEF CodecInv, CallDoes, RestartDoes, Working
    <3> QED  BY <1>3, <3>1, <3>2
  <2>3. Working'
    BY <1>1, <2>2 DEF Working
  <2>4. nextFrame' = 1 /\ Due' = 1
    <3>1. last.gen # gen
      BY <2>2 DEF Fresh, CodecInv, TypesHold, Frame, NoFrame
    <3> QED  BY <1>1, <2>2, <3>1 DEF Fresh, Due
  <2>5. \A n \in Due' .. nextFrame' - 1 : FALSE
    BY <2>4
  <2> QED  BY <2>3, <2>5 DEF Whole
<1>10. CallDoes'
  <2>1. call \in {"Flush", "Restart"}
    BY <1>3
  <2> HIDE DEF Whole, Working
  <2> QED  BY <1>1, <1>2, <1>7, <1>8, <1>9, <2>1 DEF CodecInv, CallDoes
<1> QED  BY <1>2, <1>4, <1>10 DEF CodecInv

LEMMA BeginKeeps ==
    ASSUME CodecInv, NEW c \in CodecCalls, PlayerCalls(c)
    PROVE  CodecInv'
<1>1. /\ LineAlone /\ UNCHANGED <<inActive, ctxOpen, stopped, isFlushing, codecState>>
      /\ call' = c /\ todo' = Steps(c) /\ todo = <<>>
      /\ (c = "Restart") = (codecState = "INITIALIZED")
  BY DEF PlayerCalls, LineAlone, demuxed, codecQueues, codecPlugin, codecFlags
<1>2. c \in {"Flush", "Stop", "Restart"}
  BY CodecAssumption
<1>3. /\ ScriptGoes' /\ StepsLeft' \in Nat
      /\ c = "Flush" => StepsLeft' = 21
      /\ c # "Flush" => StepsLeft' = 12
  BY <1>1, <1>2, ScriptBegins
<1>4. /\ TypesHold' /\ RestIsIdle' /\ DrainsLast' /\ Fits' /\ LastFits'
      /\ (Clean => Clean')
  BY <1>1, LineAloneIsFine
<1>5. StepsLeft = 0
  BY <1>1, EmptySeq DEF StepsLeft
<1>6. /\ call # "Stop" => Working
      /\ call = "Stop" => Clean /\ codecState = "INITIALIZED"
      /\ ~isFlushing
  <2> HIDE DEF Clean, Fresh, Whole
  <2> QED  BY <1>5 DEF CodecInv, CallDoes, FlushDoes, StopDoes, Working
<1>7. ASSUME c = "Flush" PROVE FlushDoes'
  <2>1. ctxOpen' /\ codecState' = "READY" /\ StepsLeft' = 21
    BY <1>1, <1>3, <1>6, <1>7 DEF Working
  <2> HIDE DEF Rests, Clean, Fresh
  <2> QED  BY <2>1 DEF FlushDoes
<1>8. ASSUME c = "Stop" PROVE StopDoes'
  <2>1. StepsLeft' = 12
    BY <1>3, <1>8
  <2> HIDE DEF Rests, Clean
  <2> QED  BY <2>1 DEF StopDoes
<1>9. ASSUME c = "Restart" PROVE RestartDoes'
  <2>1. StepsLeft' = 12 /\ Clean'
    BY <1>1, <1>3, <1>4, <1>6, <1>9 DEF Working
  <2> HIDE DEF Clean, Fresh
  <2> QED  BY <2>1 DEF RestartDoes
<1>10. CallDoes'
  BY <1>1, <1>2, <1>3, <1>6, <1>7, <1>8, <1>9 DEF CallDoes
<1> QED  BY <1>3, <1>4, <1>10 DEF CodecInv

-----------------------------------------------------------------------------
(* The theorems.                                                           *)

LEMMA CodecBegins == CodecInit => CodecInv
<1> SUFFICES ASSUME CodecInit PROVE CodecInv
  OBVIOUS
<1>1. /\ at = [t \in Threads |-> "idle"] /\ hold = [t \in Threads |-> NoFrame]
      /\ run = [t \in Threads |-> "STARTED"]
      /\ inBufQue = <<>> /\ outBufQue = <<>> /\ decoded = <<>> /\ draining = NoFrame /\ last = NoFrame
      /\ gen = 1 /\ nextFrame = 1 /\ todo = <<>> /\ call = "none"
  BY DEF CodecInit
<1>2. /\ at["push"] = "idle" /\ at["handle"] = "idle" /\ at["decode"] = "idle" /\ at["demux"] = "idle"
  BY <1>1 DEF Threads
<1>3. TypesHold
  <2>1. inBufQue \in Seq(Frame) /\ outBufQue \in Seq(Frame) /\ decoded \in Seq(Frame)
    BY <1>1, EmptySeq
  <2>2. run \in [Threads -> RunStates] /\ at \in [Threads -> Places]
        /\ hold \in [Threads -> Frame \union {NoFrame}]
    BY <1>1 DEF RunStates, Places
  <2>3. gen \in Nat /\ nextFrame \in 1 .. Eos + 1
    BY <1>1, EosIs
  <2> QED  BY <1>1, <1>2, <2>1, <2>2, <2>3 DEF TypesHold, HandleHolds, DemuxHolds
<1>4. RestIsIdle /\ DrainsLast
  BY <1>1 DEF RestIsIdle, DrainsLast
<1>5. LineIsEmpty
  <2>1. /\ Line[1] = <<>> /\ Line[2] = <<>> /\ Line[3] = <<>> /\ Line[4] = <<>> /\ Line[5] = <<>>
        /\ Line[6] = <<>> /\ Line[7] = <<>> /\ Line[8] = <<>>
    BY <1>1, <1>2, LineIs DEF One, HandleHolds, DemuxHolds
  <2> QED  BY <2>1, StagesAre DEF LineIsEmpty
<1>6. Fits
  <2>1. \A s \in Stages : DOMAIN Line[s] = {}
    BY <1>5, OneIs DEF LineIsEmpty
  <2> QED  BY <2>1 DEF Fits, InOrder
<1>7. LastFits
  BY <1>1 DEF LastFits, NoFrame
<1>8. ScriptGoes
  <2>1. todo \in Seq(StepNames)
    BY <1>1, EmptySeq
  <2> QED  BY <1>1, <2>1 DEF ScriptGoes
<1>9. CallDoes
  <2>1. Due = 1
    BY <1>1 DEF Due, NoFrame
  <2>2. Whole
    BY <1>1, <2>1 DEF Whole
  <2>3. Working /\ ~isFlushing
    BY DEF CodecInit, Working
  <2> QED  BY <1>1, <2>2, <2>3 DEF CallDoes
<1> QED  BY <1>3, <1>4, <1>6, <1>7, <1>8, <1>9 DEF CodecInv

LEMMA CodecGoesOn == CodecInv /\ [CodecNext]_codecVars => CodecInv'
<1> SUFFICES ASSUME CodecInv, [CodecNext]_codecVars PROVE CodecInv'
  OBVIOUS
<1>1. CASE DemuxStep
  BY <1>1, DemuxReadsKeeps, DemuxChecksKeeps, DemuxPushesKeeps, SettleKeeps, ThreadsKeep DEF DemuxStep, Threads
<1>2. CASE HandleStep
  <2>1. CASE HandleQueues
    BY <2>1, HandleQueuesKeeps, ThreadsKeep
  <2>2. CASE HandleEnters \/ HandlePops \/ HandleRefused \/ HandleWaits \/ TaskSettles("handle")
    BY <2>2, HandleEntersKeeps, HandlePopsKeeps, HandleRefusedKeeps, HandleWaitsKeeps, SettleKeeps,
       ThreadsKeep DEF Threads
  <2> QED  BY <1>2, <2>1, <2>2 DEF HandleStep
<1>3. CASE DecodeStep
  <2>1. CASE DecodeEnters \/ DecodeAllocates \/ TaskSettles("decode")
    BY <2>1, DecodeEntersKeeps, DecodeAllocatesKeeps, SettleKeeps, ThreadsKeep DEF Threads
  <2>2. CASE DecodeReceives \/ DecodeQueues
    BY <2>2, DecodeReceivesKeeps, DecodeQueuesKeeps, ThreadsKeep
  <2>3. CASE DecodeKicks \/ DecodeStarves
    BY <2>3, DecodeEndsKeeps, ThreadsKeep
  <2> QED  BY <1>3, <2>1, <2>2, <2>3 DEF DecodeStep
<1>4. CASE PushStep
  BY <1>4, PushTakesKeeps, PushDeliversKeeps, SettleKeeps, ThreadsKeep DEF PushStep, Threads
<1>5. CASE PlayerStep
  BY <1>5, FlagsKeep, QueuesKeep, KicksKeep, PluginKeep, SeeksKeep, PausesKeep, StopsKeep, StartsKeep
     DEF PlayerStep
<1>6. CASE \E c \in CodecCalls : PlayerCalls(c)
  BY <1>6, BeginKeeps
<1>7. CASE UNCHANGED codecVars
  <2>1. /\ LineAlone /\ UNCHANGED <<call, todo>>
        /\ UNCHANGED <<inActive, ctxOpen, stopped, isFlushing, codecState>>
    BY <1>7 DEF codecVars, LineAlone
  <2>2. Line' = Line
    BY <2>1, LineAloneIsFine
  <2>3. PlayerWaits /\ TypesHold' /\ DrainsLast' /\ StaysAtRest /\ StaysEmpty /\ OrderKept
    <3>1. PlayerWaits
      BY <2>1 DEF PlayerWaits, LineAlone
    <3>2. TypesHold' /\ DrainsLast' /\ OrderKept
      BY <2>1, <2>2, LineAloneIsFine, SameLineKept DEF LineAlone
    <3>3. StaysAtRest
      BY <2>1 DEF LineAlone, StaysAtRest, Rests, CodecInv, RestIsIdle
    <3>4. StaysEmpty
      BY <2>1, <2>2 DEF LineAlone, StaysEmpty
    <3> QED  BY <3>1, <3>2, <3>3, <3>4
  <2> QED  BY <2>3, ThreadsKeep DEF ThreadGoes
<1> QED  BY <1>1, <1>2, <1>3, <1>4, <1>5, <1>6, <1>7 DEF CodecNext

\* In every reachable state the frames between the demuxer and the sink are frames of the
\* generation that is being read, in order; when no call is under way none is missing; and
\* the player's call has emptied what it has passed.
THEOREM LineIsInOrder == CodecSpec => []CodecInv
<1>1. CodecInit => CodecInv
  BY CodecBegins
<1>2. CodecInv /\ [CodecNext]_codecVars => CodecInv'
  BY CodecGoesOn
<1> QED  BY <1>1, <1>2, PTL DEF CodecSpec

\* The frame that reaches the sink is of the generation that is being read and is the next
\* one, but for those that the player's call has dropped (AsyncMode::FinishFrame).
LEMMA DeliversDue ==
    ASSUME CodecInv, [CodecNext]_codecVars, last' # last
    PROVE  last'.gen = gen /\ (last'.n = Due \/ (todo # <<>> /\ last'.n > Due))
<1>1. PushDelivers
  <2>1. CASE DemuxStep
    BY <2>1 DEF DemuxStep, DemuxReads, DemuxChecks, DemuxPushes, TaskSettles
  <2>2. CASE HandleStep
    BY <2>2 DEF HandleStep, HandleEnters, HandlePops, HandleQueues, HandleRefused, HandleWaits, TaskSettles
  <2>3. CASE DecodeStep
    BY <2>3 DEF DecodeStep, DecodeEnters, DecodeAllocates, DecodeReceives, DecodeQueues, DecodeKicks,
                DecodeStarves, TaskSettles
  <2>4. CASE PushStep
    BY <2>4 DEF PushStep, PushTakes, TaskSettles
  <2>5. CASE PlayerStep
    BY <2>5 DEF PlayerStep, SetsFlags, SetsQueues, PlayerKicks, SetsPlugin, Seeks, PausesTask, StopsTask,
                StartsTask
  <2>6. CASE \E c \in CodecCalls : PlayerCalls(c)
    BY <2>6 DEF PlayerCalls
  <2> QED  BY <2>1, <2>2, <2>3, <2>4, <2>5, <2>6 DEF CodecNext, codecVars
<1> DEFINE f == hold["push"]
<1>2. at["push"] = "deliver" /\ last' = f
  BY <1>1 DEF PushDelivers
<1>3. /\ Line[1] = <<f>> /\ f \in Frame /\ f.gen = gen /\ f.n < nextFrame
      /\ \A s \in Stages : \A i \in DOMAIN Line[s] : s = 1 \/ f.n < Line[s][i].n
      /\ Due \in Nat /\ Due <= f.n /\ f.n \in Nat /\ nextFrame \in Nat
  <2>1. nextFrame \in Nat
    BY EosIs DEF CodecInv, TypesHold
  <2> QED  BY <1>2, <2>1, DeliversFirst DEF Frame
<1> HIDE DEF f
<1>4. ASSUME todo = <<>> PROVE f.n = Due
  <2>1. StepsLeft = 0
    BY <1>4, EmptySeq DEF StepsLeft
  <2>2. ~LineIsEmpty
    BY <1>3, OneIs DEF LineIsEmpty, Stages
  <2>3. Whole
    <3> HIDE DEF LineIsEmpty, Whole
    <3> QED  BY <2>1, <2>2 DEF CodecInv, CallDoes, StopDoes, Clean
  <2>4. Due \in Due .. nextFrame - 1
    BY <1>3
  <2>5. PICK s \in Stages : \E i \in DOMAIN Line[s] : Line[s][i].n = Due
    BY <2>3, <2>4 DEF Whole, Carries
  <2>6. PICK i \in DOMAIN Line[s] : Line[s][i].n = Due
    BY <2>5
  <2>7. s = 1
    <3>1. s = 1 \/ f.n < Due
      BY <1>3, <2>6
    <3> QED  BY <1>3, <3>1
  <2> QED  BY <1>3, <2>6, <2>7, OneIs
<1>5. f.n # Due => f.n > Due
  BY <1>3
<1> QED  BY <1>2, <1>3, <1>4, <1>5

\* Nothing decoded before a seek or a stop reaches the sink after it, and outside the
\* player's calls no frame is skipped (AsyncMode::FlushStart, CodecFilterBase::Stop).
THEOREM FramesComeInOrder == CodecSpec => CodecNothingStale
<1>1. CodecInv /\ [CodecNext]_codecVars =>
        [last' # last => /\ last'.gen = gen
                         /\ last'.n = Due \/ (todo # <<>> /\ last'.n > Due)]_codecVars
  BY DeliversDue
<1> QED  BY <1>1, LineIsInOrder, PTL DEF CodecSpec, CodecNothingStale

=============================================================================
