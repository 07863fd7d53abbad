----------------------- MODULE ToolCallSanitizerProofs -----------------------
(***************************************************************************)
(* Proofs about sanitize_messages_for_tool_calls: whatever the history,    *)
(* the request that is sent is well formed.                                *)
(*                                                                         *)
(* The invariant speaks of a request R, the set O of its open ids and the  *)
(* counter c, so that the answers a message brings (flush_pending) and the *)
(* message itself can be looked at one after the other.                    *)
(***************************************************************************)
EXTENDS ToolCallSanitizer, SequenceTheorems, TLAPS

(* Only responses carry an id they answer, and they request nothing. *)
Shaped(R) ==
  \A k \in DOMAIN R :
    IF R[k].role = "TOOL" THEN R[k].ids = <<>> /\ \E x \in Nat : R[k].cid = <<x>>
                          ELSE R[k].cid = <<>>

(* The counter is past every id in use. *)
Below(R, c) == \A j \in DOMAIN R : \A n \in DOMAIN R[j].ids : R[j].ids[n] < c

Run(R, j, k) == j < k /\ \A m \in j + 1 .. k : R[m].role = "TOOL"

Answers(R, j, n, k) == Run(R, j, k) /\ R[k].cid = <<R[j].ids[n]>>

Paired(R) ==
  \A k \in DOMAIN R : R[k].role = "TOOL" =>
    \E j \in DOMAIN R : \E n \in DOMAIN R[j].ids : Answers(R, j, n, k)

CallsDistinct(R) ==
  \A j, k \in DOMAIN R : \A m \in DOMAIN R[j].ids, n \in DOMAIN R[k].ids :
    R[j].ids[m] = R[k].ids[n] => j = k /\ m = n

AnsweredOnce(R) ==
  \A j, k \in DOMAIN R : R[j].role = "TOOL" /\ R[j].cid = R[k].cid => j = k

(* An open id was requested by the message that the last run follows. *)
OpenAtEnd(R, O) ==
  \A x \in O : \E j \in DOMAIN R : \E n \in DOMAIN R[j].ids :
    R[j].ids[n] = x /\ \A m \in j + 1 .. Len(R) : R[m].role = "TOOL"

OpenUnanswered(R, O) == \A x \in O : \A k \in DOMAIN R : R[k].cid # <<x>>

(* A call is open or answered, in the run that follows it. *)
OpenOrAnswered(R, O) ==
  \A j \in DOMAIN R : \A n \in DOMAIN R[j].ids :
    R[j].ids[n] \in O \/ \E k \in DOMAIN R : Answers(R, j, n, k)

Sound(R, O, c) ==
  /\ R \in Seq(OutMessage) /\ O \subseteq Nat /\ c \in Nat
  /\ Shaped(R) /\ Below(R, c)
  /\ Paired(R) /\ CallsDistinct(R) /\ AnsweredOnce(R)
  /\ OpenAtEnd(R, O) /\ OpenUnanswered(R, O) /\ OpenOrAnswered(R, O)

OpenIds == {pending[i][2] : i \in DOMAIN pending}

PendingDistinct ==
  \A i, k \in DOMAIN pending : pending[i][2] = pending[k][2] => i = k

SanitizerInv ==
  /\ TypeOK
  /\ PendingDistinct
  /\ Sound(result, OpenIds, callCounter)
  /\ done => pending = <<>>

(* Q lists open ids, each once; S is R with their responses at the end. *)
Chosen(Q, O) ==
  /\ Q \in Seq(Nat)
  /\ \A i \in DOMAIN Q : Q[i] \in O
  /\ \A i, k \in DOMAIN Q : Q[i] = Q[k] => i = k

Answering(R, Q, S) ==
  /\ S \in Seq(OutMessage)
  /\ Len(S) = Len(R) + Len(Q)
  /\ \A k \in 1 .. Len(R) : S[k] = R[k]
  /\ \A i \in 1 .. Len(Q) : S[Len(R) + i] = Response(Q[i])

Ids(Q) == {Q[i] : i \in DOMAIN Q}

----------------------------------------------------------------------------
LEMMA ResponseType == ASSUME NEW x \in Nat
                      PROVE  /\ Response(x) \in OutMessage
                             /\ Response(x).role = "TOOL"
                             /\ Response(x).ids = <<>>
                             /\ Response(x).cid = <<x>>
BY DEF Response, OutMessage

LEMMA SingletonsDiffer == ASSUME NEW x \in Nat, NEW y \in Nat
                          PROVE  (<<x>> = <<y>> => x = y) /\ <<x>> # <<>>
<1>1. <<x>>[1] = x /\ <<y>>[1] = y /\ Len(<<x>>) = 1 /\ Len(<<>>) = 0
  OBVIOUS
<1> QED BY <1>1

(* Answers appended to a request: those of open ids, each once. *)
LEMMA AnswersKeep ==
  ASSUME NEW R, NEW O, NEW c, NEW Q, NEW S,
         Sound(R, O, c), Chosen(Q, O), Answering(R, Q, S)
  PROVE  Sound(S, O \ Ids(Q), c)
<1> USE DEF Chosen, Answering, Ids
<1> DEFINE P == O \ Ids(Q)
<1>a. /\ R \in Seq(OutMessage) /\ Len(R) \in Nat /\ DOMAIN R = 1 .. Len(R)
      /\ Len(S) \in Nat /\ DOMAIN S = 1 .. Len(S)
      /\ Len(Q) \in Nat /\ DOMAIN Q = 1 .. Len(Q)
      /\ \A i \in DOMAIN Q : Q[i] \in Nat
      /\ O \subseteq Nat /\ c \in Nat
  BY DEF Sound
<1>b. ASSUME NEW k \in DOMAIN S
      PROVE  \/ k \in DOMAIN R /\ S[k] = R[k]
             \/ \E i \in DOMAIN Q : k = Len(R) + i /\ S[k] = Response(Q[i])
  <2>1. CASE k <= Len(R)
    BY <1>a, <2>1
  <2>2. CASE k > Len(R)
    <3>1. k - Len(R) \in 1 .. Len(Q) /\ k = Len(R) + (k - Len(R))
      BY <1>a, <2>2
    <3> QED BY <1>a, <3>1
  <2> QED BY <1>a, <2>1, <2>2
<1>c. ASSUME NEW j \in DOMAIN S, NEW n \in DOMAIN S[j].ids
      PROVE  j \in DOMAIN R /\ S[j] = R[j]
  <2>1. ASSUME NEW i \in DOMAIN Q, S[j] = Response(Q[i]) PROVE FALSE
    <3>1. S[j].ids = <<>>
      BY <1>a, <2>1, ResponseType
    <3>2. DOMAIN S[j].ids = {}
      BY <3>1
    <3> QED BY <3>2
  <2> QED BY <1>b, <2>1
<1>d. \A j \in DOMAIN R : j \in DOMAIN S /\ S[j] = R[j]
  BY <1>a
<1>e. \A i \in DOMAIN Q : /\ Len(R) + i \in DOMAIN S
                          /\ S[Len(R) + i].role = "TOOL"
                          /\ S[Len(R) + i].ids = <<>>
                          /\ S[Len(R) + i].cid = <<Q[i]>>
  BY <1>a, ResponseType
<1>f. ASSUME NEW j \in DOMAIN R, NEW k \in DOMAIN R, Run(R, j, k) PROVE Run(S, j, k)
  <2>1. j < k /\ \A m \in j + 1 .. k : m \in DOMAIN R
    BY <1>a, <1>f DEF Run
  <2> QED BY <2>1, <1>d, <1>f DEF Run
<1>g. ASSUME NEW j \in DOMAIN R, \A m \in j + 1 .. Len(R) : R[m].role = "TOOL",
             NEW i \in DOMAIN Q
      PROVE  Run(S, j, Len(R) + i)
  <2>1. ASSUME NEW m \in j + 1 .. Len(R) + i PROVE S[m].role = "TOOL"
    <3>1. m \in DOMAIN S
      BY <1>a
    <3>2. CASE m \in DOMAIN R
      <4>1. m \in j + 1 .. Len(R)
        BY <3>2, <1>a
      <4> QED BY <4>1, <3>2, <1>d, <1>g
    <3> QED BY <3>1, <3>2, <1>b, <1>e
  <2> QED BY <1>a, <2>1 DEF Run
<1>1. Shaped(S)
  <2> SUFFICES ASSUME NEW k \in DOMAIN S
               PROVE  IF S[k].role = "TOOL"
                      THEN S[k].ids = <<>> /\ \E x \in Nat : S[k].cid = <<x>>
                      ELSE S[k].cid = <<>>
    BY DEF Shaped
  <2>1. CASE k \in DOMAIN R /\ S[k] = R[k]
    BY <2>1 DEF Sound, Shaped
  <2>2. CASE \E i \in DOMAIN Q : k = Len(R) + i
    <3>1. PICK i \in DOMAIN Q : k = Len(R) + i
      BY <2>2
    <3>2. Q[i] \in Nat /\ S[k].role = "TOOL" /\ S[k].ids = <<>> /\ S[k].cid = <<Q[i]>>
      BY <3>1, <1>a, <1>e
    <3> QED BY <3>2
  <2> QED BY <1>b, <2>1, <2>2
<1>2. Below(S, c)
  BY <1>c DEF Sound, Below
<1>3. Paired(S)
  <2> SUFFICES ASSUME NEW k \in DOMAIN S, S[k].role = "TOOL"
               PROVE  \E j \in DOMAIN S : \E n \in DOMAIN S[j].ids : Answers(S, j, n, k)
    BY DEF Paired
  <2>1. CASE k \in DOMAIN R /\ S[k] = R[k]
    <3>1. PICK j \in DOMAIN R : \E n \in DOMAIN R[j].ids : Answers(R, j, n, k)
      BY <2>1 DEF Sound, Paired
    <3> QED BY <3>1, <2>1, <1>d, <1>f DEF Answers
  <2>2. CASE \E i \in DOMAIN Q : k = Len(R) + i
    <3>1. PICK i \in DOMAIN Q : k = Len(R) + i
      BY <2>2
    <3>2. PICK j \in DOMAIN R : \E n \in DOMAIN R[j].ids :
              R[j].ids[n] = Q[i] /\ \A m \in j + 1 .. Len(R) : R[m].role = "TOOL"
      BY DEF Sound, OpenAtEnd
    <3> QED BY <3>1, <3>2, <1>d, <1>e, <1>g DEF Answers
  <2> QED BY <1>b, <2>1, <2>2
<1>4. CallsDistinct(S)
  BY <1>c DEF Sound, CallsDistinct
<1>5. AnsweredOnce(S)
  <2> SUFFICES ASSUME NEW j \in DOMAIN S, NEW k \in DOMAIN S,
                      S[j].role = "TOOL", S[j].cid = S[k].cid
               PROVE  j = k
    BY DEF AnsweredOnce
  <2>1. CASE /\ j \in DOMAIN R /\ S[j] = R[j]
             /\ k \in DOMAIN R /\ S[k] = R[k]
    BY <2>1 DEF Sound, AnsweredOnce
  <2>2. ASSUME NEW i \in DOMAIN Q, NEW l \in DOMAIN R, S[Len(R) + i].cid = R[l].cid
        PROVE  FALSE
    BY <2>2, <1>e DEF Sound, OpenUnanswered
  <2>3. ASSUME NEW i \in DOMAIN Q, NEW l \in DOMAIN Q,
               S[Len(R) + i].cid = S[Len(R) + l].cid
        PROVE  i = l
    BY <2>3, <1>a, <1>e, SingletonsDiffer
  <2> QED BY <1>b, <2>1, <2>2, <2>3
<1>6. OpenAtEnd(S, P)
  <2> SUFFICES ASSUME NEW x \in P
               PROVE  \E j \in DOMAIN S : \E n \in DOMAIN S[j].ids :
                        S[j].ids[n] = x /\ \A m \in j + 1 .. Len(S) : S[m].role = "TOOL"
    BY DEF OpenAtEnd
  <2>1. PICK j \in DOMAIN R : \E n \in DOMAIN R[j].ids :
              R[j].ids[n] = x /\ \A m \in j + 1 .. Len(R) : R[m].role = "TOOL"
    BY DEF Sound, OpenAtEnd
  <2>2. ASSUME NEW m \in j + 1 .. Len(S) PROVE S[m].role = "TOOL"
    <3>1. m \in DOMAIN S
      BY <1>a
    <3>2. CASE m \in DOMAIN R
      <4>1. m \in j + 1 .. Len(R)
        BY <3>2, <1>a
      <4> QED BY <4>1, <3>2, <2>1, <1>d
    <3> QED BY <3>1, <3>2, <1>b, <1>e
  <2> QED BY <2>1, <2>2, <1>d
<1>7. OpenUnanswered(S, P)
  <2> SUFFICES ASSUME NEW x \in P, NEW k \in DOMAIN S PROVE S[k].cid # <<x>>
    BY DEF OpenUnanswered
  <2>1. CASE k \in DOMAIN R /\ S[k] = R[k]
    BY <2>1 DEF Sound, OpenUnanswered
  <2>2. CASE \E i \in DOMAIN Q : k = Len(R) + i
    BY <2>2, <1>a, <1>e, SingletonsDiffer
  <2> QED BY <1>b, <2>1, <2>2
<1>8. OpenOrAnswered(S, P)
  <2> SUFFICES ASSUME NEW j \in DOMAIN S, NEW n \in DOMAIN S[j].ids, S[j].ids[n] \notin P
               PROVE  \E k \in DOMAIN S : Answers(S, j, n, k)
    BY DEF OpenOrAnswered
  <2>1. j \in DOMAIN R /\ S[j] = R[j] /\ n \in DOMAIN R[j].ids
    BY <1>c
  <2>2. CASE \E k \in DOMAIN R : Answers(R, j, n, k)
    BY <2>1, <2>2, <1>d, <1>f DEF Answers
  <2>3. CASE R[j].ids[n] \in O
    <3>1. PICK i \in DOMAIN Q : R[j].ids[n] = Q[i]
      BY <2>1, <2>3
    <3>2. \A m \in j + 1 .. Len(R) : R[m].role = "TOOL"
      <4>1. PICK h \in DOMAIN R : \E l \in DOMAIN R[h].ids :
                /\ R[h].ids[l] = R[j].ids[n]
                /\ \A m \in h + 1 .. Len(R) : R[m].role = "TOOL"
        BY <2>3 DEF Sound, OpenAtEnd
      <4>2. h = j
        BY <2>1, <4>1 DEF Sound, CallsDistinct
      <4> QED BY <4>1, <4>2
    <3>3. Answers(S, j, n, Len(R) + i)
      BY <2>1, <3>1, <3>2, <1>e, <1>g DEF Answers
    <3> QED BY <3>3, <1>e
  <2> QED BY <2>1, <2>2, <2>3 DEF Sound, OpenOrAnswered
<1> QED BY <1>a, <1>1, <1>2, <1>3, <1>4, <1>5, <1>6, <1>7, <1>8 DEF Sound

(* A message of another role appended to a request without open calls; its *)
(* own calls are open then.                                                *)
LEMMA MessageKeeps ==
  ASSUME NEW R, NEW c, Sound(R, {}, c),
         NEW e \in OutMessage, e.role # "TOOL", e.cid = <<>>,
         \A n \in DOMAIN e.ids : e.ids[n] = c + n - 1
  PROVE  Sound(Append(R, e), {e.ids[n] : n \in DOMAIN e.ids}, c + Len(e.ids))
<1> DEFINE S == Append(R, e)
           O == {e.ids[n] : n \in DOMAIN e.ids}
           d == c + Len(e.ids)
<1>a. /\ R \in Seq(OutMessage) /\ Len(R) \in Nat /\ DOMAIN R = 1 .. Len(R)
      /\ S \in Seq(OutMessage) /\ Len(S) = Len(R) + 1 /\ DOMAIN S = 1 .. Len(R) + 1
      /\ e.ids \in Seq(Nat) /\ Len(e.ids) \in Nat /\ DOMAIN e.ids = 1 .. Len(e.ids)
      /\ c \in Nat /\ d \in Nat /\ O \subseteq Nat
  BY DEF Sound, OutMessage
<1>b. /\ S[Len(R) + 1] = e
      /\ \A k \in DOMAIN R : k \in DOMAIN S /\ S[k] = R[k]
  BY <1>a
<1>c. \A k \in DOMAIN S : k \in DOMAIN R \/ k = Len(R) + 1
  BY <1>a
<1> HIDE DEF S, O, d
<1>d. ASSUME NEW j \in DOMAIN R, NEW k \in DOMAIN R, Run(R, j, k) PROVE Run(S, j, k)
  <2>1. j < k /\ \A m \in j + 1 .. k : m \in DOMAIN R
    BY <1>a, <1>d DEF Run
  <2> QED BY <2>1, <1>b, <1>d DEF Run
<1>e. \A j \in DOMAIN R : \A n \in DOMAIN R[j].ids : R[j].ids[n] < c
  BY DEF Sound, Below
<1>f. ASSUME NEW j \in DOMAIN R, NEW n \in DOMAIN R[j].ids PROVE R[j].ids[n] \in Nat
  <2>0. R[j] \in OutMessage
    BY <1>a
  <2>1. R[j].ids \in Seq(Nat)
    BY <2>0 DEF OutMessage
  <2> QED BY <2>1
<1>1. Shaped(S)
  BY <1>b, <1>c DEF Sound, Shaped
<1>2. Below(S, d)
  <2> SUFFICES ASSUME NEW j \in DOMAIN S, NEW n \in DOMAIN S[j].ids
               PROVE  S[j].ids[n] < d
    BY DEF Below
  <2>1. CASE j \in DOMAIN R
    BY <2>1, <1>a, <1>b, <1>e, <1>f DEF d
  <2>2. CASE j = Len(R) + 1
    <3>1. n \in 1 .. Len(e.ids) /\ S[j].ids[n] = c + n - 1
      BY <2>2, <1>a, <1>b
    <3> QED BY <3>1, <1>a DEF d
  <2> QED BY <1>c, <2>1, <2>2
<1>3. Paired(S)
  <2> SUFFICES ASSUME NEW k \in DOMAIN S, S[k].role = "TOOL"
               PROVE  \E j \in DOMAIN S : \E n \in DOMAIN S[j].ids : Answers(S, j, n, k)
    BY DEF Paired
  <2>1. k \in DOMAIN R /\ S[k] = R[k]
    BY <1>b, <1>c
  <2>2. PICK j \in DOMAIN R : \E n \in DOMAIN R[j].ids : Answers(R, j, n, k)
    BY <2>1 DEF Sound, Paired
  <2> QED BY <2>1, <2>2, <1>b, <1>d DEF Answers
<1>4. CallsDistinct(S)
  <2> SUFFICES ASSUME NEW j \in DOMAIN S, NEW k \in DOMAIN S,
                      NEW m \in DOMAIN S[j].ids, NEW n \in DOMAIN S[k].ids,
                      S[j].ids[m] = S[k].ids[n]
               PROVE  j = k /\ m = n
    BY DEF CallsDistinct
  <2>1. CASE j \in DOMAIN R /\ k \in DOMAIN R
    BY <2>1, <1>b DEF Sound, CallsDistinct
  <2>2. CASE j = Len(R) + 1 /\ k = Len(R) + 1
    <3>1. /\ m \in 1 .. Len(e.ids) /\ S[j].ids[m] = c + m - 1
          /\ n \in 1 .. Len(e.ids) /\ S[k].ids[n] = c + n - 1
      BY <2>2, <1>a, <1>b
    <3>2. c + m - 1 = c + n - 1
      BY <3>1
    <3>3. m = n
      BY <3>1, <3>2, <1>a
    <3> QED BY <3>3, <2>2
  <2>3. CASE j \in DOMAIN R /\ k = Len(R) + 1
    <3>1. n \in 1 .. Len(e.ids) /\ S[k].ids[n] = c + n - 1
      BY <2>3, <1>a, <1>b
    <3>2. S[j].ids[m] < c /\ S[j].ids[m] \in Nat
      BY <2>3, <1>b, <1>e, <1>f
    <3> QED BY <3>1, <3>2, <1>a
  <2>4. CASE j = Len(R) + 1 /\ k \in DOMAIN R
    <3>1. m \in 1 .. Len(e.ids) /\ S[j].ids[m] = c + m - 1
      BY <2>4, <1>a, <1>b
    <3>2. S[k].ids[n] < c /\ S[k].ids[n] \in Nat
      BY <2>4, <1>b, <1>e, <1>f
    <3> QED BY <3>1, <3>2, <1>a
  <2> QED BY <1>c, <2>1, <2>2, <2>3, <2>4
<1>5. AnsweredOnce(S)
  <2> SUFFICES ASSUME NEW j \in DOMAIN S, NEW k \in DOMAIN S,
                      S[j].role = "TOOL", S[j].cid = S[k].cid
               PROVE  j = k
    BY DEF AnsweredOnce
  <2>1. j \in DOMAIN R
    BY <1>b, <1>c
  <2>2. PICK x \in Nat : S[j].cid = <<x>>
    BY <2>1, <1>b DEF Sound, Shaped
  <2>3. k # Len(R) + 1
    BY <2>2, <1>b, SingletonsDiffer
  <2> QED BY <2>1, <2>3, <1>b, <1>c DEF Sound, AnsweredOnce
<1>6. OpenAtEnd(S, O)
  <2> SUFFICES ASSUME NEW x \in O
               PROVE  \E j \in DOMAIN S : \E n \in DOMAIN S[j].ids :
                        S[j].ids[n] = x /\ \A m \in j + 1 .. Len(S) : S[m].role = "TOOL"
    BY DEF OpenAtEnd
  <2>1. Len(R) + 1 \in DOMAIN S /\ (Len(R) + 1) + 1 .. Len(S) = {}
    BY <1>a
  <2>2. PICK n \in DOMAIN e.ids : x = e.ids[n]
    BY DEF O
  <2>3. n \in DOMAIN S[Len(R) + 1].ids /\ S[Len(R) + 1].ids[n] = x
    BY <2>2, <1>b
  <2> QED BY <2>1, <2>3
<1>7. OpenUnanswered(S, O)
  <2> SUFFICES ASSUME NEW x \in O, NEW k \in DOMAIN S, S[k].cid = <<x>> PROVE FALSE
    BY DEF OpenUnanswered
  <2>1. k \in DOMAIN R /\ R[k].cid = <<x>> /\ x \in Nat
    BY <1>a, <1>b, <1>c, SingletonsDiffer
  <2>2. R[k].role = "TOOL"
    BY <2>1, SingletonsDiffer DEF Sound, Shaped
  <2>j. PICK j \in DOMAIN R : \E n \in DOMAIN R[j].ids : R[k].cid = <<R[j].ids[n]>>
    BY <2>1, <2>2 DEF Sound, Paired, Answers
  <2>3. PICK n \in DOMAIN R[j].ids : R[k].cid = <<R[j].ids[n]>>
    BY <2>j
  <2>4. R[j].ids[n] = x /\ R[j].ids[n] < c
    BY <2>1, <2>3, <1>e, <1>f, SingletonsDiffer
  <2>5. PICK m \in 1 .. Len(e.ids) : x = c + m - 1
    BY <1>a DEF O
  <2> QED BY <2>4, <2>5, <1>a
<1>8. OpenOrAnswered(S, O)
  <2> SUFFICES ASSUME NEW j \in DOMAIN S, NEW n \in DOMAIN S[j].ids, S[j].ids[n] \notin O
               PROVE  \E k \in DOMAIN S : Answers(S, j, n, k)
    BY DEF OpenOrAnswered
  <2>1. j \in DOMAIN R
    BY <1>b, <1>c DEF O
  <2>2. PICK k \in DOMAIN R : Answers(R, j, n, k)
    BY <2>1, <1>b DEF Sound, OpenOrAnswered
  <2> QED BY <2>1, <2>2, <1>b, <1>d DEF Answers
<1> QED BY <1>a, <1>1, <1>2, <1>3, <1>4, <1>5, <1>6, <1>7, <1>8 DEF Sound, S, O, d

----------------------------------------------------------------------------
LEMMA SanitizerInit == Init => SanitizerInv
<1> SUFFICES ASSUME Init PROVE SanitizerInv
  OBVIOUS
<1>0. messages \in Seq(InMessage) /\ Len(messages) \in Nat
  BY SanitizerAssumption DEF Init
<1>1. TypeOK
  <2>1. result \in Seq(OutMessage) /\ pending \in Seq(CallIds \X Nat)
    BY EmptySeq DEF Init
  <2>2. next \in 1 .. Len(messages) + 1
    BY <1>0 DEF Init
  <2>3. callCounter \in Nat /\ done \in BOOLEAN
    BY DEF Init
  <2> QED BY <1>0, <2>1, <2>2, <2>3 DEF TypeOK
<1>2. DOMAIN result = {} /\ DOMAIN pending = {} /\ OpenIds = {}
  BY DEF Init, OpenIds
<1> QED BY <1>1, <1>2 DEF Init, TypeOK, SanitizerInv, PendingDistinct, Sound, Shaped, Below, Paired,
           CallsDistinct, AnsweredOnce, OpenAtEnd, OpenUnanswered, OpenOrAnswered

LEMMA PendingType ==
  ASSUME TypeOK, NEW i \in DOMAIN pending
  PROVE  pending[i] \in CallIds \X Nat /\ pending[i][2] \in Nat
<1>1. pending[i] \in CallIds \X Nat
  BY DEF TypeOK
<1> QED BY <1>1

(* flush_pending leaves no call open. *)
LEMMA FlushKeeps ==
  ASSUME SanitizerInv
  PROVE  /\ result \o Placeholders \in Seq(OutMessage)
         /\ Sound(result \o Placeholders, {}, callCounter)
<1> DEFINE Q == [i \in 1 .. Len(pending) |-> pending[i][2]]
           S == result \o Placeholders
<1>1. /\ pending \in Seq(CallIds \X Nat) /\ result \in Seq(OutMessage)
      /\ Len(pending) \in Nat /\ DOMAIN pending = 1 .. Len(pending)
  BY DEF SanitizerInv, TypeOK
<1>2. \A i \in 1 .. Len(pending) : pending[i][2] \in Nat
  BY <1>1, PendingType DEF SanitizerInv
<1>3. Q \in Seq(Nat) /\ Len(Q) = Len(pending) /\ DOMAIN Q = 1 .. Len(pending)
  BY <1>1, <1>2
<1>4. Placeholders \in Seq(OutMessage) /\ Len(Placeholders) = Len(pending)
  BY <1>1, <1>2, ResponseType DEF Placeholders
<1>5. \A i \in 1 .. Len(pending) : Placeholders[i] = Response(pending[i][2])
  BY <1>1 DEF Placeholders
<1>c. /\ S \in Seq(OutMessage) /\ Len(S) = Len(result) + Len(pending)
      /\ \A i \in 1 .. Len(result) + Len(pending) :
           S[i] = IF i <= Len(result) THEN result[i] ELSE Placeholders[i - Len(result)]
  <2>1. /\ result \o Placeholders \in Seq(OutMessage)
        /\ Len(result \o Placeholders) = Len(result) + Len(Placeholders)
        /\ \A i \in 1 .. Len(result) + Len(Placeholders) : (result \o Placeholders)[i] =
             IF i <= Len(result) THEN result[i] ELSE Placeholders[i - Len(result)]
    BY <1>1, <1>4, ConcatProperties
  <2> QED BY <2>1, <1>4
<1>6. /\ S \in Seq(OutMessage) /\ Len(S) = Len(result) + Len(pending)
      /\ \A k \in 1 .. Len(result) : S[k] = result[k]
  BY <1>1, <1>c
<1>7. \A i \in 1 .. Len(pending) : S[Len(result) + i] = Placeholders[i]
  BY <1>1, <1>c
<1> HIDE DEF S
<1>8. Answering(result, Q, S)
  BY <1>1, <1>3, <1>5, <1>6, <1>7 DEF Answering
<1>9. Chosen(Q, OpenIds) /\ OpenIds \ Ids(Q) = {}
  BY <1>1, <1>3 DEF SanitizerInv, PendingDistinct, OpenIds, Chosen, Ids
<1> HIDE DEF Q
<1>10. Sound(S, OpenIds \ Ids(Q), callCounter)
  BY <1>8, <1>9, AnswersKeep DEF SanitizerInv
<1> QED BY <1>6, <1>9, <1>10 DEF S

(* The sequence without its element at k. *)
LEMMA RemoveAtEffect ==
  ASSUME NEW T, NEW s \in Seq(T), NEW k \in 1 .. Len(s)
  PROVE  /\ RemoveAt(s, k) \in Seq(T)
         /\ Len(RemoveAt(s, k)) = Len(s) - 1
         /\ DOMAIN RemoveAt(s, k) = 1 .. Len(s) - 1
         /\ \A i \in 1 .. Len(s) - 1 :
              RemoveAt(s, k)[i] = IF i < k THEN s[i] ELSE s[i + 1]
<1> DEFINE A == SubSeq(s, 1, k - 1)
           B == SubSeq(s, k + 1, Len(s))
<1>1. Len(s) \in Nat /\ k \in Nat /\ k >= 1 /\ k <= Len(s)
  OBVIOUS
<1>2. A \in Seq(T) /\ Len(A) = k - 1 /\ \A i \in 1 .. k - 1 : A[i] = s[i]
  BY <1>1
<1>3. /\ B \in Seq(T) /\ Len(B) = Len(s) - k
      /\ \A i \in 1 .. Len(s) - k : B[i] = s[k + i]
  BY <1>1
<1>4. RemoveAt(s, k) = A \o B
  BY DEF RemoveAt
<1> HIDE DEF A, B
<1>c. /\ A \o B \in Seq(T) /\ Len(A \o B) = Len(A) + Len(B)
      /\ \A i \in 1 .. Len(A) + Len(B) :
           (A \o B)[i] = IF i <= Len(A) THEN A[i] ELSE B[i - Len(A)]
  BY <1>2, <1>3, ConcatProperties
<1>5. A \o B \in Seq(T) /\ Len(A \o B) = Len(s) - 1 /\ DOMAIN (A \o B) = 1 .. Len(s) - 1
  <2>1. Len(A \o B) = Len(s) - 1
    BY <1>1, <1>2, <1>3, <1>c
  <2> QED BY <2>1, <1>c, LenProperties
<1>6. ASSUME NEW i \in 1 .. Len(s) - 1
      PROVE  (A \o B)[i] = IF i < k THEN s[i] ELSE s[i + 1]
  <2>0. i \in 1 .. Len(A) + Len(B)
    BY <1>1, <1>2, <1>3
  <2>1. CASE i < k
    BY <2>0, <2>1, <1>1, <1>2, <1>c
  <2>2. CASE ~(i < k)
    <3>1. /\ i - (k - 1) \in 1 .. Len(s) - k
          /\ k + (i - (k - 1)) = i + 1
      BY <2>2, <1>1
    <3>2. (A \o B)[i] = B[i - (k - 1)]
      BY <2>0, <2>2, <1>1, <1>2, <1>c
    <3> QED BY <2>2, <3>1, <3>2, <1>3
  <2> QED BY <2>1, <2>2
<1> QED BY <1>4, <1>5, <1>6

LEMMA MatchToolKeeps == ASSUME SanitizerInv, MatchTool PROVE SanitizerInv'
<1>1. /\ pending \in Seq(CallIds \X Nat) /\ result \in Seq(OutMessage)
      /\ Len(pending) \in Nat /\ DOMAIN pending = 1 .. Len(pending)
  BY DEF SanitizerInv, TypeOK
<1>2. PICK k \in Matches : /\ result' = Append(result, Response(pending[k][2]))
                           /\ pending' = RemoveAt(pending, k)
  BY DEF MatchTool
<1>3. k \in 1 .. Len(pending)
  BY <1>1 DEF Matches
<1>4. pending[k][2] \in Nat
  BY <1>1, <1>3, PendingType DEF SanitizerInv
<1>5. /\ pending' \in Seq(CallIds \X Nat)
      /\ DOMAIN pending' = 1 .. Len(pending) - 1
  BY <1>1, <1>2, <1>3, RemoveAtEffect
<1> DEFINE Old(n) == IF n < k THEN n ELSE n + 1
<1>6. ASSUME NEW n \in DOMAIN pending'
      PROVE  Old(n) \in DOMAIN pending /\ Old(n) # k /\ pending'[n] = pending[Old(n)]
  <2>1. n \in 1 .. Len(pending) - 1
    BY <1>5
  <2>2. pending'[n] = IF n < k THEN pending[n] ELSE pending[n + 1]
    BY <2>1, <1>1, <1>2, <1>3, RemoveAtEffect
  <2>3. CASE n < k
    BY <2>1, <2>2, <2>3, <1>1, <1>3
  <2>4. CASE ~(n < k)
    BY <2>1, <2>2, <2>4, <1>1, <1>3
  <2> QED BY <2>3, <2>4
<1>o. ASSUME NEW i \in DOMAIN pending, i # k
      PROVE  \E n \in DOMAIN pending' : Old(n) = i
  <2>1. CASE i < k
    <3>1. i \in DOMAIN pending' /\ Old(i) = i
      BY <2>1, <1>1, <1>3, <1>5
    <3> QED BY <3>1
  <2>2. CASE i > k
    <3>a. i \in 1 .. Len(pending) /\ i - 1 \in 1 .. Len(pending) - 1 /\ ~(i - 1 < k)
      BY <2>2, <1>1, <1>3
    <3>1. i - 1 \in DOMAIN pending' /\ Old(i - 1) = i
      BY <3>a, <1>5
    <3> QED BY <3>1
  <2> QED BY <1>o, <2>1, <2>2, <1>1, <1>3
<1>p. ASSUME NEW i \in DOMAIN pending', NEW j \in DOMAIN pending', Old(i) = Old(j)
      PROVE  i = j
  <2>1. i \in Int /\ j \in Int /\ k \in Int
    BY <1>3, <1>5
  <2> QED BY <1>p, <2>1
<1> HIDE DEF Old
<1>7. OpenIds' = OpenIds \ {pending[k][2]}
  <2>1. ASSUME NEW n \in DOMAIN pending'
        PROVE  pending'[n][2] \in OpenIds \ {pending[k][2]}
    <3>1. /\ Old(n) \in DOMAIN pending /\ k \in DOMAIN pending /\ Old(n) # k
          /\ pending'[n] = pending[Old(n)]
      BY <1>1, <1>3, <1>6
    <3>2. pending[Old(n)][2] # pending[k][2]
      BY <3>1 DEF SanitizerInv, PendingDistinct
    <3> QED BY <3>1, <3>2 DEF OpenIds
  <2>2. ASSUME NEW i \in DOMAIN pending, pending[i][2] # pending[k][2]
        PROVE  \E n \in DOMAIN pending' : pending'[n][2] = pending[i][2]
    BY <2>2, <1>6, <1>o
  <2> QED BY <2>1, <2>2 DEF OpenIds
<1>8. PendingDistinct'
  <2> SUFFICES ASSUME NEW i \in DOMAIN pending', NEW j \in DOMAIN pending',
                      pending'[i][2] = pending'[j][2]
               PROVE  i = j
    BY DEF PendingDistinct
  <2>1. Old(i) = Old(j)
    BY <1>6 DEF SanitizerInv, PendingDistinct
  <2> QED BY <2>1, <1>p
<1>9. Sound(result', OpenIds', callCounter')
  <2> DEFINE Q == <<pending[k][2]>>
  <2>1. Q \in Seq(Nat) /\ Len(Q) = 1 /\ DOMAIN Q = {1} /\ Q[1] = pending[k][2]
    BY <1>4
  <2>2. pending[k][2] \in OpenIds
    BY <1>1, <1>3 DEF OpenIds
  <2> HIDE DEF Q
  <2>3. Chosen(Q, OpenIds) /\ Ids(Q) = {pending[k][2]}
    BY <2>1, <2>2 DEF Chosen, Ids
  <2>4. Response(pending[k][2]) \in OutMessage
    BY <1>4, ResponseType
  <2>5. /\ result' \in Seq(OutMessage) /\ Len(result') = Len(result) + 1
        /\ \A j \in 1 .. Len(result) : result'[j] = result[j]
        /\ result'[Len(result) + 1] = Response(pending[k][2])
    BY <1>1, <1>2, <2>4
  <2>6. Answering(result, Q, result')
    BY <2>1, <2>5 DEF Answering
  <2>7. Sound(result', OpenIds \ Ids(Q), callCounter)
    BY <2>3, <2>6, AnswersKeep DEF SanitizerInv
  <2> QED BY <2>3, <2>7, <1>7 DEF MatchTool
<1>10. TypeOK'
  BY <1>5, <1>9 DEF MatchTool, AtRole, SanitizerInv, TypeOK, Sound
<1> QED BY <1>8, <1>9, <1>10 DEF SanitizerInv, MatchTool, AtRole

LEMMA TakeAssistantKeeps == ASSUME SanitizerInv, TakeAssistant PROVE SanitizerInv'
<1> DEFINE R == result \o Placeholders
           old == messages[next].ids
           fresh == [k \in 1 .. Len(old) |-> callCounter + k - 1]
           e == [role |-> "ASSISTANT", ids |-> fresh, cid |-> <<>>]
<1>1. /\ callCounter \in Nat /\ ~done /\ done \in BOOLEAN
      /\ messages \in Seq(InMessage) /\ Len(messages) \in Nat
      /\ next \in 1 .. Len(messages)
  BY DEF SanitizerInv, TypeOK, TakeAssistant, AtRole
<1>2. old \in Seq(CallIds) /\ Len(old) \in Nat /\ DOMAIN old = 1 .. Len(old)
  <2>1. messages[next] \in InMessage
    BY <1>1
  <2>2. old \in Seq(CallIds)
    BY <2>1 DEF InMessage
  <2> QED BY <2>2
<1>3. /\ result' = Append(R, e)
      /\ pending' = [k \in 1 .. Len(old) |-> <<old[k], fresh[k]>>]
      /\ callCounter' = callCounter + Len(old)
      /\ next' = next + 1 /\ messages' = messages /\ done' = done
  BY DEF TakeAssistant
<1> HIDE DEF old
<1>4. \A k \in 1 .. Len(old) : callCounter + k - 1 \in Nat
  BY <1>1, <1>2
<1>5. fresh \in Seq(Nat) /\ Len(fresh) = Len(old) /\ DOMAIN fresh = 1 .. Len(old)
  BY <1>2, <1>4
<1>6. \A k \in 1 .. Len(old) : fresh[k] = callCounter + k - 1
  OBVIOUS
<1> HIDE DEF fresh
<1>7. e \in OutMessage /\ e.role # "TOOL" /\ e.cid = <<>> /\ e.ids = fresh
  BY <1>5, EmptySeq DEF OutMessage
<1>8. Sound(R, {}, callCounter)
  BY FlushKeeps
<1> HIDE DEF R, e
<1>9. Sound(Append(R, e), {e.ids[n] : n \in DOMAIN e.ids}, callCounter + Len(e.ids))
  BY <1>5, <1>6, <1>7, <1>8, MessageKeeps
<1>10. /\ DOMAIN pending' = 1 .. Len(old)
       /\ \A k \in 1 .. Len(old) : pending'[k] = <<old[k], fresh[k]>>
  BY <1>3
<1>11. pending' \in Seq(CallIds \X Nat)
  <2>1. \A k \in 1 .. Len(old) : <<old[k], fresh[k]>> \in CallIds \X Nat
    BY <1>2, <1>5
  <2> QED BY <2>1, <1>2, <1>3
<1>12. \A k \in 1 .. Len(old) : pending'[k][2] = fresh[k]
  BY <1>10
<1>13. OpenIds' = {e.ids[n] : n \in DOMAIN e.ids}
  BY <1>5, <1>7, <1>10, <1>12 DEF OpenIds
<1>14. PendingDistinct'
  <2> SUFFICES ASSUME NEW i \in 1 .. Len(old), NEW k \in 1 .. Len(old),
                      pending'[i][2] = pending'[k][2]
               PROVE  i = k
    BY <1>10 DEF PendingDistinct
  <2>1. callCounter + i - 1 = callCounter + k - 1
    BY <1>6, <1>12
  <2> QED BY <2>1, <1>1, <1>2
<1>15. Sound(result', OpenIds', callCounter')
  BY <1>3, <1>5, <1>7, <1>9, <1>13
<1>16. TypeOK'
  <2>1. next' \in 1 .. Len(messages') + 1
    BY <1>1, <1>3
  <2>2. result' \in Seq(OutMessage) /\ callCounter' \in Nat
    BY <1>15 DEF Sound
  <2>3. messages' \in Seq(InMessage) /\ done' \in BOOLEAN
    BY <1>1, <1>3
  <2> QED BY <2>1, <2>2, <2>3, <1>11 DEF TypeOK
<1> QED BY <1>1, <1>3, <1>14, <1>15, <1>16 DEF SanitizerInv

LEMMA TakeOtherKeeps == ASSUME SanitizerInv, TakeOther PROVE SanitizerInv'
<1> DEFINE R == result \o Placeholders
<1>1. /\ callCounter \in Nat /\ ~done /\ done \in BOOLEAN
      /\ messages \in Seq(InMessage) /\ Len(messages) \in Nat
      /\ next \in 1 .. Len(messages)
  BY DEF SanitizerInv, TypeOK, TakeOther, AtRole
<1>2. PICK r \in {"USER", "SYSTEM"} :
        result' = Append(R, [role |-> r, ids |-> <<>>, cid |-> <<>>])
  BY DEF TakeOther
<1> DEFINE e == [role |-> r, ids |-> <<>>, cid |-> <<>>]
<1>3. /\ e \in OutMessage /\ e.role # "TOOL" /\ e.cid = <<>>
      /\ DOMAIN e.ids = {} /\ Len(e.ids) = 0
  BY EmptySeq DEF OutMessage
<1>4. Sound(R, {}, callCounter)
  BY FlushKeeps
<1>5. result' = Append(R, e)
  BY <1>2
<1> HIDE DEF R, e
<1>6. Sound(Append(R, e), {e.ids[n] : n \in DOMAIN e.ids}, callCounter + Len(e.ids))
  BY <1>3, <1>4, MessageKeeps
<1>7. /\ pending' = <<>> /\ next' = next + 1
      /\ messages' = messages /\ callCounter' = callCounter /\ done' = done
  BY DEF TakeOther
<1>8. DOMAIN pending' = {} /\ OpenIds' = {} /\ PendingDistinct'
  BY <1>7 DEF OpenIds, PendingDistinct
<1>9. {e.ids[n] : n \in DOMAIN e.ids} = {} /\ callCounter + Len(e.ids) = callCounter
  BY <1>1, <1>3
<1>10. Sound(result', OpenIds', callCounter')
  BY <1>5, <1>6, <1>7, <1>8, <1>9
<1>11. TypeOK'
  <2>1. next' \in 1 .. Len(messages') + 1
    BY <1>1, <1>7
  <2>2. pending' \in Seq(CallIds \X Nat)
    BY <1>7, EmptySeq
  <2>3. result' \in Seq(OutMessage) /\ callCounter' \in Nat
    BY <1>10 DEF Sound
  <2>4. messages' \in Seq(InMessage) /\ done' \in BOOLEAN
    BY <1>1, <1>7
  <2> QED BY <2>1, <2>2, <2>3, <2>4 DEF TypeOK
<1> QED BY <1>7, <1>8, <1>10, <1>11 DEF SanitizerInv

LEMMA FinishKeeps == ASSUME SanitizerInv, Finish PROVE SanitizerInv'
<1>1. /\ result' = result \o Placeholders /\ pending' = <<>> /\ done' = TRUE
      /\ messages' = messages /\ next' = next /\ callCounter' = callCounter
  BY DEF Finish
<1>2. DOMAIN pending' = {} /\ OpenIds' = {} /\ PendingDistinct'
  BY <1>1 DEF OpenIds, PendingDistinct
<1>3. Sound(result', OpenIds', callCounter')
  BY <1>1, <1>2, FlushKeeps
<1>4. pending' \in Seq(CallIds \X Nat)
  BY <1>1, EmptySeq
<1>5. TypeOK'
  BY <1>1, <1>3, <1>4 DEF TypeOK, Sound, SanitizerInv
<1> QED BY <1>1, <1>2, <1>3, <1>5 DEF SanitizerInv

LEMMA DropOrphanKeeps == ASSUME SanitizerInv, DropOrphan PROVE SanitizerInv'
<1>1. /\ UNCHANGED <<messages, result, pending, callCounter, done>>
      /\ next' = next + 1 /\ next \in 1 .. Len(messages)
      /\ Len(messages) \in Nat
  BY DEF SanitizerInv, TypeOK, DropOrphan, AtRole
<1>2. next' \in 1 .. Len(messages') + 1
  BY <1>1
<1>3. TypeOK' /\ OpenIds' = OpenIds
  BY <1>1, <1>2 DEF SanitizerInv, TypeOK, OpenIds
<1> QED BY <1>1, <1>3 DEF SanitizerInv, PendingDistinct

LEMMA SanitizerStep == SanitizerInv /\ [Next]_vars => SanitizerInv'
<1> SUFFICES ASSUME SanitizerInv, [Next]_vars PROVE SanitizerInv'
  OBVIOUS
<1>1. CASE UNCHANGED vars
  BY <1>1 DEF vars, SanitizerInv, TypeOK, OpenIds, PendingDistinct
<1> QED BY <1>1, DropOrphanKeeps, MatchToolKeeps, TakeAssistantKeeps, TakeOtherKeeps,
           FinishKeeps DEF Next

LEMMA SanitizerInvariant == Spec => []SanitizerInv
BY SanitizerInit, SanitizerStep, PTL DEF Spec

----------------------------------------------------------------------------
LEMMA InvPaired == ASSUME SanitizerInv PROVE ResponsesPaired
<1>1. /\ \A j, k : InRun(j, k) <=> Run(result, j, k)
      /\ Paired(result) /\ OpenOrAnswered(result, OpenIds)
  BY DEF SanitizerInv, Sound, InRun, Run
<1>2. done => OpenIds = {}
  BY DEF SanitizerInv, OpenIds
<1> QED BY <1>1, <1>2 DEF ResponsesPaired, Paired, OpenOrAnswered, Answers

LEMMA InvUnique == ASSUME SanitizerInv PROVE IdsUnique
BY DEF SanitizerInv, Sound, CallsDistinct, AnsweredOnce, IdsUnique

(* The repair reads the history within its bounds and writes messages of   *)
(* the form the handler serialises.                                        *)
THEOREM SanitizerTypeOK == Spec => []TypeOK
<1>1. SanitizerInv => TypeOK
  BY DEF SanitizerInv
<1> QED BY <1>1, SanitizerInvariant, PTL

(* In every request that is sent a tool response answers a call of the     *)
(* message its run follows, and every call has a response, whatever        *)
(* pruning and the LLM did to the history.                                 *)
THEOREM SanitizerPaired == Spec => []ResponsesPaired
BY InvPaired, SanitizerInvariant, PTL

(* No two calls share an id and no call is answered twice, also when the   *)
(* LLM gives several calls one id.                                         *)
THEOREM SanitizerUnique == Spec => []IdsUnique
BY InvUnique, SanitizerInvariant, PTL
=============================================================================
