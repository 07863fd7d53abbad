--------------------------- MODULE LLMChatProofs ---------------------------
(***************************************************************************)
(* Proofs about LLMClient::chat: request files, answers and statistics,    *)
(* for every number of workers, attempts and file names.                   *)
(***************************************************************************)
EXTENDS LLMChat, FiniteSetTheorems, TLAPS

(* An attempt is left whenever curl is about to run or to be repeated. *)
AttemptsLeft == \A w \in Workers : pc[w] \in {"exec", "sleep"} => attempt[w] < MaxRetries

(* The report of the last call is cleared when the next one starts. *)
NoReportInside == \A w \in Workers : pc[w] # "idle" => report[w] = None

(* The loop ends with an answer before the attempts are used up, or without. *)
LoopLeft ==
  \A w \in Workers : pc[w] = "clean" =>
    \/ attempt[w] < MaxRetries /\ json[w] = "answer" /\ last[w] = "answer"
    \/ attempt[w] = MaxRetries /\ last[w] # "answer"

(* A file in use is not one that was left behind. *)
LeakedUnused == \A w \in Workers : HoldsFile(w) => file[w] \notin leaked

FileInv == RequestFileOwned /\ NoTempLeft /\ LeakedUnused

LoopInv == AttemptsLeft /\ NoReportInside /\ LoopLeft /\ AnswerIsLast

ChatInv == TypeOK /\ LoopInv /\ FileInv

----------------------------------------------------------------------------
LEMMA ChatInit == Init => ChatInv
BY ChatAssumption
   DEF Init, ChatInv, LoopInv, FileInv, TypeOK, AttemptsLeft, NoReportInside, LoopLeft,
       AnswerIsLast, RequestFileOwned, NoTempLeft, LeakedUnused, HoldsFile, None,
       PCs, Reports

(* What an attempt returns is parsed to one of four values. *)
LEMMA ParsedType ==
  ASSUME TypeOK, NEW w \in Workers, NEW out \in Outcome
  PROVE  /\ ParsedAfter(w, out) \in {"null", "discarded", "error", "answer"}
         /\ out = "answer" => ParsedAfter(w, out) = "answer"
BY DEF TypeOK, Outcome, ParsedAfter

LEMMA FailureType ==
  ASSUME NEW w \in Workers
  PROVE  Failure(w) \in {"error", "exit", "empty", "garbage"}
BY DEF Failure

(* The files are not touched. *)
LEMMA FilesKept ==
  ASSUME FileInv, UNCHANGED <<files, leaked, file>>,
         \A w \in Workers : HoldsFile(w)' <=> HoldsFile(w)
  PROVE  FileInv'
BY DEF FileInv, RequestFileOwned, NoTempLeft, LeakedUnused

LEMMA WriteTempKeeps ==
  ASSUME ChatInv, NEW w \in Workers, WriteTemp(w) \/ WriteTempFails(w)
  PROVE  ChatInv'
<1> USE ChatAssumption
<1>1. TypeOK'
  BY DEF ChatInv, TypeOK, WriteTemp, WriteTempFails, Goto, Leave, Stats, PCs, Reports
<1>2. LoopInv'
  BY DEF ChatInv, LoopInv, TypeOK, AttemptsLeft, NoReportInside, LoopLeft, AnswerIsLast,
         WriteTemp, WriteTempFails, Goto, Leave, Stats, None
<1>3. CASE WriteTempFails(w)
  BY <1>1, <1>2, <1>3, FilesKept
     DEF ChatInv, TypeOK, HoldsFile, WriteTempFails, Leave, Goto
<1>4. CASE WriteTemp(w)
  <2>1. PICK f \in Names \ files : files' = files \cup {f} /\ file' = [file EXCEPT ![w] = f]
    BY <1>4 DEF WriteTemp
  <2>2. pc[w] = "idle" /\ pc' = [pc EXCEPT ![w] = "exec"] /\ leaked' = leaked
    BY <1>4 DEF WriteTemp, Goto
  <2>3. HoldsFile(w)' /\ ~HoldsFile(w) /\ file'[w] = f
    BY <2>1, <2>2 DEF ChatInv, TypeOK, HoldsFile
  <2>4. \A v \in Workers \ {w} : (HoldsFile(v)' <=> HoldsFile(v)) /\ file'[v] = file[v]
    BY <2>1, <2>2 DEF ChatInv, TypeOK, HoldsFile
  <2>5. f \notin leaked /\ \A v \in Workers : HoldsFile(v) => file[v] # f /\ file[v] \in files
    BY <2>1 DEF ChatInv, FileInv, RequestFileOwned, NoTempLeft
  <2>6. RequestFileOwned'
    BY <2>1, <2>3, <2>4, <2>5 DEF ChatInv, FileInv, RequestFileOwned
  <2>7. NoTempLeft'
    BY <2>1, <2>2, <2>3, <2>4 DEF ChatInv, FileInv, NoTempLeft
  <2>8. LeakedUnused'
    BY <2>2, <2>3, <2>4, <2>5 DEF ChatInv, FileInv, LeakedUnused
  <2> QED
    BY <1>1, <1>2, <2>6, <2>7, <2>8 DEF ChatInv, FileInv
<1> QED
  BY <1>3, <1>4

LEMMA PopenFailsKeeps ==
  ASSUME ChatInv, NEW w \in Workers, PopenFails(w)
  PROVE  ChatInv'
<1>1. HoldsFile(w) /\ ~HoldsFile(w)'
  BY DEF PopenFails, Leave, Goto, HoldsFile, ChatInv, TypeOK
<1>2. file[w] \in files
  BY <1>1 DEF ChatInv, FileInv, RequestFileOwned
<1>3. TypeOK'
  BY <1>2 DEF ChatInv, TypeOK, PopenFails, Goto, Leave, Stats, PCs, Reports
<1>4. LoopInv'
  BY DEF ChatInv, LoopInv, TypeOK, AttemptsLeft, NoReportInside, LoopLeft, AnswerIsLast,
         PopenFails, Goto, Leave, None
<1>5. \A v \in Workers \ {w} : HoldsFile(v)' <=> HoldsFile(v)
  BY DEF PopenFails, Leave, Goto, HoldsFile, ChatInv, TypeOK
<1>6. files' = files /\ file' = file /\ leaked' = leaked \cup {file[w]}
  BY DEF PopenFails
<1>7. RequestFileOwned'
  BY <1>1, <1>5, <1>6 DEF ChatInv, FileInv, RequestFileOwned
<1>8. NoTempLeft'
  BY <1>1, <1>5, <1>6 DEF ChatInv, FileInv, NoTempLeft
<1>9. LeakedUnused'
  BY <1>1, <1>5, <1>6 DEF ChatInv, FileInv, RequestFileOwned, LeakedUnused
<1> QED
  BY <1>3, <1>4, <1>7, <1>8, <1>9 DEF ChatInv, FileInv

LEMMA AttemptKeeps ==
  ASSUME ChatInv, NEW w \in Workers, Attempt(w) \/ Wake(w)
  PROVE  ChatInv'
<1> USE ChatAssumption
<1>1. CASE Wake(w)
  <2>1. TypeOK'
    BY <1>1 DEF ChatInv, TypeOK, Wake, Goto, Stats, PCs
  <2>2. LoopInv'
    BY <1>1 DEF ChatInv, LoopInv, TypeOK, AttemptsLeft, NoReportInside, LoopLeft,
                AnswerIsLast, Wake, Goto
  <2>3. FileInv'
    BY <1>1, FilesKept DEF ChatInv, TypeOK, HoldsFile, Wake, Goto
  <2> QED
    BY <2>1, <2>2, <2>3 DEF ChatInv
<1>2. CASE Attempt(w)
  <2>1. PICK out \in Outcome :
          /\ last' = [last EXCEPT ![w] = out]
          /\ json' = [json EXCEPT ![w] = ParsedAfter(w, out)]
          /\ IF out = "answer"
             THEN Goto(w, "clean") /\ UNCHANGED attempt
             ELSE /\ attempt' = [attempt EXCEPT ![w] = @ + 1]
                  /\ Goto(w, IF attempt[w] + 1 < MaxRetries THEN "sleep" ELSE "clean")
    BY <1>2 DEF Attempt
  <2>2. /\ pc[w] = "exec" /\ attempt[w] < MaxRetries /\ attempt[w] \in Nat
        /\ UNCHANGED <<files, leaked, file, report, chats, statsLock, requests, read, counted>>
    BY <1>2 DEF Attempt, Stats, ChatInv, TypeOK, LoopInv, AttemptsLeft
  <2> DEFINE parsed == ParsedAfter(w, out)
  <2>3. /\ parsed \in {"null", "discarded", "error", "answer"}
        /\ out = "answer" => parsed = "answer"
    BY ParsedType DEF ChatInv
  <2> HIDE DEF parsed
  <2>4. last' = [last EXCEPT ![w] = out] /\ json' = [json EXCEPT ![w] = parsed]
    BY <2>1 DEF parsed
  <2>5. CASE out = "answer"
    <3>1. attempt' = attempt /\ pc' = [pc EXCEPT ![w] = "clean"]
      BY <2>1, <2>5 DEF Goto
    <3>2. TypeOK'
      BY <2>2, <2>3, <2>4, <3>1 DEF ChatInv, TypeOK, PCs
    <3>3. LoopInv'
      BY <2>2, <2>3, <2>4, <2>5, <3>1
         DEF ChatInv, LoopInv, TypeOK, AttemptsLeft, NoReportInside, LoopLeft, AnswerIsLast
    <3>4. FileInv'
      BY <2>2, <3>1, FilesKept DEF ChatInv, TypeOK, HoldsFile
    <3> QED
      BY <3>2, <3>3, <3>4 DEF ChatInv
  <2>6. CASE out # "answer"
    <3>1. PICK to \in {"sleep", "clean"} :
            /\ pc' = [pc EXCEPT ![w] = to]
            /\ to = "sleep" <=> attempt[w] + 1 < MaxRetries
      BY <2>1, <2>6 DEF Goto
    <3>2. attempt' = [attempt EXCEPT ![w] = attempt[w] + 1]
      BY <2>1, <2>6
    <3>3. TypeOK'
      BY <2>2, <2>3, <2>4, <3>1, <3>2 DEF ChatInv, TypeOK, PCs
    <3>4. LoopInv'
      BY <2>2, <2>3, <2>4, <2>6, <3>1, <3>2
         DEF ChatInv, LoopInv, TypeOK, AttemptsLeft, NoReportInside, LoopLeft, AnswerIsLast
    <3>5. FileInv'
      BY <2>2, <3>1, FilesKept DEF ChatInv, TypeOK, HoldsFile
    <3> QED
      BY <3>3, <3>4, <3>5 DEF ChatInv
  <2> QED
    BY <2>5, <2>6
<1> QED
  BY <1>1, <1>2

LEMMA CleanKeeps ==
  ASSUME ChatInv, NEW w \in Workers, Clean(w)
  PROVE  ChatInv'
<1> USE ChatAssumption
<1>1. /\ pc[w] = "clean" /\ HoldsFile(w) /\ files' = files \ {file[w]}
      /\ file' = [file EXCEPT ![w] = None]
      /\ UNCHANGED <<leaked, attempt, json, last, chats, statsLock, requests, read>>
  BY DEF Clean, HoldsFile
<1>2. TypeOK' /\ LoopInv' /\ ~HoldsFile(w)'
      /\ \A v \in Workers \ {w} : HoldsFile(v)' <=> HoldsFile(v)
  <2>1. CASE attempt[w] >= MaxRetries
    <3>1. PICK how \in {"error", "exit", "empty", "garbage"} :
            pc' = [pc EXCEPT ![w] = "idle"] /\ report' = [report EXCEPT ![w] = how]
      BY <2>1, FailureType DEF Clean, Leave, Goto
    <3>2. counted' = counted
      BY <2>1 DEF Clean
    <3>3. TypeOK'
      BY <1>1, <3>1, <3>2 DEF ChatInv, TypeOK, PCs, Reports
    <3>4. LoopInv'
      BY <1>1, <2>1, <3>1
         DEF ChatInv, LoopInv, TypeOK, AttemptsLeft, NoReportInside, LoopLeft, AnswerIsLast
    <3>5. ~HoldsFile(w)' /\ \A v \in Workers \ {w} : HoldsFile(v)' <=> HoldsFile(v)
      BY <3>1 DEF ChatInv, TypeOK, HoldsFile
    <3> QED
      BY <3>3, <3>4, <3>5
  <2>2. CASE ~(attempt[w] >= MaxRetries)
    <3>1. /\ pc' = [pc EXCEPT ![w] = "lock"] /\ report' = report
          /\ counted' = [counted EXCEPT ![w] = @ + 1]
      BY <2>2 DEF Clean, Goto
    <3>2. TypeOK'
      BY <1>1, <3>1 DEF ChatInv, TypeOK, PCs, Reports
    <3>3. LoopInv'
      BY <1>1, <2>2, <3>1
         DEF ChatInv, LoopInv, TypeOK, AttemptsLeft, NoReportInside, LoopLeft, AnswerIsLast
    <3>4. ~HoldsFile(w)' /\ \A v \in Workers \ {w} : HoldsFile(v)' <=> HoldsFile(v)
      BY <3>1 DEF ChatInv, TypeOK, HoldsFile
    <3> QED
      BY <3>2, <3>3, <3>4
  <2> QED
    BY <2>1, <2>2
<1>3. \A v \in Workers \ {w} : file'[v] = file[v] /\ (HoldsFile(v) => file[v] # file[w])
  BY <1>1 DEF ChatInv, TypeOK, FileInv, RequestFileOwned
<1>4. file[w] \notin leaked
  BY <1>1 DEF ChatInv, FileInv, LeakedUnused
<1>5. RequestFileOwned'
  BY <1>1, <1>2, <1>3 DEF ChatInv, FileInv, RequestFileOwned
<1>6. NoTempLeft'
  BY <1>1, <1>2, <1>3, <1>4 DEF ChatInv, FileInv, NoTempLeft
<1>7. LeakedUnused'
  BY <1>1, <1>2, <1>3 DEF ChatInv, FileInv, LeakedUnused
<1> QED
  BY <1>2, <1>5, <1>6, <1>7 DEF ChatInv, FileInv

LEMMA StatsKeeps ==
  ASSUME ChatInv, NEW w \in Workers,
         LockStats(w) \/ ReadStats(w) \/ StoreStats(w) \/ ParseResponse(w)
  PROVE  ChatInv'
<1>1. TypeOK'
  BY DEF ChatInv, TypeOK, LockStats, ReadStats, StoreStats, ParseResponse, Goto, Leave,
         Stats, PCs, Reports
<1>2. LoopInv'
  BY DEF ChatInv, LoopInv, TypeOK, AttemptsLeft, NoReportInside, LoopLeft, AnswerIsLast,
         LockStats, ReadStats, StoreStats, ParseResponse, Goto, Leave, None
<1>3. UNCHANGED <<files, leaked, file>> /\ \A v \in Workers : HoldsFile(v)' <=> HoldsFile(v)
  BY DEF ChatInv, TypeOK, LockStats, ReadStats, StoreStats, ParseResponse, Goto, Leave,
         HoldsFile
<1> QED
  BY <1>1, <1>2, <1>3, FilesKept DEF ChatInv

LEMMA ChatNext == ChatInv /\ [Next]_vars => ChatInv'
<1> SUFFICES ASSUME ChatInv, [Next]_vars PROVE ChatInv'
  OBVIOUS
<1>1. CASE UNCHANGED vars
  BY <1>1 DEF vars, ChatInv, TypeOK, LoopInv, AttemptsLeft, NoReportInside, LoopLeft,
              AnswerIsLast, FileInv, RequestFileOwned, NoTempLeft, LeakedUnused, HoldsFile
<1>2. CASE Next
  BY <1>2, WriteTempKeeps, PopenFailsKeeps, AttemptKeeps, CleanKeeps, StatsKeeps
     DEF Next, Inside
<1> QED
  BY <1>1, <1>2

LEMMA ChatAlways == Spec => []ChatInv
BY ChatInit, ChatNext, PTL DEF Spec

----------------------------------------------------------------------------
(* A worker's request file exists through all attempts and is nobody       *)
(* else's, for any number of workers (LLMClient.cpp:634-723).              *)
THEOREM ChatFileOwned == Spec => []RequestFileOwned
<1>1. ChatInv => RequestFileOwned
  BY DEF ChatInv, FileInv
<1> QED
  BY ChatAlways, <1>1, PTL

(* Only a failed popen leaves a request file (LLMClient.cpp:46, 700).      *)
THEOREM ChatNoTempLeft == Spec => []NoTempLeft
<1>1. ChatInv => NoTempLeft
  BY DEF ChatInv, FileInv
<1> QED
  BY ChatAlways, <1>1, PTL

(* chat() gets past the retry loop exactly with the answer of its last     *)
(* attempt, for every number of attempts (LLMClient.cpp:652-720).          *)
THEOREM ChatAnswerIsLast == Spec => []AnswerIsLast
<1>1. ChatInv => AnswerIsLast
  BY DEF ChatInv, LoopInv
<1> QED
  BY ChatAlways, <1>1, PTL

(* The state of concurrent chats keeps its type (LLMClient.cpp:620-740).   *)
THEOREM ChatTypeOK == Spec => []TypeOK
<1>1. ChatInv => TypeOK
  BY DEF ChatInv
<1> QED
  BY ChatAlways, <1>1, PTL
----------------------------------------------------------------------------
(* The statistics.                                                         *)

(* One worker at a time is between reading and writing the count, and what *)
(* it has read is the count.                                               *)
StatsLocked ==
  /\ \A w \in Workers : pc[w] \in {"count", "store"} <=> statsLock = w
  /\ \A w \in Workers : pc[w] = "store" => read[w] = requests

StatsInv == TypeOK /\ StatsLocked /\ IsFiniteSet(Answers) /\ StatsExact

LEMMA StatsInit == Init => StatsInv
<1> SUFFICES ASSUME Init PROVE StatsInv
  OBVIOUS
<1>1. TypeOK
  BY ChatInit DEF ChatInv
<1>2. Answers = {} /\ Counting = {} /\ requests = 0
  BY DEF Init, Answers, Counting
<1>3. StatsLocked
  BY ChatAssumption DEF Init, StatsLocked
<1> QED
  BY <1>1, <1>2, <1>3, FS_EmptySet DEF StatsInv, StatsExact

(* Nothing is received or counted. *)
LEMMA StatsUntouched ==
  ASSUME StatsInv, TypeOK', StatsLocked', UNCHANGED <<requests, counted>>,
         \A v \in Workers : v \in Counting' <=> v \in Counting
  PROVE  StatsInv'
<1>1. Counting' = Counting
  BY DEF Counting
<1>2. Answers' = Answers
  BY DEF Answers
<1> QED
  BY <1>1, <1>2 DEF StatsInv, StatsExact

(* An answer arrives: one more to count, one more waiting to count it. *)
LEMMA StatsClean ==
  ASSUME StatsInv, TypeOK', NEW w \in Workers, Clean(w)
  PROVE  StatsInv'
<1> USE DEF TypeOK
<1>1. pc[w] = "clean" /\ UNCHANGED <<statsLock, requests, read>>
  BY DEF Clean
<1>2. CASE attempt[w] >= MaxRetries
  <2>1. pc' = [pc EXCEPT ![w] = "idle"] /\ UNCHANGED counted
    BY <1>2 DEF Clean, Leave, Goto
  <2>2. StatsLocked'
    BY <1>1, <2>1 DEF StatsInv, StatsLocked
  <2>3. \A v \in Workers : v \in Counting' <=> v \in Counting
    BY <1>1, <2>1 DEF StatsInv, Counting
  <2> QED
    BY <1>1, <2>1, <2>2, <2>3, StatsUntouched
<1>3. CASE ~(attempt[w] >= MaxRetries)
  <2>1. pc' = [pc EXCEPT ![w] = "lock"] /\ counted' = [counted EXCEPT ![w] = @ + 1]
    BY <1>3 DEF Clean, Goto
  <2>2. StatsLocked'
    BY <1>1, <2>1 DEF StatsInv, StatsLocked
  <2> DEFINE new == <<w, counted[w] + 1>>
  <2>3. Answers' = Answers \cup {new} /\ new \notin Answers
    <3>1. counted[w] \in Nat /\ counted'[w] = counted[w] + 1
      BY <2>1 DEF StatsInv
    <3>2. 1 .. counted[w] + 1 = (1 .. counted[w]) \cup {counted[w] + 1}
      BY <3>1
    <3>3. \A v \in Workers \ {w} : counted'[v] = counted[v]
      BY <2>1 DEF StatsInv
    <3>4. \A v, k : <<v, k>> \in Answers <=> v \in Workers /\ k \in 1 .. counted[v]
      BY DEF Answers
    <3>5. \A v, k : <<v, k>> \in Answers' <=> v \in Workers /\ k \in 1 .. counted'[v]
      BY DEF Answers
    <3>6. \A x : x \in Answers \/ x \in Answers' => x = <<x[1], x[2]>>
      BY DEF Answers
    <3>7. ASSUME NEW v, NEW k
          PROVE  <<v, k>> \in Answers' <=> <<v, k>> \in Answers \/ <<v, k>> = new
      <4>1. CASE v = w
        BY <3>1, <3>2, <3>4, <3>5, <4>1
      <4>2. CASE v # w
        BY <3>3, <3>4, <3>5, <4>2
      <4> QED
        BY <4>1, <4>2
    <3>8. new \notin Answers
      BY <3>1, <3>4
    <3>9. new = <<new[1], new[2]>>
      OBVIOUS
    <3> HIDE DEF new
    <3>10. \A x : x \in Answers' <=> x \in Answers \/ x = new
      BY <3>6, <3>7, <3>9
    <3> QED
      BY <3>8, <3>10
  <2>4. Counting' = Counting \cup {w} /\ w \notin Counting
    BY <1>1, <2>1 DEF StatsInv, Counting
  <2>5. IsFiniteSet(Counting)
    BY ChatAssumption, FS_Subset DEF Counting
  <2> HIDE DEF new
  <2>6. IsFiniteSet(Answers') /\ Cardinality(Answers') = Cardinality(Answers) + 1
    BY <2>3, FS_AddElement DEF StatsInv
  <2>7. Cardinality(Counting') = Cardinality(Counting) + 1
    BY <2>4, <2>5, FS_AddElement
  <2>8. Cardinality(Counting) \in Nat /\ requests \in Nat
    BY <2>5, FS_CardinalityType DEF StatsInv
  <2>9. StatsExact'
    BY <1>1, <2>6, <2>7, <2>8 DEF StatsInv, StatsExact
  <2> QED
    BY <2>2, <2>6, <2>9 DEF StatsInv
<1> QED
  BY <1>2, <1>3

(* The count is written by the holder of the mutex, from what is current. *)
LEMMA StatsStore ==
  ASSUME StatsInv, TypeOK', NEW w \in Workers, StoreStats(w)
  PROVE  StatsInv'
<1> USE DEF TypeOK
<1>1. /\ pc[w] = "store" /\ requests' = read[w] + 1 /\ statsLock' = None
      /\ UNCHANGED <<read, counted>>
  BY DEF StoreStats
<1>2. PICK to \in {"parse", "idle"} : pc' = [pc EXCEPT ![w] = to]
  BY DEF StoreStats, Goto, Leave
<1>3. statsLock = w /\ read[w] = requests /\ requests \in Nat
  BY <1>1 DEF StatsInv, StatsLocked
<1>4. StatsLocked'
  <2>1. \A v \in Workers : pc'[v] \notin {"count", "store"}
    BY <1>1, <1>2, <1>3 DEF StatsInv, StatsLocked
  <2> QED
    BY <1>1, <2>1, ChatAssumption DEF StatsLocked
<1>5. Counting' = Counting \ {w} /\ w \in Counting
  BY <1>1, <1>2 DEF StatsInv, Counting
<1>6. IsFiniteSet(Counting)
  BY ChatAssumption, FS_Subset DEF Counting
<1>7. Cardinality(Counting') = Cardinality(Counting) - 1 /\ Cardinality(Counting) \in Nat
  BY <1>5, <1>6, FS_RemoveElement, FS_CardinalityType
<1>8. Answers' = Answers
  BY <1>1 DEF Answers
<1>9. StatsExact'
  BY <1>1, <1>3, <1>7, <1>8 DEF StatsInv, StatsExact
<1> QED
  BY <1>4, <1>8, <1>9 DEF StatsInv

LEMMA StatsNext == StatsInv /\ TypeOK' /\ [Next]_vars => StatsInv'
<1> SUFFICES ASSUME StatsInv, TypeOK', [Next]_vars PROVE StatsInv'
  OBVIOUS
<1> USE DEF TypeOK
<1>1. CASE UNCHANGED vars
  <2>1. StatsLocked' /\ Counting' = Counting /\ UNCHANGED <<requests, counted>>
    BY <1>1 DEF vars, StatsInv, StatsLocked, Counting
  <2> QED
    BY <2>1, StatsUntouched
<1>2. ASSUME NEW w \in Workers, WriteTemp(w) \/ WriteTempFails(w) \/ Inside(w)
      PROVE  StatsInv'
  <2>1. CASE WriteTemp(w) \/ WriteTempFails(w) \/ PopenFails(w) \/ Attempt(w) \/ Wake(w)
    <3>1. /\ pc[w] \in {"idle", "exec", "sleep"} /\ UNCHANGED <<statsLock, requests, read, counted>>
          /\ \E to \in {"idle", "exec", "sleep", "clean"} : pc' = [pc EXCEPT ![w] = to]
      BY <2>1 DEF WriteTemp, WriteTempFails, PopenFails, Attempt, Wake, Goto, Leave, Stats
    <3>2. StatsLocked'
      BY <3>1 DEF StatsInv, StatsLocked
    <3>3. \A v \in Workers : v \in Counting' <=> v \in Counting
      BY <3>1 DEF StatsInv, Counting
    <3> QED
      BY <3>1, <3>2, <3>3, StatsUntouched
  <2>2. CASE LockStats(w)
    <3>1. StatsLocked'
      BY <2>2, ChatAssumption DEF StatsInv, StatsLocked, LockStats, Goto
    <3>2. \A v \in Workers : v \in Counting' <=> v \in Counting
      BY <2>2 DEF StatsInv, Counting, LockStats, Goto
    <3> QED
      BY <2>2, <3>1, <3>2, StatsUntouched DEF LockStats
  <2>3. CASE ReadStats(w)
    <3>1. StatsLocked'
      BY <2>3 DEF StatsInv, StatsLocked, ReadStats, Goto
    <3>2. \A v \in Workers : v \in Counting' <=> v \in Counting
      BY <2>3 DEF StatsInv, Counting, ReadStats, Goto
    <3> QED
      BY <2>3, <3>1, <3>2, StatsUntouched DEF ReadStats
  <2>4. CASE ParseResponse(w)
    <3>1. StatsLocked'
      BY <2>4 DEF StatsInv, StatsLocked, ParseResponse, Leave, Goto, Stats
    <3>2. \A v \in Workers : v \in Counting' <=> v \in Counting
      BY <2>4 DEF StatsInv, Counting, ParseResponse, Leave, Goto
    <3> QED
      BY <2>4, <3>1, <3>2, StatsUntouched DEF ParseResponse, Stats
  <2> QED
    BY <1>2, <2>1, <2>2, <2>3, <2>4, StatsClean, StatsStore DEF Inside
<1> QED
  BY <1>1, <1>2 DEF Next

(* No answer of any number of concurrent workers is missing from or counted *)
(* twice in the shared token statistics (LLMClient.cpp:721-735).            *)
THEOREM ChatStatsExact == Spec => []StatsExact
<1>1. Spec => []StatsInv
  <2>1. ChatInv => TypeOK
    BY DEF ChatInv
  <2> QED
    BY ChatAlways, <2>1, StatsInit, StatsNext, PTL DEF Spec
<1>2. StatsInv => StatsExact
  BY DEF StatsInv
<1> QED
  BY <1>1, <1>2, PTL

----------------------------------------------------------------------------
(* A call of chat() is finite: what is left of it, in steps of its worker. *)

StepsLeft(w) ==
  CASE pc[w] = "exec"  -> 2 * (MaxRetries - attempt[w]) + 5
    [] pc[w] = "sleep" -> 2 * (MaxRetries - attempt[w]) + 6
    [] pc[w] = "clean" -> 5
    [] pc[w] = "lock"  -> 4
    [] pc[w] = "count" -> 3
    [] pc[w] = "store" -> 2
    [] pc[w] = "parse" -> 1
    [] OTHER           -> 0

(* Every step of a worker inside chat() brings it closer to the end of the  *)
(* call, and no step of another one takes it back.                          *)
Advances ==
  \A w \in Workers : pc[w] # "idle" =>
    \/ StepsLeft(w)' < StepsLeft(w)
    \/ pc'[w] = pc[w] /\ attempt'[w] = attempt[w]

LEMMA InsideAdvances ==
  ASSUME ChatInv, NEW v \in Workers, Inside(v)
  PROVE  StepsLeft(v)' < StepsLeft(v)
<1>1. /\ pc \in [Workers -> PCs] /\ attempt \in [Workers -> 0 .. MaxRetries]
      /\ MaxRetries \in Nat /\ attempt[v] \in 0 .. MaxRetries
      /\ pc[v] = "exec" => attempt[v] < MaxRetries
  BY ChatAssumption DEF ChatInv, TypeOK, LoopInv, AttemptsLeft
<1>2. CASE PopenFails(v)
  BY <1>1, <1>2 DEF PopenFails, Leave, Goto, StepsLeft, PCs
<1>3. CASE Attempt(v)
  <2>1. /\ pc[v] = "exec"
        /\ \/ pc'[v] = "clean"
           \/ attempt'[v] = attempt[v] + 1 /\ pc'[v] \in {"sleep", "clean"}
    BY <1>1, <1>3 DEF Attempt, Goto
  <2> QED BY <1>1, <2>1 DEF StepsLeft
<1>4. CASE Wake(v)
  BY <1>1, <1>4 DEF Wake, Goto, StepsLeft
<1>5. CASE Clean(v)
  <2>1. pc[v] = "clean" /\ pc'[v] \in {"idle", "lock"}
    BY <1>1, <1>5 DEF Clean, Leave, Goto
  <2> QED BY <2>1 DEF StepsLeft
<1>6. CASE LockStats(v) \/ ReadStats(v) \/ StoreStats(v) \/ ParseResponse(v)
  <2>1. \/ pc[v] = "lock" /\ pc'[v] = "count"
        \/ pc[v] = "count" /\ pc'[v] = "store"
        \/ pc[v] = "store" /\ pc'[v] \in {"parse", "idle"}
        \/ pc[v] = "parse" /\ pc'[v] = "idle"
    BY <1>1, <1>6 DEF LockStats, ReadStats, StoreStats, ParseResponse, Leave, Goto
  <2> QED BY <2>1 DEF StepsLeft
<1> QED BY <1>2, <1>3, <1>4, <1>5, <1>6 DEF Inside

LEMMA OthersStay ==
  ASSUME ChatInv, NEW v \in Workers, WriteTemp(v) \/ WriteTempFails(v) \/ Inside(v),
         NEW w \in Workers, w # v
  PROVE  pc'[w] = pc[w] /\ attempt'[w] = attempt[w]
<1>1. pc \in [Workers -> PCs] /\ attempt \in [Workers -> 0 .. MaxRetries]
  BY DEF ChatInv, TypeOK
<1> QED BY <1>1 DEF Inside, WriteTemp, WriteTempFails, PopenFails, Attempt, Wake, Clean,
               LockStats, ReadStats, StoreStats, ParseResponse, Leave, Goto

(* Whatever curl and the other callers do, a call of chat() takes at most   *)
(* 2 * max_retries + 6 steps of its thread (LLMClient.cpp:617-736): what    *)
(* ChatReturns needs besides fair scheduling.                               *)
THEOREM ChatRunsOut ==
  Spec => /\ [](\A w \in Workers : StepsLeft(w) \in 0 .. 2 * MaxRetries + 6)
          /\ [][Advances]_vars
<1>1. ASSUME ChatInv PROVE \A w \in Workers : StepsLeft(w) \in 0 .. 2 * MaxRetries + 6
  <2> SUFFICES ASSUME NEW w \in Workers PROVE StepsLeft(w) \in 0 .. 2 * MaxRetries + 6
    OBVIOUS
  <2>1. attempt[w] \in 0 .. MaxRetries /\ MaxRetries \in Nat
    BY <1>1, ChatAssumption DEF ChatInv, TypeOK
  <2> QED BY <2>1 DEF StepsLeft
<1>2. ASSUME ChatInv, Next PROVE Advances
  <2>1. PICK v \in Workers : WriteTemp(v) \/ WriteTempFails(v) \/ Inside(v)
    BY <1>2 DEF Next
  <2> SUFFICES ASSUME NEW w \in Workers, pc[w] # "idle"
               PROVE  \/ StepsLeft(w)' < StepsLeft(w)
                      \/ pc'[w] = pc[w] /\ attempt'[w] = attempt[w]
    BY DEF Advances
  <2>2. CASE w # v
    BY <1>2, <2>1, <2>2, OthersStay
  <2>3. CASE w = v
    <3>1. Inside(v)
      BY <2>1, <2>3 DEF WriteTemp, WriteTempFails
    <3> QED BY <1>2, <2>3, <3>1, InsideAdvances
  <2> QED BY <2>2, <2>3
<1>3. ChatInv => \A w \in Workers : StepsLeft(w) \in 0 .. 2 * MaxRetries + 6
  BY <1>1
<1>4. ChatInv /\ [Next]_vars => [Advances]_vars
  BY <1>2
<1> QED BY <1>3, <1>4, ChatAlways, PTL DEF Spec
=============================================================================
