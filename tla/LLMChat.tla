------------------------------- MODULE LLMChat -------------------------------
(***************************************************************************)
(* LLMClient::chat (src/LLMUtil/LLMClient.cpp): one request to the LLM     *)
(* service, with the temporary request file, the retry loop around curl,   *)
(* the error that is reported when every attempt fails, and the token      *)
(* statistics that the contract-generation workers share.                  *)
(*                                                                         *)
(* Workers run chat() concurrently on the one shared client.  The service, *)
(* curl and the file system are the environment: an attempt may fail to    *)
(* start, fail in transport, return text that is not JSON, an error        *)
(* document or an answer.                                                  *)
(***************************************************************************)
EXTENDS Integers, FiniteSets

CONSTANTS
    Workers,      \* threads that call chat()
    Names,        \* names mkstemp can make
    MaxRetries,   \* max_retries
    ChatBound     \* bound: calls of chat() per worker

None == "none"

ASSUME ChatAssumption ==
    /\ IsFiniteSet(Workers) /\ None \notin Workers
    /\ MaxRetries \in Nat \ {0}
    /\ ChatBound \in Nat

VARIABLES
    files,        \* request files that exist
    leaked,       \* history: files an exception left behind
    pc,           \* per worker: where chat() is
    file,         \* per worker: tmp_filename
    attempt,      \* per worker: attempt
    json,         \* per worker: what response_json holds
    last,         \* per worker: what the last attempt returned
    report,       \* per worker: how the last chat() ended
    chats,        \* per worker: calls made (bound)
    statsLock,    \* stats_mutex_: holder or None
    requests,     \* token_stats_.total_requests
    read,         \* per worker: value read inside the critical section
    counted       \* per worker, history: answers received

vars == <<files, leaked, pc, file, attempt, json, last, report, chats,
          statsLock, requests, read, counted>>

\* What one attempt returns.
Outcome == {"exit", "empty", "garbage", "error", "answer"}

Init ==
    /\ files = {} /\ leaked = {}
    /\ pc = [w \in Workers |-> "idle"]
    /\ file = [w \in Workers |-> None]
    /\ attempt = [w \in Workers |-> 0]
    /\ json = [w \in Workers |-> "null"]
    /\ last = [w \in Workers |-> None]
    /\ report = [w \in Workers |-> None]
    /\ chats = [w \in Workers |-> 0]
    /\ statsLock = None /\ requests = 0
    /\ read = [w \in Workers |-> 0]
    /\ counted = [w \in Workers |-> 0]

Goto(w, to) == pc' = [pc EXCEPT ![w] = to]

\* chat() leaves, returning or throwing.
Leave(w, how) ==
    /\ Goto(w, "idle")
    /\ report' = [report EXCEPT ![w] = how]

Stats == <<statsLock, requests, read, counted>>

\* Mutant: the name is not reserved, it may be one that exists.
WriteTempShared(w) ==
    /\ pc[w] = "idle" /\ chats[w] < ChatBound
    /\ \E f \in Names :
          files' = files \cup {f} /\ file' = [file EXCEPT ![w] = f]
    /\ chats' = [chats EXCEPT ![w] = @ + 1]
    /\ attempt' = [attempt EXCEPT ![w] = 0]
    /\ json' = [json EXCEPT ![w] = "null"]
    /\ last' = [last EXCEPT ![w] = None]
    /\ report' = [report EXCEPT ![w] = None]
    /\ Goto(w, "exec")
    /\ UNCHANGED <<leaked, Stats>>

\* write_temp_json_unique: mkstemp makes a name that does not exist.
WriteTemp(w) ==
    /\ pc[w] = "idle" /\ chats[w] < ChatBound
    /\ \E f \in Names \ files :
          files' = files \cup {f} /\ file' = [file EXCEPT ![w] = f]
    /\ chats' = [chats EXCEPT ![w] = @ + 1]
    /\ attempt' = [attempt EXCEPT ![w] = 0]
    /\ json' = [json EXCEPT ![w] = "null"]
    /\ last' = [last EXCEPT ![w] = None]
    /\ report' = [report EXCEPT ![w] = None]
    /\ Goto(w, "exec")
    /\ UNCHANGED <<leaked, Stats>>

\* mkstemp, fdopen or fwrite fails: the file, if made, is removed.
WriteTempFails(w) ==
    /\ pc[w] = "idle" /\ chats[w] < ChatBound
    /\ chats' = [chats EXCEPT ![w] = @ + 1]
    /\ Leave(w, "temp")
    /\ UNCHANGED <<files, leaked, file, attempt, json, last, Stats>>

\* popen fails: the exception passes std::remove by.
PopenFails(w) ==
    /\ pc[w] = "exec"
    /\ leaked' = leaked \cup {file[w]}
    /\ Leave(w, "popen")
    /\ UNCHANGED <<files, file, attempt, json, last, chats, Stats>>

\* response_json after an attempt: only a response with text is parsed.
ParsedAfter(w, out) ==
    CASE out \in {"exit", "empty"} -> json[w]
      [] out = "garbage"           -> "discarded"
      [] out = "error"             -> "error"
      [] out = "answer"            -> "answer"

\* Mutant: an error document ends the loop like an answer.
AttemptTakesError(w) ==
    /\ pc[w] = "exec"
    /\ \E out \in Outcome :
          /\ last' = [last EXCEPT ![w] = out]
          /\ json' = [json EXCEPT ![w] = ParsedAfter(w, out)]
          /\ IF out \in {"answer", "error"}
             THEN Goto(w, "clean") /\ UNCHANGED attempt
             ELSE /\ attempt' = [attempt EXCEPT ![w] = @ + 1]
                  /\ Goto(w, IF attempt[w] + 1 < MaxRetries THEN "sleep" ELSE "clean")
    /\ UNCHANGED <<files, leaked, file, report, chats, Stats>>

\* Mutant: a failed attempt is not counted.
AttemptUncounted(w) ==
    /\ pc[w] = "exec"
    /\ \E out \in Outcome :
          /\ last' = [last EXCEPT ![w] = out]
          /\ json' = [json EXCEPT ![w] = ParsedAfter(w, out)]
          /\ Goto(w, IF out = "answer" THEN "clean" ELSE "sleep")
    /\ UNCHANGED <<files, leaked, file, attempt, report, chats, Stats>>

\* One attempt: curl runs, its output is parsed, a failure is counted.
Attempt(w) ==
    /\ pc[w] = "exec"
    /\ \E out \in Outcome :
          /\ last' = [last EXCEPT ![w] = out]
          /\ json' = [json EXCEPT ![w] = ParsedAfter(w, out)]
          /\ IF out = "answer"
             THEN Goto(w, "clean") /\ UNCHANGED attempt
             ELSE /\ attempt' = [attempt EXCEPT ![w] = @ + 1]
                  /\ Goto(w, IF attempt[w] + 1 < MaxRetries THEN "sleep" ELSE "clean")
    /\ UNCHANGED <<files, leaked, file, report, chats, Stats>>

\* The backoff ends.
Wake(w) ==
    /\ pc[w] = "sleep"
    /\ Goto(w, "exec")
    /\ UNCHANGED <<files, leaked, file, attempt, json, last, report, chats, Stats>>

\* The error that is thrown when the attempts are used up.
Failure(w) ==
    CASE json[w] = "error"   -> "error"
      [] json[w] # "error" /\ last[w] = "exit"  -> "exit"
      [] json[w] # "error" /\ last[w] = "empty" -> "empty"
      [] OTHER               -> "garbage"

\* Mutant: the file is removed on success only.
CleanOnSuccess(w) ==
    /\ pc[w] = "clean"
    /\ IF attempt[w] >= MaxRetries
       THEN Leave(w, Failure(w)) /\ UNCHANGED <<counted, files>>
       ELSE /\ Goto(w, "lock") /\ UNCHANGED report
            /\ counted' = [counted EXCEPT ![w] = @ + 1]
            /\ files' = files \ {file[w]}
    /\ UNCHANGED <<leaked, file, attempt, json, last, chats, statsLock, requests, read>>

\* std::remove, then the report of the failure or on to the statistics.
Clean(w) ==
    /\ pc[w] = "clean"
    /\ files' = files \ {file[w]}
    /\ file' = [file EXCEPT ![w] = None]
    /\ IF attempt[w] >= MaxRetries
       THEN Leave(w, Failure(w)) /\ UNCHANGED counted
       ELSE /\ Goto(w, "lock") /\ UNCHANGED report
            /\ counted' = [counted EXCEPT ![w] = @ + 1]
    /\ UNCHANGED <<leaked, attempt, json, last, chats, statsLock, requests, read>>

\* Mutant: no mutex around the statistics.
LockStatsFree(w) ==
    /\ pc[w] = "lock"
    /\ Goto(w, "count")
    /\ UNCHANGED <<files, leaked, file, attempt, json, last, report, chats,
                   statsLock, requests, read, counted>>

\* lock_guard on stats_mutex_
LockStats(w) ==
    /\ pc[w] = "lock"
    /\ statsLock = None
    /\ statsLock' = w
    /\ Goto(w, "count")
    /\ UNCHANGED <<files, leaked, file, attempt, json, last, report, chats,
                   requests, read, counted>>

\* total_requests++ reads ...
ReadStats(w) ==
    /\ pc[w] = "count"
    /\ read' = [read EXCEPT ![w] = requests]
    /\ Goto(w, "store")
    /\ UNCHANGED <<files, leaked, file, attempt, json, last, report, chats,
                   statsLock, requests, counted>>

\* ... and writes; then the usage numbers are added, which throws when one of
\* them is no number.  Either way the guard unlocks.
StoreStats(w) ==
    /\ pc[w] = "store"
    /\ requests' = read[w] + 1
    /\ statsLock' = None
    /\ \/ Goto(w, "parse") /\ UNCHANGED report
       \/ Leave(w, "usage")
    /\ UNCHANGED <<files, leaked, file, attempt, json, last, chats, read, counted>>

\* parse_response returns or throws.
ParseResponse(w) ==
    /\ pc[w] = "parse"
    /\ Leave(w, "answer") \/ Leave(w, "parse")
    /\ UNCHANGED <<files, leaked, file, attempt, json, last, chats, Stats>>

Inside(w) ==
    \/ PopenFails(w) \/ Attempt(w) \/ Wake(w) \/ Clean(w)
    \/ LockStats(w) \/ ReadStats(w) \/ StoreStats(w) \/ ParseResponse(w)

Next == \E w \in Workers : WriteTemp(w) \/ WriteTempFails(w) \/ Inside(w)

Spec == Init /\ [][Next]_vars

\* Every thread is scheduled; curl ends because of --max-time, a sleep ends.
FairSpec == Spec /\ \A w \in Workers : WF_vars(Inside(w))

-----------------------------------------------------------------------------
(* Properties.                                                             *)

PCs == {"idle", "exec", "sleep", "clean", "lock", "count", "store", "parse"}
Reports == {None, "temp", "popen", "exit", "empty", "garbage", "error",
            "usage", "parse", "answer"}

\* Type invariant of the chat workers.
TypeOK ==
    /\ files \subseteq Names /\ leaked \subseteq Names
    /\ pc \in [Workers -> PCs]
    /\ file \in [Workers -> Names \cup {None}]
    /\ attempt \in [Workers -> 0 .. MaxRetries]
    /\ json \in [Workers -> {"null", "discarded", "error", "answer"}]
    /\ last \in [Workers -> Outcome \cup {None}]
    /\ report \in [Workers -> Reports]
    /\ chats \in [Workers -> Nat]
    /\ statsLock \in Workers \cup {None}
    /\ requests \in Nat /\ read \in [Workers -> Nat]
    /\ counted \in [Workers -> Nat]

HoldsFile(w) == pc[w] \in {"exec", "sleep", "clean"}

\* The file that curl posts exists through all attempts and is no other
\* worker's, although workers create and remove files in the same directory.
RequestFileOwned ==
    \A w \in Workers :
        HoldsFile(w) =>
            /\ file[w] \in files
            /\ \A v \in Workers \ {w} : HoldsFile(v) => file[v] # file[w]

\* Every request file is in use by a chat() or was left by a failed popen:
\* retries, give-ups and bad answers leave no file.
NoTempLeft == files = leaked \cup {file[w] : w \in {v \in Workers : HoldsFile(v)}}

\* The answers received, and the workers that have not counted theirs yet.
Answers == UNION {{w} \X (1 .. counted[w]) : w \in Workers}
Counting == {w \in Workers : pc[w] \in {"lock", "count", "store"}}

\* No update of the shared statistics is lost: they are behind the answers
\* received only by the workers still waiting to count theirs.
StatsExact == requests + Cardinality(Counting) = Cardinality(Answers)

\* An answer is never thrown away by the retry loop, and an error never
\* returned as an answer: chat() gets past the loop exactly when its last
\* attempt gave an answer.
AnswerIsLast ==
    \A w \in Workers :
        /\ pc[w] \in {"lock", "count", "store", "parse"} =>
              json[w] = "answer" /\ last[w] = "answer"
        /\ report[w] \in {"exit", "empty", "garbage", "error"} =>
              last[w] # "answer" /\ attempt[w] = MaxRetries

\* Every chat() returns or throws.
ChatReturns == \A w \in Workers : pc[w] # "idle" ~> pc[w] = "idle"
=============================================================================
