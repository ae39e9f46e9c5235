------------------------------ MODULE AiService ------------------------------
(***************************************************************************)
(* The AI service of one process: the circuit breaker in front of Gemini   *)
(* and the pool of OCR workers behind it.                                  *)
(*                                                                         *)
(* A chat asks Gemini without looking at the breaker.  A verification      *)
(* looks, asks Gemini, and falls back to OCR, in up to Passes passes over  *)
(* the picture.  An extraction asks for the fields first and then reads    *)
(* the text of one variant of the picture after the other, by Gemini or by *)
(* OCR.  Between any two awaits of one request the others run.             *)
(*                                                                         *)
(* The names of the specification say whose it is, for it is extended      *)
(* together with ProofReview.                                              *)
(***************************************************************************)
EXTENDS Integers, Sequences, FiniteSets

CONSTANTS Request,
          Workers,     \* bound: OCR workers that may exist at once
          Threshold,   \* failures that open the circuit
          Probes,      \* HALF_OPEN_SUCCESS_THRESHOLD
          PoolSize, MaxWorkers,
          Passes,      \* passes over one picture
          MaxRefills   \* bound: replacements being created at once

ASSUME AiAssumption ==
    /\ {Workers, Threshold, Probes, PoolSize, MaxWorkers, Passes, MaxRefills} \subseteq Nat \ {0}
    /\ PoolSize < MaxWorkers /\ PoolSize <= Workers
    /\ Passes > 1   \* the second direct reading of an extraction is its second pass

VARIABLES breaker,  \* [state, fails, ok]; fails counts up to Threshold
          hot,      \* the last failure is younger than the cooldown
          gemini,   \* what Gemini does: answers, answers with no text, fails
          pool,     \* the idle OCR workers
          busy,     \* the workers in the middle of a recognition
          active,   \* _activeOcrWorkerCount
          refills,  \* replacements being created
          req,
          streak    \* history: successes recorded since the last failure

aiVars == <<breaker, hot, gemini, pool, busy, active, refills, req, streak>>
ocr == <<pool, busy, active, refills>>
circuit == <<breaker, hot, streak>>

Worker == 1..Workers
None == 0
NoRequest == [pc |-> "idle", kind |-> "chat", worker |-> None, pass |-> 0]

AiTypeOK ==
    /\ breaker \in [state : {"closed", "open", "half_open"}, fails : 0..Threshold, ok : 0..Probes - 1]
    /\ hot \in BOOLEAN /\ gemini \in {"up", "blank", "down"}
    /\ pool \in Seq(Worker) /\ busy \subseteq Worker
    /\ active \in Nat /\ refills \in 0..MaxRefills /\ streak \in 0..Probes
    /\ \A r \in Request :
          /\ req[r].pc \in {"idle", "gemini", "fast", "retry", "pass", "acquire", "wait",
                            "create", "recognize", "text", "discard"}
          /\ req[r].kind \in {"chat", "verify", "extract"}
          /\ req[r].worker \in Worker \cup {None} /\ req[r].pass \in 0..Passes

(* The pool as its first use leaves it: creating a worker may fail. *)
AiInit == /\ breaker = [state |-> "closed", fails |-> 0, ok |-> 0]
          /\ hot = FALSE
          /\ gemini = "up"
          /\ \E n \in 0..PoolSize : pool = [i \in 1..n |-> i]
          /\ busy = {}
          /\ active = 0
          /\ refills = 0
          /\ req = [r \in Request |-> NoRequest]
          /\ streak = 0
-----------------------------------------------------------------------------
(* The breaker. *)
AtMost(n, bound) == IF n < bound THEN n ELSE bound

(* isGeminiCircuitOpen: what it answers, and the breaker it leaves. *)
Skipped == breaker.state = "open" /\ hot
CheckedAfresh == IF breaker.state = "closed" \/ Skipped THEN breaker
                 ELSE [breaker EXCEPT !.state = "half_open", !.ok = 0]
Checked == IF breaker.state = "open" /\ ~hot THEN [breaker EXCEPT !.state = "half_open"]
           ELSE breaker

RecordSuccessLate ==
    /\ breaker' = IF breaker.state = "half_open" /\ breaker.ok = Probes
                  THEN [state |-> "closed", fails |-> 0, ok |-> 0]
                  ELSE [breaker EXCEPT !.fails = 0,
                                       !.ok = IF breaker.state = "half_open" THEN @ + 1 ELSE @]
    /\ streak' = AtMost(streak + 1, Probes)
    /\ UNCHANGED hot
RecordSuccess ==
    /\ breaker' = IF breaker.state = "half_open"
                  THEN IF breaker.ok + 1 >= Probes
                       THEN [state |-> "closed", fails |-> 0, ok |-> 0]
                       ELSE [breaker EXCEPT !.fails = 0, !.ok = @ + 1]
                  ELSE [breaker EXCEPT !.fails = 0]
    /\ streak' = AtMost(streak + 1, Probes)
    /\ UNCHANGED hot

ReopenedKeepsCount == [breaker EXCEPT !.state = "open", !.fails = AtMost(@ + 1, Threshold)]
Reopened == [state |-> "open", fails |-> AtMost(breaker.fails + 1, Threshold), ok |-> 0]
AfterFailure ==
    IF breaker.state = "half_open" THEN Reopened
    ELSE IF breaker.fails + 1 >= Threshold
    THEN [breaker EXCEPT !.state = "open", !.fails = Threshold]
    ELSE [breaker EXCEPT !.fails = @ + 1]

RecordFailure == /\ breaker' = AfterFailure
                 /\ hot' = TRUE
                 /\ streak' = 0

Cooldown == /\ hot
            /\ hot' = FALSE
            /\ UNCHANGED <<breaker, gemini, ocr, req, streak>>
-----------------------------------------------------------------------------
(* The requests. *)
InStage(r, pc) == req[r].pc = pc
Enter(r, pc) == req' = [req EXCEPT ![r].pc = pc]
Done(r) == req' = [req EXCEPT ![r] = NoRequest]

(* The next pass over the picture, if there is one and the text so far does *)
(* not do.                                                                  *)
Onward(r) ==
    \/ Done(r)
    \/ /\ req[r].pass < Passes
       /\ req' = [req EXCEPT ![r].pc = IF req[r].kind = "extract" THEN "pass" ELSE "acquire",
                             ![r].pass = @ + 1, ![r].worker = None]

Chat(r) ==
    /\ InStage(r, "idle")
    /\ req' = [req EXCEPT ![r].pc = "gemini", ![r].kind = "chat"]
    /\ UNCHANGED <<circuit, gemini, ocr>>

(* A look at the breaker, and where it sends the request. *)
Look(r, kind, through, around) ==
    /\ breaker' = Checked
    /\ req' = [req EXCEPT ![r].pc = IF Skipped THEN around ELSE through,
                          ![r].kind = kind, ![r].pass = IF @ = 0 THEN 1 ELSE @]
    /\ UNCHANGED <<hot, streak, gemini, ocr>>

Verify(r) == InStage(r, "idle") /\ Look(r, "verify", "gemini", "acquire")
Extract(r) == InStage(r, "idle") /\ Look(r, "extract", "fast", "pass")
Retry(r) == InStage(r, "retry") /\ Look(r, "extract", "fast", "pass")
RunOcrPass(r) == InStage(r, "pass") /\ Look(r, "extract", "gemini", "acquire")

(* The direct reading records its successes only; what it finds may be      *)
(* enough, or lead to one more try.                                         *)
Vision(r) ==
    /\ InStage(r, "fast")
    /\ \/ /\ gemini = "up"
          /\ RecordSuccess
          /\ \/ Done(r)
             \/ Enter(r, "pass")
             \/ /\ req[r].pass = 1
                /\ req' = [req EXCEPT ![r].pc = "retry", ![r].pass = 2]
       \/ /\ gemini # "up"
          /\ Enter(r, "pass")
          /\ UNCHANGED circuit
    /\ UNCHANGED <<gemini, ocr>>

(* The models were tried in turn.  A chat takes an answer with no text; to  *)
(* a verification or a reading of the text it is a failure.                 *)
Answered(r) == gemini = "up" \/ (gemini = "blank" /\ req[r].kind = "chat")

Answer(r) ==
    /\ InStage(r, "gemini")
    /\ IF Answered(r)
       THEN /\ RecordSuccess
            /\ IF req[r].kind = "extract" THEN Onward(r) ELSE Done(r)
       ELSE /\ RecordFailure
            /\ IF req[r].kind = "chat" THEN Done(r) ELSE Enter(r, "acquire")
    /\ UNCHANGED <<gemini, ocr>>

GeminiChanges(g) ==
    /\ g # gemini
    /\ gemini' = g
    /\ UNCHANGED <<circuit, ocr, req>>
-----------------------------------------------------------------------------
(* The OCR workers. *)
Holders(w) == {r \in Request : req[r].worker = w}
Pooled == {pool[i] : i \in DOMAIN pool}
Free == Worker \ (Pooled \cup busy \cup {req[r].worker : r \in Request})
NewWorker == CHOOSE w \in Free : \A v \in Free : w <= v

Hold(r, w) == /\ req' = [req EXCEPT ![r].pc = "recognize", ![r].worker = w]
              /\ busy' = busy \cup {w}
Pop(r) == /\ pool # <<>>
          /\ Hold(r, pool[Len(pool)])
          /\ pool' = SubSeq(pool, 1, Len(pool) - 1)
          /\ active' = active + 1
          /\ UNCHANGED refills

(* acquireOcrWorker. *)
Acquire(r) ==
    /\ InStage(r, "acquire")
    /\ \/ Pop(r)
       \/ /\ pool = <<>>
          /\ IF active >= MaxWorkers
             THEN Enter(r, "wait") /\ UNCHANGED active
             ELSE Enter(r, "create") /\ active' = active + 1
          /\ UNCHANGED <<pool, busy, refills>>
    /\ UNCHANGED <<circuit, gemini>>

(* The second look at the pool after the pause; then the request is refused. *)
Wait(r) ==
    /\ InStage(r, "wait")
    /\ \/ Pop(r)
       \/ pool = <<>> /\ Onward(r) /\ UNCHANGED ocr
    /\ UNCHANGED <<circuit, gemini>>

(* A failed creation is still counted. *)
CreateWorker(r) ==
    /\ InStage(r, "create")
    /\ \/ Free # {} /\ Hold(r, NewWorker)
       \/ Onward(r) /\ UNCHANGED busy
    /\ UNCHANGED <<circuit, gemini, pool, active, refills>>

OneLess == IF active > 0 THEN active - 1 ELSE 0

(* releaseOcrWorker after a recognition; the caller forgets the worker. *)
ReturnKeeps(r) ==
    /\ busy' = busy \ {req[r].worker}
    /\ pool' = IF Len(pool) < PoolSize THEN Append(pool, req[r].worker) ELSE pool
    /\ active' = OneLess
    /\ Enter(r, "text")
Return(r) ==
    /\ busy' = busy \ {req[r].worker}
    /\ pool' = IF Len(pool) < PoolSize THEN Append(pool, req[r].worker) ELSE pool
    /\ active' = OneLess
    /\ req' = [req EXCEPT ![r].pc = "text", ![r].worker = None]

(* releaseOcrWorker after an error: the worker is terminated, not pooled. *)
Recognize(r) ==
    /\ InStage(r, "recognize")
    /\ \/ Return(r)
       \/ Enter(r, "discard") /\ active' = OneLess /\ UNCHANGED <<pool, busy>>
    /\ UNCHANGED <<circuit, gemini, refills>>

(* The text is read; an error in that releases the worker if it is held. *)
Text(r) ==
    /\ InStage(r, "text")
    /\ \/ Onward(r) /\ UNCHANGED active
       \/ IF req[r].worker = None THEN Done(r) /\ UNCHANGED active
          ELSE Enter(r, "discard") /\ active' = OneLess
    /\ UNCHANGED <<circuit, gemini, pool, busy, refills>>

Discard(r) ==
    /\ InStage(r, "discard")
    /\ refills < MaxRefills
    /\ busy' = busy \ {req[r].worker}
    /\ refills' = IF Len(pool) < PoolSize THEN refills + 1 ELSE refills
    /\ Onward(r)
    /\ UNCHANGED <<circuit, gemini, pool, active>>

(* The replacement is ready, or its creation failed. *)
Refill ==
    /\ refills > 0
    /\ refills' = refills - 1
    /\ pool' \in {pool} \cup (IF Len(pool) < PoolSize /\ Free # {}
                              THEN {Append(pool, NewWorker)} ELSE {})
    /\ UNCHANGED <<circuit, gemini, busy, active, req>>
-----------------------------------------------------------------------------
Step(r) == \/ Retry(r) \/ RunOcrPass(r) \/ Vision(r) \/ Answer(r)
           \/ Acquire(r) \/ Wait(r) \/ CreateWorker(r) \/ Recognize(r) \/ Text(r) \/ Discard(r)

AiNext == \/ \E r \in Request : Chat(r) \/ Verify(r) \/ Extract(r) \/ Step(r)
          \/ \E g \in {"up", "blank", "down"} : GeminiChanges(g)
          \/ Cooldown
          \/ Refill

AiSpec == AiInit /\ [][AiNext]_aiVars

(* Calls and timers end, and buyers keep uploading proofs: there are only   *)
(* so many requests here, but in the program chats do not keep them out.    *)
AiLiveSpec == /\ AiSpec
              /\ WF_aiVars(Cooldown) /\ WF_aiVars(Refill)
              /\ \A r \in Request : WF_aiVars(Step(r))
              /\ SF_aiVars(\E r \in Request : Verify(r))
-----------------------------------------------------------------------------
(* No OCR worker serves two requests, none is idle in the pool twice or     *)
(* while a request holds it, and one that timed out in the middle of a      *)
(* recognition is never handed out again.                                   *)
WorkersAreExclusive ==
    /\ \A i, j \in DOMAIN pool : pool[i] = pool[j] => i = j
    /\ \A w \in Worker : Cardinality(Holders(w)) <= 1
    /\ \A w \in Pooled : Holders(w) = {} /\ w \notin busy

(* The circuit closes only after Probes successes in a row, however late    *)
(* the answers to requests from before it opened arrive.                    *)
ClosesAfterProbes ==
    [][breaker.state # "closed" /\ breaker'.state = "closed" => streak' = Probes]_aiVars

(* When Gemini recovers for good, verifications go back to it for good.     *)
Recovers == <>[](gemini = "up") => <>[](breaker.state = "closed")

(* isGeminiCircuitOpen: "Transition to HALF_OPEN: allow exactly one probe   *)
(* request".                                                                *)
OneProbe == breaker.state = "half_open" =>
                Cardinality({r \in Request : InStage(r, "gemini") /\ req[r].kind = "verify"}) <= 1

(* getMaxOcrWorkers: "Maximum total OCR workers (pool + temporary) to       *)
(* prevent OOM under burst load".                                           *)
Living == Pooled \cup busy \cup ({req[r].worker : r \in Request} \ {None})
WorkersAreCapped == Cardinality(Living) <= MaxWorkers

(* "After consecutive Gemini failures, skip directly to OCR": a Gemini that *)
(* answers is not skipped.                                                  *)
OpensOnFailures == [](gemini # "down") => [](breaker.state = "closed")
=============================================================================
