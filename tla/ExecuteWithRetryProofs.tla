------------------------ MODULE ExecuteWithRetryProofs ------------------------
(***************************************************************************)
(* Proofs about ExecuteWithRetry, for every set of statuses and hints,     *)
(* every back-off and every max_retries.                                   *)
(***************************************************************************)
EXTENDS ExecuteWithRetry, SequenceTheorems, TLAPS

(* What a failed exchange becomes is an error of the code's vocabulary.    *)
LEMMA RaisedByType ==
    ASSUME NEW a \in Answer, Failed(a)
    PROVE  RaisedBy(a) \in Error
<1>1. CASE a \in Success
  BY <1>1 DEF Success, Failed, RaisedBy, Error, AuthStatus
<1>2. CASE a \in Refusal
  BY <1>2, StatusAssumption DEF Refusal, RaisedBy, Error, AuthStatus
<1>3. CASE a \in Broken
  BY <1>3 DEF Broken, RaisedBy, Error, AuthStatus
<1>4. QED
  BY <1>1, <1>2, <1>3 DEF Answer

LEMMA HintIsInt == \A h \in Hints \cup {NoHint} : h \in Int
BY HintsAssumption DEF NoHint

(* No delay exceeds the policy's cap: the server's hint included.          *)
LEMMA SleepBounded ==
    ASSUME NEW e \in Error, NEW n, NEW d \in RetrySleep(e, n)
    PROVE  d \in 0..MaxBackoff
<1>1. e.retry_after \in Hints \cup {NoHint}
  BY DEF Error
<1>2. e.retry_after \in Int
  BY <1>1, HintIsInt
<1>3. QED
  BY <1>2, BackoffAssumption DEF RetrySleep, Jitter

(* The delay _compute_retry_sleep picks is one the failure demands.        *)
LEMMA SleepHonours ==
    ASSUME NEW a, NEW n, NEW d \in RetrySleep(RaisedBy(a), n)
    PROVE  Honours(d, a, n)
BY BackoffAssumption DEF Honours, RetrySleep, Jitter

(* Refusals and broken exchanges are failures, successes are not unless    *)
(* they are oversize.                                                      *)
LEMMA RefusalFails ==
    ASSUME NEW a \in Refusal \cup Broken
    PROVE  a \in Answer /\ Failed(a)
<1>1. 200 \notin ErrorStatus
  BY StatusAssumption
<1>2. QED
  BY <1>1 DEF Answer, Refusal, Broken, Failed

LEMMA SuccessIsAnswer ==
    ASSUME NEW a \in Success
    PROVE  a \in Answer /\ (Failed(a) <=> a.oversize)
BY DEF Answer, Success, Failed

-----------------------------------------------------------------------------
LEMMA RetriesAreInt == TypeOK => call.max_retries \in Int
BY RetryChoicesAssumption DEF TypeOK, Call

(* What appending to one of the two histories does, in one fact each.      *)
LEMMA RequestAppended ==
    ASSUME requests \in Seq(Request), NEW r \in Request,
           requests' = Append(requests, r)
    PROVE  /\ requests' \in Seq(Request)
           /\ Len(requests) \in Nat
           /\ Len(requests') = Len(requests) + 1
           /\ \A i \in 1..Len(requests) : requests'[i] = requests[i]
           /\ requests'[Len(requests) + 1] = r
           /\ requests' # <<>>
BY AppendProperties, LenProperties

LEMMA AnswerAppended ==
    ASSUME answers \in Seq(Answer), NEW a \in Answer,
           answers' = Append(answers, a)
    PROVE  /\ answers' \in Seq(Answer)
           /\ Len(answers) \in Nat
           /\ Len(answers') = Len(answers) + 1
           /\ \A i \in 1..Len(answers) : answers'[i] = answers[i]
           /\ answers'[Len(answers) + 1] = a
           /\ answers' # <<>>
           /\ LastAnswer' = a
BY AppendProperties, LenProperties DEF LastAnswer

LEMMA InitInv == Init => IInv
<1> SUFFICES ASSUME Init PROVE IInv
  OBVIOUS
<1> USE DEF Init
<1>1. TypeOK
  BY BackoffAssumption DEF TypeOK, Error, NoError, Result, Pending, Request
<1>2. AtLoopHead /\ AtRequest /\ AtBackoff /\ AfterLoop /\ AtFallback
  BY DEF AtLoopHead, AtRequest, AtBackoff, AfterLoop, AtFallback, AllTransient
<1>3. Undecided /\ RequestBudget
  BY DEF Undecided, RequestBudget
<1>4. OnlyTransientIsRepeated /\ FallbackLast /\ DelayHonoured /\ OutcomeJustified
  BY DEF OnlyTransientIsRepeated, FallbackLast, DelayHonoured, OutcomeJustified
<1>5. QED
  BY <1>1, <1>2, <1>3, <1>4 DEF IInv

LEMMA SendStep == IInv /\ Send => IInv'
<1> SUFFICES ASSUME IInv, Send PROVE IInv'
  OBVIOUS
<1> DEFINE r == [tier |-> call.service_tier, waited |-> delay]
<1>1. TypeOK /\ AtLoopHead /\ FallbackLast /\ DelayHonoured /\ OnlyTransientIsRepeated /\ Undecided
  BY DEF IInv
<1>2. r \in Request /\ call.max_retries \in Int
  BY <1>1, RetryChoicesAssumption DEF TypeOK, Request, Call
<1>3. requests' = Append(requests, r)
  BY DEF Send
<1> HIDE DEF r
<1>4. /\ requests' \in Seq(Request)
      /\ Len(requests) \in Nat
      /\ Len(requests') = Len(requests) + 1
      /\ \A i \in 1..Len(requests) : requests'[i] = requests[i]
      /\ requests'[Len(requests) + 1] = r
      /\ requests' # <<>>
  BY <1>1, <1>2, <1>3, RequestAppended DEF TypeOK
<1>5. TypeOK'
  BY <1>1, <1>4 DEF TypeOK, Send
<1>6. /\ pc = "ready" /\ pc' = "waiting" /\ attempt <= call.max_retries
      /\ Len(requests) = attempt /\ Len(answers) = attempt /\ AllTransient
      /\ UNCHANGED <<call, attempt, last_error, delay, result, answers>>
  BY <1>1 DEF Send, AtLoopHead
<1>7. (AtLoopHead /\ AtRequest /\ AtBackoff /\ AfterLoop /\ AtFallback)'
  BY <1>1, <1>4, <1>6 DEF TypeOK, AtLoopHead, AtRequest, AtBackoff, AfterLoop, AtFallback, AllTransient
<1>8. Undecided' /\ RequestBudget'
  BY <1>1, <1>2, <1>4, <1>6 DEF TypeOK, Undecided, RequestBudget, Attempts
<1>9. OnlyTransientIsRepeated'
  BY <1>6 DEF OnlyTransientIsRepeated, AllTransient
<1>10. FallbackLast'
  <2>1. ~IsFallback(attempt + 1)'
    BY <1>4, <1>6 DEF IsFallback, r
  <2>2. \A i \in 1..attempt : ~IsFallback(i)
    BY <1>1, <1>2, <1>6 DEF FallbackLast, Attempts, TypeOK
  <2>3. QED
    BY <1>1, <1>4, <1>6, <2>1, <2>2 DEF FallbackLast, IsFallback, TypeOK
<1>11. DelayHonoured'
  <2> SUFFICES ASSUME NEW i \in 2..Len(requests'), ~IsFallback(i)'
               PROVE  Honours(requests'[i].waited, answers[i - 1], i - 2)
    BY <1>6 DEF DelayHonoured
  <2>1. CASE i \in 1..attempt
    BY <2>1, <1>1, <1>4, <1>6 DEF DelayHonoured, IsFallback, TypeOK
  <2>2. CASE i = attempt + 1
    BY <2>2, <1>1, <1>4, <1>6 DEF AtLoopHead, LastAnswer, r, TypeOK
  <2>3. QED
    BY <2>1, <2>2, <1>1, <1>4, <1>6 DEF TypeOK
<1>12. OutcomeJustified'
  BY <1>6 DEF OutcomeJustified
<1>13. QED
  BY <1>5, <1>7, <1>8, <1>9, <1>10, <1>11, <1>12 DEF IInv

(* An answer to the request in flight leaves the history properties alone: *)
(* it is the answer to the last request.                                   *)
LEMMA AnswerKeepsHistory ==
    ASSUME IInv, InFlight, NEW a \in Answer,
           answers' = Append(answers, a), UNCHANGED <<call, requests>>
    PROVE  /\ RequestBudget' /\ OnlyTransientIsRepeated' /\ FallbackLast' /\ DelayHonoured'
           /\ Len(requests) = Len(answers) + 1
           /\ answers' \in Seq(Answer)
           /\ Len(answers) \in Nat
           /\ Len(answers') = Len(answers) + 1
           /\ \A i \in 1..Len(answers) : answers'[i] = answers[i]
           /\ answers' # <<>>
           /\ LastAnswer' = a
<1>1. TypeOK
  BY DEF IInv
<1>2. call.max_retries \in Int
  BY <1>1, RetryChoicesAssumption DEF TypeOK, Call
<1>3. /\ answers' \in Seq(Answer)
      /\ Len(answers) \in Nat
      /\ Len(answers') = Len(answers) + 1
      /\ \A i \in 1..Len(answers) : answers'[i] = answers[i]
      /\ answers' # <<>>
      /\ LastAnswer' = a
  BY <1>1, AnswerAppended DEF TypeOK
<1>4. Len(requests) = Len(answers) + 1
  BY <1>1, <1>2 DEF IInv, InFlight, AtRequest, AtFallback, Attempts, TypeOK
<1>5. RequestBudget'
  BY DEF IInv, RequestBudget, Attempts
<1>6. OnlyTransientIsRepeated'
  <2>1. OnlyTransientIsRepeated
    BY DEF IInv
  <2>2. \A i \in 1..Len(answers') : i < Len(requests) => i \in 1..Len(answers)
    BY <1>3, <1>4
  <2>3. QED
    BY <1>3, <2>1, <2>2 DEF OnlyTransientIsRepeated
<1>7. FallbackLast'
  BY DEF IInv, FallbackLast, IsFallback, Attempts
<1>8. DelayHonoured'
  <2>1. DelayHonoured
    BY DEF IInv
  <2>2. \A i \in 2..Len(requests) : i - 1 \in 1..Len(answers)
    BY <1>3, <1>4
  <2>3. QED
    BY <1>3, <2>1, <2>2 DEF DelayHonoured, IsFallback
<1>9. QED
  BY <1>3, <1>4, <1>5, <1>6, <1>7, <1>8

(* A settled call satisfies everything that only speaks of a running one.  *)
LEMMA SettledShape ==
    ASSUME pc' = "done"
    PROVE  (AtLoopHead /\ AtRequest /\ AtBackoff /\ AfterLoop /\ AtFallback
               /\ Undecided)'
BY DEF AtLoopHead, AtRequest, AtBackoff, AfterLoop, AtFallback, Undecided

LEMMA ReceiveSuccessStep ==
    ASSUME IInv, NEW a, ReceiveSuccess(a)
    PROVE  IInv'
<1>1. a \in Answer /\ (Failed(a) <=> a.oversize)
  BY SuccessIsAnswer DEF ReceiveSuccess
<1>2. InFlight
  BY DEF ReceiveSuccess, InFlight
<1>3. /\ RequestBudget' /\ OnlyTransientIsRepeated' /\ FallbackLast' /\ DelayHonoured'
      /\ answers' \in Seq(Answer)
      /\ answers' # <<>>
      /\ LastAnswer' = a
  BY <1>1, <1>2, AnswerKeepsHistory DEF ReceiveSuccess
<1>4. pc' = "done" /\ result' \in Result
  <2>1. CASE a.oversize
    BY <2>1, <1>1, RaisedByType DEF ReceiveSuccess, Settle, Result
  <2>2. CASE ~a.oversize
    BY <2>2 DEF ReceiveSuccess, Settle, Result, NoError, Error
  <2>3. QED
    BY <2>1, <2>2
<1>5. TypeOK'
  BY <1>3, <1>4 DEF IInv, TypeOK, ReceiveSuccess
<1>6. OutcomeJustified'
  <2>1. Len(requests') <= Attempts'
    BY RetriesAreInt DEF IInv, TypeOK, AtRequest, ReceiveSuccess, Attempts
  <2>2. CASE a.oversize
    <3>1. result'.kind = "too_large" /\ result'.error = RaisedBy(a)
      BY <2>2 DEF ReceiveSuccess, Settle
    <3>2. QED
      BY <1>3, <2>1, <3>1 DEF OutcomeJustified
  <2>3. CASE ~a.oversize
    <3>1. result'.kind = "response"
      BY <2>3 DEF ReceiveSuccess, Settle
    <3>2. QED
      BY <1>1, <1>3, <2>3, <3>1 DEF OutcomeJustified
  <2>4. QED
    BY <2>2, <2>3
<1>7. QED
  BY <1>3, <1>4, <1>5, <1>6, SettledShape DEF IInv

LEMMA ReceiveFatalStep ==
    ASSUME IInv, NEW a, ReceiveFatal(a)
    PROVE  IInv'
<1>1. a \in Answer /\ Failed(a)
  BY RefusalFails DEF ReceiveFatal
<1>2. InFlight
  BY DEF ReceiveFatal, InFlight
<1>3. /\ RequestBudget' /\ OnlyTransientIsRepeated' /\ FallbackLast' /\ DelayHonoured'
      /\ answers' \in Seq(Answer)
      /\ answers' # <<>>
      /\ LastAnswer' = a
  BY <1>1, <1>2, AnswerKeepsHistory DEF ReceiveFatal
<1>4. /\ pc' = "done" /\ result'.error = RaisedBy(a)
      /\ result'.kind \in {"auth", "unhandled"} /\ result' \in Result
  BY <1>1, RaisedByType DEF ReceiveFatal, Settle, Result
<1>5. TypeOK'
  BY <1>3, <1>4 DEF IInv, TypeOK, ReceiveFatal
<1>6. OutcomeJustified'
  <2>1. Len(requests') <= Attempts'
    BY RetriesAreInt DEF IInv, TypeOK, AtRequest, ReceiveFatal, Attempts
  <2>2. QED
    BY <1>3, <1>4, <2>1 DEF OutcomeJustified
<1>7. QED
  BY <1>3, <1>4, <1>5, <1>6, SettledShape DEF IInv

LEMMA ReceiveErrorStep ==
    ASSUME IInv, NEW a, ReceiveError(a)
    PROVE  IInv'
<1> DEFINE e == RaisedBy(a)
<1>1. a \in Answer /\ Failed(a)
  BY RefusalFails DEF ReceiveError
<1>2. InFlight
  BY DEF ReceiveError, InFlight
<1>3. /\ RequestBudget' /\ OnlyTransientIsRepeated' /\ FallbackLast' /\ DelayHonoured'
      /\ answers' \in Seq(Answer)
      /\ Len(answers) \in Nat
      /\ Len(answers') = Len(answers) + 1
      /\ \A i \in 1..Len(answers) : answers'[i] = answers[i]
      /\ answers' # <<>>
      /\ LastAnswer' = a
  BY <1>1, <1>2, AnswerKeepsHistory DEF ReceiveError
<1>4. /\ TypeOK /\ pc = "waiting" /\ attempt <= call.max_retries
      /\ Len(requests) = attempt + 1 /\ Len(answers) = attempt /\ AllTransient
      /\ result = Pending
  BY DEF IInv, AtRequest, Undecided, ReceiveError
<1>5. call.max_retries \in Int
  BY <1>4, RetriesAreInt
<1>6. e \in Error /\ e.kind \in {"provider", "transport"}
  BY <1>1, RaisedByType DEF ReceiveError
<1>7. /\ last_error' = e
      /\ UNCHANGED <<call, attempt, requests>>
  BY DEF ReceiveError
<1> HIDE DEF e
<1>8. answers'[attempt + 1] = a
  BY <1>3, <1>4 DEF LastAnswer
<1>9. CASE should_retry(call.max_retries, e, attempt) /\ pc' = "backoff"
  <2>1. /\ delay' \in RetrySleep(e, attempt)
        /\ result' = result
    BY <1>9 DEF ReceiveError, Settle, e
  <2>2. delay' \in 0..MaxBackoff
    BY <2>1, <1>6, SleepBounded
  <2>3. TypeOK'
    BY <1>3, <1>4, <1>6, <1>7, <1>9, <2>1, <2>2 DEF TypeOK
  <2>4. AllTransient'
    <3>1. \A i \in 1..attempt : TransientAnswer(answers'[i])
      BY <1>3, <1>4 DEF AllTransient
    <3>2. TransientAnswer(answers'[attempt + 1])
      BY <1>1, <1>8, <1>9 DEF TransientAnswer, should_retry, e
    <3>3. \A i \in 1..Len(answers') : i \in 1..attempt \/ i = attempt + 1
      BY <1>3, <1>4 DEF TypeOK
    <3>4. QED
      BY <3>1, <3>2, <3>3 DEF AllTransient
  <2>5. AtBackoff'
    <3>1. Honours(delay', a, attempt)
      BY <2>1, SleepHonours DEF e
    <3>2. QED
      BY <1>3, <1>4, <1>7, <1>9, <2>4, <3>1 DEF AtBackoff, should_retry
  <2>6. (AtLoopHead /\ AtRequest /\ AfterLoop /\ AtFallback /\ OutcomeJustified)'
    BY <1>9 DEF AtLoopHead, AtRequest, AfterLoop, AtFallback, OutcomeJustified
  <2>7. Undecided'
    BY <1>4, <1>5, <1>7, <2>1 DEF Undecided, Attempts, TypeOK
  <2>8. QED
    BY <1>3, <2>3, <2>5, <2>6, <2>7 DEF IInv
<1>10. CASE should_retry(call.max_retries, e, attempt) /\ pc' = "done"
  <2>1. result' = [kind |-> "hook", error |-> NoError] /\ delay' = delay
    BY <1>10 DEF ReceiveError, Settle, e
  <2>2. TypeOK'
    BY <1>3, <1>4, <1>6, <1>7, <1>10, <2>1 DEF TypeOK, Result, Error, NoError
  <2>3. OutcomeJustified'
    BY <2>1 DEF OutcomeJustified
  <2>4. QED
    BY <1>3, <1>10, <2>2, <2>3, SettledShape DEF IInv
<1>11. CASE ~should_retry(call.max_retries, e, attempt)
  <2>1. pc' = "left_loop" /\ delay' = delay /\ result' = result
    BY <1>11 DEF ReceiveError, e
  <2>2. TypeOK'
    BY <1>3, <1>4, <1>6, <1>7, <2>1 DEF TypeOK
  <2>3. AfterLoop'
    <3>1. Transient(e) => attempt = call.max_retries
      BY <1>4, <1>5, <1>11 DEF should_retry, TypeOK
    <3>2. \A i \in 1..attempt : TransientAnswer(answers'[i])
      BY <1>3, <1>4 DEF AllTransient
    <3>3. 0 <= call.max_retries
      BY <1>4, <1>5 DEF TypeOK
    <3>4. QED
      BY <1>1, <1>3, <1>4, <1>6, <1>7, <2>1, <3>1, <3>2, <3>3 DEF AfterLoop, e
  <2>4. (AtLoopHead /\ AtRequest /\ AtBackoff /\ AtFallback /\ OutcomeJustified)'
    BY <2>1 DEF AtLoopHead, AtRequest, AtBackoff, AtFallback, OutcomeJustified
  <2>5. Undecided'
    BY <1>4, <1>5, <1>7, <2>1 DEF Undecided, Attempts, TypeOK
  <2>6. QED
    BY <1>3, <2>2, <2>3, <2>4, <2>5 DEF IInv
<1>12. QED
  BY <1>9, <1>10, <1>11 DEF ReceiveError, Settle, e

(* A step that only moves the call on leaves the history properties alone. *)
LEMMA HistoryUnchanged ==
    ASSUME IInv, UNCHANGED <<call, requests, answers>>
    PROVE  RequestBudget' /\ OnlyTransientIsRepeated' /\ FallbackLast' /\ DelayHonoured'
BY DEF IInv, RequestBudget, OnlyTransientIsRepeated, FallbackLast, DelayHonoured,
       IsFallback, Attempts

LEMMA EmptyLoopStep == IInv /\ EmptyLoop => IInv'
<1> SUFFICES ASSUME IInv, EmptyLoop PROVE IInv'
  OBVIOUS
<1>1. /\ TypeOK /\ Undecided /\ Len(requests) = attempt /\ Len(answers) = attempt
      /\ attempt > 0 => attempt <= call.max_retries
      /\ attempt = 0 => last_error = NoError
      /\ call.max_retries \in Int
  BY RetriesAreInt DEF IInv, AtLoopHead, EmptyLoop
<1>2. attempt = 0 /\ call.max_retries < 0
  BY <1>1 DEF EmptyLoop, TypeOK
<1>3. requests = <<>> /\ answers = <<>>
  BY <1>1, <1>2, EmptySeq DEF TypeOK
<1>4. TypeOK'
  BY <1>1 DEF TypeOK, EmptyLoop
<1>5. (AtLoopHead /\ AtRequest /\ AtBackoff /\ AfterLoop /\ AtFallback
         /\ OutcomeJustified /\ Undecided)'
  BY <1>1, <1>2, <1>3 DEF EmptyLoop, AtLoopHead, AtRequest, AtBackoff, AfterLoop, AtFallback,
                          OutcomeJustified, Undecided
<1>6. QED
  BY <1>4, <1>5, HistoryUnchanged DEF IInv, EmptyLoop

LEMMA WakeStep == IInv /\ Wake => IInv'
<1> SUFFICES ASSUME IInv, Wake PROVE IInv'
  OBVIOUS
<1>1. TypeOK /\ call.max_retries \in Int
  BY RetriesAreInt DEF IInv
<1>2. TypeOK'
  BY <1>1 DEF TypeOK, Wake
<1>3. AtLoopHead'
  BY <1>1 DEF IInv, TypeOK, AtBackoff, AtLoopHead, AllTransient, LastAnswer, Wake
<1>4. (AtRequest /\ AtBackoff /\ AfterLoop /\ AtFallback /\ OutcomeJustified)'
  BY DEF Wake, AtRequest, AtBackoff, AfterLoop, AtFallback, OutcomeJustified
<1>5. (Undecided)'
  BY DEF IInv, Wake, Undecided, Attempts
<1>6. QED
  BY <1>2, <1>3, <1>4, <1>5, HistoryUnchanged DEF IInv, Wake

LEMMA FlexSendStep == IInv /\ FlexSend => IInv'
<1> SUFFICES ASSUME IInv, FlexSend PROVE IInv'
  OBVIOUS
<1> DEFINE r == [tier |-> FALSE, waited |-> 0]
<1>1. TypeOK /\ call.max_retries \in Int /\ r \in Request
  BY RetriesAreInt, BackoffAssumption DEF IInv, Request
<1>2. /\ pc = "left_loop" /\ pc' = "flex_waiting"
      /\ call.service_tier /\ call.max_retries > 0 /\ Transient(last_error)
      /\ UNCHANGED <<call, attempt, last_error, delay, result, answers>>
  BY DEF FlexSend, fallback_eligible
<1>3. /\ attempt = call.max_retries
      /\ Len(requests) = Attempts /\ Len(answers) = Attempts
      /\ \A i \in 1..attempt : TransientAnswer(answers[i])
      /\ Failed(LastAnswer) /\ last_error = RaisedBy(LastAnswer)
  BY <1>1, <1>2 DEF IInv, AfterLoop, Attempts, TypeOK
<1>4. AllTransient
  <2>1. TransientAnswer(answers[Len(answers)])
    BY <1>2, <1>3 DEF TransientAnswer, LastAnswer
  <2>2. \A i \in 1..Len(answers) : i \in 1..attempt \/ i = Len(answers)
    BY <1>1, <1>3 DEF Attempts
  <2>3. QED
    BY <1>3, <2>1, <2>2 DEF AllTransient
<1>5. requests' = Append(requests, r)
  BY DEF FlexSend
<1> HIDE DEF r
<1>6. /\ requests' \in Seq(Request)
      /\ Len(requests) \in Nat
      /\ Len(requests') = Len(requests) + 1
      /\ \A i \in 1..Len(requests) : requests'[i] = requests[i]
      /\ requests'[Len(requests) + 1] = r
      /\ requests' # <<>>
  BY <1>1, <1>5, RequestAppended DEF TypeOK
<1>7. TypeOK'
  BY <1>1, <1>2, <1>6 DEF TypeOK
<1>8. (AtLoopHead /\ AtRequest /\ AtBackoff /\ AfterLoop /\ OutcomeJustified)'
  BY <1>2 DEF AtLoopHead, AtRequest, AtBackoff, AfterLoop, OutcomeJustified
<1>9. AtFallback' /\ Undecided' /\ RequestBudget'
  BY <1>1, <1>2, <1>3, <1>4, <1>6 DEF IInv, AtFallback, Undecided, RequestBudget, Attempts, AllTransient
<1>10. OnlyTransientIsRepeated'
  BY <1>2, <1>4 DEF OnlyTransientIsRepeated, AllTransient
<1>11. FallbackLast'
  <2>1. \A i \in 1..Len(requests) : ~IsFallback(i)
    BY <1>1, <1>3, <1>6 DEF IInv, FallbackLast, Attempts
  <2>2. \A i \in 1..Len(requests) : requests'[i].tier
    BY <1>2, <1>6, <2>1 DEF IsFallback
  <2>3. \A i \in 1..Len(requests') : i \in 1..Len(requests) \/ i = Len(requests) + 1
    BY <1>6
  <2>4. Attempts' = Attempts
    BY <1>2 DEF Attempts
  <2>5. QED
    BY <1>3, <1>6, <2>2, <2>3, <2>4 DEF FallbackLast, IsFallback
<1>12. DelayHonoured'
  <2>1. ~requests'[Len(requests) + 1].tier
    BY <1>6 DEF r
  <2>2. \A i \in 2..Len(requests') : i \in 2..Len(requests) \/ i = Len(requests) + 1
    BY <1>6
  <2>3. \A i \in 2..Len(requests) :
            ~IsFallback(i) => Honours(requests[i].waited, answers[i - 1], i - 2)
    BY DEF IInv, DelayHonoured
  <2>4. \A i \in 2..Len(requests) : requests'[i] = requests[i]
    BY <1>6
  <2>5. QED
    BY <1>2, <2>1, <2>2, <2>3, <2>4 DEF DelayHonoured, IsFallback
<1>13. QED
  BY <1>7, <1>8, <1>9, <1>10, <1>11, <1>12 DEF IInv

(* RaiseFinal settles the call with a provider error that was never worth  *)
(* a retry, or with the wrapped final error.                               *)
LEMMA RaiseFinalCases ==
    ASSUME TypeOK, NEW e \in Error, RaiseFinal(e)
    PROVE  /\ pc' = "done" /\ result' \in Result
           /\ \/ /\ result' = [kind |-> "provider", error |-> last_error]
                 /\ last_error.kind = "provider"
                 /\ ~should_retry(call.max_retries, last_error, 0)
              \/ /\ result' = [kind |-> "exhausted", error |-> e]
                 /\ last_error.kind # "provider" \/ should_retry(call.max_retries, last_error, 0)
BY DEF RaiseFinal, Settle, Result, TypeOK

LEMMA GiveUpStep == IInv /\ GiveUp => IInv'
<1> SUFFICES ASSUME IInv, GiveUp PROVE IInv'
  OBVIOUS
<1>1. TypeOK /\ call.max_retries \in Int /\ AfterLoop
  BY RetriesAreInt DEF IInv
<1>2. /\ pc = "left_loop" /\ ~fallback_eligible /\ RaiseFinal(last_error)
      /\ UNCHANGED <<call, attempt, last_error, delay, requests, answers>>
  BY DEF GiveUp
<1>3. last_error \in Error
  BY <1>1 DEF TypeOK
<1>4. /\ pc' = "done" /\ result' \in Result
      /\ \/ /\ result' = [kind |-> "provider", error |-> last_error]
            /\ last_error.kind = "provider"
            /\ ~should_retry(call.max_retries, last_error, 0)
         \/ /\ result' = [kind |-> "exhausted", error |-> last_error]
            /\ last_error.kind # "provider" \/ should_retry(call.max_retries, last_error, 0)
  BY <1>1, <1>2, <1>3, RaiseFinalCases
<1>5. TypeOK'
  BY <1>1, <1>2, <1>4 DEF TypeOK
<1>6. OutcomeJustified'
  <2>1. CASE call.max_retries < 0 /\ requests = <<>> /\ last_error = NoError
    <3>1. result'.kind = "exhausted"
      BY <2>1, <1>4 DEF NoError
    <3>2. QED
      BY <1>2, <2>1, <3>1 DEF OutcomeJustified
  <2>2. CASE /\ 0 <= call.max_retries /\ Len(requests) = attempt + 1 /\ Len(answers) = attempt + 1
             /\ last_error = RaisedBy(LastAnswer)
             /\ last_error.kind \in {"provider", "transport"}
             /\ Transient(last_error) => attempt = call.max_retries
    <3>1. answers # <<>>
      BY <2>2, <1>1, EmptySeq DEF TypeOK
    <3>2. CASE result'.kind = "provider"
      <4>1. result'.error = last_error /\ ~should_retry(call.max_retries, last_error, 0)
        BY <3>2, <1>4
      <4>2. Transient(last_error) => call.max_retries = 0
        BY <4>1, <2>2, <1>1 DEF should_retry
      <4>3. QED
        BY <1>2, <2>2, <3>1, <3>2, <4>1, <4>2 DEF OutcomeJustified, LastAnswer
    <3>3. CASE result'.kind = "exhausted"
      <4>1. result'.error = last_error /\ Transient(last_error)
        BY <3>3, <1>4, <2>2 DEF should_retry, Transient
      <4>2. ~(call.service_tier /\ call.max_retries > 0)
        BY <1>2, <4>1 DEF fallback_eligible
      <4>3. Len(requests) = Attempts
        BY <2>2, <4>1 DEF Attempts
      <4>4. QED
        BY <1>2, <2>2, <3>1, <3>3, <4>1, <4>2, <4>3 DEF OutcomeJustified, LastAnswer, Attempts
    <3>4. QED
      BY <1>4, <3>2, <3>3
  <2>3. QED
    BY <1>1, <1>2, <2>1, <2>2 DEF AfterLoop
<1>7. QED
  BY <1>2, <1>4, <1>5, <1>6, SettledShape, HistoryUnchanged DEF IInv

LEMMA FlexReceiveStep ==
    ASSUME IInv, NEW a, FlexReceive(a)
    PROVE  IInv'
<1>1. /\ a \in Answer /\ pc = "flex_waiting" /\ InFlight
      /\ IF Failed(a) THEN RaiseFinal(RaisedBy(a)) ELSE Settle("response", NoError)
      /\ answers' = Append(answers, a)
      /\ UNCHANGED <<call, attempt, last_error, delay, requests>>
  BY DEF FlexReceive, InFlight
<1>2. /\ RequestBudget' /\ OnlyTransientIsRepeated' /\ FallbackLast' /\ DelayHonoured'
      /\ answers' \in Seq(Answer) /\ answers' # <<>> /\ LastAnswer' = a
  BY <1>1, AnswerKeepsHistory
<1>3. /\ TypeOK /\ call.max_retries \in Int /\ call.max_retries > 0 /\ call.service_tier
      /\ Len(requests) = Attempts + 1 /\ Transient(last_error)
  BY <1>1, RetriesAreInt DEF IInv, AtFallback
<1>4. CASE Failed(a)
  <2>1. RaisedBy(a) \in Error
    BY <1>1, <1>4, RaisedByType
  <2>2. RaiseFinal(RaisedBy(a))
    BY <1>1, <1>4
  <2>3. should_retry(call.max_retries, last_error, 0)
    BY <1>3 DEF should_retry
  <2>4. pc' = "done" /\ result' \in Result /\ result' = [kind |-> "exhausted", error |-> RaisedBy(a)]
    BY <1>3, <2>1, <2>2, <2>3, RaiseFinalCases
  <2>5. TypeOK'
    BY <1>1, <1>2, <1>3, <2>4 DEF TypeOK
  <2>6. OutcomeJustified'
    BY <1>1, <1>2, <1>3, <2>4 DEF OutcomeJustified, Attempts
  <2>7. QED
    BY <1>2, <2>4, <2>5, <2>6, SettledShape DEF IInv
<1>5. CASE ~Failed(a)
  <2>1. pc' = "done" /\ result' = [kind |-> "response", error |-> NoError]
    BY <1>1, <1>5 DEF Settle
  <2>2. TypeOK'
    BY <1>1, <1>2, <1>3, <2>1 DEF TypeOK, Result, Error, NoError
  <2>3. OutcomeJustified'
    BY <1>2, <1>5, <2>1 DEF OutcomeJustified
  <2>4. QED
    BY <1>2, <2>1, <2>2, <2>3, SettledShape DEF IInv
<1>6. QED
  BY <1>4, <1>5

LEMMA CancelStep == IInv /\ Cancel => IInv'
<1> SUFFICES ASSUME IInv, Cancel PROVE IInv'
  OBVIOUS
<1>1. /\ pc' = "done" /\ result' = [kind |-> "cancelled", error |-> NoError]
      /\ UNCHANGED <<call, attempt, last_error, delay, requests, answers>>
  BY DEF Cancel, Settle
<1>2. TypeOK'
  BY <1>1 DEF IInv, TypeOK, Result, Error, NoError
<1>3. OutcomeJustified'
  BY <1>1 DEF OutcomeJustified
<1>4. QED
  BY <1>1, <1>2, <1>3, SettledShape, HistoryUnchanged DEF IInv

LEMMA StutterStep == IInv /\ UNCHANGED vars => IInv'
<1> SUFFICES ASSUME IInv, UNCHANGED vars PROVE IInv'
  OBVIOUS
<1>1. TypeOK'
  BY DEF IInv, TypeOK, vars
<1>2. (AtLoopHead /\ AtRequest /\ AtBackoff /\ AfterLoop /\ AtFallback
         /\ Undecided)'
  BY DEF IInv, vars, AtLoopHead, AtRequest, AtBackoff, AfterLoop, AtFallback, Undecided, AllTransient, LastAnswer, Attempts
<1>3. OutcomeJustified'
  BY DEF IInv, vars, OutcomeJustified, LastAnswer, Attempts
<1>4. QED
  BY <1>1, <1>2, <1>3, HistoryUnchanged DEF IInv, vars

LEMMA StepInv == IInv /\ [Next]_vars => IInv'
<1> SUFFICES ASSUME IInv, [Next]_vars PROVE IInv'
  OBVIOUS
<1>1. ASSUME NEW a \in Answer, Receive(a) PROVE IInv'
  BY <1>1, ReceiveSuccessStep, ReceiveFatalStep, ReceiveErrorStep, FlexReceiveStep DEF Receive
<1>2. QED
  BY <1>1, SendStep, EmptyLoopStep, WakeStep, FlexSendStep, GiveUpStep, CancelStep, StutterStep
     DEF Next, Terminated
-----------------------------------------------------------------------------
(* The inductive invariant holds of every call.                            *)
THEOREM Invariance == Spec => []IInv
BY InitInv, StepInv, PTL DEF Spec

(* Every variable keeps its type, whatever the server answers.             *)
THEOREM TypeCorrect == Spec => []TypeOK
<1>1. IInv => TypeOK
  BY DEF IInv
<1>2. QED
  BY <1>1, Invariance, PTL

(* The wire never sees more requests than the caller allowed, the fallback *)
(* included, and a settled call is never sent again (transport.py:737-942). *)
THEOREM RequestsBounded == Spec => [](RequestBudget /\ OnlyTransientIsRepeated)
<1>1. IInv => RequestBudget /\ OnlyTransientIsRepeated
  BY DEF IInv
<1>2. QED
  BY <1>1, Invariance, PTL

(* The service tier is dropped once, after the last attempt with it        *)
(* (transport.py:868-919).                                                 *)
THEOREM FallbackIsLast == Spec => []FallbackLast
<1>1. IInv => FallbackLast
  BY DEF IInv
<1>2. QED
  BY <1>1, Invariance, PTL

(* Every retry waits what the server asked for, up to the cap, or a        *)
(* jittered delay (transport.py:678-699).                                  *)
THEOREM DelaysHonoured == Spec => []DelayHonoured
<1>1. IInv => DelayHonoured
  BY DEF IInv
<1>2. QED
  BY <1>1, Invariance, PTL

(* What the caller is told is what happened on the wire                    *)
(* (transport.py:944-964).                                                 *)
THEOREM OutcomesJustified == Spec => []OutcomeJustified
<1>1. IInv => OutcomeJustified
  BY DEF IInv
<1>2. QED
  BY <1>1, Invariance, PTL

-----------------------------------------------------------------------------
(* Refinement.  The mapped state is read off the invariant at each step.   *)
LEMMA InitRefines == Init => Contract!Init
<1> SUFFICES ASSUME Init PROVE Contract!Init
  OBVIOUS
<1>1. call.max_retries \in Int
  BY RetryChoicesAssumption DEF Init, Call
<1>2. Budget \in Nat
  BY <1>1 DEF Budget, Attempts
<1>3. Phase = "ready" /\ Len(requests) = 0 /\ Verdict = "none" /\ Outcome = "none"
  BY DEF Init, Phase, InFlight, Verdict, Outcome, Pending
<1>4. QED
  BY <1>2, <1>3 DEF Contract!Init

LEMMA SendRefines ==
    ASSUME IInv, Send \/ FlexSend
    PROVE  Contract!Send
<1>1. /\ TypeOK /\ call.max_retries \in Int /\ Len(requests) \in Nat /\ result = Pending
      /\ UNCHANGED <<call, answers, result>>
  BY RetriesAreInt, LenProperties DEF IInv, TypeOK, Undecided, Send, FlexSend
<1>2. Len(requests') = Len(requests) + 1 /\ requests' # <<>>
  <2>1. CASE Send
    <3>1. [tier |-> call.service_tier, waited |-> delay] \in Request
      BY <1>1 DEF TypeOK, Request, Call
    <3>2. QED
      BY <1>1, <2>1, <3>1, RequestAppended DEF Send, TypeOK
  <2>2. CASE FlexSend
    <3>1. [tier |-> FALSE, waited |-> 0] \in Request
      BY BackoffAssumption DEF Request
    <3>2. QED
      BY <1>1, <2>2, <3>1, RequestAppended DEF FlexSend, TypeOK
  <2>3. QED
    BY <2>1, <2>2
<1>3. Len(answers) = Len(requests)
  BY <1>1 DEF IInv, AtLoopHead, AfterLoop, Send, FlexSend, TypeOK
<1>4. Phase = "ready" /\ Phase' = "inflight"
  BY DEF Send, FlexSend, Phase, InFlight
<1>5. Verdict' = "none"
  BY <1>1, <1>2, <1>3 DEF Verdict
<1>6. Verdict \in {"none", "transient"}
  <2>1. CASE answers = <<>>
    BY <2>1 DEF Verdict
  <2>2. CASE answers # <<>>
    <3>1. Len(answers) \in Nat \ {0}
      BY <1>1, <2>2, EmptySeq, LenProperties DEF TypeOK
    <3>2. TransientAnswer(LastAnswer)
      <4>1. CASE Send
        BY <4>1, <3>1 DEF IInv, AtLoopHead, AllTransient, LastAnswer, Send
      <4>2. CASE FlexSend
        <5>1. Failed(LastAnswer) /\ last_error = RaisedBy(LastAnswer)
          BY <4>2, <2>2 DEF IInv, AfterLoop, FlexSend
        <5>2. QED
          BY <4>2, <5>1 DEF FlexSend, fallback_eligible, TransientAnswer
      <4>3. QED
        BY <4>1, <4>2
    <3>3. QED
      BY <1>3, <3>2 DEF Verdict, TransientAnswer
  <2>3. QED
    BY <2>1, <2>2
<1>7. Len(requests) < Budget
  <2>1. CASE Send
    BY <2>1, <1>1 DEF IInv, AtLoopHead, Send, Budget, Attempts, TypeOK
  <2>2. CASE FlexSend
    <3>1. call.service_tier /\ call.max_retries > 0
      BY <2>2 DEF FlexSend, fallback_eligible
    <3>2. Len(requests) <= Attempts
      BY <2>2, <1>1, <3>1 DEF IInv, AfterLoop, FlexSend, Attempts, TypeOK
    <3>3. QED
      BY <1>1, <3>1, <3>2 DEF Budget, Attempts
  <2>3. QED
    BY <2>1, <2>2
<1>8. Budget' = Budget /\ Outcome' = Outcome
  BY <1>1 DEF Budget, Attempts, Outcome
<1>9. QED
  BY <1>2, <1>4, <1>5, <1>6, <1>7, <1>8 DEF Contract!Send

(* What an answer to the request in flight does to the mapped state.       *)
LEMMA AnswerMapped ==
    ASSUME IInv, InFlight, NEW a \in Answer,
           answers' = Append(answers, a), UNCHANGED <<call, requests>>
    PROVE  /\ Phase = "inflight" /\ Budget' = Budget /\ Len(requests') = Len(requests)
           /\ Outcome = "none"
           /\ Verdict' = IF ~Failed(a) THEN "good"
                         ELSE IF TransientAnswer(a) THEN "transient" ELSE "fatal"
<1>1. /\ Len(requests) = Len(answers) + 1 /\ Len(answers) \in Nat
      /\ Len(answers') = Len(answers) + 1 /\ answers' # <<>> /\ LastAnswer' = a
  BY AnswerKeepsHistory
<1>2. ~(answers' = <<>> \/ Len(answers') < Len(requests'))
  BY <1>1
<1>3. Verdict' = IF ~Failed(a) THEN "good"
                 ELSE IF TransientAnswer(a) THEN "transient" ELSE "fatal"
  BY <1>1, <1>2 DEF Verdict
<1>4. QED
  BY <1>3 DEF IInv, Undecided, Pending, InFlight, Phase, Budget, Attempts, Outcome

LEMMA ReceiveRefines ==
    ASSUME IInv, NEW a \in Answer, Receive(a)
    PROVE  Contract!Next
<1>1. InFlight /\ answers' = Append(answers, a) /\ UNCHANGED <<call, requests>>
  BY DEF Receive, ReceiveSuccess, ReceiveFatal, ReceiveError, FlexReceive, InFlight
<1>2. /\ Phase = "inflight" /\ Budget' = Budget /\ Len(requests') = Len(requests)
      /\ Outcome = "none"
      /\ Verdict' = IF ~Failed(a) THEN "good"
                    ELSE IF TransientAnswer(a) THEN "transient" ELSE "fatal"
  BY <1>1, AnswerMapped
<1>3. CASE ~Failed(a)
  <2>1. pc' = "done" /\ result'.kind = "response"
    BY <1>3, RefusalFails, SuccessIsAnswer
       DEF Receive, ReceiveSuccess, ReceiveFatal, ReceiveError, FlexReceive, Settle
  <2>2. Contract!Accept
    BY <1>2, <1>3, <2>1 DEF Contract!Accept, Phase, Outcome
  <2>3. QED
    BY <2>2 DEF Contract!Next
<1>4. CASE Failed(a)
  <2>1. Verdict' \in {"transient", "fatal"}
    BY <1>2, <1>4
  <2>2. \/ pc' \in {"backoff", "left_loop"} /\ result' = result
        \/ pc' = "done" /\ result'.kind \notin {"none", "response", "cancelled"}
    <3>1. CASE ReceiveSuccess(a)
      BY <1>4, <3>1, SuccessIsAnswer DEF ReceiveSuccess, Settle
    <3>2. CASE ReceiveFatal(a)
      BY <3>2 DEF ReceiveFatal, Settle
    <3>3. CASE ReceiveError(a)
      BY <3>3 DEF ReceiveError, Settle
    <3>4. CASE FlexReceive(a)
      BY <1>4, <3>4 DEF FlexReceive, RaiseFinal, Settle
    <3>5. QED
      BY <3>1, <3>2, <3>3, <3>4 DEF Receive
  <2>3. \/ Phase' = "ready" /\ Outcome' = Outcome
        \/ Phase' = "settled" /\ Outcome' = "error"
    BY <2>2 DEF Phase, Outcome, InFlight
  <2>4. Contract!Refuse(Verdict')
    BY <1>2, <2>3 DEF Contract!Refuse
  <2>5. QED
    BY <2>1, <2>4 DEF Contract!Next
<1>5. QED
  BY <1>3, <1>4

LEMMA QuietRefines ==
    ASSUME IInv, EmptyLoop \/ Wake \/ UNCHANGED vars
    PROVE  UNCHANGED Contract!vars
<1>1. UNCHANGED <<call, requests, answers, result>> /\ Phase' = Phase
  BY DEF EmptyLoop, Wake, vars, Phase, InFlight
<1>2. QED
  BY <1>1 DEF Contract!vars, Budget, Attempts, Verdict, LastAnswer, Outcome

LEMMA GiveUpRefines == IInv /\ GiveUp => Contract!GiveUp
<1> SUFFICES ASSUME IInv, GiveUp PROVE Contract!GiveUp
  OBVIOUS
<1>1. UNCHANGED <<call, requests, answers>> /\ Phase = "ready" /\ Phase' = "settled"
  BY DEF GiveUp, RaiseFinal, Settle, Phase, InFlight
<1>2. Outcome' = "error"
  BY DEF GiveUp, RaiseFinal, Settle, Outcome
<1>3. QED
  BY <1>1, <1>2 DEF Contract!GiveUp, Budget, Attempts, Verdict, LastAnswer

LEMMA CancelRefines == IInv /\ Cancel => Contract!Cancel
<1> SUFFICES ASSUME IInv, Cancel PROVE Contract!Cancel
  OBVIOUS
<1>1. UNCHANGED <<call, requests, answers>> /\ Phase # "settled" /\ Phase' = "settled"
  BY DEF Cancel, Settle, Phase, InFlight
<1>2. Outcome' = "cancelled"
  BY DEF Cancel, Settle, Outcome
<1>3. QED
  BY <1>1, <1>2 DEF Contract!Cancel, Budget, Attempts, Verdict, LastAnswer

(* execute_with_retry implements the contract of a bounded call: whatever  *)
(* the network does, it spends its budget only on transient failures and   *)
(* settles once.                                                           *)
THEOREM Refinement == Spec => ImplementsContract
<1>1. IInv /\ [Next]_vars => [Contract!Next]_Contract!vars
  <2> SUFFICES ASSUME IInv, [Next]_vars PROVE [Contract!Next]_Contract!vars
    OBVIOUS
  <2>1. CASE Send \/ FlexSend
    BY <2>1, SendRefines DEF Contract!Next
  <2>2. CASE EmptyLoop \/ Wake \/ Terminated \/ UNCHANGED vars
    BY <2>2, QuietRefines DEF Terminated
  <2>3. CASE GiveUp \/ Cancel
    BY <2>3, GiveUpRefines, CancelRefines DEF Contract!Next
  <2>4. CASE \E a \in Answer : Receive(a)
    BY <2>4, ReceiveRefines
  <2>5. QED
    BY <2>1, <2>2, <2>3, <2>4 DEF Next
<1>2. QED
  BY <1>1, InitRefines, Invariance, PTL DEF Spec, ImplementsContract, Contract!Spec
-----------------------------------------------------------------------------
(***************************************************************************)
(* Termination.  Variant counts the steps still to come: three for each    *)
(* attempt left, fewer the further the current one has come, and at most   *)
(* three after the loop.                                                   *)
(***************************************************************************)
Left == IF attempt <= call.max_retries THEN call.max_retries - attempt + 1 ELSE 0

Variant ==
    CASE pc = "ready"        -> 3 * Left + 3
      [] pc = "waiting"      -> 3 * Left + 2
      [] pc = "backoff"      -> 3 * Left + 1
      [] pc = "left_loop"    -> 2
      [] pc = "flex_waiting" -> 1
      [] pc = "done"         -> 0

LEMMA VariantIsNat == IInv => Variant \in Nat
<1> SUFFICES ASSUME IInv PROVE Variant \in Nat
  OBVIOUS
<1>1. call.max_retries \in Int /\ attempt \in Nat
      /\ pc \in {"ready", "waiting", "backoff", "left_loop", "flex_waiting", "done"}
  BY RetriesAreInt DEF IInv, TypeOK
<1>2. Left \in Nat
  BY <1>1 DEF Left
<1>3. QED
  BY <1>1, <1>2 DEF Variant

LEMMA VariantFalls == IInv /\ Next /\ ~UNCHANGED vars => Variant' < Variant
<1> SUFFICES ASSUME IInv, Next, ~UNCHANGED vars PROVE Variant' < Variant
  OBVIOUS
<1>1. call.max_retries \in Int /\ attempt \in Nat
  BY RetriesAreInt DEF IInv, TypeOK
<1>2. Left \in Nat
  BY <1>1 DEF Left
<1>3. CASE Send
  <2>1. pc = "ready" /\ pc' = "waiting" /\ Left' = Left
    BY <1>3 DEF Send, Left
  <2>2. QED
    BY <1>2, <2>1 DEF Variant
<1>4. CASE EmptyLoop
  <2>1. pc = "ready" /\ pc' = "left_loop"
    BY <1>4 DEF EmptyLoop
  <2>2. QED
    BY <1>2, <2>1 DEF Variant
<1>5. CASE Wake
  <2>1. pc = "backoff" /\ pc' = "ready" /\ attempt' = attempt + 1 /\ call' = call
    BY <1>5 DEF Wake
  <2>2. attempt < call.max_retries
    BY <2>1 DEF IInv, AtBackoff
  <2>3. Left' = Left - 1
    BY <1>1, <2>1, <2>2 DEF Left
  <2>4. Variant' = 3 * (Left - 1) + 3 /\ Variant = 3 * Left + 1
    BY <2>1, <2>3 DEF Variant
  <2>5. QED
    BY <1>2, <2>4
<1>6. CASE FlexSend \/ GiveUp
  <2>1. pc = "left_loop" /\ pc' \in {"flex_waiting", "done"}
    BY <1>6 DEF FlexSend, GiveUp, RaiseFinal, Settle
  <2>2. QED
    BY <2>1 DEF Variant
<1>7. CASE Cancel
  <2>1. pc \in {"waiting", "backoff", "flex_waiting"} /\ pc' = "done"
    BY <1>7 DEF Cancel, Settle
  <2>2. QED
    BY <1>2, <2>1 DEF Variant
<1>8. ASSUME NEW a \in Answer, Receive(a) PROVE Variant' < Variant
  <2>1. CASE FlexReceive(a)
    <3>1. pc = "flex_waiting" /\ pc' = "done"
      BY <2>1 DEF FlexReceive, RaiseFinal, Settle
    <3>2. QED
      BY <3>1 DEF Variant
  <2>2. CASE ReceiveSuccess(a) \/ ReceiveFatal(a) \/ ReceiveError(a)
    <3>1. /\ pc = "waiting" /\ pc' \in {"backoff", "left_loop", "done"}
          /\ UNCHANGED <<call, attempt>>
      BY <2>2 DEF ReceiveSuccess, ReceiveFatal, ReceiveError, Settle
    <3>2. Left' = Left /\ Left >= 1
      BY <1>1, <3>1 DEF IInv, AtRequest, Left
    <3>3. QED
      BY <1>2, <3>1, <3>2 DEF Variant
  <2>3. QED
    BY <1>8, <2>1, <2>2 DEF Receive
<1>9. QED
  BY <1>3, <1>4, <1>5, <1>6, <1>7, <1>8 DEF Next, Terminated

(* The loop cannot run for ever: every step leaves fewer to come, so that  *)
(* a call takes at most 3 * (max_retries + 1) + 3 of them, whatever the    *)
(* server answers (transport.py:751).                                      *)
THEOREM StepsRunOut == Spec => [](Variant \in Nat) /\ [][Variant' < Variant]_vars
<1>1. IInv /\ [Next]_vars => [Variant' < Variant]_vars
  BY VariantFalls
<1>2. QED
  BY <1>1, VariantIsNat, Invariance, PTL DEF Spec
=============================================================================
