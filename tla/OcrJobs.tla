------------------------------ MODULE OcrJobs ------------------------------
(***************************************************************************)
(* OCR of the file parser (crates/file-parser/src/ocr and runtime.rs): the *)
(* pass over the images of a document, which runs a bounded number of      *)
(* provider calls at a time, and one provider call, which submits a job to *)
(* the PaddleOCR service, polls it and fetches its result.  Images with    *)
(* equal bytes are one content.  Time advances in ticks.                   *)
(***************************************************************************)
EXTENDS Naturals, Sequences, FiniteSets, SequencesExt

CONSTANTS
  Contents,      \* what images hold
  Document,      \* a whole file sent to the provider: a scanned PDF, an image
  Images,        \* the images of the document, in order: a sequence of contents
  PageLists,     \* the lists of pages a scanned PDF may need
  Concurrency,   \* image_ocr_concurrency
  Retries,       \* submit attempts
  Budget, ImageTimeout, PerRequest, PollInterval, Backoff  \* in ticks

Calls == Contents \cup {Document}

ASSUME OcrAssumption ==
  /\ Document \notin Contents /\ IsFiniteSet(Contents)
  /\ Images \in Seq(Contents)
  /\ \A pages \in PageLists : pages \in Seq(Nat)
  /\ {Concurrency, PerRequest, PollInterval, Backoff, Budget} \subseteq Nat \ {0}
  /\ {Retries, ImageTimeout} \subseteq Nat /\ PollInterval <= Backoff

VARIABLES
  mode,       \* "images": the pass over the images; "document": one call
  pages,      \* options.page_numbers of that call
  queue,      \* unique contents for which no task was spawned yet
  permits,    \* of the semaphore
  task,       \* where the call for each content is, or how it ended (OcrOutcome)
  attempt, left, age,  \* submits; ticks left of a request or sleep; ticks since the call began
  jobs        \* jobs made upstream for each content

timing == <<attempt, left, age>>
vars == <<mode, pages, queue, permits, task, timing, jobs>>

-----------------------------------------------------------------------------
(* format_page_ranges: sorted, without duplicates, runs joined.            *)

RunEndsAtRepeat(s, i) == i = Len(s) \/ s[i + 1] = s[i]
RunEnds(s, i) == i = Len(s) \/ s[i + 1] # s[i] + 1

(* A finite set of numbers, each once, in increasing order.                *)
InOrder(S) ==
  CHOOSE s \in [1..Cardinality(S) -> S] : \A i, j \in DOMAIN s : i < j => s[i] < s[j]

Visit(s, i, sofar) ==
  IF RunEnds(s, i)
  THEN [out |-> Append(sofar.out, <<s[sofar.start], s[i]>>), start |-> i + 1]
  ELSE sofar

Scan(s) ==
  LET scan[i \in 0..Len(s)] ==
        IF i = 0 THEN [out |-> <<>>, start |-> 1] ELSE Visit(s, i, scan[i - 1])
  IN scan

Ranges(list) ==
  LET s == InOrder(ToSet(list)) IN Scan(s)[Len(s)].out

-----------------------------------------------------------------------------
(* One call for every content, for the first image that has it.            *)
UniqueButFirst(list) ==
  LET first == {i \in DOMAIN list : \A j \in 2..(i - 1) : list[j] # list[i]}
      order == InOrder(first)
  IN [i \in DOMAIN order |-> list[order[i]]]
Unique(list) ==
  LET first == {i \in DOMAIN list : \A j \in 1..(i - 1) : list[j] # list[i]}
      order == InOrder(first)
  IN [i \in DOMAIN order |-> list[order[i]]]

Requesting == {"submit", "poll", "fetch"}
Recognizing == Requesting \cup {"nap"}
Ended == {"text", "failed", "panicked"}
Active == Recognizing \cup {"prepare"}

Init ==
  /\ mode \in {"images", "document"}
  /\ pages \in IF mode = "document" THEN PageLists ELSE {<<>>}
  /\ queue = IF mode = "images" THEN Unique(Images) ELSE <<>>
  /\ permits = Concurrency
  /\ task = [b \in Calls |-> IF mode = "document" /\ b = Document THEN "submit" ELSE "none"]
  /\ attempt = [b \in Calls |-> 1] /\ left = [b \in Calls |-> IF b = Document THEN PerRequest ELSE 0]
  /\ age = [b \in Calls |-> 0] /\ jobs = [b \in Calls |-> 0]

-----------------------------------------------------------------------------
(* run_image_ocr: a permit is taken before the task is spawned and lives   *)
(* in it; a document needs none.                                           *)

TakenAtOnceReturned == permits
Taken == permits - 1

Spawn ==
  /\ queue # <<>> /\ permits > 0
  /\ permits' = Taken /\ queue' = Tail(queue)
  /\ task' = [task EXCEPT ![Head(queue)] = "prepare"]
  /\ UNCHANGED <<mode, pages, timing, jobs>>

ReleaseAlways(b) == permits' = permits + 1
ReleaseIfAnswered(b) ==
  permits' = IF b = Document \/ age[b] >= ImageTimeout THEN permits ELSE permits + 1
Release(b) == permits' = IF b = Document THEN permits ELSE permits + 1

End(b, result) ==
  /\ task' = [task EXCEPT ![b] = result]
  /\ Release(b)
  /\ attempt' = [attempt EXCEPT ![b] = 1] /\ left' = [left EXCEPT ![b] = 0]
  /\ age' = [age EXCEPT ![b] = 0]
  /\ UNCHANGED <<mode, pages, queue>>

Goto(b, at, ticks) ==
  /\ task' = [task EXCEPT ![b] = at] /\ left' = [left EXCEPT ![b] = ticks]
  /\ UNCHANGED <<mode, pages, queue, permits, age>>

(* Downscaling on the blocking pool; if it panics the image has failed.    *)
Prepared(b) ==
  /\ task[b] = "prepare"
  /\ \/ /\ task' = [task EXCEPT ![b] = "submit"]
        /\ attempt' = [attempt EXCEPT ![b] = 1]
        /\ left' = [left EXCEPT ![b] = PerRequest] /\ age' = [age EXCEPT ![b] = 0]
        /\ UNCHANGED <<mode, pages, queue, permits>>
     \/ End(b, "failed")
  /\ UNCHANGED jobs

(* A panic inside the provider reaches the pass as a JoinError: no entry.  *)
Panics(b) ==
  /\ b # Document /\ task[b] \in Recognizing
  /\ End(b, "panicked")
  /\ UNCHANGED jobs

-----------------------------------------------------------------------------
(* PaddleOcrProvider::recognize.                                           *)

RetryAfterLast(b) == attempt[b] < Retries + 1
MayRetry(b) == attempt[b] < Retries

PastDeadline(b) == age[b] >= Budget

Poll(b) ==
  IF PastDeadline(b) THEN End(b, "failed")
  ELSE Goto(b, "poll", PerRequest) /\ UNCHANGED attempt

(* A request that fails may have made a job all the same.                  *)
Makes(b, news) == \E n \in news : jobs' = [jobs EXCEPT ![b] = @ + n]

SubmitAccepted(b) ==
  /\ Makes(b, {1}) /\ Poll(b)

SubmitFails(b) ==
  /\ Makes(b, {0, 1})
  /\ IF MayRetry(b)
     THEN attempt' = [attempt EXCEPT ![b] = @ + 1] /\ Goto(b, "submit", PerRequest)
     ELSE End(b, "failed")

(* 4xx, a body that is not JSON, an answer without a job id: no retry.     *)
SubmitRefused(b) == Makes(b, {0, 1}) /\ End(b, "failed")

Submitting(b) ==
  /\ task[b] = "submit"
  /\ SubmitAccepted(b) \/ SubmitFails(b) \/ SubmitRefused(b)

(* done, failed (or any error but those below), still running (or 5xx),    *)
(* 429.                                                                    *)
Polling(b) ==
  /\ task[b] = "poll" /\ UNCHANGED jobs
  /\ \/ End(b, "failed")
     \/ /\ UNCHANGED attempt
        /\ \/ Goto(b, "fetch", PerRequest)
           \/ Goto(b, "nap", PollInterval)
           \/ Goto(b, "nap", Backoff)

Fetching(b) ==
  /\ task[b] = "fetch" /\ UNCHANGED jobs
  /\ End(b, "text") \/ End(b, "failed")

(* The service answers, within the cap on a request.                       *)
Answers(b) == left[b] > 0 /\ (Submitting(b) \/ Polling(b) \/ Fetching(b))

(* The cap on a request is reached, by a submit before its answer begins   *)
(* or in the middle of it, which is not retried.                           *)
Capped(b) ==
  /\ task[b] \in Requesting /\ left[b] = 0
  /\ IF task[b] = "submit" THEN SubmitFails(b) \/ SubmitRefused(b)
     ELSE End(b, "failed") /\ UNCHANGED jobs

Wakes(b) ==
  /\ task[b] = "nap" /\ left[b] = 0
  /\ Poll(b) /\ UNCHANGED jobs

(* The timeout around recognize(): the call is dropped, its job upstream   *)
(* is left alone.                                                          *)
TimesOut(b) ==
  /\ b # Document /\ task[b] \in Recognizing /\ age[b] >= ImageTimeout
  /\ End(b, "failed")
  /\ UNCHANGED jobs

Tick ==
  LET calls == {b \in Calls : task[b] \in Recognizing} IN
  /\ calls # {}
  /\ \A b \in calls : left[b] > 0 /\ (b # Document => age[b] < ImageTimeout)
  /\ age' = [b \in Calls |-> IF b \in calls THEN age[b] + 1 ELSE age[b]]
  /\ left' = [b \in Calls |-> IF b \in calls THEN left[b] - 1 ELSE left[b]]
  /\ UNCHANGED <<mode, pages, queue, permits, task, attempt, jobs>>

-----------------------------------------------------------------------------
Next ==
  \/ Spawn \/ Tick
  \/ \E b \in Calls :
       Prepared(b) \/ Panics(b) \/ Answers(b) \/ Capped(b) \/ Wakes(b) \/ TimesOut(b)

Spec == Init /\ [][Next]_vars

(* Timers fire and the runtime polls its tasks; the service need not ever  *)
(* answer.                                                                 *)
Fairness ==
  /\ WF_vars(Spawn) /\ WF_vars(Tick)
  /\ \A b \in Calls : WF_vars(Prepared(b) \/ Capped(b) \/ Wakes(b) \/ TimesOut(b))

FairSpec == Spec /\ Fairness

-----------------------------------------------------------------------------
TypeOK ==
  /\ mode \in {"images", "document"} /\ pages \in Seq(Nat)
  /\ queue \in Seq(Contents) /\ permits \in 0..Concurrency
  /\ task \in [Calls -> Active \cup Ended \cup {"none"}]
  /\ attempt \in [Calls -> Nat] /\ left \in [Calls -> Nat] /\ age \in [Calls -> Nat]
  /\ jobs \in [Calls -> Nat]

(* "Maximum in-flight OCR requests" (image_pass.rs:28): the semaphore      *)
(* bounds them although every content has a task of its own.               *)
InFlightBounded ==
  Cardinality({b \in Contents : task[b] \in Active}) <= Concurrency

(* "same bytes -> same text, one provider call" (image_pass.rs:109), which *)
(* makes at most one job per submit attempt, whatever is lost on the way.  *)
JobsPerContent ==
  \A b \in Calls : jobs[b] <= IF Retries > 1 THEN Retries ELSE 1

(* What images hold is either still to be looked at or was given to a task *)
(* (image_pass.rs:108-132): none is dropped, none is looked at twice.      *)
NothingIsSkipped ==
  mode = "images" => \A b \in ToSet(Images) : (task[b] = "none") <=> (b \in ToSet(queue))

(* The pages asked of the service are the pages needed, each of them once, *)
(* in ranges that could not be joined.                                     *)
RangesDenotePages ==
  LET ranges == Ranges(pages) IN
  /\ ToSet(pages) = UNION {ranges[i][1]..ranges[i][2] : i \in DOMAIN ranges}
  /\ \A i \in 1..(Len(ranges) - 1) : ranges[i][2] + 1 < ranges[i + 1][1]

(* The conversion gets on: every call ends, every image is looked at, and  *)
(* failures do not stop the pass.                                          *)
Over ==
  /\ queue = <<>> /\ permits = Concurrency
  /\ \A b \in ToSet(Images) : task[b] \in Ended
ConversionEnds == <>(IF mode = "images" THEN Over ELSE task[Document] \in Ended)
=============================================================================
