------------------------------ MODULE Batching ------------------------------
(***************************************************************************)
(* POST of app/api/batch and BatchingMiddleware (lib/api/batching/         *)
(* batching-middleware.ts) for one batch: validation, the requests it      *)
(* makes at once or one after another, the counts, the job it records.     *)
(* maxExecutionTime is an option the code never reads.                     *)
(***************************************************************************)
EXTENDS Naturals, FiniteSets, Sequences, SequencesExt

CONSTANTS
  Timeouts,       \* the timeouts requests may name
  DefaultTimeout,
  MaxRequests,
  MaxBatch        \* bound: requests in a batch

VARIABLES
  batch,     \* the requests: [form, timeout], timeout 0 when it names none
  options,   \* [parallelExecution, continueOnError]
  phase,     \* "received", "running", "recording", "answered"
  flight,    \* index -> the time it times out, for the requests awaited
  settled,   \* index -> the status of its response
  responses, \* the indices answered for, in the order of responses
  answer,    \* None until answered: [code, success, errors, hasErrors]
  job,       \* what was recorded: "none", "COMPLETED" or "lost"
  elapsed

vars == <<batch, options, phase, flight, settled, responses, answer, job, elapsed>>

Forms == {"valid", "invalid", "null"}
SentRequests == [form : Forms, timeout : Timeouts \cup {0}]
NoAnswer == [code |-> 0]

Init ==
  /\ batch \in UNION {[1..n -> SentRequests] : n \in 0..MaxBatch}
  /\ options \in [parallelExecution : BOOLEAN, continueOnError : BOOLEAN]
  /\ phase = "received"
  /\ flight = <<>> /\ settled = <<>>
  /\ responses = <<>>
  /\ answer = NoAnswer /\ job = "none"
  /\ elapsed = 0

Indices == DOMAIN batch
Deadline(i) == elapsed + (IF batch[i].timeout = 0 THEN DefaultTimeout ELSE batch[i].timeout)
With(f, i, value) == [j \in DOMAIN f \cup {i} |-> IF j = i THEN value ELSE f[j]]
Without(f, i) == [j \in DOMAIN f \ {i} |-> f[j]]

\* isBatchRequest looks at the first request only, and throws on a null.
FirstForm == IF batch = <<>> THEN "invalid" ELSE batch[1].form

\* validateBatchRequest reads the requests in order and throws on a null one.
Rejects ==
  \/ Len(batch) > MaxRequests
  \/ \E i \in Indices : batch[i].form = "invalid" /\ \A j \in 1..(i - 1) : batch[j].form = "valid"
Throws ==
  \/ FirstForm = "null"
  \/ ~Rejects /\ \E i \in Indices : batch[i].form = "null"

Answers(code) == answer' = [code |-> code]

\* The route's catch answers a throw, before anything was recorded.
Refuse ==
  /\ phase = "received"
  /\ \/ Throws /\ Answers(500) /\ phase' = "answered"
     \/ ~Throws /\ FirstForm = "invalid" /\ Answers(400) /\ phase' = "answered"
     \/ ~Throws /\ FirstForm # "invalid" /\ Rejects /\ Answers(400) /\ phase' = "recording"
  /\ UNCHANGED <<batch, options, flight, settled, responses, job, elapsed>>

\* executeBatch: every request at once, or the first.
Execute ==
  /\ phase = "received"
  /\ ~Throws /\ FirstForm = "valid" /\ ~Rejects
  /\ phase' = "running"
  /\ flight' = [i \in IF options.parallelExecution THEN Indices ELSE {1} |-> Deadline(i)]
  /\ UNCHANGED <<batch, options, settled, responses, answer, job, elapsed>>

\* The mutant lists the answers as they come.
ListsAsTheyCome(i) == responses' = Append(responses, i)

\* Promise.allSettled keeps the order of the requests.
Lists(i) ==
  responses' = IF options.parallelExecution
               THEN IF DOMAIN flight = {i} THEN [j \in Indices |-> j] ELSE responses
               ELSE Append(responses, i)

\* In sequence the next request leaves with the answer to the last.
Leaves(i, status) ==
  IF ~options.parallelExecution /\ i < Len(batch) /\ (status < 400 \/ options.continueOnError)
  THEN flight' = With(Without(flight, i), i + 1, Deadline(i + 1))
  ELSE flight' = Without(flight, i)

\* The mutant counts a failed request as a success too.
SuccessStatusLoose(status) == status >= 200

SuccessStatus(status) == status >= 200 /\ status < 400

\* processBatch counts the responses when the last of them is there.
Settle(i, status) ==
  /\ settled' = With(settled, i, status)
  /\ Lists(i)
  /\ Leaves(i, status)
  /\ IF DOMAIN flight' # {} THEN UNCHANGED <<answer, phase>>
     ELSE /\ LET listed == ToSet(responses') errors == {j \in listed : settled'[j] >= 400} IN
             answer' = [code |-> 200, errors |-> Cardinality(errors), hasErrors |-> errors # {},
                        success |-> Cardinality({j \in listed : SuccessStatus(settled'[j])})]
          /\ phase' = "recording"
  /\ UNCHANGED <<batch, options, job, elapsed>>

\* A response, or a network error, which becomes a 500.
Responds(i) == i \in DOMAIN flight /\ \E status \in {200, 302, 404, 500} : Settle(i, status)

\* Mutant: a request that names no timeout has none.
TimesOutIfNamed(i) ==
  i \in DOMAIN flight /\ elapsed >= flight[i] /\ batch[i].timeout # 0 /\ Settle(i, 500)

\* AbortSignal.timeout.
TimesOut(i) == i \in DOMAIN flight /\ elapsed >= flight[i] /\ Settle(i, 500)

\* The job that stands for the batch, recorded when it can be, and as a success.
Record ==
  /\ phase = "recording"
  /\ phase' = "answered"
  /\ job' \in {"COMPLETED", "lost"}
  /\ UNCHANGED <<batch, options, flight, settled, responses, answer, elapsed>>

\* Timers fire on time.
Tick ==
  /\ phase = "running"
  /\ \A i \in DOMAIN flight : elapsed < flight[i]
  /\ elapsed' = elapsed + 1
  /\ UNCHANGED <<batch, options, phase, flight, settled, responses, answer, job>>

Next == Refuse \/ Execute \/ Record \/ Tick \/ \E i \in Indices : Responds(i) \/ TimesOut(i)

Spec == Init /\ [][Next]_vars

-----------------------------------------------------------------------------

TypeOK ==
  /\ phase \in {"received", "running", "recording", "answered"}
  /\ DOMAIN flight \subseteq Indices /\ DOMAIN settled \subseteq Indices
  /\ job \in {"none", "COMPLETED", "lost"}
  /\ ToSet(responses) \subseteq Indices

Answered == phase \in {"recording", "answered"} /\ answer.code = 200

\* However the requests of a batch end and in whatever order, its answer has
\* the responses in the order of the requests: of all of them, or in sequence
\* without continueOnError of those up to the first error; each response is
\* counted once, as a success or as an error; and the batch was awaited no
\* longer than its timeouts allow.
BatchIsAccountedFor ==
  Answered =>
    LET named(i) == IF batch[i].timeout = 0 THEN DefaultTimeout ELSE batch[i].timeout
        spent == [i \in Indices |-> IF i \in ToSet(responses) THEN named(i) ELSE 0] IN
    /\ responses = [i \in 1..Len(responses) |-> i]
    /\ \/ Len(responses) = Len(batch)
       \/ ~options.parallelExecution /\ ~options.continueOnError /\ settled[Len(responses)] >= 400
    /\ ~options.continueOnError /\ ~options.parallelExecution =>
         \A i \in 1..(Len(responses) - 1) : settled[i] < 400
    /\ answer.success + answer.errors = Len(responses)
    /\ answer.hasErrors = (answer.errors > 0)
    /\ IF options.parallelExecution THEN \E i \in Indices : elapsed <= named(i)
       ELSE elapsed <= FoldSeq(LAMBDA x, y : x + y, 0, spent)
=============================================================================
