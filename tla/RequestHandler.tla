--------------------------- MODULE RequestHandler ---------------------------
(***************************************************************************)
(* The token accounting of one request over all its attempts:              *)
(* GlobalServer/request_handler.py, called by send_request of              *)
(* GlobalServer/global_server.py and retried by _handle_request.           *)
(*                                                                         *)
(* In "migration" mode (async_request) an attempt resumes the output of    *)
(* the attempts before it; in "re-routing" mode                            *)
(* (async_request_without_migration) it starts anew.  The API server is    *)
(* external: every chunk of its stream carries one token; a token that     *)
(* completes no character has an empty text, and its characters come with  *)
(* the text of a later chunk of the same stream.                           *)
(***************************************************************************)
EXTENDS Integers

CONSTANTS
  expected_output_len, \* RequestInput.expected_output_len
  MaxWithheld,         \* bound: consecutive chunks with an empty text
  MaxFaults            \* bound: attempts failed by the outside world

ASSUME RequestAssumption ==
  /\ expected_output_len \in Nat \ {0}
  /\ MaxWithheld \in Nat
  /\ MaxFaults \in Nat

VARIABLES
  mode,                 \* GlobalServer.request_handler_mode
  ignore_eos,           \* RequestInput.ignore_eos: no stream ends early
  characters,           \* "whole": every token completes a character
  pc,                   \* "queued", "streaming" or "completed"
  has_output,           \* request.output is not None
  retried,              \* request.retry_count > 0
  output_tokens,        \* output.output_tokens
  itl,                  \* len(output.itl)
  ttft_set,             \* output.ttft has been assigned
  text,                 \* tokens whose characters are in output.generated_text
  first_chunk_received, \* local of the attempt
  remaining_tokens,     \* local of the attempt: max_tokens of its payload
  sent,                 \* chunks received in this attempt
  withheld,             \* tokens whose characters the server still holds
  finished,             \* a chunk with a finish_reason has been received
  faults                \* failures so far

inputs == <<mode, ignore_eos, characters>> \* chosen once
outputVars == <<output_tokens, itl, ttft_set, text>>
attemptVars == <<first_chunk_received, remaining_tokens, sent, withheld, finished>>
vars == <<inputs, pc, has_output, retried, outputVars, attemptVars, faults>>

Init ==
  /\ mode \in {"migration", "re-routing"}
  /\ ignore_eos \in BOOLEAN
  /\ characters \in {"whole", "split"}
  /\ pc = "queued"
  /\ has_output = FALSE
  /\ retried = FALSE
  /\ output_tokens = 0 /\ itl = 0 /\ ttft_set = FALSE /\ text = 0
  /\ first_chunk_received = FALSE
  /\ remaining_tokens = 0 /\ sent = 0 /\ withheld = 0 /\ finished = FALSE
  /\ faults = 0

Fault == faults < MaxFaults /\ faults' = faults + 1

\* The output object this attempt fills: the one of earlier attempts, or a
\* new one.
Resumes == mode = "migration" /\ has_output
UseOutput ==
  IF Resumes THEN UNCHANGED outputVars
             ELSE /\ output_tokens' = 0 /\ itl' = 0
                  /\ ttft_set' = FALSE /\ text' = 0

\* Mutant: a resumed attempt asks for the whole length again.
RemainingIgnoresOutput == expected_output_len
\* The prompt is extended by generated_text only if there is any.
Remaining == IF Resumes /\ text > 0 THEN expected_output_len - output_tokens
                                    ELSE expected_output_len

\* Mutant: the shortcut for a finished output is missing.
AttemptPostsAnyway ==
  /\ pc = "queued"
  /\ UseOutput
  /\ remaining_tokens' = Remaining
  /\ first_chunk_received' = Resumes
  /\ sent' = 0 /\ withheld' = 0 /\ finished' = FALSE
  /\ pc' = "streaming"
  /\ UNCHANGED <<inputs, has_output, retried, faults>>

\* Mutant: the same, where the server refuses a request for no tokens.
AttemptWithoutShortcut ==
  /\ pc = "queued"
  /\ UseOutput
  /\ remaining_tokens' = Remaining
  /\ first_chunk_received' = Resumes
  /\ sent' = 0 /\ withheld' = 0 /\ finished' = FALSE
  /\ IF Remaining <= 0 THEN pc' = "queued" /\ retried' = TRUE
                       ELSE pc' = "streaming" /\ UNCHANGED retried
  /\ UNCHANGED <<inputs, has_output, faults>>

\* The attempt up to session.post; an output that lacks nothing is a success.
Attempt ==
  /\ pc = "queued"
  /\ UseOutput
  /\ remaining_tokens' = Remaining
  /\ first_chunk_received' = Resumes
  /\ sent' = 0 /\ withheld' = 0 /\ finished' = FALSE
  /\ pc' = IF mode = "migration" /\ Remaining <= 0 THEN "completed" ELSE "streaming"
  /\ UNCHANGED <<inputs, has_output, retried, faults>>

\* send_request found no pipeline at the index: the handler never ran.
StaleIndex ==
  /\ pc = "queued"
  /\ Fault
  /\ retried' = TRUE
  /\ UNCHANGED <<inputs, pc, has_output, outputVars, attemptVars>>

\* Mutant: the count at the finish chunk forgets the first token, whose
\* latency is not in itl.
CountForgetsFirst(n) == n
CountAtFinish(n) == n + 1

\* One chunk with choices.  "eos" is a finish chunk the model chose to send.
Chunk(kind) ==
  LET itlNow == IF first_chunk_received THEN itl + 1 ELSE itl
      last == kind = "eos" \/ sent + 1 = remaining_tokens IN
  /\ pc = "streaming" /\ ~finished
  /\ kind = "withheld" => characters = "split" /\ withheld < MaxWithheld /\ ~last
  /\ kind = "eos" => ~ignore_eos
  /\ text' = text + (IF kind = "text" THEN 1 ELSE 0)
                  + (IF kind = "withheld" THEN 0 ELSE withheld)
  /\ withheld' = IF kind = "withheld" THEN withheld + 1 ELSE 0
  /\ ttft_set' = (ttft_set \/ ~first_chunk_received)
  /\ first_chunk_received' = TRUE
  /\ itl' = itlNow
  /\ output_tokens' = IF last THEN CountAtFinish(itlNow) ELSE output_tokens + 1
  /\ sent' = sent + 1
  /\ finished' = last
  /\ UNCHANGED <<inputs, pc, has_output, retried, remaining_tokens, faults>>

\* Mutant: the output of the failed attempt is dropped.
FailDropsOutput ==
  /\ pc' = "queued"
  /\ retried' = TRUE
  /\ UNCHANGED <<inputs, has_output, outputVars, attemptVars>>
\* The handler returned with success = False (or an exception that it turned
\* into that): _handle_request stores the output and queues the request.
Fail ==
  /\ pc' = "queued"
  /\ has_output' = TRUE
  /\ retried' = TRUE
  /\ UNCHANGED <<inputs, outputVars, attemptVars>>

\* No connection, an HTTP error, or an exception while reading the stream,
\* perhaps after the finish chunk and before [DONE].
Broken ==
  /\ pc = "streaming"
  /\ Fault
  /\ Fail

\* [DONE] has come, or (a fault) the response ends before any finish chunk.
EndOfStream == (finished /\ UNCHANGED faults) \/ (~finished /\ Fault)

Succeed ==
  /\ pc' = "completed"
  /\ has_output' = TRUE
  /\ UNCHANGED <<inputs, retried, outputVars, attemptVars>>

\* Mutant: a request one token short is accepted.
StreamEndsOffByOne ==
  /\ pc = "streaming"
  /\ EndOfStream
  /\ IF output_tokens + 1 < expected_output_len THEN Fail ELSE Succeed
\* success is set, then the token count is checked.
StreamEnds ==
  /\ pc = "streaming"
  /\ EndOfStream
  /\ IF output_tokens < expected_output_len THEN Fail ELSE Succeed

\* The assertion that ttft + sum(itl) is close to the latency, made after the
\* token count, fails.
LatencyMismatch ==
  /\ pc = "streaming"
  /\ finished /\ output_tokens >= expected_output_len
  /\ mode = "migration" => ~retried
  /\ Fault
  /\ Fail

Next ==
  \/ Attempt
  \/ StaleIndex
  \/ \E kind \in {"text", "withheld", "eos"} : Chunk(kind)
  \/ Broken
  \/ StreamEnds
  \/ LatencyMismatch
  \/ pc = "completed" /\ UNCHANGED vars

Spec == Init /\ [][Next]_vars

\* The scheduler attempts a queued request again and again, and the server
\* goes on with a stream: a fault is the other outcome of a stream's next
\* step, and there are MaxFaults of them.
Fairness ==
  /\ WF_vars(Attempt)
  /\ WF_vars((\E kind \in {"text", "eos"} : Chunk(kind)) \/ StreamEnds)

FairSpec == Spec /\ Fairness
-----------------------------------------------------------------------------
(* Properties.                                                             *)

FlagsOK ==
  /\ has_output \in BOOLEAN /\ retried \in BOOLEAN /\ ttft_set \in BOOLEAN
  /\ first_chunk_received \in BOOLEAN /\ finished \in BOOLEAN
  /\ ignore_eos \in BOOLEAN

\* Types; and no attempt receives more chunks than it asked for.
TypeOK ==
  /\ FlagsOK
  /\ mode \in {"migration", "re-routing"} /\ characters \in {"whole", "split"}
  /\ pc \in {"queued", "streaming", "completed"}
  /\ output_tokens \in Nat /\ itl \in Nat /\ text \in Nat
  /\ remaining_tokens \in Int /\ sent \in Nat /\ withheld \in Nat
  /\ pc = "streaming" => sent <= remaining_tokens
  /\ faults \in Nat

\* A migrated request whose chunks all have a text and whose streams do not
\* end early.
Plain == mode = "migration" /\ ignore_eos /\ characters = "whole"

\* Such a request is reported complete only when the client has the whole
\* text: exactly expected_output_len tokens, none lost and none generated
\* twice, however the attempts were cut.
CompleteIsWhole == Plain /\ pc = "completed" => text = expected_output_len

\* The count reported for it is the generated one, or one more when a resumed
\* attempt counts its first token as an inter-token latency.
CountIsClose == Plain /\ pc = "completed" => output_tokens - text \in {0, 1}

\* Why that is so: the count is the text's length until a finish chunk, each
\* attempt asks for exactly what is missing, and itl lacks the first token iff
\* ttft has it.
AccountingOK ==
  /\ withheld = 0
  /\ text <= expected_output_len
  /\ output_tokens - text \in {0, 1}
  /\ text < expected_output_len => output_tokens = text
  /\ itl = IF ttft_set THEN text - 1 ELSE text
  /\ pc = "queued" /\ ~has_output => text = 0 /\ output_tokens = 0
  /\ pc = "streaming" /\ ~first_chunk_received => text = 0 /\ ~ttft_set
  /\ pc = "streaming" => text + remaining_tokens - sent = expected_output_len
  /\ pc = "streaming" => (finished <=> sent = remaining_tokens)
  /\ pc = "completed" => text = expected_output_len
Accounting == Plain => AccountingOK

\* Migration never gives back what a request already has: neither the text
\* nor the count ever shrinks, across attempts and at the recount that the
\* finish chunk triggers.
NothingForgotten ==
  [][mode = "migration" => text' >= text /\ output_tokens' >= output_tokens]_vars

\* A migrated request completes although attempts fail and streams end early:
\* neither an overshoot nor an output cut after its last token is retried
\* forever.  (A re-routed one may end early every time.)
EventuallyComplete == mode = "migration" ~> pc = "completed"

\* In re-routing mode a request is complete only when one attempt has
\* generated all its tokens.
CompleteIsEnough ==
  mode = "re-routing" /\ pc = "completed" => sent >= expected_output_len
=============================================================================
