------------------------ MODULE RequestHandlerProofs ------------------------
(***************************************************************************)
(* The token accounting, for every expected_output_len, every number of    *)
(* failures and every place a stream is cut.  Counting holds of all        *)
(* streams in both modes; from it follows that migration forgets nothing.  *)
(* Accounting adds what holds when every chunk has a text and no stream    *)
(* ends early: migration is then exact.  Rerouted is about the attempts of *)
(* the mode that starts over.                                              *)
(***************************************************************************)
EXTENDS RequestHandler, TLAPS

\* The count and the inter-token latencies never drift apart, an attempt that
\* has received nothing starts from an empty output, and one that is not
\* finished has tokens left to ask for.
Counting ==
  /\ itl <= output_tokens /\ output_tokens <= itl + 1
  /\ pc = "streaming" /\ ~first_chunk_received => text = 0 /\ output_tokens = 0
  /\ pc = "queued" /\ ~has_output => text = 0 /\ output_tokens = 0
  /\ pc = "streaming" /\ ~finished => sent < remaining_tokens

CountInv == TypeOK /\ Counting

\* The flags are Boolean in every state.
LEMMA InitFlags == Init => FlagsOK
  BY Zenon DEF Init, FlagsOK

\* Every step leaves the flags Boolean.
LEMMA StepFlags == FlagsOK /\ [Next]_vars => FlagsOK'
<1> SUFFICES ASSUME FlagsOK, [Next]_vars PROVE FlagsOK'
  OBVIOUS
<1>1. CASE Attempt
  BY <1>1, Zenon DEF Attempt, UseOutput, Resumes, FlagsOK, outputVars, inputs
<1>2. CASE StaleIndex
  BY <1>2, Zenon DEF StaleIndex, FlagsOK, outputVars, attemptVars, inputs
<1>3. ASSUME NEW kind \in {"text", "withheld", "eos"}, Chunk(kind) PROVE FlagsOK'
  BY <1>3, Zenon DEF Chunk, FlagsOK, inputs
<1>4. CASE Fail
  BY <1>4, Zenon DEF Fail, FlagsOK, outputVars, attemptVars, inputs
<1>5. CASE Succeed
  BY <1>5, Zenon DEF Succeed, FlagsOK, outputVars, attemptVars, inputs
<1>6. CASE UNCHANGED vars
  BY <1>6, Zenon DEF FlagsOK, vars, outputVars, attemptVars, inputs
<1>7. CASE Broken \/ StreamEnds \/ LatencyMismatch
  BY <1>4, <1>5, <1>7, Zenon DEF Broken, StreamEnds, LatencyMismatch
<1> QED BY <1>1, <1>2, <1>3, <1>6, <1>7, Zenon DEF Next

\* What the request is does not change.
LEMMA StepInputs == [Next]_vars => UNCHANGED <<mode, ignore_eos, characters>>
<1> SUFFICES ASSUME [Next]_vars PROVE UNCHANGED <<mode, ignore_eos, characters>>
  OBVIOUS
<1>1. UNCHANGED inputs
  BY Zenon DEF Next, Attempt, StaleIndex, Chunk, Broken, StreamEnds, LatencyMismatch,
               Fail, Succeed, vars
<1> QED BY <1>1, Zenon DEF inputs

-----------------------------------------------------------------------------
(* All streams.                                                            *)

\* Nothing has been counted before the first attempt.
LEMMA InitCount == Init => CountInv
<1> SUFFICES ASSUME Init PROVE CountInv
  OBVIOUS
<1>1. FlagsOK
  BY InitFlags
<1>2. TypeOK
  BY <1>1 DEF Init, TypeOK
<1>3. Counting
  BY <1>1 DEF Init, FlagsOK, Counting
<1> QED BY <1>2, <1>3 DEF CountInv

\* What an attempt does to the flags and to the output.
LEMMA AttemptMoves ==
  ASSUME CountInv, Attempt, FlagsOK'
  PROVE  /\ pc = "queued" /\ sent' = 0 /\ withheld' = 0 /\ ~finished'
         /\ UNCHANGED faults
         /\ has_output' <=> has_output
         /\ first_chunk_received' <=> mode = "migration" /\ has_output
         /\ mode = "migration" /\ has_output
              => UNCHANGED <<output_tokens, itl, ttft_set, text>>
         /\ ~(mode = "migration" /\ has_output)
              => output_tokens' = 0 /\ itl' = 0 /\ ~ttft_set' /\ text' = 0
         /\ remaining_tokens' = IF mode = "migration" /\ has_output /\ text > 0
                                THEN expected_output_len - output_tokens
                                ELSE expected_output_len
         /\ pc' = IF mode = "migration" /\ remaining_tokens' <= 0
                  THEN "completed" ELSE "streaming"
<1>1. /\ finished' = FALSE
      /\ first_chunk_received' = Resumes
      /\ UNCHANGED has_output
  BY Zenon DEF Attempt
<1>2. first_chunk_received' <=> mode = "migration" /\ has_output
  BY <1>1, Zenon DEF Resumes
<1>3. ASSUME mode = "migration", has_output
      PROVE  UNCHANGED <<output_tokens, itl, ttft_set, text>>
  BY <1>3, Zenon DEF Attempt, UseOutput, Resumes, outputVars
<1>4. ASSUME ~(mode = "migration" /\ has_output)
      PROVE  output_tokens' = 0 /\ itl' = 0 /\ ~ttft_set' /\ text' = 0
  BY <1>4, Zenon DEF Attempt, UseOutput, Resumes
<1>5. /\ pc = "queued" /\ sent' = 0 /\ withheld' = 0 /\ UNCHANGED faults
      /\ remaining_tokens' = IF mode = "migration" /\ has_output /\ text > 0
                             THEN expected_output_len - output_tokens
                             ELSE expected_output_len
      /\ pc' = IF mode = "migration" /\ remaining_tokens' <= 0
               THEN "completed" ELSE "streaming"
  BY DEF Attempt, Remaining, Resumes
<1> QED BY <1>1, <1>2, <1>3, <1>4, <1>5, Zenon

\* An attempt asks for a positive number of tokens or completes the request.
LEMMA AttemptCount ==
  ASSUME CountInv, Attempt, FlagsOK', UNCHANGED <<mode, characters>>
  PROVE  CountInv'
<1> USE RequestAssumption
<1>1. CASE mode = "migration" /\ has_output
  <2>1. TypeOK'
    BY <1>1, AttemptMoves DEF CountInv, TypeOK, Counting
  <2>2. Counting'
    BY <1>1, AttemptMoves DEF CountInv, TypeOK, FlagsOK, Counting
  <2> QED BY <2>1, <2>2 DEF CountInv
<1>2. CASE ~(mode = "migration" /\ has_output)
  <2>1. TypeOK'
    BY <1>2, AttemptMoves DEF CountInv, TypeOK
  <2>2. Counting'
    BY <1>2, AttemptMoves DEF CountInv, TypeOK, FlagsOK, Counting
  <2> QED BY <2>1, <2>2 DEF CountInv
<1> QED BY <1>1, <1>2

\* What a chunk does to the flags and to the counters.
LEMMA ChunkMoves ==
  ASSUME CountInv, NEW kind \in {"text", "withheld", "eos"}, Chunk(kind), FlagsOK'
  PROVE  /\ pc = "streaming" /\ pc' = "streaming" /\ ~finished /\ first_chunk_received'
         /\ text' = text + (IF kind = "text" THEN 1 ELSE 0)
                         + (IF kind = "withheld" THEN 0 ELSE withheld)
         /\ withheld' = IF kind = "withheld" THEN withheld + 1 ELSE 0
         /\ sent' = sent + 1 /\ UNCHANGED <<remaining_tokens, faults>>
         /\ ttft_set' <=> (ttft_set \/ ~first_chunk_received)
         /\ finished' <=> (kind = "eos" \/ sent + 1 = remaining_tokens)
         /\ itl' = IF first_chunk_received THEN itl + 1 ELSE itl
         /\ output_tokens' = IF kind = "eos" \/ sent + 1 = remaining_tokens
                             THEN itl' + 1 ELSE output_tokens + 1
<1>1. /\ pc = "streaming" /\ pc' = "streaming" /\ ~finished
      /\ text' = text + (IF kind = "text" THEN 1 ELSE 0)
                      + (IF kind = "withheld" THEN 0 ELSE withheld)
      /\ withheld' = IF kind = "withheld" THEN withheld + 1 ELSE 0
      /\ sent' = sent + 1 /\ UNCHANGED <<remaining_tokens, faults>>
  BY DEF Chunk
<1>2. /\ first_chunk_received' = TRUE
      /\ ttft_set' = (ttft_set \/ ~first_chunk_received)
      /\ finished' = (kind = "eos" \/ sent + 1 = remaining_tokens)
  BY Zenon DEF Chunk
<1>4. itl' = IF first_chunk_received THEN itl + 1 ELSE itl
  BY DEF Chunk
<1>5. output_tokens' = IF kind = "eos" \/ sent + 1 = remaining_tokens
                       THEN itl' + 1 ELSE output_tokens + 1
  BY <1>4 DEF Chunk, CountAtFinish
<1>3. /\ first_chunk_received'
      /\ ttft_set' <=> (ttft_set \/ ~first_chunk_received)
      /\ finished' <=> (kind = "eos" \/ sent + 1 = remaining_tokens)
  BY <1>2, Zenon
<1> QED BY <1>1, <1>3, <1>4, <1>5, Zenon

\* A chunk is one more token, whatever it carries.
LEMMA ChunkCount ==
  ASSUME CountInv, NEW kind \in {"text", "withheld", "eos"}, Chunk(kind), FlagsOK',
         UNCHANGED <<mode, characters>>
  PROVE  CountInv'
<1>0. /\ pc' = "streaming" /\ sent' = sent + 1
      /\ UNCHANGED <<mode, characters, remaining_tokens, faults>>
  BY ChunkMoves
<1>1. sent < remaining_tokens /\ sent \in Nat /\ remaining_tokens \in Int
  BY ChunkMoves DEF CountInv, TypeOK, Counting
<1>2. output_tokens \in Nat /\ itl \in Nat /\ text \in Nat /\ withheld \in Nat /\ faults \in Nat
  BY DEF CountInv, TypeOK
<1>3. itl' \in Nat /\ output_tokens' \in Nat /\ text' \in Nat /\ withheld' \in Nat
  BY <1>2, ChunkMoves
<1>4. TypeOK'
  BY <1>0, <1>1, <1>2, <1>3 DEF CountInv, TypeOK
<1>5. itl' <= output_tokens' /\ output_tokens' <= itl' + 1
  <2>1. CASE first_chunk_received
    BY <1>2, <2>1, ChunkMoves DEF CountInv, Counting
  <2>2. CASE ~first_chunk_received
    <3>1. output_tokens = 0 /\ itl = 0
      BY <1>2, <2>2, ChunkMoves DEF CountInv, Counting
    <3> QED BY <2>2, <3>1, ChunkMoves
  <2> QED BY <2>1, <2>2
<1>6. Counting'
  BY <1>1, <1>5, ChunkMoves DEF Counting
<1> QED BY <1>4, <1>6 DEF CountInv

\* The end of an attempt leaves the output as it is.
LEMMA EndCount ==
  ASSUME CountInv, FlagsOK', UNCHANGED <<mode, characters>>, Fail \/ Succeed, faults' \in Nat
  PROVE  CountInv'
<1>1. /\ pc' \in {"queued", "completed"} /\ has_output' = TRUE
      /\ UNCHANGED <<outputVars, attemptVars>>
  BY Zenon DEF Fail, Succeed
<1> QED BY <1>1 DEF CountInv, TypeOK, FlagsOK, Counting, outputVars, attemptVars

\* Every step keeps count and latencies together.
LEMMA StepCount == CountInv /\ [Next]_vars => CountInv'
<1> SUFFICES ASSUME CountInv, [Next]_vars PROVE CountInv'
  OBVIOUS
<1>0. FlagsOK /\ FlagsOK' /\ UNCHANGED <<mode, characters>>
  BY StepFlags, StepInputs DEF CountInv, TypeOK
<1>1. CASE Attempt
  BY <1>0, <1>1, AttemptCount
<1>2. CASE StaleIndex
  <2>1. faults' = faults + 1 /\ UNCHANGED <<pc, has_output, outputVars, attemptVars>>
    BY <1>2, Zenon DEF StaleIndex, Fault
  <2> QED BY <1>0, <2>1 DEF CountInv, TypeOK, FlagsOK, Counting, outputVars, attemptVars
<1>3. CASE \E kind \in {"text", "withheld", "eos"} : Chunk(kind)
  BY <1>0, <1>3, ChunkCount
<1>4. CASE Broken \/ StreamEnds \/ LatencyMismatch
  <2>1. (Fail \/ Succeed) /\ faults' \in Nat
    BY <1>4 DEF Broken, StreamEnds, LatencyMismatch, EndOfStream, Fault, CountInv, TypeOK
  <2> QED BY <1>0, <2>1, EndCount
<1>5. CASE UNCHANGED vars
  BY <1>0, <1>5 DEF vars, CountInv, TypeOK, Counting, outputVars, attemptVars
<1> QED BY <1>1, <1>2, <1>3, <1>4, <1>5 DEF Next

\* The variables have their types, in both modes and for all streams; in
\* particular no attempt receives more chunks than it asked for.
THEOREM StreamTypes == Spec => []TypeOK
<1>1. CountInv => TypeOK
  BY DEF CountInv
<1> QED BY <1>1, InitCount, StepCount, PTL DEF Spec

\* No step of a migrated request gives back text or lowers the count, also
\* when streams end early or hold text back.
THEOREM MigrationForgetsNothing == Spec => NothingForgotten
<1>1. CountInv /\ [Next]_vars
        => [mode = "migration" => text' >= text /\ output_tokens' >= output_tokens]_vars
  <2> SUFFICES ASSUME CountInv, Next, mode = "migration"
               PROVE  text' >= text /\ output_tokens' >= output_tokens
    OBVIOUS
  <2>0. FlagsOK'
    BY StepFlags DEF CountInv, TypeOK
  <2>1. CASE Attempt
    <3>1. CASE has_output
      BY <2>0, <2>1, <3>1, AttemptMoves DEF CountInv, TypeOK
    <3>2. CASE ~has_output
      BY <2>0, <2>1, <3>2, AttemptMoves DEF CountInv, TypeOK, Counting
    <3> QED BY <3>1, <3>2
  <2>2. ASSUME NEW kind \in {"text", "withheld", "eos"}, Chunk(kind)
        PROVE  text' >= text /\ output_tokens' >= output_tokens
    BY <2>0, <2>2, ChunkMoves DEF CountInv, TypeOK, Counting
  <2>3. CASE UNCHANGED outputVars
    BY <2>3 DEF outputVars, CountInv, TypeOK
  <2>4. CASE StaleIndex \/ Broken \/ StreamEnds \/ LatencyMismatch \/ UNCHANGED vars
    BY <2>3, <2>4
       DEF StaleIndex, Broken, StreamEnds, LatencyMismatch, Fail, Succeed, vars
  <2> QED BY <2>1, <2>2, <2>4 DEF Next
<1> QED BY <1>1, InitCount, StepCount, PTL DEF Spec, NothingForgotten

-----------------------------------------------------------------------------
(* Plain streams.                                                          *)

\* An attempt asks for exactly the tokens the output lacks.
LEMMA AttemptAccounting ==
  ASSUME Plain, CountInv, AccountingOK, Attempt, FlagsOK'
  PROVE  AccountingOK'
<1> USE RequestAssumption
<1>m. mode = "migration"
  BY DEF Plain
<1>1. CASE has_output
  BY <1>m, <1>1, AttemptMoves DEF CountInv, TypeOK, FlagsOK, AccountingOK
<1>2. CASE ~has_output
  BY <1>m, <1>2, AttemptMoves DEF CountInv, TypeOK, FlagsOK, AccountingOK
<1> QED BY <1>1, <1>2

\* A chunk adds one token to text and count alike.
LEMMA ChunkAccounting ==
  ASSUME Plain, CountInv, AccountingOK, FlagsOK',
         NEW kind \in {"text", "withheld", "eos"}, Chunk(kind)
  PROVE  AccountingOK'
<1> USE RequestAssumption
<1>1. kind = "text"
  BY Zenon DEF Chunk, Plain
<1>2. /\ text' = text + 1 /\ withheld' = 0
      /\ pc = "streaming" /\ pc' = "streaming" /\ ~finished
  BY <1>1, ChunkMoves DEF CountInv, TypeOK, AccountingOK
<1>3. /\ output_tokens = text /\ text < expected_output_len
      /\ sent < remaining_tokens
  BY <1>2 DEF CountInv, TypeOK, FlagsOK, Counting, AccountingOK
<1>4. itl' = IF ttft_set' THEN text' - 1 ELSE text'
  <2>1. CASE first_chunk_received
    BY <1>2, <2>1, ChunkMoves DEF CountInv, TypeOK, AccountingOK
  <2>2. CASE ~first_chunk_received
    BY <1>2, <2>2, ChunkMoves DEF CountInv, TypeOK, AccountingOK
  <2> QED BY <2>1, <2>2
<1> QED BY <1>1, <1>2, <1>3, <1>4, ChunkMoves DEF CountInv, TypeOK, FlagsOK, AccountingOK

\* Every step of a plain request keeps the accounting right.
LEMMA StepAccounting == CountInv /\ Accounting /\ [Next]_vars => Accounting'
<1> SUFFICES ASSUME CountInv, Accounting, [Next]_vars, Plain' PROVE AccountingOK'
  BY DEF Accounting
<1>0. FlagsOK /\ FlagsOK'
  BY StepFlags DEF CountInv, TypeOK
<1>m. Plain
  BY StepInputs, Zenon DEF Plain
<1>a. AccountingOK
  BY <1>m DEF Accounting
<1>1. CASE Attempt
  BY <1>0, <1>m, <1>a, <1>1, AttemptAccounting
<1>2. CASE StaleIndex
  <2>1. pc = "queued" /\ UNCHANGED <<pc, has_output, outputVars, attemptVars>>
    BY <1>2, Zenon DEF StaleIndex
  <2> QED BY <1>0, <1>a, <2>1 DEF AccountingOK, outputVars, attemptVars
<1>3. CASE \E kind \in {"text", "withheld", "eos"} : Chunk(kind)
  BY <1>0, <1>m, <1>a, <1>3, ChunkAccounting
<1>4. ASSUME Fail PROVE AccountingOK'
  <2>1. pc' = "queued" /\ has_output' = TRUE /\ UNCHANGED <<outputVars, attemptVars>>
    BY <1>4, Zenon DEF Fail
  <2> QED BY <1>0, <1>a, <2>1, RequestAssumption
        DEF FlagsOK, AccountingOK, outputVars, attemptVars
<1>5. CASE Broken \/ LatencyMismatch
  BY <1>4, <1>5 DEF Broken, LatencyMismatch
<1>6. CASE StreamEnds
  <2>1. CASE Fail
    BY <1>4, <2>1
  <2>2. CASE Succeed /\ ~(output_tokens < expected_output_len)
    <3>1. text = expected_output_len
      BY <1>a, <2>2, RequestAssumption DEF CountInv, TypeOK, AccountingOK
    <3>2. pc' = "completed" /\ UNCHANGED <<outputVars, attemptVars>>
      BY <2>2, Zenon DEF Succeed
    <3> QED BY <1>0, <1>a, <3>1, <3>2, RequestAssumption
          DEF FlagsOK, AccountingOK, outputVars, attemptVars
  <2> QED BY <1>6, <2>1, <2>2 DEF StreamEnds
<1>7. CASE UNCHANGED vars
  BY <1>0, <1>a, <1>7 DEF vars, AccountingOK, outputVars, attemptVars
<1> QED BY <1>1, <1>2, <1>3, <1>5, <1>6, <1>7 DEF Next

\* Every attempt of a plain request asks for exactly the tokens that are
\* missing, and the count follows the text until a finish chunk.
THEOREM AccountingHolds == Spec => []Accounting
<1>1. Init => Accounting
  <2> SUFFICES ASSUME Init PROVE AccountingOK
    BY DEF Accounting
  <2>1. FlagsOK
    BY InitFlags
  <2> QED BY <2>1, RequestAssumption DEF Init, FlagsOK, AccountingOK
<1> QED BY <1>1, InitCount, StepCount, StepAccounting, PTL DEF Spec

\* A plain request is complete exactly when it has all its tokens, for every
\* length and every sequence of failed attempts.
THEOREM MigrationIsWhole == Spec => []CompleteIsWhole
<1>1. Accounting => CompleteIsWhole
  BY DEF Accounting, AccountingOK, CompleteIsWhole
<1> QED BY <1>1, AccountingHolds, PTL

\* The count reported for a plain request is off by one at most.
THEOREM MigrationCountsClose == Spec => []CountIsClose
<1>1. Accounting => CountIsClose
  BY DEF Accounting, AccountingOK, CountIsClose
<1> QED BY <1>1, AccountingHolds, PTL

-----------------------------------------------------------------------------
(* Re-routing.                                                             *)

\* A re-routed attempt counts its own chunks only: its latencies are those
\* after its first chunk, so neither the running count nor the recount at the
\* finish chunk exceeds what it received.
Rerouted ==
  mode = "re-routing" =>
    /\ pc = "streaming" => /\ output_tokens <= sent
                           /\ ~first_chunk_received => sent = 0 /\ itl = 0
                           /\ first_chunk_received => itl = sent - 1
    /\ pc = "completed" => sent >= expected_output_len

\* Every step keeps the count of a re-routed attempt.
LEMMA StepRerouted == CountInv /\ Rerouted /\ [Next]_vars => Rerouted'
<1> SUFFICES ASSUME CountInv, Rerouted, [Next]_vars, mode' = "re-routing" PROVE Rerouted'
  BY DEF Rerouted
<1>0. FlagsOK'
  BY StepFlags DEF CountInv, TypeOK
<1>m. mode = "re-routing"
  BY StepInputs
<1>t. output_tokens \in Nat /\ itl \in Nat /\ sent \in Nat
  BY DEF CountInv, TypeOK
<1>1. CASE Attempt
  BY <1>0, <1>m, <1>1, AttemptMoves DEF Rerouted
<1>2. CASE StaleIndex
  <2>1. pc' = "queued"
    BY <1>2, Zenon DEF StaleIndex
  <2> QED BY <2>1 DEF Rerouted
<1>3. ASSUME NEW kind \in {"text", "withheld", "eos"}, Chunk(kind) PROVE Rerouted'
  <2>1. /\ pc' = "streaming" /\ first_chunk_received' /\ sent' = sent + 1 /\ pc = "streaming"
        /\ itl' = IF first_chunk_received THEN itl + 1 ELSE itl
        /\ output_tokens' \in {itl' + 1, output_tokens + 1}
    BY <1>0, <1>3, ChunkMoves
  <2>2. itl' = sent' - 1
    <3>1. CASE first_chunk_received
      BY <1>m, <1>t, <2>1, <3>1 DEF Rerouted
    <3>2. CASE ~first_chunk_received
      BY <1>m, <1>t, <2>1, <3>2 DEF Rerouted
    <3> QED BY <3>1, <3>2
  <2>3. output_tokens' <= sent'
    BY <1>m, <1>t, <2>1, <2>2 DEF Rerouted
  <2> QED BY <2>1, <2>2, <2>3 DEF Rerouted
<1>4. ASSUME Fail PROVE Rerouted'
  <2>1. pc' = "queued"
    BY <1>4, Zenon DEF Fail
  <2> QED BY <2>1 DEF Rerouted
<1>5. CASE Broken \/ LatencyMismatch
  BY <1>4, <1>5, Zenon DEF Broken, LatencyMismatch
<1>6. CASE StreamEnds
  <2>1. CASE Fail
    BY <1>4, <2>1
  <2>2. CASE Succeed /\ ~(output_tokens < expected_output_len) /\ pc = "streaming"
    <3>1. pc' = "completed" /\ UNCHANGED attemptVars
      BY <2>2, Zenon DEF Succeed
    <3>2. sent >= expected_output_len
      BY <1>m, <1>t, <2>2, RequestAssumption DEF Rerouted
    <3>3. sent' = sent
      BY <3>1, Zenon DEF attemptVars
    <3> QED BY <3>1, <3>2, <3>3 DEF Rerouted
  <2> QED BY <1>6, <2>1, <2>2 DEF StreamEnds
<1>7. CASE UNCHANGED vars
  BY <1>7 DEF vars, inputs, outputVars, attemptVars, Rerouted
<1> QED BY <1>1, <1>2, <1>3, <1>5, <1>6, <1>7, Zenon DEF Next

\* CompleteIsEnough: a re-routed request is complete only when one attempt has
\* generated all its tokens, for every length, every kind of chunk and every
\* sequence of failed attempts.
THEOREM ReroutedIsEnough == Spec => []CompleteIsEnough
<1>1. Init => Rerouted
  BY DEF Init, Rerouted
<1>2. Rerouted => CompleteIsEnough
  BY DEF Rerouted, CompleteIsEnough
<1> QED BY <1>1, <1>2, InitCount, StepCount, StepRerouted, PTL DEF Spec
=============================================================================
