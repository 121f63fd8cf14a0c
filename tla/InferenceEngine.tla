-------------------------- MODULE InferenceEngine --------------------------
(***************************************************************************)
(* Text generation: class InferenceEngine of engine/inference.{h,cpp} with *)
(* the part of its KVCacheManager it uses.  Its clients are the threads    *)
(* HTTPServer starts, one per connection, which all call generate on the   *)
(* one engine.                                                             *)
(*                                                                         *)
(* A step ends at every access to the two flags, at every callback and at  *)
(* every pass of a token through the transformer, which is one step.  A    *)
(* token is only what the loop tells apart; it is known by its number in   *)
(* the call: the prompt's first, then the generated ones.                  *)
(***************************************************************************)
EXTENDS Integers, Sequences

CONSTANTS
    Client,          \* the threads that call generate
    PromptTokens,    \* tokens of a prompt, bos included
    MaxTokens,       \* max_tokens of a request
    CallbacksThrow   \* may a callback throw?

ASSUME EngineAssumption ==
    /\ PromptTokens \in Nat \ {0}
    /\ MaxTokens \in Nat
    /\ CallbacksThrow \in BOOLEAN

VARIABLES
    generating_,
    cancel_requested_,
    current_length_,     \* of kv_cache_
    call,                \* client -> its call of generate
    cancelled,           \* history: the calls that the last cancel must end
    abandoned            \* history: a callback has thrown since the last release

history == <<cancelled, abandoned>>
vars == <<generating_, cancel_requested_, current_length_, call, history>>

NoCall == [at |-> "idle",
           places |-> <<>>,      \* where each token's keys and values went
           gen_step |-> 0,
           results |-> 0,        \* how many tokens the call has produced
           told |-> <<>>,        \* the results the callback was called with
           ending |-> FALSE]     \* the last result ends the text

Init ==
    /\ generating_ = FALSE
    /\ cancel_requested_ = FALSE
    /\ current_length_ = 0
    /\ call = [t \in Client |-> NoCall]
    /\ cancelled = {}
    /\ abandoned = FALSE

At(t, place) == call[t].at = place
Goto(t, place) == call' = [call EXCEPT ![t].at = place]

-----------------------------------------------------------------------------
\* if (generating_) return results;
Generate(t) ==
    /\ At(t, "idle")
    /\ Goto(t, IF generating_ THEN "refused" ELSE "admitted")
    /\ UNCHANGED <<generating_, cancel_requested_, current_length_, history>>

\* Mutant of Claim: waits for the engine where another call has it.
ClaimWaits(t) ==
    /\ At(t, "admitted")
    /\ ~generating_
    /\ generating_' = TRUE
    /\ Goto(t, "claimed")
    /\ UNCHANGED <<cancel_requested_, current_length_, history>>

Claim(t) ==
    /\ At(t, "admitted")
    /\ generating_' = TRUE
    /\ Goto(t, "claimed")
    /\ UNCHANGED <<cancel_requested_, current_length_, history>>

\* cancel_requested_ = false; the prompt is built and tokenized.
ResetCancel(t) ==
    /\ At(t, "claimed")
    /\ cancel_requested_' = FALSE
    /\ Goto(t, "clear")
    /\ cancelled' = {}
    /\ UNCHANGED <<generating_, current_length_, abandoned>>

\* kv_cache_->clear()
ClearKV(t) ==
    /\ At(t, "clear")
    /\ current_length_' = 0
    /\ Goto(t, "prefill")
    /\ UNCHANGED <<generating_, cancel_requested_, history>>

\* One token through all layers.  Each layer writes its keys and values at
\* used_entries(); only KVCacheManager::store, which nobody calls, moves that.
Forward(t) == Append(call[t].places, current_length_)

Prefill(t) ==
    /\ At(t, "prefill")
    /\ call' = [call EXCEPT
          ![t].places = Forward(t),
          ![t].at = IF Len(Forward(t)) = PromptTokens THEN "step" ELSE "prefill"]
    /\ UNCHANGED <<generating_, cancel_requested_, current_length_, history>>

\* Mutant of Step: the loop does not look at cancel_requested_.
StepIgnoresCancel(t) ==
    /\ At(t, "step")
    /\ Goto(t, IF call[t].gen_step = MaxTokens THEN "finish" ELSE "sample")
    /\ UNCHANGED <<generating_, cancel_requested_, current_length_, history>>

\* The head of the generation loop.
Step(t) ==
    /\ At(t, "step")
    /\ Goto(t, IF call[t].gen_step = MaxTokens \/ cancel_requested_
               THEN "finish" ELSE "sample")
    /\ UNCHANGED <<generating_, cancel_requested_, current_length_, history>>

\* compute_logits and sample_token.  A stop token ends the loop without a
\* result; eos and a text with a stop string are the last result.
Sample(t) ==
    /\ At(t, "sample")
    /\ \/ Goto(t, "finish")
       \/ \E ending \in BOOLEAN :
             call' = [call EXCEPT ![t].at = "tell", ![t].results = @ + 1,
                                  ![t].ending = ending]
    /\ UNCHANGED <<generating_, cancel_requested_, current_length_, history>>

\* Mutant of Tell: the loop ends before the callback gets the last token.
TellNotTheLast(t) ==
    /\ At(t, "tell")
    /\ call' = [call EXCEPT
          ![t].told = IF call[t].ending THEN @ ELSE Append(@, call[t].results),
          ![t].at = IF call[t].ending THEN "finish" ELSE "forward"]
    /\ UNCHANGED <<generating_, cancel_requested_, current_length_, history>>

Tell(t) ==
    /\ At(t, "tell")
    /\ call' = [call EXCEPT
          ![t].told = Append(@, call[t].results),
          ![t].at = IF call[t].ending THEN "finish" ELSE "forward"]
    /\ UNCHANGED <<generating_, cancel_requested_, current_length_, history>>

\* Mutant of NextToken: gen_step is not incremented.
NextTokenUncounted(t) ==
    /\ At(t, "forward")
    /\ Goto(t, "step")
    /\ UNCHANGED <<generating_, cancel_requested_, current_length_, history>>

\* The generated token goes through the transformer.
NextToken(t) ==
    /\ At(t, "forward")
    /\ call' = [call EXCEPT ![t].places = Forward(t), ![t].gen_step = @ + 1,
                            ![t].at = "step"]
    /\ UNCHANGED <<generating_, cancel_requested_, current_length_, history>>

\* "Mark final token": the callback gets the last result once more.
Finish(t) ==
    /\ At(t, "finish")
    /\ call' = [call EXCEPT
          ![t].told = IF call[t].results = 0 THEN @ ELSE Append(@, call[t].results),
          ![t].at = "release"]
    /\ UNCHANGED <<generating_, cancel_requested_, current_length_, history>>

\* Mutant of Release: the flag is reset only if there are results.
ReleaseIfAny(t) ==
    /\ At(t, "release")
    /\ generating_' = (generating_ /\ call[t].results = 0)
    /\ Goto(t, "done")
    /\ abandoned' = FALSE
    /\ UNCHANGED <<cancel_requested_, current_length_, cancelled>>

Release(t) ==
    /\ At(t, "release")
    /\ generating_' = FALSE
    /\ Goto(t, "done")
    /\ abandoned' = FALSE
    /\ UNCHANGED <<cancel_requested_, current_length_, cancelled>>

\* An exception of the callback leaves generate at once.
CallbackThrows(t) ==
    /\ CallbacksThrow
    /\ At(t, "tell") \/ (At(t, "finish") /\ call[t].results > 0)
    /\ Goto(t, "threw")
    /\ abandoned' = TRUE
    /\ UNCHANGED <<generating_, cancel_requested_, current_length_, cancelled>>

Return(t) ==
    /\ call[t].at \in {"done", "refused", "threw"}
    /\ call' = [call EXCEPT ![t] = NoCall]
    /\ cancelled' = cancelled \ {t}
    /\ UNCHANGED <<generating_, cancel_requested_, current_length_, abandoned>>

\* Where a call is between claiming the engine and giving it back.
InProgress(t) ==
    call[t].at \in {"claimed", "clear", "prefill", "step", "sample", "tell",
                    "forward", "finish", "release"}

Cancel ==
    /\ cancel_requested_' = TRUE
    /\ cancelled' = {t \in Client : InProgress(t) /\ ~At(t, "claimed")}
    /\ UNCHANGED <<generating_, current_length_, call, abandoned>>

-----------------------------------------------------------------------------
GenerateStep(t) ==
    \/ Claim(t) \/ ResetCancel(t) \/ ClearKV(t) \/ Prefill(t)
    \/ Step(t) \/ Sample(t) \/ Tell(t) \/ NextToken(t)
    \/ Finish(t) \/ Release(t) \/ CallbackThrows(t) \/ Return(t)

Next ==
    \/ \E t \in Client : Generate(t) \/ GenerateStep(t)
    \/ Cancel

\* A thread inside generate is scheduled; callbacks return.
Fairness == \A t \in Client : WF_vars(GenerateStep(t))

Spec == Init /\ [][Next]_vars /\ Fairness

-----------------------------------------------------------------------------
CallPlaces ==
    {"idle", "admitted", "claimed", "clear", "prefill", "step", "sample", "tell",
     "forward", "finish", "release", "done", "refused", "threw"}

TypeOK ==
    /\ generating_ \in BOOLEAN
    /\ cancel_requested_ \in BOOLEAN
    /\ current_length_ \in Nat
    /\ cancelled \in SUBSET Client
    /\ abandoned \in BOOLEAN
    /\ \A t \in Client :
          /\ call[t].at \in CallPlaces
          /\ Len(call[t].places) <= PromptTokens + MaxTokens
          /\ call[t].gen_step \in 0..MaxTokens
          /\ call[t].results \in 0..MaxTokens
          /\ Len(call[t].told) <= MaxTokens + 1
          /\ call[t].ending \in BOOLEAN

(* A call that returns has told its callback every result, in order, and    *)
(* then the last one once more (inference.cpp:336-339, 366-370), however it *)
(* ended: eos, stop string, stop token, cancellation or max_tokens.         *)
EveryResultTold ==
    \A t \in Client :
        LET n == call[t].results
            each == [i \in 1..n |-> i]
        IN At(t, "done") =>
              call[t].told = each \o (IF n = 0 THEN <<>> ELSE <<n>>)

(* is_generating: "Check if generation is in progress" (inference.h:45): an *)
(* engine that says it is busy has a call in progress, also when several    *)
(* clients were admitted at once, unless a callback has thrown and no call  *)
(* has ended in an orderly way since.                                       *)
BusyHasOwner == generating_ => abandoned \/ \E t \in Client : InProgress(t)

(* Every call returns, at the latest after max_tokens tokens, and whatever  *)
(* the other clients do.                                                    *)
CallsReturn == \A t \in Client : ~At(t, "idle") ~> At(t, "idle")

(* "Generation already in progress" (inference.cpp:235): two calls never    *)
(* share the hidden state, the logits and the KV cache.                     *)
OneGeneration ==
    \A t, u \in Client : InProgress(t) /\ InProgress(u) => t = u

(* "Cancel ongoing generation" (inference.h:42): a call that has passed its *)
(* reset of the flag when cancel is called starts no further token, unless  *)
(* another call that was admitted with it resets the flag again.            *)
StartsToken(t) == At(t, "step") /\ call'[t].at = "sample"
CancelEnds == [][\A t \in cancelled : ~StartsToken(t)]_vars

=============================================================================
