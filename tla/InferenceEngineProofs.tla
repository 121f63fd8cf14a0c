----------------------- MODULE InferenceEngineProofs -----------------------
(***************************************************************************)
(* Proofs about InferenceEngine, for any number of clients, prompts and    *)
(* limits, whether callbacks throw or not.                                 *)
(***************************************************************************)
EXTENDS InferenceEngine, SequenceTheorems, TLAPS

-----------------------------------------------------------------------------
(* The flags. *)

FlagInv ==
    /\ generating_ \in BOOLEAN /\ cancel_requested_ \in BOOLEAN
    /\ abandoned \in BOOLEAN /\ cancelled \in SUBSET Client
    /\ BusyHasOwner
    /\ cancelled # {} => cancel_requested_

Calls ==
    [at : CallPlaces, places : Seq(Nat), gen_step : 0..MaxTokens,
     results : 0..MaxTokens, told : Seq(Nat), ending : BOOLEAN]

CallsTyped == call \in [Client -> Calls] /\ current_length_ \in Nat

LEMMA EngineInitTyped == Init => CallsTyped
  <1> SUFFICES ASSUME Init PROVE CallsTyped
    OBVIOUS
  <1>1. << >> \in Seq(Nat) /\ 0 \in 0..MaxTokens
    BY EngineAssumption
  <1>2. NoCall \in Calls
    BY <1>1 DEF NoCall, Calls, CallPlaces
  <1> QED BY <1>2 DEF Init, CallsTyped

\* The first n results, in order.
Each(n) == [i \in 1..n |-> i]

\* How a call's numbers go together wherever it is.
CallInv(c) ==
    /\ c.at \in {"idle", "admitted", "claimed", "clear", "prefill", "refused"} =>
          c.results = 0 /\ c.gen_step = 0 /\ c.told = << >>
    /\ c.at \in {"idle", "admitted", "claimed", "clear", "refused"} => c.places = << >>
    /\ c.at = "prefill" => Len(c.places) < PromptTokens
    /\ c.at \in {"step", "sample", "tell", "forward"} =>
          Len(c.places) = PromptTokens + c.gen_step
    /\ c.at \in {"step", "sample"} => c.results = c.gen_step /\ c.told = Each(c.results)
    /\ c.at \in {"sample", "tell", "forward"} => c.gen_step < MaxTokens
    /\ c.at \in {"tell", "forward"} => c.results = c.gen_step + 1
    /\ c.at = "tell" => c.told = Each(c.gen_step)
    /\ c.at \in {"forward", "finish"} => c.told = Each(c.results)
    /\ c.at \in {"release", "done"} =>
          c.told = Each(c.results) \o (IF c.results = 0 THEN << >> ELSE << c.results >>)
    /\ Len(c.places) <= PromptTokens + MaxTokens
    /\ Len(c.told) <= MaxTokens + 1

LEMMA EachGrows ==
    ASSUME NEW n \in Nat
    PROVE  /\ Each(n) \in Seq(Nat) /\ Len(Each(n)) = n /\ Each(0) = << >>
           /\ Append(Each(n), n + 1) = Each(n + 1)
  <1>1. Each(n) \in Seq(Nat) /\ Len(Each(n)) = n
    BY DEF Each
  <1>2. Each(0) = << >>
    BY DEF Each
  <1>3. Append(Each(n), n + 1) = Each(n + 1)
    BY <1>1 DEF Each
  <1> QED BY <1>1, <1>2, <1>3

EngineInv ==
    /\ CallsTyped
    /\ \A t \in Client : CallInv(call[t])

LEMMA EngineInit == Init => EngineInv
  <1> SUFFICES ASSUME Init, NEW t \in Client PROVE CallInv(call[t])
    BY EngineInitTyped DEF EngineInv
  <1>1. call[t] = NoCall /\ Len(<< >>) = 0
    BY DEF Init
  <1> QED BY <1>1, EngineAssumption DEF CallInv, NoCall

\* A step of one call leaves the others as they are.
LEMMA OneCall ==
    ASSUME EngineInv, NEW t \in Client, NEW c \in Calls, call' = [call EXCEPT ![t] = c],
           current_length_' \in Nat, CallInv(c)
    PROVE  EngineInv'
  <1>1. call' \in [Client -> Calls]
    BY DEF EngineInv, CallsTyped
  <1>2. \A u \in Client : call'[u] = IF u = t THEN c ELSE call[u]
    BY DEF EngineInv, CallsTyped
  <1>3. \A u \in Client : CallInv(call'[u])
    BY <1>2 DEF EngineInv
  <1> QED BY <1>1, <1>3 DEF EngineInv, CallsTyped

\* A step that only changes the call's place.
LEMMA PlaceOnly ==
    ASSUME EngineInv, NEW t \in Client, NEW place \in CallPlaces, Goto(t, place),
           current_length_' \in Nat,
           place \in {"refused", "admitted", "claimed", "clear", "prefill"} =>
               call[t].at \in {"idle", "admitted", "claimed", "clear"},
           place = "sample" => call[t].at = "step" /\ call[t].gen_step < MaxTokens,
           place = "finish" => call[t].at \in {"step", "sample"},
           place = "done" => call[t].at = "release",
           place \notin {"idle", "step", "tell", "forward", "release"}
    PROVE  EngineInv'
  <1> DEFINE c == [call[t] EXCEPT !.at = place]
  <1>1. call[t] \in Calls /\ call \in [Client -> Calls] /\ CallInv(call[t])
    BY DEF EngineInv, CallsTyped
  <1>2. /\ c \in Calls /\ c.at = place /\ c.places = call[t].places
        /\ c.gen_step = call[t].gen_step /\ c.results = call[t].results
        /\ c.told = call[t].told
    BY <1>1 DEF Calls
  <1>3. call' = [call EXCEPT ![t] = c]
    BY <1>1 DEF Goto
  <1> HIDE DEF c
  <1>5. CallInv(c)
    <2>1. Len(<< >>) = 0 /\ PromptTokens > 0
      BY EngineAssumption
    <2>2. CASE place \in {"refused", "admitted", "claimed", "clear", "prefill"}
      BY <1>1, <1>2, <2>1, <2>2 DEF CallInv
    <2>3. CASE place = "sample"
      BY <1>1, <1>2, <2>3 DEF CallInv
    <2>4. CASE place = "finish"
      BY <1>1, <1>2, <2>4 DEF CallInv
    <2>5. CASE place \in {"done", "threw"}
      BY <1>1, <1>2, <2>5 DEF CallInv
    <2> QED BY <2>2, <2>3, <2>4, <2>5 DEF CallPlaces
  <1> QED BY <1>2, <1>3, <1>5, OneCall

LEMMA EngineNext == EngineInv /\ [Next]_vars => EngineInv'
  <1> SUFFICES ASSUME EngineInv, [Next]_vars PROVE EngineInv'
    OBVIOUS
  <1>1. CASE UNCHANGED <<call, current_length_>>
    BY <1>1 DEF EngineInv, CallsTyped, CallInv
  <1>2. ASSUME NEW t \in Client, Generate(t) \/ GenerateStep(t) PROVE EngineInv'
    <2>1. /\ call[t] \in Calls /\ call \in [Client -> Calls] /\ CallInv(call[t])
          /\ current_length_ \in Nat
      BY DEF EngineInv, CallsTyped
    <2>2. /\ call[t].places \in Seq(Nat) /\ call[t].told \in Seq(Nat)
          /\ call[t].gen_step \in 0..MaxTokens /\ call[t].results \in 0..MaxTokens
          /\ PromptTokens \in Nat \ {0} /\ MaxTokens \in Nat
          /\ Len(call[t].places) \in Nat /\ Len(call[t].told) \in Nat
          /\ call[t].gen_step \in Nat /\ call[t].results \in Nat
      BY <2>1, EngineAssumption DEF Calls
    <2>3. CASE Generate(t)
      BY <2>1, <2>3, PlaceOnly DEF Generate, At, CallPlaces
    <2>4. CASE Claim(t)
      BY <2>1, <2>4, PlaceOnly DEF Claim, At, CallPlaces
    <2>5. CASE ResetCancel(t)
      BY <2>1, <2>5, PlaceOnly DEF ResetCancel, At, CallPlaces
    <2>6. CASE ClearKV(t)
      BY <2>1, <2>6, PlaceOnly DEF ClearKV, At, CallPlaces
    <2>7. CASE Prefill(t)
      <3> DEFINE at == IF Len(Forward(t)) = PromptTokens THEN "step" ELSE "prefill"
                 c == [call[t] EXCEPT !.places = Forward(t), !.at = at]
      <3>1. Forward(t) \in Seq(Nat) /\ Len(Forward(t)) = Len(call[t].places) + 1
        BY <2>1, <2>2 DEF Forward
      <3>2. /\ c \in Calls /\ c.places = Forward(t) /\ c.at = at
            /\ c.gen_step = call[t].gen_step /\ c.results = call[t].results
            /\ c.told = call[t].told
        BY <2>1, <3>1 DEF Calls, CallPlaces
      <3>3. call' = [call EXCEPT ![t] = c] /\ call[t].at = "prefill"
        BY <2>1, <2>7 DEF Prefill, At
      <3> HIDE DEF c
      <3>5. /\ Len(call[t].places) < PromptTokens /\ call[t].results = 0
            /\ call[t].gen_step = 0 /\ call[t].told = << >>
        BY <2>1, <3>3 DEF CallInv
      <3>6. Each(0) = << >> /\ Len(<< >>) = 0
        BY EachGrows
      <3>7. CallInv(c)
        <4>1. Len(c.places) = Len(call[t].places) + 1
          BY <3>1, <3>2
        <4>2. c.results = 0 /\ c.gen_step = 0 /\ c.told = << >> /\ Len(c.told) = 0
          BY <3>2, <3>5, <3>6
        <4>3. \/ c.at = "step" /\ Len(c.places) = PromptTokens
              \/ c.at = "prefill" /\ Len(c.places) < PromptTokens
          BY <2>2, <3>1, <3>2, <3>5, <4>1
        <4> HIDE DEF at
        <4>4. CASE c.at = "step" /\ Len(c.places) = PromptTokens
          BY <2>2, <3>6, <4>2, <4>4 DEF CallInv
        <4>5. CASE c.at = "prefill" /\ Len(c.places) < PromptTokens
          BY <2>2, <4>1, <4>2, <4>5 DEF CallInv
        <4> QED BY <4>3, <4>4, <4>5
      <3> QED BY <2>1, <2>7, <3>2, <3>3, <3>7, OneCall DEF Prefill
    <2>8. CASE Step(t)
      <3>1. call[t].gen_step # MaxTokens => call[t].gen_step < MaxTokens
        BY <2>2
      <3>2. \/ Goto(t, "finish")
            \/ Goto(t, "sample") /\ call[t].gen_step < MaxTokens
        BY <2>8, <3>1 DEF Step
      <3> QED BY <2>1, <2>8, <3>2, PlaceOnly DEF Step, At, CallPlaces
    <2>9. CASE Sample(t)
      <3>1. CASE Goto(t, "finish")
        BY <2>1, <2>9, <3>1, PlaceOnly DEF Sample, At, CallPlaces
      <3>2. ASSUME NEW ending \in BOOLEAN,
                   call' = [call EXCEPT ![t].at = "tell", ![t].results = @ + 1,
                                        ![t].ending = ending]
            PROVE  EngineInv'
        <4> DEFINE c == [call[t] EXCEPT !.at = "tell", !.results = @ + 1, !.ending = ending]
        <4>1. /\ call[t].at = "sample" /\ call[t].results = call[t].gen_step
              /\ call[t].results < MaxTokens /\ call[t].told = Each(call[t].gen_step)
              /\ call[t].results + 1 \in 0..MaxTokens
          BY <2>1, <2>2, <2>9 DEF Sample, At, CallInv
        <4>2. /\ c \in Calls /\ c.at = "tell" /\ c.results = call[t].results + 1
              /\ c.gen_step = call[t].gen_step /\ c.places = call[t].places
              /\ c.told = call[t].told
          BY <2>1, <4>1 DEF Calls, CallPlaces
        <4>3. call' = [call EXCEPT ![t] = c]
          BY <2>1, <3>2
        <4> HIDE DEF c
        <4>5. CallInv(c)
          BY <2>1, <2>2, <4>1, <4>2 DEF CallInv
        <4> QED BY <2>1, <2>9, <4>2, <4>3, <4>5, OneCall DEF Sample
      <3> QED BY <2>9, <3>1, <3>2 DEF Sample
    <2>10. CASE Tell(t)
      <3> DEFINE at == IF call[t].ending THEN "finish" ELSE "forward"
                 c == [call[t] EXCEPT !.told = Append(@, call[t].results), !.at = at]
      <3>1. /\ call[t].at = "tell" /\ call[t].results = call[t].gen_step + 1
            /\ call[t].told = Each(call[t].gen_step)
        BY <2>1, <2>10 DEF Tell, At, CallInv
      <3>2. /\ Append(call[t].told, call[t].results) = Each(call[t].results)
            /\ Each(call[t].results) \in Seq(Nat)
            /\ Len(Each(call[t].results)) = call[t].results
        <4>1. Append(Each(call[t].gen_step), call[t].gen_step + 1) = Each(call[t].gen_step + 1)
          BY <2>2, EachGrows
        <4>2. /\ Each(call[t].results) \in Seq(Nat)
              /\ Len(Each(call[t].results)) = call[t].results
          BY <2>2, EachGrows
        <4> QED BY <3>1, <4>1, <4>2
      <3>3. /\ c \in Calls /\ c.at = at /\ c.results = call[t].results
            /\ c.gen_step = call[t].gen_step /\ c.places = call[t].places
            /\ c.told = Each(call[t].results)
        BY <2>1, <3>2 DEF Calls, CallPlaces
      <3>4. call' = [call EXCEPT ![t] = c]
        BY <2>1, <2>10 DEF Tell
      <3> HIDE DEF c
      <3>6. CallInv(c)
        BY <2>1, <2>2, <3>1, <3>2, <3>3 DEF CallInv
      <3> QED BY <2>1, <2>10, <3>3, <3>4, <3>6, OneCall DEF Tell
    <2>11. CASE NextToken(t)
      <3> DEFINE c == [call[t] EXCEPT !.places = Forward(t), !.gen_step = @ + 1, !.at = "step"]
      <3>1. Forward(t) \in Seq(Nat) /\ Len(Forward(t)) = Len(call[t].places) + 1
        BY <2>1, <2>2 DEF Forward
      <3>2. /\ call[t].at = "forward" /\ call[t].results = call[t].gen_step + 1
            /\ call[t].told = Each(call[t].results) /\ call[t].gen_step < MaxTokens
            /\ Len(call[t].places) = PromptTokens + call[t].gen_step
            /\ call[t].gen_step + 1 \in 0..MaxTokens
        BY <2>1, <2>2, <2>11 DEF NextToken, At, CallInv
      <3>3. /\ c \in Calls /\ c.at = "step" /\ c.results = call[t].results
            /\ c.gen_step = call[t].gen_step + 1 /\ c.places = Forward(t)
            /\ c.told = call[t].told
        BY <2>1, <3>1, <3>2 DEF Calls, CallPlaces
      <3>4. call' = [call EXCEPT ![t] = c]
        BY <2>1, <2>11 DEF NextToken
      <3> HIDE DEF c
      <3>5. /\ Len(c.places) = PromptTokens + c.gen_step
            /\ c.gen_step \in 0..MaxTokens /\ c.results = c.gen_step
            /\ c.told = Each(c.results) /\ Len(c.told) <= MaxTokens
        <4>1. Len(Each(call[t].results)) = call[t].results
          BY <2>2, EachGrows
        <4>2. Len(c.places) = Len(call[t].places) + 1
          BY <3>1, <3>3
        <4> QED BY <2>2, <3>2, <3>3, <4>1, <4>2 DEF Calls
      <3>6. CallInv(c)
        BY <2>2, <3>3, <3>5 DEF CallInv
      <3> QED BY <2>1, <2>11, <3>3, <3>4, <3>6, OneCall DEF NextToken
    <2>12. CASE Finish(t)
      <3> DEFINE n == call[t].results
                 told == Each(n) \o (IF n = 0 THEN << >> ELSE << n >>)
                 c == [call[t] EXCEPT !.told = told, !.at = "release"]
      <3>1. call[t].at = "finish" /\ call[t].told = Each(n) /\ n \in Nat /\ n <= MaxTokens
        BY <2>1, <2>2, <2>12 DEF Finish, At, CallInv
      <3> HIDE DEF n
      <3>2. Each(n) \in Seq(Nat) /\ Len(Each(n)) = n
        BY <3>1, EachGrows
      <3>3. told = IF n = 0 THEN Each(n) ELSE Append(Each(n), n)
        BY <3>1, <3>2
      <3>4. told \in Seq(Nat) /\ Len(told) <= MaxTokens + 1
        BY <2>2, <3>1, <3>2, <3>3
      <3>5. told = IF n = 0 THEN call[t].told ELSE Append(call[t].told, n)
        BY <3>1, <3>3
      <3> HIDE DEF told
      <3>6. /\ c \in Calls /\ c.at = "release" /\ c.results = n
            /\ c.gen_step = call[t].gen_step /\ c.places = call[t].places /\ c.told = told
        BY <2>1, <3>4 DEF Calls, CallPlaces, n
      <3>7. call' = [call EXCEPT ![t] = c]
        BY <2>1, <2>12, <3>5 DEF Finish, n
      <3> HIDE DEF c
      <3>9. CallInv(c)
        BY <2>1, <2>2, <3>1, <3>4, <3>6 DEF CallInv, told
      <3> QED BY <2>1, <2>12, <3>6, <3>7, <3>9, OneCall DEF Finish
    <2>13. CASE Release(t)
      BY <2>1, <2>13, PlaceOnly DEF Release, At, CallPlaces
    <2>14. CASE CallbackThrows(t)
      BY <2>1, <2>14, PlaceOnly DEF CallbackThrows, At, CallPlaces
    <2>15. CASE Return(t)
      <3>1. << >> \in Seq(Nat) /\ 0 \in 0..MaxTokens /\ Len(<< >>) = 0
        BY <2>2
      <3>2. NoCall \in Calls
        BY <3>1 DEF NoCall, Calls, CallPlaces
      <3>3. call' = [call EXCEPT ![t] = NoCall] /\ current_length_' \in Nat
        BY <2>1, <2>15 DEF Return
      <3>4. CallInv(NoCall)
        BY <2>2, <3>1 DEF CallInv, NoCall
      <3> QED BY <3>2, <3>3, <3>4, OneCall
    <2> QED BY <1>2, <2>3, <2>4, <2>5, <2>6, <2>7, <2>8, <2>9, <2>10, <2>11, <2>12,
               <2>13, <2>14, <2>15 DEF GenerateStep
  <1>3. CASE Cancel
    BY <1>1, <1>3 DEF Cancel
  <1>4. CASE UNCHANGED vars
    BY <1>1, <1>4 DEF vars
  <1> QED BY <1>2, <1>3, <1>4 DEF Next

-----------------------------------------------------------------------------
(* The flags' invariant. *)

LEMMA FlagInit == Init => FlagInv
  BY DEF Init, FlagInv, BusyHasOwner

LEMMA FlagNext == EngineInv /\ FlagInv /\ [Next]_vars => FlagInv'
  <1> SUFFICES ASSUME EngineInv, FlagInv, [Next]_vars PROVE FlagInv'
    OBVIOUS
  <1>1. call \in [Client -> Calls]
    BY DEF EngineInv, CallsTyped
  <1>2. ASSUME NEW t \in Client, Generate(t) \/ GenerateStep(t) PROVE FlagInv'
    <2> USE <1>2 DEF Generate, GenerateStep, Claim, ResetCancel, ClearKV, Prefill, Step,
                     Sample, Tell, NextToken, Finish, Release, CallbackThrows, Return,
                     history
    <2>1. /\ generating_' \in BOOLEAN /\ cancel_requested_' \in BOOLEAN
          /\ abandoned' \in BOOLEAN /\ cancelled' \in SUBSET Client
      BY DEF FlagInv
    <2>2. cancelled' # {} => cancel_requested_'
      BY DEF FlagInv
    <2>3. \A u \in Client \ {t} : call'[u] = call[u]
      BY <1>1 DEF Goto
    <2>4. \/ ~generating_'
          \/ abandoned'
          \/ InProgress(t)'
          \/ ~InProgress(t) /\ generating_' = generating_ /\ abandoned' = abandoned
      <3>1. call[t] \in Calls
        BY <1>1
      <3>2. CASE Generate(t)
        BY <3>2 DEF At, InProgress
      <3>3. CASE Return(t)
        BY <3>3 DEF At, InProgress
      <3>4. CASE Prefill(t) \/ Sample(t) \/ Tell(t) \/ NextToken(t)
        BY <1>1, <3>1, <3>4 DEF At, Goto, InProgress, Calls
      <3>5. CASE Claim(t) \/ ResetCancel(t) \/ ClearKV(t) \/ Step(t) \/ Finish(t)
        BY <1>1, <3>1, <3>5 DEF At, Goto, InProgress, Calls
      <3>6. CASE Release(t)
        BY <3>6
      <3>7. CASE CallbackThrows(t)
        BY <3>7
      <3> QED BY <3>2, <3>3, <3>4, <3>5, <3>6, <3>7
    <2>5. BusyHasOwner'
      <3> SUFFICES ASSUME generating_', ~abandoned'
                   PROVE  \E u \in Client : InProgress(u)'
        BY DEF BusyHasOwner
      <3>1. CASE InProgress(t)'
        BY <3>1
      <3>2. CASE ~InProgress(t) /\ generating_' = generating_ /\ abandoned' = abandoned
        <4>1. PICK u \in Client : InProgress(u)
          BY <3>2 DEF FlagInv, BusyHasOwner
        <4>2. u # t /\ call'[u] = call[u]
          BY <2>3, <3>2, <4>1
        <4> QED BY <4>1, <4>2 DEF InProgress
      <3> QED BY <2>4, <3>1, <3>2
    <2> QED BY <2>1, <2>2, <2>5 DEF FlagInv
  <1>3. CASE Cancel
    BY <1>3 DEF Cancel, FlagInv, BusyHasOwner, InProgress
  <1>4. CASE UNCHANGED vars
    BY <1>4 DEF vars, history, FlagInv, BusyHasOwner, InProgress
  <1> QED BY <1>2, <1>3, <1>4 DEF Next

-----------------------------------------------------------------------------
(* The theorems. *)

LEMMA EngineInvariant == Spec => [](EngineInv /\ FlagInv)
  <1>1. Init => EngineInv /\ FlagInv
    BY EngineInit, FlagInit
  <1>2. EngineInv /\ FlagInv /\ [Next]_vars => EngineInv' /\ FlagInv'
    BY EngineNext, FlagNext
  <1> QED BY <1>1, <1>2, PTL DEF Spec

(* The engine's state is of its type: a call passes at most PromptTokens +  *)
(* MaxTokens tokens through the layers and calls back at most once per       *)
(* result and once more (inference.cpp:295-376).                             *)
THEOREM EngineTypeCorrect == Spec => []TypeOK
  <1>1. EngineInv /\ FlagInv => TypeOK
    <2> SUFFICES ASSUME EngineInv, FlagInv PROVE TypeOK
      OBVIOUS
    <2>1. ASSUME NEW t \in Client
          PROVE  /\ call[t].at \in CallPlaces
                 /\ Len(call[t].places) <= PromptTokens + MaxTokens
                 /\ call[t].gen_step \in 0..MaxTokens
                 /\ call[t].results \in 0..MaxTokens
                 /\ Len(call[t].told) <= MaxTokens + 1
                 /\ call[t].ending \in BOOLEAN
      <3>1. call[t] \in Calls /\ CallInv(call[t])
        BY DEF EngineInv, CallsTyped
      <3> QED BY <3>1 DEF Calls, CallInv
    <2> QED BY <2>1 DEF TypeOK, EngineInv, CallsTyped, FlagInv
  <1> QED BY <1>1, EngineInvariant, PTL

(* A call that returns in an orderly way has told its callback every result *)
(* once and in order, and the last one once more (inference.cpp:336-339 and  *)
(* 366-370), whatever ended it and however many calls share the engine.      *)
THEOREM EngineEveryResultTold == Spec => []EveryResultTold
  <1>1. EngineInv => EveryResultTold
    BY DEF EngineInv, CallInv, EveryResultTold, Each, At
  <1> QED BY <1>1, EngineInvariant, PTL

(* An engine that says it is generating has a call in progress, unless a    *)
(* callback has thrown (generating_, inference.cpp:234-239 and 373), for any *)
(* number of clients admitted at once.                                       *)
THEOREM EngineBusyHasOwner == Spec => []BusyHasOwner
  <1>1. FlagInv => BusyHasOwner
    BY DEF FlagInv
  <1> QED BY <1>1, EngineInvariant, PTL

(* No call a cancel must end starts another token (cancel_requested_ at the *)
(* loop's head, inference.cpp:298), unless another call resets the flag.     *)
THEOREM EngineCancelEnds == Spec => CancelEnds
  <1>1. EngineInv /\ FlagInv /\ [Next]_vars => [\A t \in cancelled : ~StartsToken(t)]_vars
    <2> SUFFICES ASSUME EngineInv, FlagInv, Next, NEW t \in cancelled, StartsToken(t)
                 PROVE  FALSE
      OBVIOUS
    <2>1. cancel_requested_ /\ t \in Client /\ call \in [Client -> Calls]
      BY DEF FlagInv, EngineInv, CallsTyped
    <2>2. ASSUME NEW u \in Client, Generate(u) \/ GenerateStep(u), u # t
          PROVE  call'[t] = call[t]
      BY <2>1, <2>2 DEF Generate, GenerateStep, Claim, ResetCancel, ClearKV, Prefill,
                        Step, Sample, Tell, NextToken, Finish, Release, CallbackThrows,
                        Return, Goto
    <2>3. ASSUME Generate(t) \/ GenerateStep(t), At(t, "step")
          PROVE  call'[t].at = "finish"
      <3>1. Step(t)
        BY <2>3 DEF Generate, GenerateStep, Claim, ResetCancel, ClearKV, Prefill, Sample,
                    Tell, NextToken, Finish, Release, CallbackThrows, Return, At
      <3> QED BY <2>1, <3>1 DEF Step, Goto, Calls
    <2>4. CASE Cancel
      BY <2>4 DEF Cancel, StartsToken, At
    <2> QED BY <2>1, <2>2, <2>3, <2>4 DEF Next, StartsToken, At
  <1> QED BY <1>1, EngineInvariant, PTL DEF Spec, CancelEnds

=============================================================================
