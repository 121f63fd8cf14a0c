------------------------------ MODULE Sampler ------------------------------
(***************************************************************************)
(* How the next token is drawn: InferenceEngine::sample_token of           *)
(* engine/inference.cpp, one step per phase.  Probabilities are integers   *)
(* in units of 1/One, exact where the code rounds; the random number is a  *)
(* multiple of 1/One too.  Temperature and softmax make some distribution  *)
(* of whatever the logits are; here it may be any.                         *)
(***************************************************************************)
EXTENDS Integers, FiniteSets, FiniteSetsExt, Functions

CONSTANTS
    NVocab,     \* config_.n_vocab
    One         \* the probability 1

ASSUME SamplerAssumption == {NVocab, One} \subseteq Nat \ {0}

VARIABLES
    phase,      \* "idle", "top_k", "top_p", "draw", "drawn"
    softmaxed,  \* history: the distribution before the filters
    logits_,
    top_k, top_p,
    token       \* what was drawn; 0 before

samplerVars == <<phase, softmaxed, logits_, top_k, top_p, token>>

Token == 0..NVocab - 1

Mass(of, tokens) == SumFunctionOnSet(of, tokens)

Nothing == [i \in Token |-> 0]

SamplerInit ==
    /\ phase = "idle"
    /\ softmaxed = Nothing /\ logits_ = Nothing
    /\ top_k = 0 /\ top_p = 0
    /\ token = 0

\* sample_token is called with a request's settings; temperature and softmax.
Softmax ==
    /\ phase = "idle"
    /\ softmaxed' \in {d \in [Token -> 0..One] : Mass(d, Token) = One}
    /\ logits_' = softmaxed'
    /\ top_k' \in 0..NVocab + 1
    /\ top_p' \in 0..One
    /\ phase' = "top_k"
    /\ UNCHANGED token

-----------------------------------------------------------------------------
\* The k-th largest probability.
Threshold ==
    Max({logits_[i] : i \in {i \in Token :
            Cardinality({j \in Token : logits_[j] >= logits_[i]}) >= top_k}})

Keep(tokens) == logits_' = [i \in Token |-> IF i \in tokens THEN logits_[i] ELSE 0]

\* Mutant of TopK: what equals the threshold goes, too.
TopKStrict ==
    /\ phase = "top_k"
    /\ Keep(IF top_k > 0 /\ top_k < NVocab
            THEN {i \in Token : logits_[i] > Threshold} ELSE Token)
    /\ phase' = "top_p"
    /\ UNCHANGED <<softmaxed, top_k, top_p, token>>

TopK ==
    /\ phase = "top_k"
    /\ Keep(IF top_k > 0 /\ top_k < NVocab
            THEN {i \in Token : logits_[i] >= Threshold} ELSE Token)
    /\ phase' = "top_p"
    /\ UNCHANGED <<softmaxed, top_k, top_p, token>>

\* The tokens in front of i in the descending order of (probability, token).
Ahead(i) ==
    {j \in Token : logits_[j] > logits_[i] \/ (logits_[j] = logits_[i] /\ j > i)}

\* Mutant of Nucleus: the token that reaches top_p is left out.
NucleusShort ==
    {i \in Token : logits_[i] > 0 /\ Mass(logits_, Ahead(i) \cup {i}) < top_p}

\* The tokens before the cutoff.  If no prefix reaches top_p the cutoff stays 0.
Nucleus ==
    {i \in Token :
        /\ logits_[i] > 0
        /\ Mass(logits_, Ahead(i)) < top_p \/ Ahead(i) = {}
        /\ Mass(logits_, Token) >= top_p}

TopP ==
    /\ phase = "top_p"
    /\ Keep(IF top_p < One THEN Nucleus ELSE Token)
    /\ phase' = "draw"
    /\ UNCHANGED <<softmaxed, top_k, top_p, token>>

\* The sums of the renormalized probabilities of 0..i, compared with r / One.
Reaches(i, r) ==
    LET sum == Mass(logits_, Token)
    IN  Mass(logits_, 0..i) * One >= r * (IF sum > 0 THEN sum ELSE One)

\* Mutant of Drawn: the sum is compared before the token is added to it.
DrawnLate(r) ==
    LET late == {i \in Token : Reaches(i - 1, r)}
    IN  IF late # {} THEN Min(late) ELSE 0

\* The first token whose sum reaches r, or else the first of the likeliest.
Drawn(r) ==
    IF \E i \in Token : Reaches(i, r)
    THEN Min({i \in Token : Reaches(i, r)})
    ELSE Min({i \in Token : \A j \in Token : logits_[j] <= logits_[i]})

\* dist(rng) lies in [0, 1).
Draw ==
    /\ phase = "draw"
    /\ \E r \in 0..One - 1 : token' = Drawn(r)
    /\ phase' = "drawn"
    /\ UNCHANGED <<softmaxed, logits_, top_k, top_p>>

\* Whoever called goes on; what is left in logits_ is overwritten unread.
SamplerReturns ==
    /\ phase = "drawn"
    /\ phase' = "idle"
    /\ softmaxed' = Nothing /\ logits_' = Nothing
    /\ top_k' = 0 /\ top_p' = 0
    /\ token' = 0

SampleToken == Softmax \/ TopK \/ TopP \/ Draw

-----------------------------------------------------------------------------
(* "Top-K filtering" (inference.cpp:130): what stays are the tokens fewer   *)
(* than top_k others are likelier than, by the ranks of the distribution    *)
(* and not by a threshold; tokens that tie with the last one stay as well.  *)
Likelier(i) == {j \in Token : softmaxed[j] > softmaxed[i]}

TopKIsByRank ==
    phase = "top_p" /\ top_k \in 1..NVocab - 1 =>
        \A i \in Token :
            logits_[i] = IF Cardinality(Likelier(i)) < top_k THEN softmaxed[i] ELSE 0

(* "Top-P (nucleus) sampling" (inference.cpp:149): if the tokens that are   *)
(* left weigh top_p at all, those that stay still do, each of them is at    *)
(* least as likely as every one that went, and without the least likely of  *)
(* them the weight would fall short.                                        *)
Kept == {i \in Token : logits_[i] > 0}
FromTopK == {i \in Token : top_k \in {0} \cup NVocab..NVocab + 1
                              \/ Cardinality(Likelier(i)) < top_k}

NucleusIsSmallest ==
    phase = "draw" /\ top_p \in 1..One - 1 /\ Mass(softmaxed, FromTopK) >= top_p =>
        /\ Mass(softmaxed, Kept) >= top_p
        /\ \A i \in Kept : \A j \in FromTopK \ Kept : softmaxed[i] >= softmaxed[j]
        /\ \E i \in Kept : Mass(softmaxed, Kept \ {i}) < top_p

(* A filtered token is drawn only with the random number 0 or when the      *)
(* filters left nothing: in every other draw the sums of 0..i first reach r *)
(* at a token that was kept (inference.cpp:189-195).                        *)
DrawsKeptTokens ==
    phase = "draw" /\ Kept # {} => \A r \in 1..One - 1 : Drawn(r) \in Kept

=============================================================================
