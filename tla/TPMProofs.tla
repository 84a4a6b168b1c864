----------------------------- MODULE TPMProofs -----------------------------
(***************************************************************************)
(* Facts about the operators of TPM that hold for every network size and   *)
(* every weight bound.                                                     *)
(***************************************************************************)
EXTENDS TPM, TLAPS

(* EnforceBounds brings any integer weight into -L..L.                     *)
LEMMA ClampInBounds ==
  ASSUME NEW v \in Int
  PROVE  Clamp(v) \in -L .. L
BY TpmAssumption DEF Clamp

(* The clamp is monotone and never moves two values apart.  So a step that *)
(* adds the same amount to a weight of both machines keeps their order and *)
(* does not increase their distance, at the boundaries -L and L included:  *)
(* this is why machines that learn the same update approach each other.    *)
THEOREM ClampNonExpansive ==
  ASSUME NEW v \in Int, NEW w \in Int, v <= w
  PROVE  0 <= Clamp(w) - Clamp(v) /\ Clamp(w) - Clamp(v) <= w - v
BY TpmAssumption DEF Clamp

LEMMA SigmasType ==
  ASSUME NEW w, NEW x
  PROVE  Sigmas(w, x) \in [Neurons -> {-1, 1}]
BY DEF Sigmas

LEMMA ProductType ==
  ASSUME NEW s
  PROVE  Product(s) \in {-1, 1}
BY DEF Product

LEMMA EnforceBoundsType ==
  ASSUME NEW w \in [Synapses -> Int]
  PROVE  EnforceBounds(w) \in Weights
BY ClampInBounds DEF EnforceBounds, Weights

(* Whatever the learning rule, an update leaves every weight in -L..L.     *)
LEMMA UpdateRuleType ==
  ASSUME NEW tpm \in TPMs
  PROVE  UpdateRule(tpm) \in Weights
<1> DEFINE d(s) == Theta(tpm.sigmas[s[2]], tpm.tau)
<1>1. /\ tpm.weights \in [Synapses -> Int]
      /\ tpm.inVector \in [Synapses -> Int]
      /\ tpm.tau \in Int
  BY TpmAssumption DEF TPMs, Weights, Inputs
<1>2. \A a, b : Theta(a, b) \in Int
  BY DEF Theta
<1>3. Hebbian(tpm) \in Weights
  BY <1>1, <1>2, EnforceBoundsType DEF Hebbian
<1>4. AntiHebbian(tpm) \in Weights
  BY <1>1, <1>2, EnforceBoundsType DEF AntiHebbian
<1>5. RandomWalk(tpm) \in Weights
  BY <1>1, <1>2, EnforceBoundsType DEF RandomWalk
<1> QED
  BY <1>3, <1>4, <1>5 DEF UpdateRule

LEMMA NewTPMType ==
  ASSUME NEW w \in Weights, NEW x \in Inputs
  PROVE  NewTPM(w, x) \in TPMs
BY SigmasType, ProductType DEF NewTPM, TPMs

LEMMA CalculateOutputType ==
  ASSUME NEW tpm \in TPMs, NEW x \in Inputs
  PROVE  CalculateOutput(tpm, x) \in TPMs
BY SigmasType, ProductType DEF CalculateOutput, TPMs

LEMMA UpdateWeightsType ==
  ASSUME NEW tpm \in TPMs, NEW t
  PROVE  UpdateWeights(tpm, t) \in TPMs
<1>1. UpdateRule(tpm) \in Weights
  BY UpdateRuleType
<1>2. tpm.round + 1 \in Nat
  BY DEF TPMs
<1>3. [tpm EXCEPT !.weights = UpdateRule(tpm), !.round = @ + 1] \in TPMs
  BY <1>1, <1>2 DEF TPMs
<1> QED
  BY <1>3 DEF UpdateWeights

LEMMA GenerateKeyType ==
  ASSUME NEW tpm \in TPMs
  PROVE  GenerateKey(tpm) \in TPMs
BY DEF GenerateKey, TPMs
=============================================================================
