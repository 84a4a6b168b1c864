-------------------------------- MODULE TPM --------------------------------
(***************************************************************************)
(* The tree parity machine of NC.cc as pure operators over a record: what  *)
(* class NC stores (weights, last input, hidden outputs, output bit, round *)
(* counter, secret) and what each of its methods returns.                  *)
(*                                                                         *)
(* A synapse is the pair <<i, j>>: weight i of hidden neuron j, the flat   *)
(* index i + j * m_n of the source.  The SHA-256 digest GenerateKey takes  *)
(* of the weights is represented by the weights themselves: two keys are   *)
(* equal exactly when the weights they were taken from are.                *)
(***************************************************************************)
EXTENDS Integers, FiniteSets, FiniteSetsExt

CONSTANTS
  K,          \* hidden neurons (m_k)
  N,          \* weights per hidden neuron (m_n)
  L,          \* weights lie in -L..L (m_l)
  LearnRule,  \* "hebbian", "anti_hebbian" or "random_walk" (m_learnRule)
  NoKey       \* m_secret before GenerateKey: the empty SecByteBlock

Neurons  == 0 .. K-1
Synapses == (0 .. N-1) \X Neurons
Weights  == [Synapses -> -L .. L]
Inputs   == [Synapses -> {-1, 1}]

ASSUME TpmAssumption ==
  /\ K \in Nat \ {0} /\ N \in Nat \ {0} /\ L \in Nat \ {0}
  /\ LearnRule \in {"hebbian", "anti_hebbian", "random_walk"}
  /\ NoKey \notin Weights

TPMs == [weights  : Weights,
         inVector : Inputs,
         sigmas   : [Neurons -> {-1, 1}],
         tau      : {-1, 1},
         round    : Nat,
         secret   : Weights \cup {NoKey}]

-----------------------------------------------------------------------------
(* CalculateOutput: the sign of each hidden neuron's field, 0 counting as  *)
(* positive, and the product of the signs.                                 *)

Field(w, x, j) == MapThenSumSet(LAMBDA i : x[<<i, j>>] * w[<<i, j>>], 0 .. N-1)

Sigmas(w, x) == [j \in Neurons |-> IF Field(w, x, j) >= 0 THEN 1 ELSE -1]

Product(s) == IF Cardinality({j \in Neurons : s[j] = -1}) % 2 = 0 THEN 1 ELSE -1

CalculateOutput(tpm, x) ==
  LET s == Sigmas(tpm.weights, x)
  IN  [tpm EXCEPT !.inVector = x, !.sigmas = s, !.tau = Product(s)]

(* The constructor, followed by the CalculateOutput every caller makes at  *)
(* once: until then m_sigmas and m_inVector hold nothing that is read.     *)
NewTPM(w, x) ==
  LET s == Sigmas(w, x)
  IN  [weights |-> w, inVector |-> x, sigmas |-> s, tau |-> Product(s),
       round |-> 0, secret |-> NoKey]

-----------------------------------------------------------------------------
(* The learning rules, each followed by EnforceBounds.                     *)

Theta(tau1, tau2) == IF tau1 = tau2 THEN 1 ELSE 0

(* Seeded fault: a weight that leaves the range comes in at its other end. *)
ClampWraps(v) == IF v > L THEN -L ELSE IF v < -L THEN L ELSE v

Clamp(v) == IF v > L THEN L ELSE IF v < -L THEN -L ELSE v

(* Seeded fault: only the upper bound is enforced. *)
EnforceUpperBound(w) == [s \in Synapses |-> IF w[s] > L THEN L ELSE w[s]]

EnforceBounds(w) == [s \in Synapses |-> Clamp(w[s])]

Hebbian(tpm) ==
  EnforceBounds([s \in Synapses |->
    tpm.weights[s] + tpm.inVector[s] * tpm.tau * Theta(tpm.sigmas[s[2]], tpm.tau)])

AntiHebbian(tpm) ==
  EnforceBounds([s \in Synapses |->
    tpm.weights[s] - tpm.inVector[s] * tpm.tau * Theta(tpm.sigmas[s[2]], tpm.tau)])

RandomWalk(tpm) ==
  EnforceBounds([s \in Synapses |->
    tpm.weights[s] + tpm.inVector[s] * Theta(tpm.sigmas[s[2]], tpm.tau)])

UpdateRule(tpm) ==
  CASE LearnRule = "hebbian"      -> Hebbian(tpm)
    [] LearnRule = "anti_hebbian" -> AntiHebbian(tpm)
    [] OTHER                      -> RandomWalk(tpm)

UpdateWeights(tpm, partnerTau) ==
  IF tpm.tau = partnerTau
  THEN [tpm EXCEPT !.weights = UpdateRule(tpm), !.round = @ + 1]
  ELSE tpm

GenerateKey(tpm) == [tpm EXCEPT !.secret = tpm.weights]
=============================================================================
