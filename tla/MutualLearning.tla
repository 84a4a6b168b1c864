--------------------------- MODULE MutualLearning ---------------------------
(***************************************************************************)
(* What the NC negotiation promises, without packets: two machines see the *)
(* same sequence of inputs, compare their outputs on each, and either both *)
(* learn or neither does.  When they have learnt RoundThreshold times one  *)
(* of them takes its weights as the key, and then the other does; nothing  *)
(* is learnt in between.  A negotiation may be abandoned at any time.      *)
(***************************************************************************)
EXTENDS TPM

CONSTANTS RoundThreshold, None

ASSUME MutualAssumption == RoundThreshold \in Nat \ {0}

VARIABLE pair  \* the negotiation under way, or None

Sides == {"client", "server"}

(* The effect of one input on a machine whose partner's output is partnerTau *)
Tau(w, x) == NewTPM(w, x).tau
After(w, x) == UpdateRule(NewTPM(w, x))

NoKeys == [s \in Sides |-> NoKey]

(* Both machines process input x.                                          *)
Exchanged(p, x) ==
  IF Tau(p.weights["client"], x) = Tau(p.weights["server"], x)
  THEN [p EXCEPT !.weights = [s \in Sides |-> After(p.weights[s], x)], !.learnt = @ + 1]
  ELSE p

WithKey(p, s) == [p EXCEPT !.key[s] = p.weights[s]]

Init == pair = None

(* BEGIN is answered whatever the threshold: a negotiation starts with any *)
(* weights and with its first input processed.                             *)
Begin ==
  /\ pair = None
  /\ pair' \in [weights : [Sides -> Weights], learnt : 0..1, key : {NoKeys}]

(* Seeded fault: a side goes on learning when the other has its key. *)
ExchangeAfterKey ==
  /\ pair # None
  /\ \E s \in Sides : pair.key[s] = NoKey
  /\ \E x \in Inputs :
       LET p == Exchanged(pair, x)
       IN  IF p.learnt < RoundThreshold THEN pair' = p
           ELSE \E s \in Sides : pair' = WithKey(p, s)

Exchange ==
  /\ pair # None
  /\ pair.key = NoKeys
  /\ \E x \in Inputs :
       LET p == Exchanged(pair, x)
       IN  IF p.learnt < RoundThreshold THEN pair' = p
           ELSE \E s \in Sides : pair' = WithKey(p, s)

TakeKey ==
  /\ pair # None
  /\ \E s, t \in Sides :
       /\ pair.key[s] # NoKey /\ pair.key[t] = NoKey
       /\ pair' = WithKey(pair, t)

Abandon == pair' = None

Next == Abandon \/ Begin \/ Exchange \/ TakeKey

Spec == Init /\ [][Next]_pair
-----------------------------------------------------------------------------
(* Properties                                                              *)

Abs(n) == IF n < 0 THEN -n ELSE n

(* What each of the three learning rules makes of a machine's weights.     *)
Moved(tpm) == <<Hebbian(tpm), AntiHebbian(tpm), RandomWalk(tpm)>>

(* A negotiation under way is a pair of weights within -L..L, a count of   *)
(* common updates that stops at the threshold (a threshold of 1 is         *)
(* reached by BEGIN and passed by the next input), and at most two keys.   *)
TypeOK ==
  \/ pair = None
  \/ /\ pair.weights \in [Sides -> Weights]
     /\ pair.learnt \in 0 .. RoundThreshold + (IF RoundThreshold = 1 THEN 1 ELSE 0)
     /\ pair.key \in [Sides -> Weights \cup {NoKey}]

(* NC.cc:184, 204, 224: when the outputs agree, each learning rule moves   *)
(* the weights of a hidden neuron that both machines update in the same    *)
(* direction, so the distance of no such weight grows, clamping at the     *)
(* bounds included; where only one side updates, it grows by at most one.  *)
AttractiveSteps ==
  pair # None =>
    \A x \in Inputs :
      LET c       == NewTPM(pair.weights["client"], x)
          s       == NewTPM(pair.weights["server"], x)
          Both(j) == c.sigmas[j] = c.tau /\ s.sigmas[j] = s.tau
      IN  c.tau = s.tau =>
            \A rule \in 1..3, syn \in Synapses :
              Abs(Moved(c)[rule][syn] - Moved(s)[rule][syn])
                <= Abs(c.weights[syn] - s.weights[syn]) + (IF Both(syn[2]) THEN 0 ELSE 1)

(* Nothing is learnt once one side has its key, so the second key is taken *)
(* from weights after the same inputs as the first: keys agree exactly     *)
(* when the weights did when the first was taken.                          *)
KeysAgreeIffSynchronised ==
  pair # None /\ (\A s \in Sides : pair.key[s] # NoKey) =>
    (pair.key["client"] = pair.key["server"]
       <=> pair.weights["client"] = pair.weights["server"])
=============================================================================
