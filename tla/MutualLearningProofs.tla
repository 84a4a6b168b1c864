------------------------ MODULE MutualLearningProofs ------------------------
(***************************************************************************)
(* Why mutual learning synchronises, for every network size, weight bound  *)
(* and threshold and for each of the learning rules.                       *)
(***************************************************************************)
EXTENDS MutualLearning, TPMProofs

(* Two values that are moved by d and e and clamped end up no further      *)
(* apart than they were, plus the difference of the moves.                 *)
LEMMA ClampedMoves ==
  ASSUME NEW v \in Int, NEW w \in Int, NEW d \in Int, NEW e \in Int
  PROVE  Abs(Clamp(v + d) - Clamp(w + e)) <= Abs(v - w) + Abs(d - e)
<1>1. Clamp(v + d) \in Int /\ Clamp(w + e) \in Int
  BY ClampInBounds, TpmAssumption
<1>2. CASE v + d <= w + e
  <2>1. /\ 0 <= Clamp(w + e) - Clamp(v + d)
        /\ Clamp(w + e) - Clamp(v + d) <= (w + e) - (v + d)
    BY <1>2, ClampNonExpansive
  <2> QED
    BY <1>1, <2>1 DEF Abs
<1>3. CASE w + e <= v + d
  <2>1. /\ 0 <= Clamp(v + d) - Clamp(w + e)
        /\ Clamp(v + d) - Clamp(w + e) <= (v + d) - (w + e)
    BY <1>3, ClampNonExpansive
  <2> QED
    BY <1>1, <2>1 DEF Abs
<1> QED
  BY <1>2, <1>3

(* How far each rule moves a weight before clamping: not at all in a       *)
(* hidden neuron whose sign is not the output, by one in the others, in a  *)
(* direction that input and output alone decide.                           *)
Direction(x, tau) == <<x * tau, -(x * tau), x>>

Move(tpm, rule, syn) ==
  IF tpm.sigmas[syn[2]] = tpm.tau THEN Direction(tpm.inVector[syn], tpm.tau)[rule] ELSE 0

LEMMA DirectionType ==
  ASSUME NEW x \in {-1, 1}, NEW tau \in {-1, 1}, NEW rule \in 1..3
  PROVE  Direction(x, tau)[rule] \in {-1, 1}
BY DEF Direction

LEMMA MovedByDirection ==
  ASSUME NEW tpm \in TPMs, NEW rule \in 1..3, NEW syn \in Synapses
  PROVE  /\ Move(tpm, rule, syn) \in {-1, 0, 1}
         /\ Moved(tpm)[rule][syn] = Clamp(tpm.weights[syn] + Move(tpm, rule, syn))
<1>1. tpm.weights[syn] \in Int /\ tpm.inVector[syn] \in {-1, 1} /\ tpm.tau \in {-1, 1}
  BY TpmAssumption DEF TPMs, Weights, Inputs
<1>2. Move(tpm, rule, syn) \in {-1, 0, 1}
  BY <1>1, DirectionType DEF Move
<1>3. CASE rule = 1
  BY <1>1, <1>3 DEF Moved, Move, Direction, Hebbian, EnforceBounds, Theta
<1>4. CASE rule = 2
  BY <1>1, <1>4 DEF Moved, Move, Direction, AntiHebbian, EnforceBounds, Theta
<1>5. CASE rule = 3
  BY <1>1, <1>5 DEF Moved, Move, Direction, RandomWalk, EnforceBounds, Theta
<1> QED
  BY <1>2, <1>3, <1>4, <1>5

(* Any two machines whose weights are within their bounds attract each     *)
(* other in the hidden neurons both of them update.                        *)
LEMMA Attraction ==
  ASSUME NEW c \in TPMs, NEW s \in TPMs, c.inVector = s.inVector, c.tau = s.tau,
         NEW rule \in 1..3, NEW syn \in Synapses
  PROVE  Abs(Moved(c)[rule][syn] - Moved(s)[rule][syn])
           <= Abs(c.weights[syn] - s.weights[syn])
                + (IF c.sigmas[syn[2]] = c.tau /\ s.sigmas[syn[2]] = s.tau THEN 0 ELSE 1)
<1> DEFINE mc == Move(c, rule, syn)
           ms == Move(s, rule, syn)
           both == c.sigmas[syn[2]] = c.tau /\ s.sigmas[syn[2]] = s.tau
<1>1. c.weights[syn] \in Int /\ s.weights[syn] \in Int
  BY TpmAssumption DEF TPMs, Weights
<1>2. mc \in {-1, 0, 1} /\ ms \in {-1, 0, 1}
  BY MovedByDirection
<1>3. /\ both => mc = ms
      /\ ~both => mc = 0 \/ ms = 0
  BY DEF Move
<1>4. /\ Moved(c)[rule][syn] = Clamp(c.weights[syn] + mc)
      /\ Moved(s)[rule][syn] = Clamp(s.weights[syn] + ms)
  BY MovedByDirection
<1> HIDE DEF mc, ms, both
<1>5. Abs(Clamp(c.weights[syn] + mc) - Clamp(s.weights[syn] + ms))
        <= Abs(c.weights[syn] - s.weights[syn]) + Abs(mc - ms)
  <2>1. mc \in Int /\ ms \in Int
    BY <1>2
  <2> QED
    BY <1>1, <2>1, ClampedMoves
<1>6. Abs(mc - ms) <= IF both THEN 0 ELSE 1
  BY <1>2, <1>3 DEF Abs
<1>7. /\ Abs(Clamp(c.weights[syn] + mc) - Clamp(s.weights[syn] + ms)) \in Int
      /\ Abs(c.weights[syn] - s.weights[syn]) \in Int
      /\ Abs(mc - ms) \in Int
  BY <1>1, <1>2, ClampInBounds, TpmAssumption DEF Abs
<1>8. Abs(Moved(c)[rule][syn] - Moved(s)[rule][syn])
        <= Abs(c.weights[syn] - s.weights[syn]) + (IF both THEN 0 ELSE 1)
  BY <1>4, <1>5, <1>6, <1>7
<1> QED
  BY <1>8 DEF both
-----------------------------------------------------------------------------
(* Type correctness.  A negotiation without a key has not reached the      *)
(* threshold, unless BEGIN alone did: that bounds the count.               *)

Below == pair # None /\ pair.key = NoKeys =>
           pair.learnt < RoundThreshold \/ pair.learnt = 1

Pairs == [weights : [Sides -> Weights], learnt : Nat, key : [Sides -> Weights \cup {NoKey}]]

IInv == TypeOK /\ (pair = None \/ pair \in Pairs) /\ Below

LEMMA LearntPair ==
  ASSUME NEW p \in Pairs, NEW w \in [Sides -> Weights]
  PROVE  LET q == [p EXCEPT !.weights = w, !.learnt = @ + 1]
         IN  q \in Pairs /\ q.key = p.key /\ q.learnt = p.learnt + 1
<1>1. p.learnt + 1 \in Nat
  BY DEF Pairs
<1> QED
  BY <1>1 DEF Pairs

LEMMA ExchangedType ==
  ASSUME NEW p \in Pairs, NEW x \in Inputs
  PROVE  /\ Exchanged(p, x) \in Pairs
         /\ Exchanged(p, x).key = p.key
         /\ Exchanged(p, x).learnt \in {p.learnt, p.learnt + 1}
<1> DEFINE w == [s \in Sides |-> After(p.weights[s], x)]
           learning == [p EXCEPT !.weights = w, !.learnt = @ + 1]
<1>1. w \in [Sides -> Weights]
  <2>1. \A s \in Sides : After(p.weights[s], x) \in Weights
    BY NewTPMType, UpdateRuleType DEF After, Pairs
  <2> QED
    BY <2>1
<1>2. Exchanged(p, x) \in {learning, p}
  BY Zenon DEF Exchanged
<1> HIDE DEF w
<1>3. learning \in Pairs /\ learning.key = p.key /\ learning.learnt = p.learnt + 1
  BY <1>1, LearntPair
<1> HIDE DEF learning
<1> QED
  BY <1>2, <1>3

LEMMA WithKeyType ==
  ASSUME NEW p \in Pairs, NEW s \in Sides
  PROVE  /\ WithKey(p, s) \in Pairs
         /\ WithKey(p, s).learnt = p.learnt
         /\ WithKey(p, s).key # NoKeys
<1>1. WithKey(p, s) \in Pairs /\ WithKey(p, s).learnt = p.learnt
  BY DEF WithKey, Pairs
<1>2. WithKey(p, s).key[s] = p.weights[s] /\ p.weights[s] # NoKey
  BY TpmAssumption DEF WithKey, Pairs
<1> QED
  BY <1>1, <1>2 DEF NoKeys

LEMMA BeginPreserves ==
  ASSUME IInv, Begin
  PROVE  IInv'
<1>1. NoKeys \in [Sides -> Weights \cup {NoKey}]
  BY DEF NoKeys
<1>2. pair' \in Pairs /\ pair'.learnt \in 0..1 /\ pair'.key = NoKeys
  BY <1>1 DEF Begin, Pairs
<1> QED
  BY <1>2, MutualAssumption DEF IInv, TypeOK, Below, Pairs

LEMMA ExchangePreserves ==
  ASSUME IInv, Exchange
  PROVE  IInv'
<1>1. PICK x \in Inputs :
        LET p == Exchanged(pair, x)
        IN  IF p.learnt < RoundThreshold THEN pair' = p
            ELSE \E s \in Sides : pair' = WithKey(p, s)
  BY DEF Exchange
<1> DEFINE p == Exchanged(pair, x)
<1>2. pair \in Pairs /\ pair.key = NoKeys
      /\ (pair.learnt < RoundThreshold \/ pair.learnt = 1)
  BY DEF IInv, Below, Exchange
<1>3. p \in Pairs /\ p.key = NoKeys /\ p.learnt \in {pair.learnt, pair.learnt + 1}
  BY <1>2, ExchangedType
<1>4. IF p.learnt < RoundThreshold THEN pair' = p
      ELSE \E s \in Sides : pair' = WithKey(p, s)
  BY <1>1
<1> HIDE DEF p
<1>5. p.learnt \in 0 .. RoundThreshold + (IF RoundThreshold = 1 THEN 1 ELSE 0)
  BY <1>2, <1>3, MutualAssumption DEF Pairs
<1>6. CASE p.learnt < RoundThreshold
  BY <1>3, <1>4, <1>5, <1>6 DEF IInv, TypeOK, Below, Pairs
<1>7. CASE ~(p.learnt < RoundThreshold)
  <2>1. PICK s \in Sides : pair' = WithKey(p, s)
    BY <1>4, <1>7
  <2>2. pair' \in Pairs /\ pair'.learnt = p.learnt /\ pair'.key # NoKeys
    BY <1>3, <2>1, WithKeyType
  <2> QED
    BY <1>5, <2>2 DEF IInv, TypeOK, Below, Pairs
<1> QED
  BY <1>6, <1>7

LEMMA TakeKeyPreserves ==
  ASSUME IInv, TakeKey
  PROVE  IInv'
<1>1. PICK t \in Sides : pair # None /\ pair' = WithKey(pair, t)
  BY DEF TakeKey
<1>2. pair \in Pairs
  BY <1>1 DEF IInv
<1>3. pair' \in Pairs /\ pair'.learnt = pair.learnt /\ pair'.key # NoKeys
  BY <1>1, <1>2, WithKeyType
<1> QED
  BY <1>1, <1>3 DEF IInv, TypeOK, Below, Pairs

LEMMA Inductive == Spec => []IInv
<1>1. Init => IInv
  BY DEF Init, IInv, TypeOK, Below
<1>2. IInv /\ [Next]_pair => IInv'
  <2> SUFFICES ASSUME IInv, [Next]_pair PROVE IInv'
    OBVIOUS
  <2>1. CASE Begin
    BY <2>1, BeginPreserves
  <2>2. CASE Exchange
    BY <2>2, ExchangePreserves
  <2>3. CASE TakeKey
    BY <2>3, TakeKeyPreserves
  <2>4. CASE Abandon
    BY <2>4 DEF Abandon, IInv, TypeOK, Below
  <2>5. CASE UNCHANGED pair
    BY <2>5 DEF IInv, TypeOK, Below
  <2> QED
    BY <2>1, <2>2, <2>3, <2>4, <2>5 DEF Next
<1> QED
  BY <1>1, <1>2, PTL DEF Spec

(* The count of common updates never runs past the threshold (by one if    *)
(* BEGIN alone reaches it), for every size of the machines.                *)
THEOREM MutualTypeCorrect == Spec => []TypeOK
<1>1. IInv => TypeOK
  BY DEF IInv
<1> QED
  BY <1>1, Inductive, PTL

(* NC.cc:174-232: whatever the size of the machines, the bound of the      *)
(* weights and the rule, no step on which both machines update a hidden    *)
(* neuron moves its weights apart, and any other step does so by at most 1.*)
THEOREM Attracted == Spec => []AttractiveSteps
<1>1. IInv => AttractiveSteps
  <2> SUFFICES ASSUME IInv, pair # None, NEW x \in Inputs, NEW rule \in 1..3,
                      NEW syn \in Synapses
               PROVE  LET c == NewTPM(pair.weights["client"], x)
                          s == NewTPM(pair.weights["server"], x)
                          Both(j) == c.sigmas[j] = c.tau /\ s.sigmas[j] = s.tau
                      IN  c.tau = s.tau =>
                            Abs(Moved(c)[rule][syn] - Moved(s)[rule][syn])
                              <= Abs(c.weights[syn] - s.weights[syn])
                                   + (IF Both(syn[2]) THEN 0 ELSE 1)
    BY DEF AttractiveSteps
  <2> DEFINE c == NewTPM(pair.weights["client"], x)
             s == NewTPM(pair.weights["server"], x)
  <2>1. pair.weights["client"] \in Weights /\ pair.weights["server"] \in Weights
    BY DEF IInv, Pairs, Sides
  <2>2. c \in TPMs /\ s \in TPMs
    BY <2>1, NewTPMType
  <2>3. c.inVector = s.inVector
    BY DEF NewTPM
  <2> HIDE DEF c, s
  <2>4. c.tau = s.tau =>
          Abs(Moved(c)[rule][syn] - Moved(s)[rule][syn])
            <= Abs(c.weights[syn] - s.weights[syn])
                 + (IF c.sigmas[syn[2]] = c.tau /\ s.sigmas[syn[2]] = s.tau THEN 0 ELSE 1)
    BY <2>2, <2>3, Attraction
  <2> QED
    BY <2>4 DEF c, s
<1> QED
  BY <1>1, Inductive, PTL
-----------------------------------------------------------------------------
(* What a key is: the weights its side still has, since nothing is learnt  *)
(* once one side has its key.                                              *)
KeysAreWeights ==
  pair # None => \A s \in Sides : pair.key[s] \in {NoKey, pair.weights[s]}

LEMMA WithKeyAgrees ==
  ASSUME NEW p \in Pairs, NEW s \in Sides,
         \A t \in Sides : p.key[t] \in {NoKey, p.weights[t]}
  PROVE  \A t \in Sides : WithKey(p, s).key[t] \in {NoKey, WithKey(p, s).weights[t]}
<1>1. /\ WithKey(p, s).weights = p.weights
      /\ \A t \in Sides : WithKey(p, s).key[t] = IF t = s THEN p.weights[s] ELSE p.key[t]
  BY DEF WithKey, Pairs
<1> QED
  BY <1>1

LEMMA KeysAreWeightsHolds == Spec => []KeysAreWeights
<1>1. Init => KeysAreWeights
  BY DEF Init, KeysAreWeights
<1>2. IInv /\ KeysAreWeights /\ [Next]_pair => KeysAreWeights'
  <2> SUFFICES ASSUME IInv, KeysAreWeights, [Next]_pair PROVE KeysAreWeights'
    OBVIOUS
  <2>1. CASE Begin
    BY <2>1 DEF Begin, KeysAreWeights, NoKeys
  <2>2. CASE Exchange
    <3>1. PICK x \in Inputs :
            LET p == Exchanged(pair, x)
            IN  IF p.learnt < RoundThreshold THEN pair' = p
                ELSE \E s \in Sides : pair' = WithKey(p, s)
      BY <2>2 DEF Exchange
    <3> DEFINE p == Exchanged(pair, x)
    <3>2. pair \in Pairs /\ pair.key = NoKeys
      BY <2>2 DEF IInv, Exchange
    <3>3. p \in Pairs /\ p.key = NoKeys
      BY <3>2, ExchangedType
    <3>4. pair' = p \/ \E s \in Sides : pair' = WithKey(p, s)
      BY <3>1
    <3> HIDE DEF p
    <3>5. \A t \in Sides : p.key[t] \in {NoKey, p.weights[t]}
      BY <3>3 DEF NoKeys
    <3> QED
      BY <3>3, <3>4, <3>5, WithKeyAgrees DEF KeysAreWeights
  <2>3. CASE TakeKey
    <3>1. PICK t \in Sides : pair # None /\ pair' = WithKey(pair, t)
      BY <2>3 DEF TakeKey
    <3> QED
      BY <3>1, WithKeyAgrees DEF IInv, KeysAreWeights
  <2>4. CASE Abandon
    BY <2>4 DEF Abandon, KeysAreWeights
  <2>5. CASE UNCHANGED pair
    BY <2>5 DEF KeysAreWeights
  <2> QED
    BY <2>1, <2>2, <2>3, <2>4, <2>5 DEF Next
<1> QED
  BY <1>1, <1>2, Inductive, PTL DEF Spec

(* Two keys are equal exactly when the weights of the two machines were    *)
(* when the first of them was taken, for every size of the machines.       *)
THEOREM KeysTellSynchrony == Spec => []KeysAgreeIffSynchronised
<1>1. IInv /\ KeysAreWeights => KeysAgreeIffSynchronised
  BY DEF KeysAreWeights, KeysAgreeIffSynchronised, Sides
<1> QED
  BY <1>1, Inductive, KeysAreWeightsHolds, PTL
=============================================================================
