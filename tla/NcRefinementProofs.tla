------------------------- MODULE NcRefinementProofs -------------------------
(***************************************************************************)
(* The exchange of packets implements mutual learning, for every size of   *)
(* the machines, rule and threshold, with or without loss, when each       *)
(* negotiation ends before the next refresh.                               *)
(***************************************************************************)
EXTENDS NcImplementsMutual, NcNegotiationProofs

(* What CalculateOutput leaves in a machine.                               *)
Computed(tpm, x) ==
  /\ tpm.inVector = x
  /\ tpm.sigmas = Sigmas(tpm.weights, x)
  /\ tpm.tau = Product(Sigmas(tpm.weights, x))

(* The sender of UPDATE still has the output for the input it has sent.    *)
SenderComputed ==
  /\ ReceivesNc(toServer, "UPDATE") => Computed(client, Head(toServer).inVector)
  /\ ReceivesNc(toClient, "UPDATE") => Computed(server, Head(toClient).inVector)

(* One step of NcNegotiation as a step of MutualLearning: only a loss or a *)
(* refresh ends a negotiation.                                             *)
Simulates ==
  /\ Mutual!Next \/ UNCHANGED AbstractPair
  /\ Paired => Paired' \/ lost' \/ UpdateKey

Pair(cw, sw, n, ck, sk) ==
  [weights |-> [s \in {"client", "server"} |-> IF s = "client" THEN cw ELSE sw],
   learnt  |-> n,
   key     |-> [s \in {"client", "server"} |-> IF s = "client" THEN ck ELSE sk]]

-----------------------------------------------------------------------------
LEMMA PairIsNotNULL ==
  ASSUME NEW cw \in Weights, NEW sw \in Weights, NEW n \in Nat,
         NEW ck \in Weights \cup {NoKey}, NEW sk \in Weights \cup {NoKey}
  PROVE  Pair(cw, sw, n, ck, sk) # NULL
BY PairAssumption DEF Pair

LEMMA OutputComputed ==
  ASSUME NEW tpm \in TPMs, NEW x
  PROVE  /\ Computed(CalculateOutput(tpm, x), x)
         /\ CalculateOutput(tpm, x).weights = tpm.weights
BY DEF Computed, CalculateOutput, TPMs

(* The operators of TPM are those MutualLearning is built from.            *)
LEMMA SameOperators ==
  ASSUME NEW w, NEW x, NEW tpm
  PROVE  /\ Mutual!NewTPM(w, x) = NewTPM(w, x)
         /\ Mutual!UpdateRule(tpm) = UpdateRule(tpm)
<1>1. ASSUME NEW j
      PROVE  Mutual!Field(w, x, j) = Field(w, x, j)
  BY DEF Mutual!Field, Field, Mutual!MapThenSumSet, MapThenSumSet, Mutual!MapThenFoldSet,
         MapThenFoldSet
<1>2. Mutual!Sigmas(w, x) = Sigmas(w, x)
  BY <1>1 DEF Mutual!Sigmas, Sigmas, Mutual!Neurons, Neurons
<1>3. \A s : Mutual!Product(s) = Product(s)
  BY DEF Mutual!Product, Product, Mutual!Neurons, Neurons, Mutual!Cardinality, Cardinality
<1>4. Mutual!NewTPM(w, x) = NewTPM(w, x)
  BY <1>2, <1>3 DEF Mutual!NewTPM, NewTPM
<1>5. \A v : Mutual!EnforceBounds(v) = EnforceBounds(v)
  BY DEF Mutual!EnforceBounds, EnforceBounds, Mutual!Clamp, Clamp, Mutual!Synapses, Synapses,
         Mutual!Neurons, Neurons
<1>6. \A t, u : Mutual!Theta(t, u) = Theta(t, u)
  BY DEF Mutual!Theta, Theta
<1>7. /\ Mutual!Hebbian(tpm) = Hebbian(tpm)
      /\ Mutual!AntiHebbian(tpm) = AntiHebbian(tpm)
      /\ Mutual!RandomWalk(tpm) = RandomWalk(tpm)
  BY <1>5, <1>6
     DEF Mutual!Hebbian, Hebbian, Mutual!AntiHebbian, AntiHebbian, Mutual!RandomWalk, RandomWalk,
         Mutual!Synapses, Synapses, Mutual!Neurons, Neurons
<1>8. Mutual!UpdateRule(tpm) = UpdateRule(tpm)
  BY <1>7 DEF Mutual!UpdateRule, UpdateRule
<1> QED
  BY <1>4, <1>8

(* A machine that has processed x learns as the abstract one does.         *)
LEMMA AbstractMachine ==
  ASSUME NEW tpm \in TPMs, NEW x, Computed(tpm, x)
  PROVE  /\ tpm.tau = Mutual!Tau(tpm.weights, x)
         /\ UpdateRule(tpm) = Mutual!After(tpm.weights, x)
<1> DEFINE new == NewTPM(tpm.weights, x)
<1>1. /\ new.weights = tpm.weights /\ new.inVector = tpm.inVector
      /\ new.sigmas = tpm.sigmas /\ new.tau = tpm.tau
  BY DEF NewTPM, Computed
<1>2. Mutual!Tau(tpm.weights, x) = new.tau /\ Mutual!After(tpm.weights, x) = UpdateRule(new)
  BY SameOperators DEF Mutual!Tau, Mutual!After
<1> HIDE DEF new
<1>3. UpdateRule(new) = UpdateRule(tpm)
  BY <1>1 DEF UpdateRule, Hebbian, AntiHebbian, RandomWalk
<1> QED
  BY <1>1, <1>2, <1>3

LEMMA Updated ==
  ASSUME NEW tpm \in TPMs, NEW x, Computed(tpm, x), NEW t
  PROVE  /\ UpdateWeights(tpm, t).weights =
              IF tpm.tau = t THEN Mutual!After(tpm.weights, x) ELSE tpm.weights
         /\ UpdateWeights(tpm, t).round = IF tpm.tau = t THEN tpm.round + 1 ELSE tpm.round
BY AbstractMachine, RoundAndTau DEF UpdateWeights, TPMs

LEMMA ExchangedFields ==
  ASSUME NEW w, NEW n, NEW k, NEW x, NEW p, p = [weights |-> w, learnt |-> n, key |-> k],
         Mutual!Tau(w["client"], x) = Mutual!Tau(w["server"], x)
  PROVE  Mutual!Exchanged(p, x) =
           [weights |-> [s \in {"client", "server"} |-> Mutual!After(w[s], x)],
            learnt |-> n + 1, key |-> k]
<1> DEFINE v == [s \in Mutual!Sides |-> Mutual!After(p.weights[s], x)]
           q == [p EXCEPT !.weights = v, !.learnt = p.learnt + 1]
<1>1. v = [s \in {"client", "server"} |-> Mutual!After(w[s], x)]
  BY DEF Mutual!Sides
<1> HIDE DEF v
<1>2. q.weights = v /\ q.learnt = n + 1 /\ q.key = k
  OBVIOUS
<1>3. q = [f \in {"weights", "learnt", "key"} |-> q[f]]
  OBVIOUS
<1>4. q = [weights |-> q.weights, learnt |-> q.learnt, key |-> q.key]
  <2> HIDE DEF q
  <2> QED
    BY <1>3
<1>5. Mutual!Exchanged(p, x) = q
  BY DEF Mutual!Exchanged, v
<1> QED
  BY <1>1, <1>2, <1>4, <1>5

LEMMA WithKeyFields ==
  ASSUME NEW w, NEW n, NEW k, NEW s, NEW p, p = [weights |-> w, learnt |-> n, key |-> k],
         NEW l, l = [k EXCEPT ![s] = w[s]]
  PROVE  Mutual!WithKey(p, s) = [weights |-> w, learnt |-> n, key |-> l]
BY DEF Mutual!WithKey

LEMMA PairExchanged ==
  ASSUME NEW cw, NEW sw, NEW n, NEW ck, NEW sk, NEW x
  PROVE  Mutual!Exchanged(Pair(cw, sw, n, ck, sk), x) =
           IF Mutual!Tau(cw, x) = Mutual!Tau(sw, x)
           THEN Pair(Mutual!After(cw, x), Mutual!After(sw, x), n + 1, ck, sk)
           ELSE Pair(cw, sw, n, ck, sk)
<1> DEFINE w == [s \in {"client", "server"} |-> IF s = "client" THEN cw ELSE sw]
           k == [s \in {"client", "server"} |-> IF s = "client" THEN ck ELSE sk]
           p == Pair(cw, sw, n, ck, sk)
           v == [s \in {"client", "server"} |-> Mutual!After(w[s], x)]
<1>1. p = [weights |-> w, learnt |-> n, key |-> k]
  BY DEF Pair
<1>2. w["client"] = cw /\ w["server"] = sw
  OBVIOUS
<1>3. v = [s \in {"client", "server"} |->
             IF s = "client" THEN Mutual!After(cw, x) ELSE Mutual!After(sw, x)]
  BY <1>2
<1>4. Pair(Mutual!After(cw, x), Mutual!After(sw, x), n + 1, ck, sk) =
        [weights |-> v, learnt |-> n + 1, key |-> k]
  BY <1>3 DEF Pair
<1>5. CASE Mutual!Tau(cw, x) = Mutual!Tau(sw, x)
  <2> HIDE DEF w, k, p
  <2>1. Mutual!Exchanged(p, x) = [weights |-> v, learnt |-> n + 1, key |-> k]
    BY <1>1, <1>2, <1>5, ExchangedFields
  <2> QED
    BY <1>4, <1>5, <2>1 DEF p
<1>6. CASE Mutual!Tau(cw, x) # Mutual!Tau(sw, x)
  BY <1>1, <1>2, <1>6 DEF Mutual!Exchanged
<1> QED
  BY <1>5, <1>6

LEMMA PairWithKey ==
  ASSUME NEW cw, NEW sw, NEW n, NEW ck, NEW sk
  PROVE  /\ Mutual!WithKey(Pair(cw, sw, n, ck, sk), "client") = Pair(cw, sw, n, cw, sk)
         /\ Mutual!WithKey(Pair(cw, sw, n, ck, sk), "server") = Pair(cw, sw, n, ck, sw)
<1> DEFINE w == [s \in {"client", "server"} |-> IF s = "client" THEN cw ELSE sw]
           k == [s \in {"client", "server"} |-> IF s = "client" THEN ck ELSE sk]
           p == Pair(cw, sw, n, ck, sk)
<1>1. p = [weights |-> w, learnt |-> n, key |-> k]
  BY DEF Pair
<1>2. /\ [s \in {"client", "server"} |-> IF s = "client" THEN cw ELSE sk] =
           [k EXCEPT !["client"] = w["client"]]
      /\ [s \in {"client", "server"} |-> IF s = "client" THEN ck ELSE sw] =
           [k EXCEPT !["server"] = w["server"]]
  OBVIOUS
<1>3. /\ Pair(cw, sw, n, cw, sk) =
           [weights |-> w, learnt |-> n, key |-> [k EXCEPT !["client"] = w["client"]]]
      /\ Pair(cw, sw, n, ck, sw) =
           [weights |-> w, learnt |-> n, key |-> [k EXCEPT !["server"] = w["server"]]]
  BY <1>2 DEF Pair
<1> DEFINE ofClient == [k EXCEPT !["client"] = w["client"]]
           ofServer == [k EXCEPT !["server"] = w["server"]]
<1>4. /\ ofClient = [k EXCEPT !["client"] = w["client"]]
      /\ ofServer = [k EXCEPT !["server"] = w["server"]]
  OBVIOUS
<1> HIDE DEF w, k, p, ofClient, ofServer
<1>5. /\ Mutual!WithKey(p, "client") = [weights |-> w, learnt |-> n, key |-> ofClient]
      /\ Mutual!WithKey(p, "server") = [weights |-> w, learnt |-> n, key |-> ofServer]
  BY <1>1, <1>4, WithKeyFields
<1> QED
  BY <1>3, <1>5 DEF p, ofClient, ofServer

(* The sender u of an input x and its receiver v, which answers with its   *)
(* output a, process x together.                                           *)
LEMMA BothProcess ==
  ASSUME NEW u \in TPMs, NEW v \in TPMs, NEW x \in Inputs,
         Computed(u, x), u.round = v.round, NEW k, NEW l
  PROVE  LET a == CalculateOutput(v, x)
             U == UpdateWeights(u, a.tau)
             V == UpdateWeights(a, u.tau)
         IN  /\ U.round = V.round
             /\ Mutual!Exchanged(Pair(u.weights, v.weights, u.round, k, l), x) =
                  Pair(U.weights, V.weights, U.round, k, l)
             /\ Mutual!Exchanged(Pair(v.weights, u.weights, u.round, k, l), x) =
                  Pair(V.weights, U.weights, U.round, k, l)
<1> DEFINE a == CalculateOutput(v, x)
           U == UpdateWeights(u, a.tau)
           V == UpdateWeights(a, u.tau)
<1>1. a \in TPMs /\ Computed(a, x) /\ a.weights = v.weights /\ a.round = v.round
  BY CalculateOutputType, OutputComputed, RoundAndTau
<1> HIDE DEF a
<1>2. u.tau = Mutual!Tau(u.weights, x) /\ a.tau = Mutual!Tau(v.weights, x)
  BY <1>1, AbstractMachine
<1>3. /\ U.weights = IF u.tau = a.tau THEN Mutual!After(u.weights, x) ELSE u.weights
      /\ U.round = IF u.tau = a.tau THEN u.round + 1 ELSE u.round
      /\ V.weights = IF a.tau = u.tau THEN Mutual!After(v.weights, x) ELSE v.weights
      /\ V.round = IF a.tau = u.tau THEN u.round + 1 ELSE u.round
  BY <1>1, Updated
<1> HIDE DEF U, V
<1>4. /\ Mutual!Exchanged(Pair(u.weights, v.weights, u.round, k, l), x) =
           Pair(U.weights, V.weights, U.round, k, l)
      /\ Mutual!Exchanged(Pair(v.weights, u.weights, u.round, k, l), x) =
           Pair(V.weights, U.weights, U.round, k, l)
  BY <1>2, <1>3, PairExchanged
<1> QED
  BY <1>3, <1>4 DEF U, V, a

(* An UPDATE read is an abstract exchange.                                 *)
LEMMA ExchangeStep ==
  ASSUME NEW cw \in Weights, NEW sw \in Weights, NEW n \in Nat, NEW x \in Inputs,
         NEW cv, NEW sv, NEW m,
         AbstractPair = Pair(cw, sw, n, NoKey, NoKey),
         Mutual!Exchanged(Pair(cw, sw, n, NoKey, NoKey), x) = Pair(cv, sv, m, NoKey, NoKey),
         \/ m < RoundThreshold /\ AbstractPair' = Pair(cv, sv, m, NoKey, NoKey)
         \/ /\ ~(m < RoundThreshold)
            /\ AbstractPair' \in {Pair(cv, sv, m, cv, NoKey), Pair(cv, sv, m, NoKey, sv)}
  PROVE  Mutual!Next
<1> DEFINE q == Pair(cv, sv, m, NoKey, NoKey)
<1>1. AbstractPair # NULL
  BY PairIsNotNULL
<1>2. AbstractPair.key = Mutual!NoKeys
  BY DEF Pair, Mutual!NoKeys, Mutual!Sides
<1>3. x \in Mutual!Inputs
  BY DEF Mutual!Inputs, Inputs, Mutual!Synapses, Synapses, Mutual!Neurons, Neurons
<1>4. Mutual!Exchanged(AbstractPair, x) = q /\ q.learnt = m
  BY DEF Pair
<1>5. /\ Pair(cv, sv, m, cv, NoKey) = Mutual!WithKey(q, "client")
      /\ Pair(cv, sv, m, NoKey, sv) = Mutual!WithKey(q, "server")
  BY PairWithKey
<1> HIDE DEF q
<1>6. IF q.learnt < RoundThreshold THEN AbstractPair' = q
      ELSE \E s \in Mutual!Sides : AbstractPair' = Mutual!WithKey(q, s)
  BY <1>4, <1>5 DEF Mutual!Sides, q
<1>7. Mutual!Exchange
  BY <1>1, <1>2, <1>3, <1>4, <1>6 DEF Mutual!Exchange
<1> QED
  BY <1>7 DEF Mutual!Next

-----------------------------------------------------------------------------
(* One lemma per handler.                                                  *)

(* While one of the handlers of UPDATE and FINAL runs, nothing but the     *)
(* packet it reads and the one it sends travels.                           *)
LEMMA ServerUpdateSimulates ==
  ASSUME KeyInv, SenderComputed, ServerUpdate
  PROVE  SenderComputed' /\ Simulates
<1> DEFINE p == Head(toServer)
           x == p.inVector
           v == CatchUp(server, p)
           a == Answer(server, p)
           learnt == Learnt(server, p)
<1>1. /\ toServer = <<p>> /\ toClient = <<>> /\ toServer' = <<>> /\ p.type = "NC"
      /\ ReceivesNc(toServer, "UPDATE") /\ p.state = "UPDATE"
      /\ client' = client /\ lost' = lost
      /\ ~Keyed(client) /\ ~Keyed(server) /\ p.tau = client.tau
  BY DEF KeyInv, LockstepInv, OnePacket, PacketOutput, KeysComeWithFinal, ServerUpdate, ReceivesNc,
         Receives
<1>2. p \in UpdatePackets /\ server \in TPMs
  BY QueueTypes, PacketByState
     DEF KeyInv, LockstepInv, TypeInv, TypeOK, ServerUpdate, ReceivesNc, Receives,
         ToServerPackets, ToClientPackets
<1>3. client \in TPMs /\ server # NULL /\ client # NULL
  BY <1>2, NcAssumption
     DEF KeyInv, LockstepInv, TypeInv, TypeOK, NoNullDereference, ServerUpdate, ReceivesNc, Receives
<1>4. x \in Inputs /\ Computed(client, x)
  BY <1>1, <1>2 DEF SenderComputed, UpdatePackets
<1>5. /\ v \in TPMs /\ a \in TPMs /\ learnt \in TPMs /\ v.secret = NoKey
      /\ learnt.secret = NoKey
  BY <1>1, <1>2, <1>3, <1>4, LearntType, LearntSecret, Secrets DEF Keyed, CatchUp
<1>6. a = CalculateOutput(v, x) /\ learnt = UpdateWeights(a, client.tau)
  BY <1>1 DEF Answer, Learnt
<1> DEFINE U == UpdateWeights(client, a.tau)
<1>7. PICK m : /\ toClient' = <<m>> /\ m.type = "NC" /\ m.lastTau = a.tau
               /\ \/ /\ m.state = "UPDATE" /\ BelowThreshold(learnt) /\ m.inVector \in Inputs
                     /\ server' = CalculateOutput(learnt, m.inVector)
                  \/ /\ m.state = "FINAL" /\ ~BelowThreshold(learnt)
                     /\ server' = GenerateKey(learnt)
  <2>1. CASE BelowThreshold(learnt)
    <3>1. PICK y \in Inputs :
            /\ server' = CalculateOutput(learnt, y)
            /\ toClient' = Append(toClient, NcPacket("UPDATE", y, server'.tau, a.tau))
      BY <2>1 DEF ServerUpdate
    <3> WITNESS NcPacket("UPDATE", y, server'.tau, a.tau)
    <3> QED
      BY <1>1, <2>1, <3>1 DEF NcPacket
  <2>2. CASE ~BelowThreshold(learnt)
    <3>1. /\ server' = GenerateKey(learnt)
          /\ toClient' = Append(toClient, NcPacket("FINAL", ZeroVector, a.tau, a.tau))
      BY <2>2 DEF ServerUpdate
    <3> WITNESS NcPacket("FINAL", ZeroVector, a.tau, a.tau)
    <3> QED
      BY <1>1, <2>2, <3>1 DEF NcPacket
  <2> QED
    BY <2>1, <2>2
<1> HIDE DEF p, x, v, a, learnt, U
<1>8. server' \in TPMs /\ server' # NULL /\ server'.weights = learnt.weights
  BY <1>5, <1>7, CalculateOutputType, GenerateKeyType, OutputComputed, NcAssumption
     DEF GenerateKey, TPMs
<1>9. SenderComputed'
  BY <1>1, <1>5, <1>7, OutputComputed, Single DEF SenderComputed
<1>10. Paired' <=> ~lost
  BY <1>1, <1>3, <1>8, Single DEF Paired
<1>11. Paired <=> ~lost
  BY <1>1, <1>3, Single DEF Paired
<1>12. ASSUME ~lost
       PROVE  Mutual!Next
  <2>1. ClientView = client /\ ServerView = v
    BY <1>1, Single DEF ClientView, ServerView, Pending, v, p
  <2>2. ClientView' = U /\ ServerView' = server'
    BY <1>1, <1>7, Single DEF ClientView, ServerView, Pending, CatchUp, U
  <2>3. v.round = client.round
    BY <1>11, <1>12, <2>1 DEF KeyInv, LockstepInv, RoundsInLockstep
  <2>4. AbstractPair = Pair(client.weights, v.weights, client.round, NoKey, NoKey)
    BY <1>1, <1>3, <1>11, <1>12, <2>1 DEF AbstractPair, Pair, Keyed
  <2>5. AbstractPair' = Pair(U.weights, learnt.weights, U.round, NoKey, server'.secret)
    BY <1>1, <1>3, <1>8, <1>10, <1>12, <2>2 DEF AbstractPair, Pair, Keyed
  <2>6. /\ U.round = learnt.round
        /\ Mutual!Exchanged(Pair(client.weights, v.weights, client.round, NoKey, NoKey), x) =
             Pair(U.weights, learnt.weights, U.round, NoKey, NoKey)
    BY <1>3, <1>4, <1>5, <1>6, <2>3, BothProcess DEF U
  <2>7. \/ U.round < RoundThreshold /\ server'.secret = NoKey
        \/ ~(U.round < RoundThreshold) /\ server'.secret = learnt.weights
    BY <1>5, <1>7, <2>6, Secrets DEF BelowThreshold
  <2>8. client.weights \in Weights /\ v.weights \in Weights /\ client.round \in Nat
    BY <1>3, <1>5 DEF TPMs
  <2> QED
    BY <1>4, <2>4, <2>5, <2>6, <2>7, <2>8, ExchangeStep
<1>13. lost => UNCHANGED AbstractPair
  BY <1>10, <1>11 DEF AbstractPair
<1> QED
  BY <1>9, <1>10, <1>11, <1>12, <1>13 DEF Simulates

LEMMA ClientUpdateSimulates ==
  ASSUME KeyInv, SenderComputed, ClientUpdate
  PROVE  SenderComputed' /\ Simulates
<1> DEFINE p == Head(toClient)
           x == p.inVector
           v == CatchUp(client, p)
           a == Answer(client, p)
           learnt == Learnt(client, p)
<1>1. /\ toClient = <<p>> /\ toServer = <<>> /\ toClient' = <<>> /\ p.type = "NC"
      /\ ReceivesNc(toClient, "UPDATE") /\ p.state = "UPDATE"
      /\ server' = server /\ lost' = lost
      /\ ~Keyed(client) /\ ~Keyed(server) /\ p.tau = server.tau
  BY DEF KeyInv, LockstepInv, OnePacket, PacketOutput, KeysComeWithFinal, ClientUpdate, ReceivesNc,
         Receives
<1>2. p \in UpdatePackets /\ client \in TPMs
  BY QueueTypes, PacketByState
     DEF KeyInv, LockstepInv, TypeInv, TypeOK, ClientUpdate, ReceivesNc, Receives,
         ToServerPackets, ToClientPackets
<1>3. server \in TPMs /\ client # NULL /\ server # NULL
  BY <1>2, NcAssumption
     DEF KeyInv, LockstepInv, TypeInv, TypeOK, NoNullDereference, ClientUpdate, ReceivesNc, Receives
<1>4. x \in Inputs /\ Computed(server, x)
  BY <1>1, <1>2 DEF SenderComputed, UpdatePackets
<1>5. /\ v \in TPMs /\ a \in TPMs /\ learnt \in TPMs /\ v.secret = NoKey
      /\ learnt.secret = NoKey
  BY <1>1, <1>2, <1>3, <1>4, LearntType, LearntSecret, Secrets DEF Keyed, CatchUp
<1>6. a = CalculateOutput(v, x) /\ learnt = UpdateWeights(a, server.tau)
  BY <1>1 DEF Answer, Learnt
<1> DEFINE U == UpdateWeights(server, a.tau)
<1>7. PICK m : /\ toServer' = <<m>> /\ m.type = "NC" /\ m.lastTau = a.tau
               /\ \/ /\ m.state = "UPDATE" /\ BelowThreshold(learnt) /\ m.inVector \in Inputs
                     /\ client' = CalculateOutput(learnt, m.inVector)
                  \/ /\ m.state = "FINAL" /\ ~BelowThreshold(learnt)
                     /\ client' = GenerateKey(learnt)
  <2>1. CASE BelowThreshold(learnt)
    <3>1. PICK y \in Inputs :
            /\ client' = CalculateOutput(learnt, y)
            /\ toServer' = Append(toServer, NcPacket("UPDATE", y, client'.tau, a.tau))
      BY <2>1 DEF ClientUpdate
    <3> WITNESS NcPacket("UPDATE", y, client'.tau, a.tau)
    <3> QED
      BY <1>1, <2>1, <3>1 DEF NcPacket
  <2>2. CASE ~BelowThreshold(learnt)
    <3>1. /\ client' = GenerateKey(learnt)
          /\ toServer' = Append(toServer, NcPacket("FINAL", ZeroVector, a.tau, a.tau))
      BY <2>2 DEF ClientUpdate
    <3> WITNESS NcPacket("FINAL", ZeroVector, a.tau, a.tau)
    <3> QED
      BY <1>1, <2>2, <3>1 DEF NcPacket
  <2> QED
    BY <2>1, <2>2
<1> HIDE DEF p, x, v, a, learnt, U
<1>8. /\ client' \in TPMs /\ client' # NULL /\ client'.weights = learnt.weights
      /\ client'.round = learnt.round
  BY <1>5, <1>7, CalculateOutputType, GenerateKeyType, OutputComputed, RoundAndTau, NcAssumption
     DEF GenerateKey, TPMs
<1>9. SenderComputed'
  BY <1>1, <1>5, <1>7, OutputComputed, Single DEF SenderComputed
<1>10. Paired' <=> ~lost
  BY <1>1, <1>3, <1>7, <1>8, Single DEF Paired
<1>11. Paired <=> ~lost
  BY <1>1, <1>3, Single DEF Paired
<1>12. ASSUME ~lost
       PROVE  Mutual!Next
  <2>1. ClientView = v /\ ServerView = server
    BY <1>1, Single DEF ClientView, ServerView, Pending, v, p
  <2>2. ClientView' = client' /\ ServerView' = U
    BY <1>1, <1>7, Single DEF ClientView, ServerView, Pending, CatchUp, U
  <2>3. v.round = server.round
    BY <1>11, <1>12, <2>1 DEF KeyInv, LockstepInv, RoundsInLockstep
  <2>4. AbstractPair = Pair(v.weights, server.weights, server.round, NoKey, NoKey)
    BY <1>1, <1>3, <1>11, <1>12, <2>1, <2>3 DEF AbstractPair, Pair, Keyed
  <2>5. AbstractPair' = Pair(learnt.weights, U.weights, learnt.round, client'.secret, NoKey)
    BY <1>1, <1>3, <1>8, <1>10, <1>12, <2>2 DEF AbstractPair, Pair, Keyed
  <2>6. /\ U.round = learnt.round
        /\ Mutual!Exchanged(Pair(v.weights, server.weights, server.round, NoKey, NoKey), x) =
             Pair(learnt.weights, U.weights, U.round, NoKey, NoKey)
    BY <1>3, <1>4, <1>5, <1>6, <2>3, BothProcess DEF U
  <2>7. \/ U.round < RoundThreshold /\ client'.secret = NoKey
        \/ ~(U.round < RoundThreshold) /\ client'.secret = learnt.weights
    BY <1>5, <1>7, <2>6, Secrets DEF BelowThreshold
  <2>8. server.weights \in Weights /\ v.weights \in Weights /\ server.round \in Nat
    BY <1>3, <1>5 DEF TPMs
  <2> QED
    BY <1>4, <2>4, <2>5, <2>6, <2>7, <2>8, ExchangeStep
<1>13. lost => UNCHANGED AbstractPair
  BY <1>10, <1>11 DEF AbstractPair
<1> QED
  BY <1>9, <1>10, <1>11, <1>12, <1>13 DEF Simulates

(* A FINAL read is the taking of the second key.                           *)
LEMMA TakeKeyStep ==
  ASSUME NEW cw \in Weights, NEW sw \in Weights, NEW n \in Nat,
         NEW ck \in Weights \cup {NoKey}, NEW sk \in Weights \cup {NoKey},
         AbstractPair = Pair(cw, sw, n, ck, sk),
         \/ ck # NoKey /\ sk = NoKey /\ AbstractPair' = Pair(cw, sw, n, ck, sw)
         \/ ck = NoKey /\ sk # NoKey /\ AbstractPair' = Pair(cw, sw, n, cw, sk)
  PROVE  Mutual!Next
<1>1. AbstractPair # NULL
  BY PairIsNotNULL
<1>2. AbstractPair.key["client"] = ck /\ AbstractPair.key["server"] = sk
  BY DEF Pair
<1>3. \/ /\ AbstractPair.key["client"] # NoKey /\ AbstractPair.key["server"] = NoKey
         /\ AbstractPair' = Mutual!WithKey(AbstractPair, "server")
      \/ /\ AbstractPair.key["server"] # NoKey /\ AbstractPair.key["client"] = NoKey
         /\ AbstractPair' = Mutual!WithKey(AbstractPair, "client")
  BY <1>2, PairWithKey
<1>4. Mutual!TakeKey
  BY <1>1, <1>3 DEF Mutual!TakeKey, Mutual!Sides
<1> QED
  BY <1>4 DEF Mutual!Next

LEMMA ClientFinalSimulates ==
  ASSUME KeyInv, SenderComputed, ClientFinal
  PROVE  SenderComputed' /\ Simulates
<1> DEFINE p == Head(toClient)
           v == CatchUp(client, p)
<1>1. /\ client \in TPMs /\ server' = server /\ toServer = <<>> /\ toServer' = <<>>
      /\ toClient = <<p>> /\ toClient' = <<>> /\ p.type = "NC" /\ p.state = "FINAL"
      /\ ~Keyed(client) /\ Keyed(server) /\ p.tau = p.lastTau /\ lost' = lost
  BY DEF KeyInv, LockstepInv, TypeInv, TypeOK, OnePacket, PacketOutput, KeysComeWithFinal,
         ClientFinal, ReceivesNc, Receives
<1>2. server \in TPMs /\ server # NULL /\ client # NULL
  BY <1>1, NcAssumption DEF KeyInv, LockstepInv, TypeInv, TypeOK, Keyed
<1>3. client' = GenerateKey(v)
  BY <1>1 DEF ClientFinal, CatchUp
<1>4. v \in TPMs
  BY <1>1, UpdateWeightsType DEF CatchUp
<1> HIDE DEF v
<1>5. /\ client' \in TPMs /\ client' # NULL /\ client'.weights = v.weights
      /\ client'.round = v.round /\ client'.secret = v.weights
  BY <1>3, <1>4, GenerateKeyType, Secrets, NcAssumption DEF GenerateKey, TPMs
<1>6. SenderComputed'
  BY <1>1, Single DEF SenderComputed
<1>7. (Paired' <=> ~lost) /\ (Paired <=> ~lost)
  BY <1>1, <1>2, <1>5, Single DEF Paired
<1>8. ASSUME ~lost
      PROVE  Mutual!Next
  <2>1. ClientView = v /\ ServerView = server
    BY <1>1, Single DEF ClientView, ServerView, Pending, v
  <2>2. ClientView' = client' /\ ServerView' = server
    BY <1>1, Single DEF ClientView, ServerView, Pending
  <2>3. AbstractPair = Pair(v.weights, server.weights, v.round, NoKey, server.secret)
    BY <1>1, <1>2, <1>7, <1>8, <2>1 DEF AbstractPair, Pair, Keyed
  <2>4. AbstractPair' = Pair(v.weights, server.weights, v.round, v.weights, server.secret)
    BY <1>1, <1>5, <1>7, <1>8, <2>2 DEF AbstractPair, Pair
  <2>5. /\ v.weights \in Weights /\ server.weights \in Weights /\ v.round \in Nat
        /\ server.secret \in Weights \cup {NoKey} /\ server.secret # NoKey
    BY <1>1, <1>2, <1>4 DEF TPMs, Keyed
  <2> QED
    BY <2>3, <2>4, <2>5, TakeKeyStep
<1>9. lost => UNCHANGED AbstractPair
  BY <1>7 DEF AbstractPair
<1> QED
  BY <1>6, <1>7, <1>8, <1>9 DEF Simulates

LEMMA ServerFinalSimulates ==
  ASSUME KeyInv, SenderComputed, ServerFinal
  PROVE  SenderComputed' /\ Simulates
<1> DEFINE p == Head(toServer)
           v == CatchUp(server, p)
<1>1. /\ server \in TPMs /\ client' = client /\ toClient = <<>> /\ toClient' = <<>>
      /\ toServer' = Tail(toServer) /\ p.type = "NC" /\ p.state = "FINAL"
      /\ ReceivesNc(toServer, "FINAL")
      /\ Keyed(client) /\ ~Keyed(server) /\ p.tau = p.lastTau /\ lost' = lost
  BY DEF KeyInv, LockstepInv, TypeInv, TypeOK, OnePacket, PacketOutput, KeysComeWithFinal,
         ServerFinal, ReceivesNc, Receives
<1>2. client \in TPMs /\ client # NULL /\ server # NULL
  BY <1>1, NcAssumption DEF KeyInv, LockstepInv, TypeInv, TypeOK, Keyed
<1>3. server' = GenerateKey(v)
  BY <1>1 DEF ServerFinal, CatchUp
<1>4. v \in TPMs
  BY <1>1, UpdateWeightsType DEF CatchUp
<1> HIDE DEF v
<1>5. /\ server' \in TPMs /\ server' # NULL /\ server'.weights = v.weights
      /\ server'.round = v.round /\ server'.secret = v.weights
  BY <1>3, <1>4, GenerateKeyType, Secrets, NcAssumption DEF GenerateKey, TPMs
<1>6. ~Receives(toServer', "NC")
  BY <1>1, Queues, NoNcBehind DEF ReceivesNc, Receives
<1>7. SenderComputed'
  BY <1>1, <1>6, Single DEF SenderComputed, ReceivesNc
<1>8. (Paired' <=> ~lost) /\ (Paired <=> ~lost)
  BY <1>1, <1>2, <1>5, <1>6 DEF Paired, ReceivesNc
<1>9. ASSUME ~lost
      PROVE  Mutual!Next
  <2>1. ClientView = client /\ ServerView = v
    BY <1>1, Single DEF ClientView, ServerView, Pending, v
  <2>2. ClientView' = client /\ ServerView' = server'
    BY <1>1, <1>6, Single DEF ClientView, ServerView, Pending, ReceivesNc
  <2>3. AbstractPair = Pair(client.weights, v.weights, client.round, client.secret, NoKey)
    BY <1>1, <1>2, <1>8, <1>9, <2>1 DEF AbstractPair, Pair, Keyed
  <2>4. AbstractPair' = Pair(client.weights, v.weights, client.round, client.secret, v.weights)
    BY <1>1, <1>5, <1>8, <1>9, <2>2 DEF AbstractPair, Pair
  <2>5. /\ v.weights \in Weights /\ client.weights \in Weights /\ client.round \in Nat
        /\ client.secret \in Weights \cup {NoKey} /\ client.secret # NoKey
    BY <1>1, <1>2, <1>4 DEF TPMs, Keyed
  <2> QED
    BY <2>3, <2>4, <2>5, TakeKeyStep
<1>10. lost => UNCHANGED AbstractPair
  BY <1>8 DEF AbstractPair
<1> QED
  BY <1>7, <1>8, <1>9, <1>10 DEF Simulates

(* BEGIN read is the start of an abstract negotiation, unless it was lost. *)
LEMMA ServerBeginSimulates ==
  ASSUME KeyInv, SenderComputed, ServerBegin
  PROVE  SenderComputed' /\ Simulates
<1> DEFINE p == Head(toServer)
<1>1. /\ toClient = <<>> /\ toServer' = <<>> /\ client' = client /\ lost' = lost
      /\ ~Keyed(client) /\ client.round = 0 /\ ~Paired
  BY DEF KeyInv, LockstepInv, OnePacket, PacketOutput, KeysComeWithFinal, ServerBegin, ReceivesNc,
         Receives, Paired
<1>2. p \in BeginPackets
  BY QueueTypes, PacketByState
     DEF KeyInv, LockstepInv, TypeInv, TypeOK, ServerBegin, ReceivesNc, Receives, ToServerPackets
<1>3. client \in TPMs /\ client # NULL /\ client.secret = NoKey
  BY <1>1 DEF KeyInv, LockstepInv, TypeInv, TypeOK, NoNullDereference, ServerBegin, ReceivesNc,
              Receives, Keyed
<1>4. PICK w \in Weights, x \in Inputs :
        LET fresh  == NewTPM(w, p.inVector)
            learnt == UpdateWeights(fresh, p.tau)
        IN  /\ server' = CalculateOutput(learnt, x)
            /\ toClient' = Append(toClient, NcPacket("UPDATE", x, server'.tau, fresh.tau))
  BY DEF ServerBegin
<1> DEFINE fresh  == NewTPM(w, p.inVector)
           learnt == UpdateWeights(fresh, p.tau)
           m      == NcPacket("UPDATE", x, server'.tau, fresh.tau)
           U      == UpdateWeights(client, fresh.tau)
<1>5. fresh \in TPMs /\ fresh.secret = NoKey
  BY <1>2, NewTPMType, NewTPMSecret DEF BeginPackets
<1>6. /\ toClient' = <<m>> /\ m.type = "NC" /\ m.state = "UPDATE" /\ m.inVector = x
      /\ m.lastTau = fresh.tau /\ server' = CalculateOutput(learnt, x)
  BY <1>1, <1>4 DEF NcPacket
<1> HIDE DEF p, fresh, m
<1>7. learnt \in TPMs /\ learnt.secret = NoKey
  BY <1>5, UpdateWeightsType, Secrets
<1> HIDE DEF learnt
<1>8. /\ server' \in TPMs /\ server' # NULL /\ server'.secret = NoKey
      /\ Computed(server', x)
  BY <1>6, <1>7, CalculateOutputType, OutputComputed, Secrets, NcAssumption
<1>9. SenderComputed'
  BY <1>1, <1>6, <1>8, Single DEF SenderComputed
<1>10. Paired' <=> ~lost
  BY <1>1, <1>3, <1>6, <1>8, Single DEF Paired
<1>11. U \in TPMs /\ U.round \in 0..1
  BY <1>1, <1>3, UpdateWeightsType, RoundAndTau
<1>12. ASSUME ~lost
       PROVE  Mutual!Begin
  <2>1. ClientView' = U /\ ServerView' = server'
    BY <1>1, <1>6, Single DEF ClientView, ServerView, Pending, CatchUp
  <2> HIDE DEF U
  <2>2. AbstractPair' = Pair(U.weights, server'.weights, U.round, NoKey, NoKey)
    BY <1>1, <1>3, <1>8, <1>10, <1>12, <2>1 DEF AbstractPair, Pair
  <2>3. U.weights \in Weights /\ server'.weights \in Weights
    BY <1>8, <1>11 DEF TPMs
  <2>4. Pair(U.weights, server'.weights, U.round, NoKey, NoKey)
          \in [weights : [{"client", "server"} -> Weights], learnt : 0..1, key : {Mutual!NoKeys}]
    BY <1>11, <2>3 DEF Pair, Mutual!NoKeys, Mutual!Sides
  <2>5. Mutual!Weights = Weights
    BY DEF Mutual!Weights, Weights, Mutual!Synapses, Synapses, Mutual!Neurons, Neurons
  <2>6. AbstractPair = NULL
    BY <1>1 DEF AbstractPair
  <2> QED
    BY <2>2, <2>4, <2>5, <2>6 DEF Mutual!Begin, Mutual!Sides
<1>13. lost => UNCHANGED AbstractPair
  BY <1>1, <1>10 DEF AbstractPair
<1> QED
  BY <1>1, <1>9, <1>12, <1>13 DEF Simulates, Mutual!Next

(* A refresh abandons the abstract negotiation.                            *)
LEMMA UpdateKeySimulates ==
  ASSUME KeyInv, UpdateKey, ~Overlap
  PROVE  SenderComputed' /\ Simulates
<1>1. toClient = <<>> /\ toServer = <<>>
  BY QueuesAreEmpty
<1>2. PICK m : toServer' = <<m>> /\ m.type = "NC" /\ m.state = "BEGIN"
  <2>1. PICK x \in Inputs : toServer' = <<NcPacket("BEGIN", x, client'.tau, client'.tau)>>
    BY <1>1 DEF UpdateKey
  <2> WITNESS NcPacket("BEGIN", x, client'.tau, client'.tau)
  <2> QED
    BY <2>1 DEF NcPacket
<1>3. SenderComputed'
  BY <1>1, <1>2, Single DEF UpdateKey, SenderComputed
<1>4. AbstractPair' = NULL
  BY <1>2, Single DEF AbstractPair, Paired
<1> QED
  BY <1>3, <1>4 DEF Simulates, Mutual!Next, Mutual!Abandon

(* A step that leaves the machines alone and no packet of the negotiation  *)
(* first in a queue.                                                       *)
LEMMA MsgSimulates ==
  ASSUME KeyInv, ClientDecryptMSG \/ ServerDecryptMSG \/ ServerReadEmpty \/ Lose
  PROVE  SenderComputed' /\ Simulates
<1>1. /\ client' = client /\ server' = server
      /\ ~Receives(toServer, "NC")' /\ ~Receives(toClient, "NC")'
      /\ \/ lost'
         \/ lost' = lost /\ ~Receives(toServer, "NC") /\ ~Receives(toClient, "NC")
  BY MsgStep
<1>2. SenderComputed'
  BY <1>1 DEF SenderComputed, ReceivesNc
<1>3. CASE lost'
  <2>1. AbstractPair' = NULL
    BY <1>3 DEF AbstractPair, Paired
  <2> QED
    BY <1>2, <1>3, <2>1 DEF Simulates, Mutual!Next, Mutual!Abandon
<1>4. CASE lost' = lost /\ ~Receives(toServer, "NC") /\ ~Receives(toClient, "NC")
  <2>1. ClientView' = ClientView /\ ServerView' = ServerView /\ (Paired' <=> Paired)
    BY <1>1, <1>4 DEF ClientView, ServerView, Pending, Paired, ReceivesNc
  <2> QED
    BY <1>1, <1>2, <2>1 DEF Simulates, AbstractPair
<1> QED
  BY <1>1, <1>3, <1>4

(* A MSG goes behind what travels already.                                 *)
LEMMA SendEncryptedMessageSimulates ==
  ASSUME KeyInv, SenderComputed, SendEncryptedMessage
  PROVE  SenderComputed' /\ Simulates
<1>1. /\ client \in TPMs /\ client.secret # NoKey /\ client' = client /\ server' = server
      /\ lost' = lost /\ toClient' = toClient
  BY DEF KeyInv, LockstepInv, TypeInv, TypeOK, MsgUnderCurrentKey, Keyed, SendEncryptedMessage
<1>2. toServer' = Append(toServer, AES!Msg(client.secret))
  BY <1>1 DEF SendEncryptedMessage, AES!EncryptedMessages
<1>3. AES!Msg(client.secret) \in ToServerPackets /\ AES!Msg(client.secret).type # "NC"
  BY <1>1 DEF AES!Msg, MsgPackets, ToServerPackets, TPMs
<1>4. /\ toServer # <<>> => toServer' # <<>> /\ Head(toServer') = Head(toServer)
      /\ ~Receives(toServer, "NC") => ~Receives(toServer', "NC")
  BY <1>2, <1>3, Queues, AppendMsg
<1>5. /\ \A s : ReceivesNc(toServer', s) <=> ReceivesNc(toServer, s)
      /\ \A s : ReceivesNc(toServer, s) => Head(toServer') = Head(toServer)
  BY <1>4 DEF ReceivesNc, Receives
<1>6. SenderComputed'
  BY <1>1, <1>5 DEF SenderComputed, Computed
<1>7. ClientView' = ClientView /\ ServerView' = ServerView /\ (Paired' <=> Paired)
  BY <1>1, <1>5 DEF ClientView, ServerView, Pending, Paired
<1> QED
  BY <1>1, <1>6, <1>7 DEF Simulates, AbstractPair

-----------------------------------------------------------------------------
LEMMA EveryStepSimulates ==
  ASSUME Overlap = FALSE
  PROVE  KeyInv /\ SenderComputed /\ [Next]_vars => SenderComputed' /\ Simulates
<1> SUFFICES ASSUME KeyInv, SenderComputed, [Next]_vars
             PROVE  SenderComputed' /\ Simulates
  OBVIOUS
<1>1. CASE UNCHANGED vars
  <2>1. ClientView' = ClientView /\ ServerView' = ServerView /\ (Paired' <=> Paired)
    BY <1>1 DEF vars, ClientView, ServerView, Pending, Paired, ReceivesNc, Receives
  <2>2. SenderComputed'
    BY <1>1 DEF vars, SenderComputed, Computed, ReceivesNc, Receives
  <2> QED
    BY <1>1, <2>1, <2>2 DEF vars, Simulates, AbstractPair
<1>2. CASE Next
  BY <1>2, UpdateKeySimulates, ClientUpdateSimulates, ClientFinalSimulates,
     SendEncryptedMessageSimulates, ServerBeginSimulates, ServerUpdateSimulates,
     ServerFinalSimulates, MsgSimulates DEF Next
<1> QED
  BY <1>1, <1>2

LEMMA SenderInvariance ==
  ASSUME Overlap = FALSE
  PROVE  Spec => [](KeyInv /\ SenderComputed)
<1>1. Init => SenderComputed
  BY DEF Init, SenderComputed, ReceivesNc, Receives
<1> QED
  BY <1>1, KeyInvariance, EveryStepSimulates, PTL DEF Spec

(* The exchange of packets implements mutual learning: no update is lost   *)
(* and none made twice however BEGIN, UPDATE and FINAL are delivered or    *)
(* lost, and the two keys are taken from weights after the same inputs     *)
(* (Client.cc:291, Server.cc:247).                                         *)
THEOREM Implements ==
  ASSUME Overlap = FALSE
  PROVE  Spec => ImplementsMutualLearning
<1>1. Init => Mutual!Init
  BY DEF Init, Mutual!Init, AbstractPair, Paired
<1>2. Simulates => [Mutual!Next]_AbstractPair
  BY DEF Simulates
<1> QED
  BY <1>1, <1>2, SenderInvariance, EveryStepSimulates, PTL
     DEF Spec, ImplementsMutualLearning, Mutual!Spec

-----------------------------------------------------------------------------
(* Mutual learning keeps equal weights equal.                              *)
LEMMA EqualStayEqual ==
  ASSUME NEW w, NEW n, NEW ck, NEW sk, NEW q,
         Pair(w, w, n, ck, sk) = AbstractPair, q = AbstractPair',
         Mutual!Exchange \/ Mutual!TakeKey
  PROVE  q.weights["client"] = q.weights["server"]
<1>1. \A v, m, c, s : Pair(v, v, m, c, s).weights["client"] = Pair(v, v, m, c, s).weights["server"]
  BY DEF Pair
<1>2. CASE Mutual!Exchange
  <2>1. PICK x \in Mutual!Inputs :
          LET p == Mutual!Exchanged(AbstractPair, x)
          IN  IF p.learnt < RoundThreshold THEN q = p
              ELSE \E s \in Mutual!Sides : q = Mutual!WithKey(p, s)
    BY <1>2 DEF Mutual!Exchange
  <2>2. PICK v, m : Mutual!Exchanged(AbstractPair, x) = Pair(v, v, m, ck, sk)
    <3>1. Mutual!Exchanged(Pair(w, w, n, ck, sk), x) =
            Pair(Mutual!After(w, x), Mutual!After(w, x), n + 1, ck, sk)
      BY PairExchanged
    <3> QED
      BY <3>1
  <2>3. \/ q = Pair(v, v, m, ck, sk) \/ q = Pair(v, v, m, v, sk) \/ q = Pair(v, v, m, ck, v)
    BY <2>1, <2>2, PairWithKey DEF Mutual!Sides
  <2> QED
    BY <1>1, <2>3
<1>3. CASE Mutual!TakeKey
  <2>1. q = Mutual!WithKey(AbstractPair, "client") \/ q = Mutual!WithKey(AbstractPair, "server")
    BY <1>3 DEF Mutual!TakeKey, Mutual!Sides
  <2>2. q = Pair(w, w, n, w, sk) \/ q = Pair(w, w, n, ck, w)
    BY <2>1, PairWithKey
  <2> QED
    BY <1>1, <2>2
<1> QED
  BY <1>2, <1>3

LEMMA AbstractPairIsPair ==
  ASSUME TypeInv, Paired
  PROVE  /\ AbstractPair = Pair(ClientView.weights, ServerView.weights, ClientView.round,
                               client.secret, server.secret)
         /\ AbstractPair # NULL
<1>1. client \in TPMs /\ server \in TPMs
  BY DEF TypeInv, TypeOK, Paired
<1>2. ClientView \in TPMs /\ ServerView \in TPMs
  BY <1>1, UpdateWeightsType DEF ClientView, ServerView, CatchUp
<1>3. AbstractPair = Pair(ClientView.weights, ServerView.weights, ClientView.round,
                          client.secret, server.secret)
  BY DEF AbstractPair, Pair
<1>4. /\ ClientView.weights \in Weights /\ ServerView.weights \in Weights
      /\ ClientView.round \in Nat
      /\ client.secret \in Weights \cup {NoKey} /\ server.secret \in Weights \cup {NoKey}
  BY <1>1, <1>2 DEF TPMs
<1> QED
  BY <1>3, <1>4, PairIsNotNULL

(* Machines that are synchronised, updates still to be read included, stay *)
(* so until a packet is lost or the next refresh: sync is lost neither at  *)
(* the threshold nor by FINAL.                                             *)
THEOREM SyncKept ==
  ASSUME Overlap = FALSE
  PROVE  Spec => SyncIsKept
<1>1. TypeInv /\ Paired => AbstractPair # NULL
  BY AbstractPairIsPair
<1>2. (TypeInv /\ Paired => AbstractPair # NULL)'
  BY <1>1, PTL
<1>3. ASSUME TypeInv, TypeInv', Simulates
      PROVE  InSync => InSync' \/ lost' \/ UpdateKey
  <2>1. SUFFICES ASSUME InSync, Paired', ~lost', ~UpdateKey
                 PROVE  ClientView'.weights = ServerView'.weights
    BY <1>3 DEF Simulates, InSync
  <2>2. /\ AbstractPair = Pair(ClientView.weights, ClientView.weights, ClientView.round,
                              client.secret, server.secret)
        /\ AbstractPair # NULL
    BY <1>3, <2>1, AbstractPairIsPair DEF InSync
  <2>3. AbstractPair' # NULL
    BY <1>3, <1>2, <2>1
  <2>4. /\ AbstractPair'.weights["client"] = ClientView'.weights
        /\ AbstractPair'.weights["server"] = ServerView'.weights
    BY <2>1 DEF AbstractPair
  <2>5. CASE UNCHANGED AbstractPair
    BY <2>2, <2>4, <2>5 DEF Pair
  <2>6. CASE Mutual!Next
    <3>1. Mutual!Exchange \/ Mutual!TakeKey
      BY <2>2, <2>3, <2>6 DEF Mutual!Next, Mutual!Abandon, Mutual!Begin
    <3>2. AbstractPair'.weights["client"] = AbstractPair'.weights["server"]
      BY <2>2, <3>1, EqualStayEqual
    <3> QED
      BY <2>4, <3>2
  <2> QED
    BY <1>3, <2>5, <2>6 DEF Simulates
<1>4. KeyInv => TypeInv
  BY DEF KeyInv, LockstepInv
<1> QED
  BY <1>3, <1>4, SenderInvariance, EveryStepSimulates, PTL DEF Spec, SyncIsKept
=============================================================================
