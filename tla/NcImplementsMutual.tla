------------------------- MODULE NcImplementsMutual -------------------------
(***************************************************************************)
(* The packets of NcNegotiation implement MutualLearning: a side's abstract*)
(* machine is its machine with the update its partner has already made.    *)
(***************************************************************************)
EXTENDS NcNegotiation

ASSUME PairAssumption ==
  NULL \notin [weights : [{"client", "server"} -> Weights], learnt : Nat,
               key : [{"client", "server"} -> Weights \cup {NoKey}]]

AbstractPair ==
  IF Paired
  THEN [weights |-> [s \in {"client", "server"} |->
                       IF s = "client" THEN ClientView.weights ELSE ServerView.weights],
        learnt  |-> ClientView.round,
        key     |-> [s \in {"client", "server"} |->
                       IF s = "client" THEN client.secret ELSE server.secret]]
  ELSE NULL

Mutual == INSTANCE MutualLearning WITH None <- NULL, pair <- AbstractPair

(* Every packet a handler processes is one step of mutual learning: the    *)
(* asynchronous exchange of UPDATEs loses no update and makes none twice,  *)
(* and the two keys are taken from the weights after the same inputs.      *)
ImplementsMutualLearning == Mutual!Spec
=============================================================================
