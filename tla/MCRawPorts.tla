------------------------------ MODULE MCRawPorts ------------------------------
\* Sender and receivers of the raw socket ports.  They share no state: a behaviour
\* is one of the sender or one of the queues.
EXTENDS TxPacing, RawQueues, TLC

VARIABLE part

MCDelay == [t \in 0 .. 1 |-> t + 1]
MCQueues == Permutations(Queues)

MCInit ==
  /\ PacingInit /\ QueuesInit /\ part \in {"sender", "queues"}
  /\ part = "queues" => kind = "raw" /\ next = [t \in AllTargets |-> 0]

MCNext ==
  \/ part = "sender" /\ PacingNext /\ UNCHANGED part /\ UNCHANGED queueVars
  \/ part = "queues" /\ QueuesNext /\ UNCHANGED part /\ UNCHANGED pacingVars

MCSpec == MCInit /\ [][MCNext]_<<part, pacingVars, queueVars>>
=============================================================================
