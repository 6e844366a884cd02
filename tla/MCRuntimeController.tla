------------------------- MODULE MCRuntimeController -------------------------
\* The runtime with a Worker whose replies may also be duplicated, malformed or
\* about a request that is not outstanding.
EXTENDS RuntimeController, Functions

CONSTANT MaxStray   \* bound: such replies

ASSUME StrayAssumption == MaxStray \in Nat

VARIABLE strays     \* such replies so far

mcVars == <<runtimeVars, strays>>

StrayReply ==
  /\ worker
  /\ strays < MaxStray
  /\ strays' = strays + 1
  /\ \E m \in {Answer(id, ok, <<>>) : id \in 1..(nextId - 1),
                                      ok \in {"ok", "error", "malformed"}}
              \cup Range(fromWorker) :
       /\ m.id = inFlight.id => m.ok = "malformed" \/ m \in Range(fromWorker)
       /\ fromWorker' = Append(fromWorker, m)
  /\ UNCHANGED <<worker, dead, ready, generation, stateJson, nextId, inFlight,
                 queue, promiseVars, pumpDue, loaded, toWorker>>

MCInit == RuntimeInit /\ strays = 0
MCNext == (RuntimeNext /\ UNCHANGED strays) \/ StrayReply
MCSpec == MCInit /\ [][MCNext]_mcVars /\ RuntimeFairness
=============================================================================
