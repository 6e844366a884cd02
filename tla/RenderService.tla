---------------------------- MODULE RenderService ----------------------------
(***************************************************************************
 What a caller of preprocess() may rely on, without Workers, ports, timers or
 messages: the abstract specification PolicySession implements.

 Requests open in the order they are made and each settles once.  The frame
 shows the documents of requests that were made, never one older than one it
 already showed, and a request settles as rendered only if the frame showed
 it.  Nothing links the frame to the requests the other way: a request that
 settled otherwise may still be shown, later, until a newer one is.
 ***************************************************************************)
EXTENDS Naturals

CONSTANT Calls       \* the requests, 1..n in the order they are made

VARIABLES
  state,     \* per request: "new", "open", "rendered" or "failed"
  shown,     \* requests the frame has shown
  display    \* the request it shows now, or 0

serviceVars == <<state, shown, display>>

ServiceTypeOK ==
  /\ state \in [Calls -> {"new", "open", "rendered", "failed"}]
  /\ shown \subseteq Calls
  /\ display \in Calls \cup {0}

ServiceInit ==
  /\ state = [r \in Calls |-> "new"]
  /\ shown = {}
  /\ display = 0

\* The next request opens; it fails at once when no Worker can be made.
Submit(r) ==
  /\ state[r] = "new"
  /\ \A q \in Calls : q < r => state[q] # "new"
  /\ \E st \in {"open", "failed"} : state' = [state EXCEPT ![r] = st]
  /\ UNCHANGED <<shown, display>>

Show(r) ==
  /\ state[r] # "new"
  /\ \A q \in shown : q < r
  /\ shown' = shown \cup {r}
  /\ display' = r
  /\ UNCHANGED state

Clear ==
  /\ display' = 0
  /\ UNCHANGED <<state, shown>>

Settle(r) ==
  /\ state[r] = "open"
  /\ \E st \in {"rendered", "failed"} :
       /\ st = "rendered" => r \in shown
       /\ state' = [state EXCEPT ![r] = st]
  /\ UNCHANGED <<shown, display>>

\* A session that ends fails every open request at once.
FailAll ==
  /\ state' = [r \in Calls |-> IF state[r] = "open" THEN "failed" ELSE state[r]]
  /\ UNCHANGED <<shown, display>>

ServiceNext ==
  \/ \E r \in Calls : Submit(r) \/ Show(r) \/ Settle(r)
  \/ Clear
  \/ FailAll

ServiceSpec == ServiceInit /\ [][ServiceNext]_serviceVars
=============================================================================
