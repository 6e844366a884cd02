-------------------------- MODULE RuntimeController --------------------------
(***************************************************************************
 The program runtime: createRuntimeController (src/runtime/controller.js) and
 the QuickJS Worker it drives (src/runtime/worker.js, src/runtime/core.js).

 Two threads: the host and the Worker.  A reply and the continuation that
 commits it are one step, because a message event starts with no other
 microtask queued; so are a failure and the rejections it causes.  The
 pump() that follows a settled step runs after the caller's own continuation,
 which may call step() or dispose() first: `pumpDue`.

 The program's state is the sequence of the events applied to it, so that it
 tells which state a step was given.  A load() that is refused before a Worker
 exists changes nothing and is left out.
 ***************************************************************************)
EXTENDS Naturals, Sequences

CONSTANTS
  MaxSteps,    \* bound: calls of step()
  MaxQueue     \* maxQueue: steps that may wait

ASSUME StepsAssumption == MaxSteps \in Nat \ {0}
ASSUME MaxQueueAssumption == MaxQueue \in Nat

VARIABLES
  worker,      \* the Worker exists
  dead,
  ready,
  generation,
  stateJson,   \* the committed program state
  nextId,
  inFlight,    \* the outstanding request, or Nothing
  queue,       \* steps that wait
  loadCall,    \* state of load()'s promise
  outcome,     \* per step: state of its promise
  seen,        \* per step: the state its view was computed from
  pumpDue,     \* a settled step's finally(pump) is due
  loaded,      \* the Worker's core holds a program
  toWorker,    \* requests posted to the Worker
  fromWorker   \* replies posted to the host

coreVars == <<loaded, toWorker, fromWorker>>
promiseVars == <<loadCall, outcome, seen>>
runtimeVars == <<worker, dead, ready, generation, stateJson, nextId, inFlight,
                 queue, promiseVars, pumpDue, coreVars>>

Steps == 1..MaxSteps
Nothing == [id |-> 0, type |-> "none", step |-> 0, generation |-> 0]
Waiting == [step : Steps, serializable : BOOLEAN]

Request(id, type, step, state) ==
  [id |-> id, type |-> type, step |-> step, state |-> state]

\* ok is "ok", "error", or "malformed": a shape or a length checkReply refuses.
Answer(id, ok, state) == [id |-> id, ok |-> ok, state |-> state]

RuntimeTypeOK ==
  /\ worker \in BOOLEAN
  /\ dead \in BOOLEAN
  /\ ready \in BOOLEAN
  /\ generation \in 0..2
  /\ stateJson \in Seq(Steps)
  /\ nextId \in Nat \ {0}
  /\ inFlight \in {Nothing} \cup
       [id : 1..(nextId - 1), type : {"load", "init", "step"}, step : Steps \cup {0},
        generation : 0..2]
  /\ queue \in Seq(Waiting)
  /\ Len(queue) <= MaxQueue
  /\ loadCall \in {"none", "open", "resolved", "rejected"}
  /\ outcome \in [Steps -> {"none", "open", "resolved", "rejected"}]
  /\ seen \in [Steps -> Seq(Steps)]
  /\ pumpDue \in BOOLEAN
  /\ loaded \in BOOLEAN
  /\ toWorker \in Seq({m \in [id : 1..(nextId - 1), type : {"load", "init", "step"},
                             step : Steps \cup {0}, state : Seq(Steps)] :
                        m.type = "step" => m.step # 0})
  /\ fromWorker \in Seq([id : 1..(nextId - 1), ok : {"ok", "error", "malformed"},
                         state : Seq(Steps)])

RuntimeInit ==
  /\ worker = FALSE
  /\ dead = FALSE
  /\ ready = FALSE
  /\ generation = 0
  /\ stateJson = <<>>
  /\ nextId = 1
  /\ inFlight = Nothing
  /\ queue = <<>>
  /\ loadCall = "none"
  /\ outcome = [s \in Steps |-> "none"]
  /\ seen = [s \in Steps |-> <<>>]
  /\ pumpDue = FALSE
  /\ loaded = FALSE
  /\ toWorker = <<>>
  /\ fromWorker = <<>>

StepsOf(entries) == {entries[i].step : i \in DOMAIN entries}

\* The calls in S are rejected.
Rejecting(S, results) ==
  [s \in Steps |-> IF s \in S THEN "rejected" ELSE results[s]]

-----------------------------------------------------------------------------
(***************************************************************************
 markDead() and request().
 ***************************************************************************)
\* Seeded bug: the steps that wait are forgotten.
Bug_ActiveOnly(waiting) == {inFlight.step}

Outstanding(waiting) == {inFlight.step} \cup StepsOf(waiting)

\* Seeded bug: the request that was in flight still is.
Bug_StillInFlight == inFlight

InFlightWhenDead == Nothing

\* markDead(), with the steps that wait and the results so far.  terminate()
\* ends the Worker; the listeners stay, and a reply that was already posted is
\* taken to arrive.
MarkDead(waiting, results) ==
  /\ dead' = TRUE
  /\ generation' = generation + 1
  /\ inFlight' = InFlightWhenDead
  /\ queue' = <<>>
  /\ worker' = FALSE
  /\ outcome' = Rejecting(Outstanding(waiting), results)
  /\ loadCall' = IF loadCall = "open" THEN "rejected" ELSE loadCall
  /\ pumpDue' = FALSE
  /\ loaded' = FALSE
  /\ toWorker' = <<>>

Dies(undelivered) ==
  /\ MarkDead(queue, outcome)
  /\ fromWorker' = undelivered
  /\ UNCHANGED <<ready, stateJson, nextId, seen>>

\* request() that was posted: from now on it is the one in flight.
Posts(type, step, gen) ==
  /\ inFlight' = [id |-> nextId, type |-> type, step |-> step, generation |-> gen]
  /\ nextId' = nextId + 1
  /\ toWorker' = Append(toWorker, Request(nextId, type, step, stateJson))

\* Seeded bug: an event that cannot be sent takes the others with it.
Bug_AllUnsendable(entries) ==
  {n \in {0, Len(entries)} :
     n = 0 <=> \A i \in DOMAIN entries : entries[i].serializable}

\* How many steps at the head of the queue have an event that cannot cross the
\* boundary: one number.
Unsendable(entries) ==
  {n \in 0..Len(entries) :
     /\ \A i \in 1..n : ~entries[i].serializable
     /\ n < Len(entries) => entries[n + 1].serializable}

\* pump() over the steps that wait.  postMessage may throw, which is death.
Pump(waiting, results) ==
  \/ /\ inFlight # Nothing
     /\ queue' = waiting
     /\ outcome' = results
     /\ pumpDue' = FALSE
     /\ UNCHANGED <<worker, dead, generation, nextId, inFlight, loadCall,
                    coreVars>>
  \/ /\ inFlight = Nothing
     /\ \E n \in Unsendable(waiting) :
          LET rest == SubSeq(waiting, n + 1, Len(waiting))
              after == Rejecting(StepsOf(SubSeq(waiting, 1, n)), results)
          IN \/ /\ rest = <<>>
                /\ queue' = <<>>
                /\ outcome' = after
                /\ pumpDue' = FALSE
                /\ UNCHANGED <<worker, dead, generation, nextId, inFlight,
                               loadCall, coreVars>>
             \/ /\ rest # <<>>
                /\ Posts("step", Head(rest).step, generation)
                /\ queue' = Tail(rest)
                /\ outcome' = after
                /\ pumpDue' = FALSE
                /\ UNCHANGED <<worker, dead, generation, loadCall, loaded,
                               fromWorker>>
             \/ /\ rest # <<>>
                /\ MarkDead(rest, after)
                /\ UNCHANGED <<nextId, fromWorker>>

-----------------------------------------------------------------------------
(***************************************************************************
 The caller: load(), step(), dispose().
 ***************************************************************************)
\* createWorker() may throw, and so may the first postMessage().
LoadFails ==
  /\ ~dead
  /\ ~worker
  /\ Dies(fromWorker)

LoadStarts ==
  /\ ~dead
  /\ ~worker
  /\ worker' = TRUE
  /\ generation' = generation + 1
  /\ loadCall' = "open"
  /\ Posts("load", 0, generation + 1)
  /\ UNCHANGED <<dead, ready, stateJson, queue, outcome, seen, pumpDue, loaded,
                 fromWorker>>

QueueFull == Len(queue) >= MaxQueue

\* The s-th call of step(), with an event that can be serialized or not.
StepRefused(s) ==
  /\ dead \/ ~ready \/ QueueFull
  /\ outcome' = Rejecting({s}, outcome)
  /\ UNCHANGED <<worker, dead, ready, generation, stateJson, nextId, inFlight,
                 queue, loadCall, seen, pumpDue, coreVars>>

StepQueued(s, serializable) ==
  /\ ~dead
  /\ ready
  /\ ~QueueFull
  /\ Pump(Append(queue, [step |-> s, serializable |-> serializable]),
          [outcome EXCEPT ![s] = "open"])
  /\ UNCHANGED <<ready, stateJson, seen>>

Step(s) ==
  /\ outcome[s] = "none"
  /\ \A t \in Steps : t < s => outcome[t] # "none"
  /\ StepRefused(s) \/ \E serializable \in BOOLEAN : StepQueued(s, serializable)

RuntimeDispose ==
  /\ ~dead
  /\ Dies(fromWorker)

-----------------------------------------------------------------------------
(***************************************************************************
 The host's event loop.
 ***************************************************************************)
FinallyPump ==
  /\ pumpDue
  /\ IF dead
     THEN /\ pumpDue' = FALSE
          /\ UNCHANGED <<worker, dead, generation, nextId, inFlight, queue,
                         loadCall, outcome, coreVars>>
     ELSE Pump(queue, outcome)
  /\ UNCHANGED <<ready, stateJson, seen>>

\* Seeded bug: any well-formed reply is taken for the one that is outstanding.
Bug_AnyReply(m) == inFlight # Nothing /\ m.ok # "malformed"

\* checkReply(): well formed, and for the outstanding request.
Accepted(m) == inFlight # Nothing /\ m.ok # "malformed" /\ m.id = inFlight.id

HostTakes(m) ==
  /\ ~pumpDue
  /\ fromWorker # <<>>
  /\ m = Head(fromWorker)

\* A protocol failure, or an error the Worker reports: the session is over.
OnBadReply(m) ==
  /\ HostTakes(m)
  /\ ~Accepted(m) \/ m.ok = "error"
  /\ IF dead
     THEN /\ fromWorker' = Tail(fromWorker)
          /\ UNCHANGED <<worker, dead, ready, generation, stateJson, nextId,
                         inFlight, queue, promiseVars, pumpDue, loaded, toWorker>>
     ELSE Dies(Tail(fromWorker))

\* load() goes on to its second round trip, unless the deadline has passed or
\* the request cannot be posted.
OnLoaded(m) ==
  /\ HostTakes(m)
  /\ Accepted(m)
  /\ m.ok = "ok"
  /\ inFlight.type = "load"
  /\ \/ /\ Posts("init", 0, generation)
        /\ fromWorker' = Tail(fromWorker)
        /\ UNCHANGED <<worker, dead, ready, generation, stateJson, queue,
                       promiseVars, pumpDue, loaded>>
     \/ Dies(Tail(fromWorker))

OnInitialized(m) ==
  /\ HostTakes(m)
  /\ Accepted(m)
  /\ m.ok = "ok"
  /\ inFlight.type = "init"
  /\ inFlight' = Nothing
  /\ stateJson' = m.state
  /\ ready' = TRUE
  /\ loadCall' = "resolved"
  /\ fromWorker' = Tail(fromWorker)
  /\ UNCHANGED <<worker, dead, generation, nextId, queue, outcome, seen,
                 pumpDue, loaded, toWorker>>

\* A step's result is committed, unless the session died meanwhile.
OnStepped(m) ==
  /\ HostTakes(m)
  /\ Accepted(m)
  /\ m.ok = "ok"
  /\ inFlight.type = "step"
  /\ inFlight' = Nothing
  /\ fromWorker' = Tail(fromWorker)
  /\ pumpDue' = TRUE
  /\ LET s == inFlight.step
     IN IF inFlight.generation = generation
        THEN /\ stateJson' = m.state
             /\ seen' = [seen EXCEPT ![s] = m.state]
             /\ outcome' = [outcome EXCEPT ![s] = "resolved"]
        ELSE /\ outcome' = Rejecting({s}, outcome)
             /\ UNCHANGED <<stateJson, seen>>
  /\ UNCHANGED <<worker, dead, ready, generation, nextId, queue, loadCall,
                 loaded, toWorker>>

\* Seeded bug: only load() is watched.
Bug_LoadWatched == inFlight.type \in {"load", "init"}

Watched == inFlight # Nothing

Watchdog ==
  /\ ~pumpDue
  /\ Watched
  /\ Dies(fromWorker)

\* The Worker's error and messageerror events.
OnRuntimeError ==
  /\ ~pumpDue
  /\ worker
  /\ Dies(fromWorker)

-----------------------------------------------------------------------------
(***************************************************************************
 The Worker: one request, one reply.  The program may throw, or run until it
 is interrupted, in any of them.
 ***************************************************************************)
Result(m) ==
  CASE m.type = "load" -> <<>>
    [] m.type = "init" -> <<>>
    [] m.type = "step" -> Append(m.state, m.step)

WorkerHandles ==
  /\ toWorker # <<>>
  /\ LET m == Head(toWorker)
     IN /\ toWorker' = Tail(toWorker)
        /\ \/ /\ m.type = "load" \/ loaded
              /\ loaded' = TRUE
              /\ fromWorker' = Append(fromWorker, Answer(m.id, "ok", Result(m)))
           \/ /\ loaded' = (loaded /\ m.type # "load")
              /\ fromWorker' = Append(fromWorker, Answer(m.id, "error", <<>>))
  /\ UNCHANGED <<worker, dead, ready, generation, stateJson, nextId, inFlight,
                 queue, promiseVars, pumpDue>>

HostEvents ==
  \/ FinallyPump
  \/ Watchdog
  \/ OnRuntimeError
  \/ \E i \in DOMAIN fromWorker :
       \/ OnBadReply(fromWorker[i])
       \/ OnLoaded(fromWorker[i])
       \/ OnInitialized(fromWorker[i])
       \/ OnStepped(fromWorker[i])

RuntimeNext ==
  \/ LoadFails
  \/ LoadStarts
  \/ \E s \in Steps : Step(s)
  \/ RuntimeDispose
  \/ HostEvents
  \/ WorkerHandles

\* A microtask runs, and a watchdog that stays armed fires.  Nothing is
\* assumed of the Worker: a program may hang.
RuntimeFairness ==
  /\ WF_runtimeVars(FinallyPump)
  /\ SF_runtimeVars(Watchdog)

-----------------------------------------------------------------------------
(***************************************************************************
 Properties.
 ***************************************************************************)
\* "Every promise this controller hands out settles exactly once": a step is
\* open only while it waits or is in flight, each in one place only, and load()
\* only while one of its two round trips is in flight, and the queue keeps its
\* limit.
OpenIsOutstanding ==
  /\ RuntimeTypeOK
  /\ \A s \in Steps :
       outcome[s] = "open" <=> s \in StepsOf(queue) \cup {inFlight.step}
  /\ inFlight.step \notin StepsOf(queue)
  /\ loadCall = "open" <=> inFlight.type \in {"load", "init"}

\* The program state h has seen the resolved ones of the first n steps, in
\* their order, each once, and nothing else.
IsHistory(h, n) ==
  /\ \A i, j \in DOMAIN h : i < j => h[i] < h[j]
  /\ {h[i] : i \in DOMAIN h} = {s \in 1..n : outcome[s] = "resolved"}

\* "Every step sees the state produced by the previous one": the committed
\* state is that of the resolved steps in the order they were asked for, each
\* once, and the view of a step shows exactly those up to itself.
StateIsHistory ==
  /\ IsHistory(stateJson, MaxSteps)
  /\ \A s \in Steps : outcome[s] = "resolved" => IsHistory(seen[s], s)

\* "A late reply can neither commit state nor restart the session": death is
\* final, and nothing succeeds after it.
DeathIsFinal ==
  [][dead => /\ dead' /\ ~worker' /\ stateJson' = stateJson
             /\ \A s \in Steps : outcome'[s] = "resolved" => outcome[s] = "resolved"
             /\ loadCall' = loadCall]_runtimeVars

\* "Reject that event and keep the session alive": an event that cannot be
\* serialized fails alone, unless the session dies at that moment.
OnlyDeathFailsTheOthers ==
  [][\A s \in Steps :
       outcome[s] = "open" /\ outcome'[s] = "rejected"
         => \/ dead'
            \/ \E i \in DOMAIN queue :
                 queue[i].step = s /\ ~queue[i].serializable]_runtimeVars

\* A step settles although the program may hang, and so does load().
EveryPromiseSettles ==
  /\ \A s \in Steps : outcome[s] = "open" ~> outcome[s] # "open"
  /\ loadCall = "open" ~> loadCall # "open"
=============================================================================
