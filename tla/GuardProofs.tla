----------------------------- MODULE GuardProofs -----------------------------
(***************************************************************************
 Proofs about the integrated guard (GuardSpec of Guard) whose host does not
 call it from a status callback: for every number of calls and events and every
 depth of the event chain.
 ***************************************************************************)
EXTENDS Guard, SequenceTheorems, TLAPS

USE DEF Calls, Requests, NoGeneration

\* The call was accepted and has left supersede().
Begun(c) == call[c].kind # "none" /\ call[c].phase \notin {"none", "superseding"}

Ended == (IF disposed THEN 1 ELSE 0) + (IF terminalReason THEN 1 ELSE 0)

\* Calls leave supersede() one by one, in the order they were made, each with a
\* generation of its own.
CallsInOrder ==
  /\ \E n \in 0..MaxCalls :
       /\ \A c \in Calls : (call[c].phase # "none") <=> (c <= n)
       /\ generation <= n + Ended
  /\ \A c, d \in Calls :
       c < d /\ Begun(c) /\ Begun(d) => call[c].generation < call[d].generation
  /\ \A c \in Calls : call[c].phase = "superseding" =>
       stack # <<>> /\ stack[1].call = c
  /\ \A c \in Calls : call[c].phase # "none" /\ call[c].kind = "none" =>
       disposed \/ terminalReason
  /\ \A c \in Calls : call[c].phase = "none" => call[c].kind = "none"
  /\ \A c \in Calls : call[c].phase # "done" => call[c].result = "none"
  /\ \A c \in Calls : call[c].phase = "committing" => call[c].request \in Requests

\* No call is made while one is inside supersede().
OneInside ==
  /\ Len(stack) <= 1
  /\ stack # <<>> =>
       /\ call[stack[1].call].phase = "superseding"
       /\ startup = "done" /\ ~released
       /\ \A c \in Calls : call[c].phase # "none" => c <= stack[1].call
       /\ \A c \in Calls : Begun(c) => call[c].generation < generation

\* What is torn down stays so.
ReleasedInv ==
  /\ released => disposed \/ terminalReason \/ startup = "failed"
  /\ disposed \/ terminalReason \/ startup = "failed" => released
  /\ released => runtime = 0 /\ initializing = {}
  /\ ReleasedHoldsNothing

\* Every program belongs to a call of render() that tracks it.
ProgramsOwned ==
  /\ runtime # 0 => /\ program[runtime] = "live"
                    /\ runtimeGeneration = generation
                    /\ call[runtime].generation = generation
  /\ \A c \in Calls :
       /\ program[c] = "live" => c = runtime
       /\ program[c] = "loading" => c \in initializing
       /\ Alive(c) => call[c].result \in {"none", "rendered"}
       /\ program[c] # "none" => /\ call[c].kind = "program"
                                 /\ call[c].phase \in {"loading", "committing", "done"}
       /\ program[c] = "loading" => call[c].phase = "loading"
       /\ call[c].phase = "loading" =>
            call[c].kind = "program" /\ program[c] \in {"loading", "dead"}
       /\ c \in initializing => call[c].phase = "loading"

\* An event that is processed is its program's.
OwnedBy(e, c) ==
  /\ c \in Calls
  /\ call[c].kind = "program"
  /\ call[c].phase \in {"committing", "done"}
  /\ e.generation = call[c].generation

EventsOwned ==
  \A i \in DOMAIN chain :
    chain[i].phase # "queued" => OwnedBy(chain[i], chain[i].program)

\* Views are asked for in the order of their generations, and one that is
\* reported as rendered was shown.
ViewsInOrder ==
  /\ \A q, r \in Requests : q < r /\ request[r] # "new" =>
       request[q] # "new" /\ owner[q].generation <= owner[r].generation
  /\ \A r \in Requests : owner[r].generation <= generation
  /\ \A r \in Requests : request[r] = "rendered" => r \in shown

GuardInv ==
  /\ GuardTypeOK
  /\ CallsInOrder
  /\ OneInside
  /\ ReleasedInv
  /\ ProgramsOwned
  /\ EventsOwned
  /\ ViewsInOrder

-----------------------------------------------------------------------------
(***************************************************************************
 The parts of a step.
 ***************************************************************************)
Kinds == {"none", "document", "program"}
Phases == {"none", "superseding", "loading", "committing", "done"}
ProgramStates == {"none", "loading", "live", "dead"}
RequestStates == {"new", "open", "rendered", "failed"}
CallRecords(g) == [kind : Kinds, phase : Phases, generation : 0..g,
                   request : Requests \cup {0}, result : Results \cup {"none"}]
StackEntries == [call : Calls, callback : BOOLEAN]
EventRecords == [generation : 0..NoGeneration, program : Calls \cup {0},
                 phase : {"queued", "stepping", "committing"},
                 request : Requests \cup {0}]
OwnerRecords == [generation : 0..NoGeneration, program : Calls \cup {0}]

LifeOK ==
  /\ startup \in {"pending", "done", "failed"}
  /\ disposed \in BOOLEAN
  /\ terminalReason \in BOOLEAN
  /\ released \in BOOLEAN

StackOK == stack \in Seq(StackEntries)

CallOK ==
  /\ generation \in 0..(NoGeneration - 1)
  /\ call \in [Calls -> CallRecords(generation)]

ProgramOK ==
  /\ runtime \in Calls \cup {0}
  /\ runtimeGeneration \in 0..NoGeneration
  /\ initializing \subseteq Calls
  /\ program \in [Calls -> ProgramStates]

ChainOK ==
  /\ chain \in Seq(EventRecords)
  /\ Len(chain) <= MaxPendingEvents
  /\ events \in 0..MaxEvents

ViewsOK ==
  /\ owner \in [Requests -> OwnerRecords]
  /\ request \in [Requests -> RequestStates]
  /\ shown \subseteq Requests
  /\ display \in Requests \cup {0}

LEMMA TypeParts ==
  GuardTypeOK <=> LifeOK /\ StackOK /\ CallOK /\ ProgramOK /\ ChainOK /\ ViewsOK
BY Zenon DEF GuardTypeOK, CallRecords, StackEntries, EventRecords, OwnerRecords,
   Kinds, Phases, ProgramStates, RequestStates, Service!ServiceTypeOK,
   LifeOK, StackOK, CallOK, ProgramOK, ChainOK, ViewsOK

LEMMA TypeParts2 ==
  ASSUME LifeOK', StackOK', CallOK', ProgramOK', ChainOK', ViewsOK'
  PROVE  GuardTypeOK'
BY Zenon DEF GuardTypeOK, CallRecords, StackEntries, EventRecords, OwnerRecords,
   Kinds, Phases, ProgramStates, RequestStates, Service!ServiceTypeOK,
   LifeOK, StackOK, CallOK, ProgramOK, ChainOK, ViewsOK

LEMMA TypeFacts ==
  ASSUME GuardTypeOK
  PROVE  /\ CallOK /\ ProgramOK /\ ChainOK /\ ViewsOK
         /\ generation \in 0..(NoGeneration - 1)
         /\ call \in [Calls -> CallRecords(generation)]
         /\ runtime \in Calls \cup {0}
         /\ runtimeGeneration \in 0..NoGeneration
         /\ initializing \subseteq Calls
         /\ program \in [Calls -> ProgramStates]
         /\ owner \in [Requests -> OwnerRecords]
         /\ request \in [Requests -> RequestStates]
         /\ shown \subseteq Requests
         /\ display \in Requests \cup {0}
         /\ chain \in Seq(EventRecords)
BY Zenon, TypeParts DEF CallOK, ProgramOK, ChainOK, ViewsOK

\* Runtimes stop, and none starts.
Fewer ==
  /\ program' \in [Calls -> ProgramStates]
  /\ runtime' = 0 \/ runtime' = runtime
  /\ runtimeGeneration' \in 0..NoGeneration
  /\ runtime' # 0 => program'[runtime'] = "live" /\ runtimeGeneration' = runtimeGeneration
  /\ \A c \in Calls :
       program'[c] = program[c] \/ (program'[c] = "dead" /\ program[c] # "none")
  /\ \A c \in Calls : program'[c] = "live" => c = runtime'

LEMMA KillingFacts ==
  ASSUME program \in [Calls -> ProgramStates], NEW S
  PROVE  /\ Killing(S) \in [Calls -> ProgramStates]
         /\ \A c \in Calls :
              Killing(S)[c] = IF c \in S /\ program[c] \in {"loading", "live"}
                              THEN "dead" ELSE program[c]
BY DEF Killing, Alive, ProgramStates

LEMMA StopFewer ==
  ASSUME GuardInv, NEW gen, StopRuntime(gen)
  PROVE  /\ Fewer
         /\ Stops(gen) => runtime' = 0
         /\ ~Stops(gen) => program' = program /\ runtime' = runtime
<1>1. /\ program \in [Calls -> ProgramStates]
      /\ runtime \in Calls \cup {0}
      /\ runtimeGeneration \in 0..NoGeneration
      /\ \A c \in Calls : program[c] = "live" => c = runtime
      /\ runtime # 0 => program[runtime] = "live"
  BY TypeFacts DEF GuardInv, ProgramsOwned
<1>2. CASE Stops(gen)
  <2>1. /\ program' = Killing({runtime})
        /\ runtime' = 0
        /\ runtimeGeneration' = NoGeneration
    BY <1>2 DEF StopRuntime
  <2>2. /\ program' \in [Calls -> ProgramStates]
        /\ \A c \in Calls :
             program'[c] = IF c \in {runtime} /\ program[c] \in {"loading", "live"}
                           THEN "dead" ELSE program[c]
    BY <1>1, <2>1, KillingFacts
  <2>3. runtimeGeneration' \in 0..NoGeneration
    BY <2>1, GuardBoundsAssumption
  <2>4. QED
    BY <1>1, <1>2, <2>1, <2>2, <2>3 DEF Fewer
<1>3. CASE ~Stops(gen)
  BY <1>1, <1>3 DEF StopRuntime, Fewer, runtimeVars, installedVars
<1>4. QED
  BY <1>2, <1>3

LEMMA DiedFewer ==
  ASSUME GuardInv, NEW c \in Calls, Alive(c), NEW gen, gen = call[c].generation,
         RuntimeDied(c, gen)
  PROVE  Fewer /\ program'[c] = "dead"
<1>1. /\ program \in [Calls -> ProgramStates]
      /\ runtime \in Calls \cup {0}
      /\ runtimeGeneration \in 0..NoGeneration
      /\ generation \in Nat
      /\ \A d \in Calls : program[d] = "live" => d = runtime
      /\ runtime # 0 => /\ program[runtime] = "live"
                        /\ runtimeGeneration = generation
                        /\ call[runtime].generation = generation
  BY TypeFacts, GuardBoundsAssumption DEF GuardInv, ProgramsOwned
<1>2. /\ program' = Killing({c})
      /\ program' \in [Calls -> ProgramStates]
      /\ \A d \in Calls :
           program'[d] = IF d \in {c} /\ program[d] \in {"loading", "live"}
                         THEN "dead" ELSE program[d]
  BY <1>1, KillingFacts DEF RuntimeDied
<1>3. program'[c] = "dead"
  BY <1>2 DEF Alive
<1>4. CASE program[c] = "live"
  <2>1. runtime = c /\ Stops(gen)
    BY <1>1, <1>4 DEF Stops
  <2>2. ~disposed
    BY <2>1 DEF GuardInv, ReleasedInv
  <2>3. runtime' = 0 /\ runtimeGeneration' = NoGeneration
    BY <2>1, <2>2 DEF RuntimeDied
  <2>4. runtimeGeneration' \in 0..NoGeneration
    BY <2>3, GuardBoundsAssumption
  <2>5. QED
    BY <1>1, <1>2, <1>3, <1>4, <2>1, <2>3, <2>4 DEF Fewer
<1>5. CASE program[c] # "live"
  <2>1. program[c] = "loading"
    BY <1>5 DEF Alive
  <2>2. ~Stops(gen)
    <3> SUFFICES ASSUME Stops(gen) PROVE FALSE
      OBVIOUS
    <3>1. runtime \in Calls /\ runtime # c /\ call[runtime].generation = call[c].generation
      BY <1>1, <1>5 DEF Stops
    <3>2. Begun(runtime) /\ Begun(c)
      BY <1>1, <2>1, <3>1 DEF GuardInv, ProgramsOwned, Begun
    <3>3. runtime < c \/ c < runtime
      BY <3>1
    <3>4. call[c].generation \in Int
      BY <1>1, <3>1 DEF Stops
    <3>5. QED
      BY <3>1, <3>2, <3>3, <3>4 DEF GuardInv, CallsInOrder
  <2>3. runtime' = runtime /\ runtimeGeneration' = runtimeGeneration
    BY <2>2 DEF RuntimeDied
  <2>4. QED
    BY <1>1, <1>2, <1>3, <2>1, <2>3 DEF Fewer
<1>6. QED
  BY <1>3, <1>4, <1>5

LEMMA OpenFailsFacts ==
  ASSUME request \in [Requests -> RequestStates]
  PROVE  /\ OpenFails \in [Requests -> RequestStates]
         /\ \A r \in Requests :
              /\ OpenFails[r] # "open"
              /\ (OpenFails[r] = "new") <=> (request[r] = "new")
              /\ (OpenFails[r] = "rendered") <=> (request[r] = "rendered")
<1>1. \A r \in Requests :
        OpenFails[r] = IF request[r] = "open" THEN "failed" ELSE request[r]
  BY DEF OpenFails
<1>2. OpenFails \in [Requests -> RequestStates]
  BY DEF OpenFails, RequestStates
<1>3. QED
  BY <1>1, <1>2

\* Nothing is left of a guard that is torn down.
LEMMA TeardownFacts ==
  ASSUME GuardInv, Teardown
  PROVE  /\ Fewer
         /\ runtime' = 0 /\ initializing' = {}
         /\ display' = 0 /\ shown' = shown /\ owner' = owner
         /\ \A c \in Calls : program'[c] \notin {"loading", "live"}
         /\ request' = OpenFails
         /\ request' \in [Requests -> RequestStates]
         /\ \A r \in Requests :
              /\ request'[r] # "open"
              /\ (request'[r] = "new") <=> (request[r] = "new")
              /\ (request'[r] = "rendered") <=> (request[r] = "rendered")
<1>1. /\ program \in [Calls -> ProgramStates]
      /\ request \in [Requests -> RequestStates]
      /\ runtimeGeneration \in 0..NoGeneration
  BY TypeFacts DEF GuardInv
<1>2. /\ program' = Killing(Programs)
      /\ runtime' = 0 /\ initializing' = {}
      /\ display' = 0 /\ shown' = shown /\ owner' = owner
      /\ request' = OpenFails
      /\ runtimeGeneration' = runtimeGeneration
  BY DEF Teardown
<1>3. /\ program' \in [Calls -> ProgramStates]
      /\ \A c \in Calls :
           program'[c] = IF c \in Programs /\ program[c] \in {"loading", "live"}
                         THEN "dead" ELSE program[c]
  BY <1>1, <1>2, KillingFacts
<1>4. \A c \in Calls : program[c] \in {"loading", "live"} => c \in Programs
  BY DEF GuardInv, ProgramsOwned, Programs
<1>5. \A c \in Calls : program'[c] \notin {"loading", "live"}
  BY <1>3, <1>4
<1>6. Fewer
  BY <1>1, <1>2, <1>3, <1>5 DEF Fewer
<1>7. QED
  BY <1>1, <1>2, <1>5, <1>6, OpenFailsFacts

\* The views stay in order when nothing new is asked for.
LEMMA ViewsStay ==
  ASSUME ViewsInOrder,
         \A r \in Requests : (request'[r] = "new") <=> (request[r] = "new"),
         \A r \in Requests : request'[r] = "rendered" => r \in shown',
         owner' = owner,
         generation \in Nat, generation' \in Nat, generation <= generation',
         owner \in [Requests -> OwnerRecords]
  PROVE  ViewsInOrder'
<1>1. \A r \in Requests : owner[r].generation \in Nat
  BY DEF OwnerRecords
<1>2. \A r \in Requests : owner'[r].generation <= generation'
  BY <1>1 DEF ViewsInOrder
<1>3. QED
  BY <1>2 DEF ViewsInOrder

LEMMA PreprocessFacts ==
  ASSUME GuardInv, NEW req \in Requests, NEW prog \in Calls \cup {0},
         Preprocess(req, generation, prog), generation' = generation
  PROVE  /\ ~released
         /\ ViewsInOrder'
         /\ owner' \in [Requests -> OwnerRecords]
         /\ request' \in [Requests -> RequestStates]
         /\ shown' = shown /\ display' = display
<1>1. /\ owner \in [Requests -> OwnerRecords]
      /\ request \in [Requests -> RequestStates]
      /\ generation \in 0..(NoGeneration - 1)
  BY TypeFacts DEF GuardInv
<1>2. /\ ~released
      /\ owner' = [owner EXCEPT ![req] = [generation |-> generation, program |-> prog]]
      /\ request[req] = "new"
      /\ \A q \in Requests : q < req => request[q] # "new"
      /\ shown' = shown /\ display' = display
  BY DEF Preprocess, Service!Submit
<1>3. PICK st \in {"open", "failed"} : request' = [request EXCEPT ![req] = st]
  BY DEF Preprocess, Service!Submit
<1>4. generation \in 0..NoGeneration
  BY <1>1, GuardBoundsAssumption
<1>5. [generation |-> generation, program |-> prog] \in OwnerRecords
  BY <1>4 DEF OwnerRecords
<1>6. /\ owner' \in [Requests -> OwnerRecords]
      /\ owner'[req].generation = generation
      /\ \A r \in Requests : r # req => owner'[r] = owner[r]
  BY <1>1, <1>2, <1>5
<1>7. /\ request' \in [Requests -> RequestStates]
      /\ request'[req] \in {"open", "failed"}
      /\ \A r \in Requests : r # req => request'[r] = request[r]
  BY <1>1, <1>3 DEF RequestStates
<1>8. /\ \A q, r \in Requests : q < r /\ request[r] # "new" =>
           request[q] # "new" /\ owner[q].generation <= owner[r].generation
      /\ \A r \in Requests : owner[r].generation <= generation
      /\ \A r \in Requests : request[r] = "rendered" => r \in shown
  BY DEF GuardInv, ViewsInOrder
<1>9. ASSUME NEW q \in Requests, NEW r \in Requests, q < r, request'[r] # "new"
      PROVE  request'[q] # "new" /\ owner'[q].generation <= owner'[r].generation
  <2>1. CASE r = req
    BY <1>2, <1>6, <1>7, <1>8, <1>9, <2>1
  <2>2. CASE r # req
    BY <1>2, <1>6, <1>7, <1>8, <1>9, <2>2
  <2>3. QED
    BY <2>1, <2>2
<1>10. \A r \in Requests : owner'[r].generation <= generation
  BY <1>1, <1>6, <1>8
<1>11. \A r \in Requests : request'[r] = "rendered" => r \in shown'
  BY <1>2, <1>7, <1>8
<1>12. ViewsInOrder'
  BY <1>9, <1>10, <1>11 DEF ViewsInOrder
<1>13. QED
  BY <1>2, <1>6, <1>7, <1>12

-----------------------------------------------------------------------------
(***************************************************************************
 What a step leaves as it is.
 ***************************************************************************)
LEMMA AllParts ==
  ASSUME LifeOK', StackOK', CallOK', ProgramOK', ChainOK', ViewsOK',
         CallsInOrder', OneInside', ReleasedInv', ProgramsOwned', EventsOwned',
         ViewsInOrder'
  PROVE  GuardInv'
BY Zenon, TypeParts2 DEF GuardInv

LEMMA SomeParts ==
  ASSUME GuardInv
  PROVE  /\ LifeOK /\ StackOK /\ CallOK /\ ProgramOK /\ ChainOK /\ ViewsOK
         /\ CallsInOrder /\ OneInside /\ ReleasedInv /\ ProgramsOwned
         /\ EventsOwned /\ ViewsInOrder
BY Zenon, TypeParts DEF GuardInv

LEMMA CallsQuiet ==
  ASSUME GuardInv, UNCHANGED <<documentVars, callVars>>
  PROVE  LifeOK' /\ StackOK' /\ CallOK' /\ CallsInOrder' /\ OneInside'
<1>1. LifeOK'
  BY Zenon, SomeParts DEF LifeOK, documentVars, lifeVars
<1>2. StackOK' /\ CallOK'
  BY SomeParts DEF StackOK, CallOK, documentVars, callVars
<1>3. CallsInOrder'
  BY Zenon, SomeParts DEF CallsInOrder, Begun, Ended, documentVars, lifeVars, callVars
<1>4. OneInside'
  BY Zenon, SomeParts DEF OneInside, Begun, documentVars, lifeVars, callVars
<1>5. QED
  BY <1>1, <1>2, <1>3, <1>4

LEMMA SameIsFewer ==
  ASSUME GuardInv, UNCHANGED runtimeVars
  PROVE  Fewer
BY SomeParts DEF Fewer, ProgramOK, ProgramsOwned, runtimeVars, installedVars

LEMMA RuntimesQuiet ==
  ASSUME GuardInv, Fewer, UNCHANGED <<generation, call, initializing>>
  PROVE  ProgramOK' /\ ProgramsOwned'
<1>1. ProgramOK /\ ProgramsOwned
  BY SomeParts
<1>2. ProgramOK'
  BY <1>1 DEF ProgramOK, Fewer
<1>3. ProgramsOwned'
  BY <1>1 DEF ProgramsOwned, ProgramOK, Fewer, Alive
<1>4. QED
  BY <1>2, <1>3

\* A program whose load() resolved stays what it is.
KeepsPrograms ==
  \A c \in Calls :
    call[c].kind = "program" /\ call[c].phase \in {"committing", "done"} =>
      /\ call'[c].kind = "program"
      /\ call'[c].phase \in {"committing", "done"}
      /\ call'[c].generation = call[c].generation

LEMMA ChainQuiet ==
  ASSUME GuardInv, KeepsPrograms, UNCHANGED eventVars
  PROVE  ChainOK' /\ EventsOwned'
<1>1. ChainOK /\ EventsOwned
  BY SomeParts
<1>2. ChainOK'
  BY <1>1 DEF ChainOK, eventVars
<1>3. EventsOwned'
  BY <1>1 DEF EventsOwned, OwnedBy, KeepsPrograms, eventVars
<1>4. QED
  BY <1>2, <1>3

LEMMA ChainTail ==
  ASSUME GuardInv, KeepsPrograms, chain # <<>>, chain' = Tail(chain), events' = events
  PROVE  ChainOK' /\ EventsOwned'
<1>1. ChainOK /\ EventsOwned
  BY SomeParts
<1>2. /\ chain' \in Seq(EventRecords)
      /\ Len(chain') = Len(chain) - 1
      /\ \A i \in 1..Len(chain') : chain'[i] = chain[i + 1]
      /\ Len(chain) \in Nat
  BY <1>1, HeadTailProperties DEF ChainOK
<1>3. ChainOK'
  BY <1>1, <1>2, GuardBoundsAssumption DEF ChainOK
<1>4. \A i \in DOMAIN chain' : i + 1 \in DOMAIN chain /\ chain'[i] = chain[i + 1]
  BY <1>1, <1>2 DEF ChainOK
<1>5. ASSUME NEW i \in DOMAIN chain', chain'[i].phase # "queued"
      PROVE  OwnedBy(chain[i], chain[i].program)'
  <2>1. OwnedBy(chain[i + 1], chain[i + 1].program)
    BY <1>1, <1>4, <1>5 DEF EventsOwned
  <2>2. QED
    BY <1>4, <1>5, <2>1 DEF OwnedBy, KeepsPrograms
<1>6. EventsOwned'
  BY <1>4, <1>5 DEF EventsOwned, OwnedBy
<1>7. QED
  BY <1>3, <1>6

LEMMA ChainHead ==
  ASSUME GuardInv, UNCHANGED call, chain # <<>>, NEW e \in EventRecords,
         OwnedBy(e, e.program), chain' = [chain EXCEPT ![1] = e], events' = events
  PROVE  ChainOK' /\ EventsOwned'
<1>1. ChainOK /\ EventsOwned
  BY SomeParts
<1>2. /\ chain' \in Seq(EventRecords)
      /\ Len(chain') = Len(chain)
      /\ DOMAIN chain' = DOMAIN chain
      /\ \A i \in DOMAIN chain : chain'[i] = IF i = 1 THEN e ELSE chain[i]
  BY <1>1, ExceptSeq DEF ChainOK
<1>3. ChainOK'
  BY <1>1, <1>2 DEF ChainOK
<1>4. EventsOwned'
  BY <1>1, <1>2 DEF EventsOwned, OwnedBy
<1>5. QED
  BY <1>3, <1>4

LEMMA ReleasedQuiet ==
  ASSUME GuardInv, Fewer, UNCHANGED <<startup, lifeVars>>,
         released => initializing' \subseteq initializing /\ UNCHANGED <<request, display>>
  PROVE  ReleasedInv'
<1>1. ReleasedInv
  BY SomeParts
<1>2. (disposed' <=> disposed) /\ (terminalReason' <=> terminalReason)
      /\ startup' = startup /\ (released' <=> released)
  BY DEF lifeVars
<1>3. CASE ~released
  BY Zenon, <1>1, <1>2, <1>3 DEF ReleasedInv, ReleasedHoldsNothing
<1>4. CASE released
  <2>1. runtime = 0 /\ initializing = {} /\ display = 0
        /\ (\A c \in Calls : program[c] \notin {"loading", "live"})
        /\ (\A r \in Requests : request[r] # "open")
    BY <1>1, <1>4 DEF ReleasedInv, ReleasedHoldsNothing, Alive
  <2>2. runtime' = 0 /\ initializing' = {} /\ display' = 0
        /\ (\A c \in Calls : program'[c] \notin {"loading", "live"})
        /\ (\A r \in Requests : request'[r] # "open")
    BY <1>4, <2>1 DEF Fewer
  <2>3. ReleasedHoldsNothing'
    BY <2>2 DEF ReleasedHoldsNothing, Alive
  <2>4. QED
    BY Zenon, <1>1, <1>2, <2>2, <2>3 DEF ReleasedInv
<1>5. QED
  BY <1>3, <1>4

LEMMA ViewsQuiet ==
  ASSUME GuardInv, UNCHANGED serviceVars,
         generation' \in Nat, generation <= generation'
  PROVE  ViewsOK' /\ ViewsInOrder'
<1>1. ViewsOK /\ ViewsInOrder /\ generation \in Nat
  BY SomeParts, GuardBoundsAssumption DEF CallOK
<1>2. ViewsOK'
  BY <1>1 DEF ViewsOK, serviceVars
<1>3. ViewsInOrder'
  BY <1>1, ViewsStay DEF serviceVars, ViewsOK, ViewsInOrder
<1>4. QED
  BY <1>2, <1>3

-----------------------------------------------------------------------------
(***************************************************************************
 Events, runtimes and the session.
 ***************************************************************************)
LEMMA SameCallsKeep ==
  ASSUME UNCHANGED call
  PROVE  KeepsPrograms
BY DEF KeepsPrograms

\* No call and no generation changes, and no program starts.
LEMMA QuietSteps ==
  ASSUME GuardInv, UNCHANGED <<documentVars, callVars, initializing>>, Fewer,
         ChainOK', EventsOwned', ViewsOK', ViewsInOrder',
         released => UNCHANGED <<request, display>>
  PROVE  GuardInv'
<1>1. LifeOK' /\ StackOK' /\ CallOK' /\ CallsInOrder' /\ OneInside'
  BY CallsQuiet
<1>2. ProgramOK' /\ ProgramsOwned'
  BY RuntimesQuiet DEF documentVars, callVars
<1>3. ReleasedInv'
  BY ReleasedQuiet DEF documentVars, lifeVars
<1>4. QED
  BY Zenon, <1>1, <1>2, <1>3, AllParts

LEMMA SameViews ==
  ASSUME GuardInv, UNCHANGED <<documentVars, serviceVars>>
  PROVE  /\ ViewsOK' /\ ViewsInOrder'
         /\ released => UNCHANGED <<request, display>>
<1>1. generation \in Nat
  BY SomeParts, GuardBoundsAssumption DEF CallOK
<1>2. generation' = generation
  BY DEF documentVars
<1>3. ViewsOK' /\ ViewsInOrder'
  BY <1>1, <1>2, ViewsQuiet
<1>4. QED
  BY <1>3 DEF serviceVars

LEMMA HandleEventInv ==
  ASSUME GuardInv, HandleEvent
  PROVE  GuardInv'
<1>1. /\ UNCHANGED <<documentVars, callVars, initializing, runtimeVars, serviceVars>>
      /\ KeepsPrograms
  BY SameCallsKeep DEF HandleEvent, callVars
<1>2. ChainOK /\ EventsOwned /\ ProgramOK
  BY SomeParts
<1>3. Event(runtimeGeneration, "queued", 0, 0) \in EventRecords
  BY <1>2 DEF Event, EventRecords, ProgramOK
<1>4. events' \in 0..MaxEvents
  BY <1>2, GuardBoundsAssumption DEF ChainOK, HandleEvent
<1>5. CASE runtime # 0 /\ ~ChainFull
  <2>1. chain' = Append(chain, Event(runtimeGeneration, "queued", 0, 0))
    BY <1>5 DEF HandleEvent
  <2>2. /\ chain' \in Seq(EventRecords)
        /\ Len(chain') = Len(chain) + 1
        /\ \A i \in DOMAIN chain' :
             \/ i \in DOMAIN chain /\ chain'[i] = chain[i]
             \/ chain'[i] = Event(runtimeGeneration, "queued", 0, 0)
    BY <1>2, <1>3, <2>1, AppendProperties DEF ChainOK
  <2>3. ChainOK'
    BY <1>2, <1>4, <1>5, <2>2, GuardBoundsAssumption DEF ChainOK, ChainFull
  <2>4. Event(runtimeGeneration, "queued", 0, 0).phase = "queued"
    BY DEF Event
  <2>5. EventsOwned'
    BY <1>1, <1>2, <2>2, <2>4 DEF EventsOwned, OwnedBy, KeepsPrograms
  <2>6. QED
    BY <1>1, <2>3, <2>5, SameIsFewer, SameViews, QuietSteps
<1>6. CASE ~(runtime # 0 /\ ~ChainFull)
  <2>1. chain' = chain
    BY <1>6 DEF HandleEvent
  <2>2. ChainOK' /\ EventsOwned'
    BY <1>1, <1>2, <1>4, <2>1 DEF ChainOK, EventsOwned, OwnedBy, KeepsPrograms
  <2>3. QED
    BY <1>1, <2>2, SameIsFewer, SameViews, QuietSteps
<1>7. QED
  BY <1>5, <1>6

LEMMA EventStartsInv ==
  ASSUME GuardInv, EventStarts
  PROVE  GuardInv'
<1>1. /\ UNCHANGED <<documentVars, callVars, initializing, runtimeVars, serviceVars>>
      /\ KeepsPrograms
      /\ chain # <<>> /\ events' = events
      /\ UNCHANGED call
  BY SameCallsKeep DEF EventStarts, callVars, Processing
<1> DEFINE gen == Head(chain).generation
<1>2. CASE StillCurrent(gen) /\ Stops(gen)
  <2> DEFINE e == Event(gen, "stepping", runtime, 0)
  <2>1. chain' = [chain EXCEPT ![1] = e]
    BY <1>2 DEF EventStarts
  <2>2. /\ ProgramsOwned /\ ProgramOK /\ ChainOK
        /\ runtime # 0 /\ runtimeGeneration = gen
    BY <1>2, SomeParts DEF Stops
  <2>3. e \in EventRecords
    BY <2>2 DEF Event, EventRecords, ProgramOK
  <2>4. OwnedBy(e, e.program)
    <3>1. e.program = runtime /\ e.generation = gen
      BY DEF Event
    <3>2. program[runtime] = "live" /\ call[runtime].generation = gen
      BY <2>2 DEF ProgramsOwned
    <3>3. call[runtime].kind = "program" /\ call[runtime].phase \in {"committing", "done"}
      BY <2>2, <3>2 DEF ProgramsOwned, ProgramOK
    <3>4. QED
      BY <2>2, <3>1, <3>2, <3>3 DEF OwnedBy, ProgramOK
  <2> HIDE DEF e
  <2>5. ChainOK' /\ EventsOwned'
    BY <1>1, <2>1, <2>3, <2>4, ChainHead
  <2>6. QED
    BY <1>1, <2>5, SameIsFewer, SameViews, QuietSteps
<1>3. CASE ~(StillCurrent(gen) /\ Stops(gen))
  <2>1. chain' = Tail(chain)
    BY <1>3 DEF EventStarts
  <2>2. ChainOK' /\ EventsOwned'
    BY <1>1, <2>1, ChainTail
  <2>3. QED
    BY <1>1, <2>2, SameIsFewer, SameViews, QuietSteps
<1>4. QED
  BY <1>2, <1>3

\* The event that is processed belongs to its program.
LEMMA HeadIsOwned ==
  ASSUME GuardInv, chain # <<>>, Head(chain).phase # "queued"
  PROVE  Head(chain) \in EventRecords /\ OwnedBy(Head(chain), Head(chain).program)
<1>1. ChainOK /\ EventsOwned
  BY SomeParts
<1>2. 1 \in DOMAIN chain /\ chain[1] = Head(chain)
  BY <1>1 DEF ChainOK
<1>3. QED
  BY <1>1, <1>2 DEF ChainOK, EventsOwned

LEMMA EventSteppedInv ==
  ASSUME GuardInv, EventStepped
  PROVE  GuardInv'
<1>1. /\ UNCHANGED <<documentVars, callVars, initializing, runtimeVars>>
      /\ KeepsPrograms
      /\ chain # <<>> /\ events' = events
      /\ UNCHANGED call
      /\ Head(chain).phase = "stepping"
      /\ generation' = generation
  BY SameCallsKeep DEF EventStepped, callVars, Processing, documentVars
<1> DEFINE e == Head(chain)
<1>2. e \in EventRecords /\ OwnedBy(e, e.program)
  BY <1>1, HeadIsOwned
<1>3. CASE e.generation = generation
  <2>1. PICK req \in Requests :
          /\ Preprocess(req, generation, e.program)
          /\ chain' = [chain EXCEPT ![1] =
                         Event(e.generation, "committing", e.program, req)]
    BY <1>3 DEF EventStepped
  <2> DEFINE f == Event(e.generation, "committing", e.program, req)
  <2>2. f \in EventRecords /\ OwnedBy(f, f.program)
    BY <1>2 DEF Event, EventRecords, OwnedBy
  <2>3. e.program \in Calls \cup {0}
    BY <1>2 DEF EventRecords
  <2> HIDE DEF e, f
  <2>4. ChainOK' /\ EventsOwned'
    BY <1>1, <2>1, <2>2, ChainHead DEF f
  <2>5. /\ ~released /\ ViewsInOrder'
        /\ owner' \in [Requests -> OwnerRecords]
        /\ request' \in [Requests -> RequestStates]
        /\ shown' = shown /\ display' = display
    BY <1>1, <2>1, <2>3, PreprocessFacts
  <2>6. ViewsOK'
    BY <2>5, SomeParts DEF ViewsOK
  <2>7. QED
    BY <1>1, <2>4, <2>5, <2>6, SameIsFewer, QuietSteps
<1>4. CASE e.generation # generation
  <2>1. chain' = Tail(chain) /\ UNCHANGED serviceVars
    BY <1>4 DEF EventStepped
  <2>2. ChainOK' /\ EventsOwned'
    BY <1>1, <2>1, ChainTail
  <2>3. QED
    BY <1>1, <2>1, <2>2, SameIsFewer, SameViews, QuietSteps
<1>5. QED
  BY <1>3, <1>4

LEMMA EventStepFailsInv ==
  ASSUME GuardInv, EventStepFails
  PROVE  GuardInv'
<1>1. /\ UNCHANGED <<documentVars, callVars, initializing, serviceVars>>
      /\ KeepsPrograms
      /\ chain # <<>> /\ events' = events /\ chain' = Tail(chain)
      /\ Head(chain).phase = "stepping"
  BY SameCallsKeep DEF EventStepFails, callVars, Processing
<1>2. ChainOK' /\ EventsOwned'
  BY <1>1, ChainTail
<1> DEFINE e == Head(chain)
<1>3. OwnedBy(e, e.program)
  BY <1>1, HeadIsOwned
<1>4. Fewer
  <2>1. CASE program[e.program] = "live"
    <3>1. RuntimeDied(e.program, e.generation)
      BY <2>1 DEF EventStepFails
    <3>2. e.program \in Calls /\ e.generation = call[e.program].generation
      BY <1>3 DEF OwnedBy
    <3>3. Alive(e.program)
      BY <2>1 DEF Alive
    <3> HIDE DEF e
    <3>4. QED
      BY <3>1, <3>2, <3>3, DiedFewer
  <2>2. CASE program[e.program] # "live"
    <3>1. PICK gen : StopRuntime(gen)
      BY <2>2 DEF EventStepFails
    <3>2. QED
      BY <3>1, StopFewer
  <2>3. QED
    BY <2>1, <2>2
<1>5. QED
  BY <1>1, <1>2, <1>4, SameViews, QuietSteps

LEMMA EventViewSettledInv ==
  ASSUME GuardInv, EventViewSettled
  PROVE  GuardInv'
<1>1. /\ UNCHANGED <<documentVars, callVars, initializing, serviceVars>>
      /\ KeepsPrograms
      /\ chain # <<>> /\ events' = events /\ chain' = Tail(chain)
  BY SameCallsKeep DEF EventViewSettled, callVars, Processing
<1>2. ChainOK' /\ EventsOwned'
  BY <1>1, ChainTail
<1>3. PICK gen : StopRuntime(gen)
  BY DEF EventViewSettled
<1>4. Fewer
  BY <1>3, StopFewer
<1>5. QED
  BY <1>1, <1>2, <1>4, SameViews, QuietSteps

LEMMA RuntimeDiesInv ==
  ASSUME GuardInv, NEW c \in Calls, RuntimeDies(c)
  PROVE  GuardInv'
<1>1. /\ UNCHANGED <<documentVars, callVars, initializing, serviceVars, eventVars>>
      /\ KeepsPrograms
  BY SameCallsKeep DEF RuntimeDies, callVars
<1>2. ChainOK' /\ EventsOwned'
  BY <1>1, ChainQuiet
<1>3. Fewer
  BY DiedFewer DEF RuntimeDies, Alive
<1>4. QED
  BY <1>1, <1>2, <1>3, SameViews, QuietSteps

LEMMA SessionShowsInv ==
  ASSUME GuardInv, NEW r \in Requests, SessionShows(r)
  PROVE  GuardInv'
<1>1. /\ UNCHANGED <<documentVars, callVars, initializing, runtimeVars, eventVars>>
      /\ KeepsPrograms /\ ~released
      /\ owner' = owner /\ request' = request /\ generation' = generation
      /\ shown' = shown \cup {r} /\ display' = r
  BY SameCallsKeep DEF SessionShows, hostVars, callVars, eventVars, documentVars,
     runtimeVars, Service!Show
<1>2. ChainOK' /\ EventsOwned'
  BY <1>1, ChainQuiet
<1>3. ViewsOK /\ ViewsInOrder /\ generation \in Nat
  BY SomeParts, GuardBoundsAssumption DEF CallOK
<1>4. ViewsOK'
  BY <1>1, <1>3 DEF ViewsOK
<1>5. ViewsInOrder'
  BY <1>1, <1>3 DEF ViewsInOrder
<1>6. QED
  BY <1>1, <1>2, <1>4, <1>5, SameIsFewer, QuietSteps

LEMMA SessionSettlesInv ==
  ASSUME GuardInv, NEW r \in Requests, SessionSettles(r)
  PROVE  GuardInv'
<1>1. /\ UNCHANGED <<documentVars, callVars, initializing, runtimeVars, eventVars>>
      /\ KeepsPrograms /\ ~released
      /\ owner' = owner /\ shown' = shown /\ display' = display
      /\ generation' = generation /\ request[r] = "open"
  BY SameCallsKeep DEF SessionSettles, hostVars, callVars, eventVars, documentVars,
     runtimeVars, Service!Settle
<1>2. PICK st \in {"rendered", "failed"} :
        /\ st = "rendered" => r \in shown
        /\ request' = [request EXCEPT ![r] = st]
  BY DEF SessionSettles, Service!Settle
<1>3. ChainOK' /\ EventsOwned'
  BY <1>1, ChainQuiet
<1>4. ViewsOK /\ ViewsInOrder
  BY SomeParts
<1>5. request' \in [Requests -> RequestStates]
  BY <1>2, <1>4 DEF ViewsOK, RequestStates
<1>6. \A q \in Requests : request'[q] = IF q = r THEN st ELSE request[q]
  BY <1>2, <1>4 DEF ViewsOK
<1>7. ViewsOK'
  BY <1>1, <1>4, <1>5 DEF ViewsOK
<1>8. ViewsInOrder'
  BY <1>1, <1>2, <1>4, <1>6 DEF ViewsInOrder
<1>9. QED
  BY <1>1, <1>3, <1>7, <1>8, SameIsFewer, QuietSteps

-----------------------------------------------------------------------------
(***************************************************************************
 Startup and the end of the guard.
 ***************************************************************************)
LEMMA EndedFacts ==
  ASSUME GuardInv
  PROVE  /\ generation \in Nat
         /\ \E n \in 0..MaxCalls :
              /\ \A c \in Calls : (call[c].phase # "none") <=> (c <= n)
              /\ generation <= n + Ended
         /\ Ended \in 0..2
<1>1. generation \in Nat
  BY SomeParts, GuardBoundsAssumption DEF CallOK
<1>2. Ended \in 0..2
  BY DEF Ended
<1>3. \E n \in 0..MaxCalls :
        /\ \A c \in Calls : (call[c].phase # "none") <=> (c <= n)
        /\ generation <= n + Ended
  BY Zenon, SomeParts DEF CallsInOrder
<1>4. QED
  BY <1>1, <1>2, <1>3

LEMMA WaysToEnd ==
  ASSUME NEW g \in Nat, NEW gNext \in Nat, NEW n \in 0..MaxCalls,
         NEW e \in 0..2, NEW eNext \in 0..2,
         g <= n + e, gNext <= g + (eNext - e)
  PROVE  gNext <= n + eNext /\ gNext \in 0..(NoGeneration - 1)
BY GuardBoundsAssumption

\* The generation grows by one when the guard ends in one more way.
LEMMA SameCallsInOrder ==
  ASSUME GuardInv, UNCHANGED callVars,
         generation' \in Nat, generation <= generation',
         generation' <= generation + (Ended' - Ended),
         disposed => disposed', terminalReason => terminalReason'
  PROVE  CallOK' /\ CallsInOrder'
<1>1. CallOK /\ CallsInOrder /\ generation \in Nat /\ Ended \in 0..2 /\ Ended' \in 0..2
  <2>1. Ended' \in 0..2
    BY DEF Ended
  <2>2. QED
    BY <2>1, SomeParts, EndedFacts
<1>2. PICK n \in 0..MaxCalls :
        /\ \A c \in Calls : (call[c].phase # "none") <=> (c <= n)
        /\ generation <= n + Ended
  BY Zenon, EndedFacts
<1>3. call' = call /\ stack' = stack
  BY DEF callVars
<1>4. generation' <= n + Ended' /\ generation' \in 0..(NoGeneration - 1)
  BY <1>1, <1>2, WaysToEnd
<1>5. generation' \in 0..(NoGeneration - 1)
  BY <1>4
<1>6. CallOK'
  BY <1>1, <1>3, <1>5 DEF CallOK, CallRecords
<1>7. (\E n_1 \in 0..MaxCalls :
        /\ \A c \in Calls : (call[c].phase # "none") <=> (c <= n_1)
        /\ generation <= n_1 + Ended)'
  BY <1>2, <1>3, <1>4
<1>8. QED
  BY Zenon, <1>1, <1>3, <1>6, <1>7 DEF CallsInOrder, Begun

\* What teardown() leaves of everything but the calls.
LEMMA TeardownParts ==
  ASSUME GuardInv, Teardown, UNCHANGED <<callVars, eventVars>>,
         generation' \in Nat, generation <= generation'
  PROVE  /\ StackOK' /\ ProgramOK' /\ ChainOK' /\ ViewsOK'
         /\ ProgramsOwned' /\ EventsOwned' /\ ViewsInOrder' /\ ReleasedHoldsNothing'
         /\ runtime' = 0 /\ initializing' = {}
<1>1. /\ StackOK /\ ProgramOK /\ ViewsOK /\ ProgramsOwned /\ ViewsInOrder
      /\ generation \in Nat
  BY SomeParts, EndedFacts
<1>2. /\ call' = call /\ stack' = stack /\ UNCHANGED eventVars
      /\ KeepsPrograms
  BY SameCallsKeep DEF callVars
<1>3. /\ Fewer
      /\ runtime' = 0 /\ initializing' = {}
      /\ display' = 0 /\ shown' = shown /\ owner' = owner
      /\ \A c \in Calls : program'[c] \notin {"loading", "live"}
      /\ request' \in [Requests -> RequestStates]
      /\ \A r \in Requests :
           /\ request'[r] # "open"
           /\ (request'[r] = "new") <=> (request[r] = "new")
           /\ (request'[r] = "rendered") <=> (request[r] = "rendered")
  BY TeardownFacts
<1>4. StackOK'
  BY <1>1, <1>2 DEF StackOK
<1>5. ProgramOK'
  BY <1>3 DEF ProgramOK, Fewer
<1>6. ChainOK' /\ EventsOwned'
  BY <1>2, ChainQuiet
<1>7. ViewsOK'
  BY <1>1, <1>3 DEF ViewsOK
<1>8. ProgramsOwned'
  BY <1>1, <1>2, <1>3 DEF ProgramsOwned, Fewer, Alive, ProgramOK
<1>9. ViewsInOrder'
  <2>1. \A r \in Requests : request'[r] = "rendered" => r \in shown'
    BY <1>1, <1>3 DEF ViewsInOrder
  <2>2. QED
    BY <1>1, <1>3, <2>1, ViewsStay DEF ViewsOK
<1>10. ReleasedHoldsNothing'
  BY <1>3 DEF ReleasedHoldsNothing, Alive
<1>11. QED
  BY <1>3, <1>4, <1>5, <1>6, <1>7, <1>8, <1>9, <1>10

LEMMA StartupCompletesInv ==
  ASSUME GuardInv, StartupCompletes
  PROVE  GuardInv'
<1>1. /\ UNCHANGED <<callVars, call, stack, runtimeVars, eventVars, serviceVars>>
      /\ KeepsPrograms
      /\ UNCHANGED <<generation, initializing, request, display>>
  BY SameCallsKeep DEF StartupCompletes, callVars, serviceVars
<1>2. /\ startup = "pending" /\ startup' = "done"
      /\ (disposed' <=> disposed) /\ (terminalReason' <=> terminalReason)
      /\ (released' <=> released)
  BY DEF StartupCompletes
<1>3. LifeOK'
  BY Zenon, SomeParts DEF LifeOK, StartupCompletes
<1>4. StackOK'
  BY <1>1, SomeParts DEF StackOK
<1>5. CallOK' /\ CallsInOrder'
  <2>1. Ended' = Ended
    BY DEF Ended, StartupCompletes
  <2>2. generation' <= generation + (Ended' - Ended)
    BY <1>1, <2>1, EndedFacts
  <2>3. QED
    BY <1>1, <1>2, <2>2, EndedFacts, SameCallsInOrder
<1>6. OneInside'
  <2>1. stack = <<>>
    BY <1>2, SomeParts DEF OneInside
  <2>2. QED
    BY <1>1, <2>1 DEF OneInside
<1>7. Fewer
  BY <1>1, SameIsFewer
<1>8. ProgramOK' /\ ProgramsOwned'
  BY <1>1, <1>7, RuntimesQuiet
<1>9. ChainOK' /\ EventsOwned'
  BY <1>1, ChainQuiet
<1>10. ViewsOK' /\ ViewsInOrder'
  BY <1>1, EndedFacts, ViewsQuiet
<1>11. ReleasedInv'
  <2>1. ReleasedInv
    BY SomeParts
  <2>2. ReleasedHoldsNothing'
    BY <1>1, <1>2, <2>1 DEF ReleasedInv, ReleasedHoldsNothing, Alive, Fewer,
       runtimeVars, installedVars
  <2>3. runtime' = runtime /\ initializing' = initializing
    BY <1>1 DEF runtimeVars, installedVars
  <2>4. QED
    BY <1>2, <2>1, <2>2, <2>3 DEF ReleasedInv
<1>12. QED
  BY Zenon, <1>3, <1>4, <1>5, <1>6, <1>8, <1>9, <1>10, <1>11, AllParts

\* A step that ends the guard.
LEMMA EndInv ==
  ASSUME GuardInv, Teardown, UNCHANGED <<callVars, eventVars>>, stack = <<>>, LifeOK',
         generation' \in Nat, generation <= generation',
         generation' <= generation + (Ended' - Ended),
         disposed => disposed', terminalReason => terminalReason',
         disposed' \/ terminalReason' \/ startup' = "failed"
  PROVE  GuardInv'
<1>1. CallOK' /\ CallsInOrder'
  BY SameCallsInOrder
<1>2. /\ StackOK' /\ ProgramOK' /\ ChainOK' /\ ViewsOK'
      /\ ProgramsOwned' /\ EventsOwned' /\ ViewsInOrder' /\ ReleasedHoldsNothing'
      /\ runtime' = 0 /\ initializing' = {}
  BY TeardownParts
<1>3. OneInside'
  BY DEF OneInside, callVars
<1>4. released'
  BY DEF Teardown
<1>5. ReleasedInv'
  BY <1>2, <1>4 DEF ReleasedInv
<1>6. QED
  BY Zenon, <1>1, <1>2, <1>3, <1>5, AllParts

LEMMA StartupFailsInv ==
  ASSUME GuardInv, StartupFails
  PROVE  GuardInv'
<1>1. Teardown /\ UNCHANGED <<callVars, eventVars>>
  BY DEF StartupFails
<1>2. /\ startup = "pending" /\ startup' = "failed" /\ generation' = generation
      /\ (disposed => disposed') /\ (terminalReason => terminalReason')
      /\ Ended' = Ended
  BY DEF StartupFails, Ended
<1>3. stack = <<>>
  BY <1>2, SomeParts DEF OneInside
<1>4. LifeOK'
  BY Zenon, SomeParts DEF LifeOK, StartupFails, Teardown
<1>5. /\ generation' \in Nat /\ generation <= generation'
      /\ generation' <= generation + (Ended' - Ended)
  BY <1>2, EndedFacts
<1>6. QED
  BY <1>1, <1>2, <1>3, <1>4, <1>5, EndInv

LEMMA FrameReloadedInv ==
  ASSUME GuardInv, FrameReloaded
  PROVE  GuardInv'
<1>1. Teardown /\ UNCHANGED <<callVars, eventVars>>
  BY DEF FrameReloaded
<1>2. /\ generation' = generation + 1
      /\ (disposed => disposed') /\ (terminalReason => terminalReason')
      /\ terminalReason' /\ stack = <<>>
      /\ Ended = 0 /\ Ended' = 1
  BY DEF FrameReloaded, Ended, Idle
<1>3. LifeOK'
  BY Zenon, SomeParts DEF LifeOK, FrameReloaded, Teardown
<1>4. /\ generation' \in Nat /\ generation <= generation'
      /\ generation' <= generation + (Ended' - Ended)
  BY <1>2, EndedFacts
<1>5. QED
  BY <1>1, <1>2, <1>3, <1>4, EndInv

LEMMA GuardDisposeInv ==
  ASSUME GuardInv, ~CallbackReenters, GuardDispose
  PROVE  GuardInv'
<1>1. Teardown /\ UNCHANGED <<callVars, eventVars>>
  BY DEF GuardDispose
<1>2. /\ generation' = generation + 1
      /\ (disposed => disposed') /\ (terminalReason => terminalReason')
      /\ disposed' /\ stack = <<>>
      /\ Ended' = Ended + 1
  BY DEF GuardDispose, MayCall, Ended, Idle
<1>3. LifeOK'
  BY Zenon, SomeParts DEF LifeOK, GuardDispose, Teardown
<1>4. /\ generation' \in Nat /\ generation <= generation'
      /\ generation' <= generation + (Ended' - Ended)
  BY <1>2, EndedFacts
<1>5. QED
  BY <1>1, <1>2, <1>3, <1>4, EndInv

-----------------------------------------------------------------------------
(***************************************************************************
 Calls are made.
 ***************************************************************************)
\* The next call finds the others made and none inside supersede().
LEMMA NextCallFacts ==
  ASSUME GuardInv, ~CallbackReenters, NEW c \in Calls, NextCall(c)
  PROVE  /\ stack = <<>>
         /\ startup = "done"
         /\ call[c].phase = "none" /\ call[c].kind = "none" /\ call[c].result = "none"
         /\ program[c] = "none" /\ c # runtime /\ c \notin initializing
         /\ \A d \in Calls : (call[d].phase # "none") <=> (d < c)
         /\ generation + 1 <= c + Ended
         /\ call \in [Calls -> CallRecords(generation)]
<1>1. /\ stack = <<>> /\ startup = "done" /\ call[c].phase = "none"
      /\ \A d \in Calls : d < c => call[d].phase # "none"
  BY DEF NextCall, MayCall, Idle
<1>2. PICK n \in 0..MaxCalls :
        /\ \A d \in Calls : (call[d].phase # "none") <=> (d <= n)
        /\ generation <= n + Ended
  BY Zenon, EndedFacts
<1>3. n = c - 1
  <2>1. n \in Nat /\ c \in Nat /\ ~(c <= n)
    BY <1>1, <1>2, GuardBoundsAssumption
  <2>2. n + 1 < c => (n + 1 \in Calls /\ ~(n + 1 <= n))
    BY <2>1, GuardBoundsAssumption
  <2>3. QED
    BY <1>1, <1>2, <2>1, <2>2
<1>4. \A d \in Calls : (call[d].phase # "none") <=> (d < c)
  BY <1>2, <1>3
<1>5. generation + 1 <= c + Ended
  <2>1. generation \in Nat /\ Ended \in 0..2
    BY EndedFacts
  <2>2. QED
    BY <1>2, <1>3, <2>1
<1>6. call[c].kind = "none" /\ call[c].result = "none"
  BY <1>1, SomeParts DEF CallsInOrder
<1>7. program[c] = "none" /\ c # runtime /\ c \notin initializing
  BY <1>1, <1>6, SomeParts DEF ProgramsOwned
<1>8. call \in [Calls -> CallRecords(generation)]
  BY SomeParts DEF CallOK
<1>9. QED
  BY <1>1, <1>4, <1>5, <1>6, <1>7, <1>8

LEMMA ReturnsFacts ==
  ASSUME NEW g \in Nat, call \in [Calls -> CallRecords(g)], NEW c \in Calls,
         NEW gen \in 0..g, NEW result \in Results, Returns(c, gen, result)
  PROVE  /\ call' \in [Calls -> CallRecords(g)]
         /\ call'[c].phase = "done" /\ call'[c].kind = call[c].kind
         /\ call'[c].generation = gen /\ call'[c].result = result
         /\ call'[c].request = call[c].request
         /\ \A d \in Calls : d # c => call'[d] = call[d]
<1>1. call[c] \in CallRecords(g) /\ "done" \in Phases /\ result \in Results \cup {"none"}
  BY DEF Phases
<1>2. /\ call'[c].phase = "done" /\ call'[c].kind = call[c].kind
      /\ call'[c].generation = gen /\ call'[c].result = result
      /\ call'[c].request = call[c].request
      /\ \A d \in Calls : d # c => call'[d] = call[d]
  BY <1>1 DEF Returns, CallRecords
<1>3. call' \in [Calls -> CallRecords(g)]
  BY <1>1 DEF Returns, CallRecords
<1>4. QED
  BY <1>2, <1>3

LEMMA CallRefusedInv ==
  ASSUME GuardInv, ~CallbackReenters, NEW c \in Calls, CallRefused(c)
  PROVE  GuardInv'
<1>1. /\ UNCHANGED <<documentVars, runtimeVars, initializing, stack, eventVars,
                      serviceVars>>
      /\ generation' = generation /\ NextCall(c) /\ (disposed \/ terminalReason)
      /\ (disposed' <=> disposed) /\ (terminalReason' <=> terminalReason)
      /\ Ended' = Ended
  BY DEF CallRefused, documentVars, lifeVars, Ended
<1>2. /\ stack = <<>>
      /\ call[c].phase = "none" /\ call[c].kind = "none"
      /\ program[c] = "none" /\ c # runtime /\ c \notin initializing
      /\ \A d \in Calls : (call[d].phase # "none") <=> (d < c)
      /\ generation + 1 <= c + Ended
      /\ call \in [Calls -> CallRecords(generation)]
  BY <1>1, NextCallFacts
<1>3. PICK result \in Results : Returns(c, generation, result)
  BY DEF CallRefused, Results
<1>4. /\ generation \in Nat
      /\ generation \in 0..(NoGeneration - 1)
  BY SomeParts, EndedFacts DEF CallOK
<1>5. /\ call' \in [Calls -> CallRecords(generation)]
      /\ call'[c].phase = "done" /\ call'[c].kind = "none"
      /\ \A d \in Calls : d # c => call'[d] = call[d]
  BY <1>2, <1>3, <1>4, ReturnsFacts
<1>6. CallOK'
  BY <1>1, <1>4, <1>5 DEF CallOK
<1>7. CallsInOrder'
  <2>1. /\ \A d \in Calls : (call'[d].phase # "none") <=> (d <= c)
        /\ generation' <= c + Ended'
    <3>1. \A d \in Calls : (d <= c) <=> (d < c \/ d = c)
      OBVIOUS
    <3>2. generation' <= c + Ended'
      <4>1. Ended \in 0..2 /\ Ended' = Ended
        BY <1>1, EndedFacts
      <4>2. QED
        BY <1>1, <1>2, <1>4, <4>1
    <3>3. QED
      BY <1>2, <1>5, <3>1, <3>2
  <2>2. c \in 0..MaxCalls
    OBVIOUS
  <2>3. (\E n \in 0..MaxCalls :
          /\ \A d \in Calls : (call[d].phase # "none") <=> (d <= n)
          /\ generation <= n + Ended)'
    BY Zenon, <2>1, <2>2
  <2>4. \A d, e \in Calls :
          d < e /\ Begun(d)' /\ Begun(e)' => call'[d].generation < call'[e].generation
    BY <1>5, SomeParts DEF CallsInOrder, Begun
  <2>5. /\ \A d \in Calls : call'[d].phase # "superseding"
        /\ \A d \in Calls : call'[d].phase = "none" => call'[d].kind = "none"
        /\ \A d \in Calls : call'[d].phase # "done" => call'[d].result = "none"
        /\ \A d \in Calls : call'[d].phase = "committing" => call'[d].request \in Requests
    BY <1>2, <1>5, SomeParts DEF CallsInOrder
  <2>6. disposed' \/ terminalReason'
    BY <1>1
  <2>7. QED
    BY Zenon, <2>3, <2>4, <2>5, <2>6 DEF CallsInOrder
<1>8. OneInside'
  BY <1>1, <1>2 DEF OneInside
<1>9. KeepsPrograms
  BY <1>2, <1>5 DEF KeepsPrograms
<1>10. Fewer
  BY <1>1, SameIsFewer
<1>11. ProgramOK' /\ ProgramsOwned'
  <2>1. ProgramOK /\ ProgramsOwned
    BY SomeParts
  <2>2. /\ runtime' = runtime /\ program' = program /\ initializing' = initializing
        /\ runtimeGeneration' = runtimeGeneration
    BY <1>1 DEF runtimeVars, installedVars
  <2>3. ProgramOK'
    BY <2>1, <2>2 DEF ProgramOK
  <2>4. ProgramsOwned'
    BY <1>1, <1>2, <1>5, <2>1, <2>2 DEF ProgramsOwned, ProgramOK, Alive
  <2>5. QED
    BY <2>3, <2>4
<1>12. LifeOK'
  BY Zenon, <1>1, SomeParts DEF LifeOK, documentVars, lifeVars
<1>13. ViewsOK' /\ ViewsInOrder' /\ ChainOK' /\ EventsOwned' /\ ReleasedInv' /\ StackOK'
  <2>1. ReleasedInv'
    BY <1>1, <1>10, ReleasedQuiet DEF documentVars, lifeVars, serviceVars
  <2>2. StackOK'
    BY <1>1, SomeParts DEF StackOK
  <2>3. QED
    BY <1>1, <1>4, <1>9, <2>1, <2>2, ViewsQuiet, ChainQuiet
<1>14. QED
  BY Zenon, <1>6, <1>7, <1>8, <1>11, <1>12, <1>13, AllParts

LEMMA CallBeginsInv ==
  ASSUME GuardInv, ~CallbackReenters, NEW c \in Calls,
         NEW kind \in {"document", "program"}, CallBegins(c, kind)
  PROVE  GuardInv'
<1>1. /\ UNCHANGED <<lifeVars, initializing, eventVars, serviceVars>>
      /\ generation' = generation + 1 /\ NextCall(c)
      /\ ~disposed /\ ~terminalReason /\ ~disposed' /\ ~terminalReason'
      /\ startup' = startup /\ (released' <=> released)
      /\ Ended' = 0 /\ Ended = 0
      /\ StopRuntime(generation)
      /\ call' = [call EXCEPT ![c].kind = kind, ![c].phase = "superseding"]
      /\ stack' = Append(stack, [call |-> c, callback |-> Stops(generation)])
  BY DEF CallBegins, lifeVars, Ended
<1>2. /\ stack = <<>> /\ startup = "done"
      /\ call[c].phase = "none" /\ call[c].kind = "none" /\ call[c].result = "none"
      /\ program[c] = "none" /\ c # runtime /\ c \notin initializing
      /\ \A d \in Calls : (call[d].phase # "none") <=> (d < c)
      /\ generation + 1 <= c + Ended
      /\ call \in [Calls -> CallRecords(generation)]
  BY <1>1, NextCallFacts
<1>3. generation \in Nat
  BY EndedFacts
<1>4. /\ call' \in [Calls -> CallRecords(generation')]
      /\ call'[c].phase = "superseding" /\ call'[c].kind = kind /\ call'[c].result = "none"
      /\ \A d \in Calls : d # c => call'[d] = call[d]
  BY <1>1, <1>2, <1>3 DEF CallRecords, Phases, Kinds
<1>5. generation' <= c
  BY <1>1, <1>2, <1>3
<1>6. CallOK'
  BY <1>1, <1>3, <1>4, <1>5, GuardBoundsAssumption DEF CallOK
<1>7. StackOK'
  <2>1. [call |-> c, callback |-> Stops(generation)] \in StackEntries
    BY Zenon DEF StackEntries, Stops
  <2>2. QED
    BY <1>1, <2>1, SomeParts, AppendProperties DEF StackOK
<1>8. stack' # <<>> /\ Len(stack') = 1 /\ stack'[1].call = c
  BY <1>1, <1>2
<1>9. CallsInOrder'
  <2>1. /\ \A d \in Calls : (call'[d].phase # "none") <=> (d <= c)
        /\ generation' <= c + Ended'
    <3>1. \A d \in Calls : (d <= c) <=> (d < c \/ d = c)
      OBVIOUS
    <3>2. generation' <= c + Ended'
      BY <1>1, <1>3, <1>5
    <3>3. QED
      BY <1>2, <1>4, <3>1, <3>2
  <2>2. c \in 0..MaxCalls
    OBVIOUS
  <2>3. (\E n \in 0..MaxCalls :
          /\ \A d \in Calls : (call[d].phase # "none") <=> (d <= n)
          /\ generation <= n + Ended)'
    BY Zenon, <2>1, <2>2
  <2>4. \A d, e \in Calls :
          d < e /\ Begun(d)' /\ Begun(e)' => call'[d].generation < call'[e].generation
    BY <1>4, SomeParts DEF CallsInOrder, Begun
  <2>5. /\ \A d \in Calls : call'[d].phase = "superseding" => d = c
        /\ \A d \in Calls : call'[d].phase # "none" /\ call'[d].kind = "none" => FALSE
        /\ \A d \in Calls : call'[d].phase = "none" => call'[d].kind = "none"
        /\ \A d \in Calls : call'[d].phase # "done" => call'[d].result = "none"
        /\ \A d \in Calls : call'[d].phase = "committing" => call'[d].request \in Requests
    BY <1>1, <1>2, <1>4, SomeParts DEF CallsInOrder
  <2>6. QED
    BY Zenon, <1>8, <2>3, <2>4, <2>5 DEF CallsInOrder
<1>10. ~released
  BY <1>1, <1>2, SomeParts DEF ReleasedInv
<1>11. OneInside'
  <2>1. \A d \in Calls : Begun(d)' => call'[d].generation < generation'
    BY <1>1, <1>2, <1>3, <1>4 DEF Begun, CallRecords
  <2>2. \A d \in Calls : call'[d].phase # "none" => d <= c
    BY <1>2, <1>4
  <2>3. QED
    BY <1>1, <1>2, <1>4, <1>8, <1>10, <2>1, <2>2 DEF OneInside
<1>12. KeepsPrograms
  BY <1>2, <1>4 DEF KeepsPrograms
<1>13. Fewer /\ runtime' = 0
  <2>1. runtime # 0 => Stops(generation)
    BY SomeParts DEF ProgramsOwned, Stops
  <2>2. QED
    BY <1>1, <2>1, StopFewer
<1>14. ProgramOK' /\ ProgramsOwned'
  <2>1. ProgramOK /\ ProgramsOwned
    BY SomeParts
  <2>2. ProgramOK'
    BY <1>1, <1>13, <2>1 DEF ProgramOK, Fewer
  <2>3. ProgramsOwned'
    BY <1>1, <1>2, <1>4, <1>13, <2>1 DEF ProgramsOwned, ProgramOK, Alive, Fewer
  <2>4. QED
    BY <2>2, <2>3
<1>15. LifeOK'
  BY Zenon, <1>1, SomeParts DEF LifeOK, lifeVars
<1>16. ViewsOK' /\ ViewsInOrder' /\ ChainOK' /\ EventsOwned' /\ ReleasedInv'
  <2>1. ReleasedInv'
    BY <1>1, <1>13, ReleasedQuiet DEF lifeVars, serviceVars
  <2>2. generation' \in Nat /\ generation <= generation'
    BY <1>1, <1>3
  <2>3. QED
    BY <1>1, <1>12, <2>1, <2>2, ViewsQuiet, ChainQuiet
<1>17. QED
  BY Zenon, <1>6, <1>7, <1>9, <1>11, <1>14, <1>15, <1>16, AllParts

-----------------------------------------------------------------------------
(***************************************************************************
 Calls leave supersede().
 ***************************************************************************)
LEMMA ResumesFacts ==
  ASSUME GuardInv, NEW c \in Calls, Resumes(c)
  PROVE  /\ stack # <<>> /\ stack[1].call = c
         /\ stack' = <<>> /\ StackOK'
         /\ startup = "done" /\ ~released
         /\ call[c].phase = "superseding" /\ call[c].result = "none"
         /\ program[c] = "none" /\ c # runtime /\ c \notin initializing
         /\ \A d \in Calls : Begun(d) => call[d].generation < generation /\ d < c
         /\ \A d \in Calls : call[d].phase = "superseding" => d = c
         /\ call \in [Calls -> CallRecords(generation)]
         /\ generation \in Nat /\ generation \in 0..generation
<1>1. stack # <<>> /\ stack' = Front(stack) /\ Last(stack).call = c
  BY DEF Resumes, Idle
<1>2. stack \in Seq(StackEntries) /\ Len(stack) = 1
  <2>1. stack \in Seq(StackEntries)
    BY SomeParts DEF StackOK
  <2>2. Len(stack) <= 1
    BY SomeParts DEF OneInside
  <2>3. Len(stack) # 0
    BY <1>1, <2>1, EmptySeq
  <2>4. Len(stack) \in Nat
    BY <2>1
  <2>5. \A k \in Nat : k <= 1 /\ k # 0 => k = 1
    OBVIOUS
  <2>6. QED
    BY Zenon, <2>1, <2>2, <2>3, <2>4, <2>5
<1>3. stack[1].call = c
  BY <1>1, <1>2 DEF Last
<1>4. stack' = <<>>
  BY <1>1, <1>2 DEF Front
<1>5. StackOK'
  BY <1>4 DEF StackOK
<1>6. /\ startup = "done" /\ ~released
      /\ call[c].phase = "superseding"
      /\ \A d \in Calls : call[d].phase # "none" => d <= c
      /\ \A d \in Calls : Begun(d) => call[d].generation < generation
  BY <1>1, <1>3, SomeParts DEF OneInside
<1>7. \A d \in Calls : Begun(d) => d < c
  <2> SUFFICES ASSUME NEW d \in Calls, Begun(d) PROVE d < c
    OBVIOUS
  <2>1. d <= c /\ d # c
    BY <1>6 DEF Begun
  <2>2. QED
    BY <2>1
<1>8. /\ call[c].result = "none"
      /\ \A d \in Calls : call[d].phase = "superseding" => d = c
  BY <1>3, <1>6, SomeParts DEF CallsInOrder
<1>9. program[c] = "none" /\ c # runtime /\ c \notin initializing
  BY <1>6, SomeParts DEF ProgramsOwned
<1>10. /\ call \in [Calls -> CallRecords(generation)]
       /\ generation \in Nat /\ generation \in 0..generation
  BY SomeParts, EndedFacts DEF CallOK
<1>11. QED
  BY <1>1, <1>3, <1>4, <1>5, <1>6, <1>7, <1>8, <1>9, <1>10

\* The call that goes on has the current generation, a newer one than those
\* before it.
LEMMA ResumedInOrder ==
  ASSUME GuardInv, NEW c \in Calls, Resumes(c), UNCHANGED documentVars,
         call' \in [Calls -> CallRecords(generation)],
         call'[c].phase \in {"loading", "committing"},
         call'[c].phase = "committing" => call'[c].request \in Requests,
         call'[c].kind = call[c].kind, call'[c].kind # "none",
         call'[c].generation = generation, call'[c].result = "none",
         \A d \in Calls : d # c => call'[d] = call[d]
  PROVE  CallOK' /\ CallsInOrder' /\ OneInside' /\ KeepsPrograms /\ LifeOK'
<1>1. /\ stack' = <<>>
      /\ call[c].phase = "superseding"
      /\ \A d \in Calls : Begun(d) => call[d].generation < generation /\ d < c
      /\ \A d \in Calls : call[d].phase = "superseding" => d = c
  BY ResumesFacts
<1>2. generation' = generation /\ (disposed' <=> disposed)
      /\ (terminalReason' <=> terminalReason) /\ Ended' = Ended
  BY DEF documentVars, lifeVars, Ended
<1>3. CallOK'
  BY <1>2, SomeParts DEF CallOK
<1>4. PICK n \in 0..MaxCalls :
        /\ \A d \in Calls : (call[d].phase # "none") <=> (d <= n)
        /\ generation <= n + Ended
  BY Zenon, EndedFacts
<1>5. (\E n_1 \in 0..MaxCalls :
        /\ \A d \in Calls : (call[d].phase # "none") <=> (d <= n_1)
        /\ generation <= n_1 + Ended)'
  <2>1. \A d \in Calls : (call'[d].phase # "none") <=> (call[d].phase # "none")
    BY <1>1
  <2>2. \A d \in Calls : (call'[d].phase # "none") <=> (d <= n)
    BY <1>4, <2>1
  <2>3. generation' <= n + Ended'
    BY Zenon, <1>2, <1>4
  <2>4. QED
    BY Zenon, <2>2, <2>3
<1>6. \A d, e \in Calls :
        d < e /\ Begun(d)' /\ Begun(e)' => call'[d].generation < call'[e].generation
  <2> SUFFICES ASSUME NEW d \in Calls, NEW e \in Calls, d < e, Begun(d)', Begun(e)'
               PROVE  call'[d].generation < call'[e].generation
    OBVIOUS
  <2>1. CASE e = c
    <3>1. d # c /\ Begun(d) /\ call'[d] = call[d]
      BY <2>1 DEF Begun
    <3>2. QED
      BY <1>1, <2>1, <3>1
  <2>2. CASE d = c
    <3>1. e # c /\ Begun(e)
      BY <2>2 DEF Begun
    <3>2. QED
      BY <1>1, <2>2, <3>1
  <2>3. CASE d # c /\ e # c
    BY <2>3, SomeParts DEF CallsInOrder, Begun
  <2>4. QED
    BY <2>1, <2>2, <2>3
<1>7. /\ \A d \in Calls : call'[d].phase # "superseding"
      /\ \A d \in Calls : call'[d].phase # "none" /\ call'[d].kind = "none" =>
           call[d].phase # "none" /\ call[d].kind = "none"
      /\ \A d \in Calls : call'[d].phase = "none" => call'[d].kind = "none"
      /\ \A d \in Calls : call'[d].phase # "done" => call'[d].result = "none"
      /\ \A d \in Calls : call'[d].phase = "committing" => call'[d].request \in Requests
  BY <1>1, SomeParts DEF CallsInOrder
<1>8. \A d \in Calls : call'[d].phase # "none" /\ call'[d].kind = "none" =>
        disposed' \/ terminalReason'
  BY Zenon, <1>2, <1>7, SomeParts DEF CallsInOrder
<1>9. CallsInOrder'
  BY Zenon, <1>5, <1>6, <1>7, <1>8 DEF CallsInOrder
<1>10. OneInside'
  BY <1>1 DEF OneInside
<1>11. KeepsPrograms
  BY <1>1 DEF KeepsPrograms
<1>12. LifeOK'
  BY Zenon, SomeParts DEF LifeOK, documentVars, lifeVars
<1>13. QED
  BY <1>3, <1>9, <1>10, <1>11, <1>12

LEMMA DocumentContinuesInv ==
  ASSUME GuardInv, NEW c \in Calls, DocumentContinues(c)
  PROVE  GuardInv'
<1>1. /\ UNCHANGED <<documentVars, runtimeVars, initializing, eventVars>>
      /\ generation' = generation
      /\ Resumes(c) /\ call[c].kind = "document"
  BY DEF DocumentContinues, documentVars
<1>2. /\ ~released /\ StackOK'
      /\ call[c].phase = "superseding" /\ call[c].result = "none"
      /\ program[c] = "none" /\ c # runtime /\ c \notin initializing
      /\ call \in [Calls -> CallRecords(generation)]
      /\ generation \in Nat /\ generation \in 0..generation
  BY <1>1, ResumesFacts
<1>3. PICK req \in Requests :
        /\ Preprocess(req, generation, 0)
        /\ call' = [call EXCEPT ![c].phase = "committing",
                                ![c].generation = generation,
                                ![c].request = req]
  BY <1>2 DEF DocumentContinues
<1>4. /\ call'[c].phase = "committing" /\ call'[c].kind = call[c].kind
      /\ call'[c].generation = generation /\ call'[c].result = "none"
      /\ call'[c].request = req
      /\ \A d \in Calls : d # c => call'[d] = call[d]
  BY <1>2, <1>3 DEF CallRecords
<1>5. call' \in [Calls -> CallRecords(generation)]
  <2>1. call[c] \in CallRecords(generation) /\ "committing" \in Phases
        /\ req \in Requests \cup {0}
    BY <1>2 DEF Phases
  <2>2. QED
    BY <1>2, <1>3, <2>1 DEF CallRecords
<1>6. CallOK' /\ CallsInOrder' /\ OneInside' /\ KeepsPrograms /\ LifeOK'
  BY <1>1, <1>4, <1>5, ResumedInOrder
<1>7. ChainOK' /\ EventsOwned'
  BY <1>1, <1>6, ChainQuiet
<1>8. Fewer
  BY <1>1, SameIsFewer
<1>9. ProgramOK' /\ ProgramsOwned'
  <2>1. ProgramOK /\ ProgramsOwned
    BY SomeParts
  <2>2. /\ runtime' = runtime /\ program' = program /\ initializing' = initializing
        /\ runtimeGeneration' = runtimeGeneration
    BY <1>1 DEF runtimeVars, installedVars
  <2>3. ProgramOK'
    BY <2>1, <2>2 DEF ProgramOK
  <2>4. ProgramsOwned'
    BY <1>1, <1>2, <1>4, <2>1, <2>2 DEF ProgramsOwned, ProgramOK, Alive
  <2>5. QED
    BY <2>3, <2>4
<1>10. /\ ViewsInOrder'
       /\ owner' \in [Requests -> OwnerRecords]
       /\ request' \in [Requests -> RequestStates]
       /\ shown' = shown /\ display' = display
  BY <1>1, <1>3, PreprocessFacts
<1>11. ViewsOK'
  BY <1>10, SomeParts DEF ViewsOK
<1>12. ReleasedInv'
  BY <1>1, <1>2, <1>8, ReleasedQuiet DEF documentVars, lifeVars
<1>13. QED
  BY Zenon, <1>2, <1>6, <1>7, <1>9, <1>10, <1>11, <1>12, AllParts

LEMMA ProgramContinuesInv ==
  ASSUME GuardInv, NEW c \in Calls, ProgramContinues(c)
  PROVE  GuardInv'
<1>1. /\ UNCHANGED <<documentVars, installedVars, eventVars, serviceVars>>
      /\ generation' = generation
      /\ runtime' = runtime /\ runtimeGeneration' = runtimeGeneration
      /\ Resumes(c) /\ call[c].kind = "program"
      /\ program' = [program EXCEPT ![c] = "loading"]
      /\ initializing' = initializing \cup {c}
      /\ call' = [call EXCEPT ![c].phase = "loading", ![c].generation = generation]
  BY DEF ProgramContinues, documentVars, installedVars
<1>2. /\ ~released /\ StackOK'
      /\ call[c].phase = "superseding" /\ call[c].result = "none"
      /\ program[c] = "none" /\ c # runtime /\ c \notin initializing
      /\ call \in [Calls -> CallRecords(generation)]
      /\ generation \in Nat /\ generation \in 0..generation
  BY <1>1, ResumesFacts
<1>3. /\ call'[c].phase = "loading" /\ call'[c].kind = call[c].kind
      /\ call'[c].generation = generation /\ call'[c].result = "none"
      /\ \A d \in Calls : d # c => call'[d] = call[d]
  BY <1>1, <1>2 DEF CallRecords
<1>4. call' \in [Calls -> CallRecords(generation)]
  <2>1. call[c] \in CallRecords(generation) /\ "loading" \in Phases
    BY <1>2 DEF Phases
  <2>2. QED
    BY <1>1, <1>2, <2>1 DEF CallRecords
<1>5. CallOK' /\ CallsInOrder' /\ OneInside' /\ KeepsPrograms /\ LifeOK'
  BY <1>1, <1>3, <1>4, ResumedInOrder
<1>6. ChainOK' /\ EventsOwned'
  BY <1>1, <1>5, ChainQuiet
<1>7. ProgramOK' /\ ProgramsOwned'
  <2>1. ProgramOK /\ ProgramsOwned
    BY SomeParts
  <2>2. /\ program' \in [Calls -> ProgramStates]
        /\ \A d \in Calls : program'[d] = IF d = c THEN "loading" ELSE program[d]
    BY <1>1, <2>1 DEF ProgramOK, ProgramStates
  <2>3. ProgramOK'
    BY <1>1, <2>1, <2>2 DEF ProgramOK
  <2>4. ProgramsOwned'
    BY <1>1, <1>2, <1>3, <2>1, <2>2 DEF ProgramsOwned, ProgramOK, Alive
  <2>5. QED
    BY <2>3, <2>4
<1>8. ViewsOK' /\ ViewsInOrder'
  BY <1>1, <1>2, ViewsQuiet
<1>9. ReleasedInv'
  <2>1. /\ (disposed' <=> disposed) /\ (terminalReason' <=> terminalReason)
        /\ startup' = startup /\ ~released'
    BY <1>1, <1>2 DEF documentVars, lifeVars
  <2>2. QED
    BY Zenon, <1>2, <2>1, SomeParts DEF ReleasedInv, ReleasedHoldsNothing
<1>10. QED
  BY Zenon, <1>2, <1>5, <1>6, <1>7, <1>8, <1>9, AllParts

-----------------------------------------------------------------------------
(***************************************************************************
 What calls await settles.
 ***************************************************************************)
\* A call that goes on keeps its kind and its generation.
LEMMA AdvancedInOrder ==
  ASSUME GuardInv, NEW c \in Calls, call[c].phase \in {"loading", "committing"},
         stack = <<>>, UNCHANGED stack, UNCHANGED documentVars,
         call' \in [Calls -> CallRecords(generation)],
         call'[c].phase \in {"committing", "done"},
         call'[c].phase = "committing" => call'[c].request \in Requests,
         call'[c].phase # "done" => call'[c].result = "none",
         call'[c].kind = call[c].kind, call'[c].generation = call[c].generation,
         \A d \in Calls : d # c => call'[d] = call[d]
  PROVE  CallOK' /\ StackOK' /\ CallsInOrder' /\ OneInside' /\ KeepsPrograms /\ LifeOK'
<1>1. generation' = generation /\ (disposed' <=> disposed)
      /\ (terminalReason' <=> terminalReason) /\ Ended' = Ended
  BY DEF documentVars, lifeVars, Ended
<1>2. CallOK' /\ StackOK'
  BY <1>1, SomeParts DEF CallOK, StackOK
<1>3. PICK n \in 0..MaxCalls :
        /\ \A d \in Calls : (call[d].phase # "none") <=> (d <= n)
        /\ generation <= n + Ended
  BY Zenon, EndedFacts
<1>4. (\E n_1 \in 0..MaxCalls :
        /\ \A d \in Calls : (call[d].phase # "none") <=> (d <= n_1)
        /\ generation <= n_1 + Ended)'
  <2>1. \A d \in Calls : (call'[d].phase # "none") <=> (call[d].phase # "none")
    OBVIOUS
  <2>2. \A d \in Calls : (call'[d].phase # "none") <=> (d <= n)
    BY <1>3, <2>1
  <2>3. generation' <= n + Ended'
    BY Zenon, <1>1, <1>3
  <2>4. QED
    BY Zenon, <2>2, <2>3
<1>5. \A d, e \in Calls :
        d < e /\ Begun(d)' /\ Begun(e)' => call'[d].generation < call'[e].generation
  <2>1. \A d \in Calls : /\ Begun(d)' => Begun(d)
                         /\ call'[d].generation = call[d].generation
    BY DEF Begun
  <2>2. QED
    BY <2>1, SomeParts DEF CallsInOrder
<1>6. /\ \A d \in Calls : call'[d].phase # "superseding"
      /\ \A d \in Calls : call'[d].phase # "none" /\ call'[d].kind = "none" =>
           call[d].phase # "none" /\ call[d].kind = "none"
      /\ \A d \in Calls : call'[d].phase = "none" => call'[d].kind = "none"
      /\ \A d \in Calls : call'[d].phase # "done" => call'[d].result = "none"
      /\ \A d \in Calls : call'[d].phase = "committing" => call'[d].request \in Requests
  BY SomeParts DEF CallsInOrder
<1>7. \A d \in Calls : call'[d].phase # "none" /\ call'[d].kind = "none" =>
        disposed' \/ terminalReason'
  BY Zenon, <1>1, <1>6, SomeParts DEF CallsInOrder
<1>8. CallsInOrder'
  BY Zenon, <1>4, <1>5, <1>6, <1>7 DEF CallsInOrder
<1>9. OneInside'
  BY DEF OneInside
<1>10. KeepsPrograms
  BY DEF KeepsPrograms
<1>11. LifeOK'
  BY Zenon, SomeParts DEF LifeOK, documentVars, lifeVars
<1>12. QED
  BY <1>2, <1>8, <1>9, <1>10, <1>11

\* Programs of different calls have different generations.
LEMMA OneProgramPerGeneration ==
  ASSUME GuardInv, NEW c \in Calls, NEW d \in Calls, Begun(c), Begun(d),
         call[c].generation = call[d].generation
  PROVE  c = d
<1>1. call[c].generation \in Int /\ call[d].generation \in Int
  BY SomeParts, EndedFacts DEF CallOK, CallRecords
<1>2. c < d => call[c].generation < call[d].generation
  BY SomeParts DEF CallsInOrder
<1>3. d < c => call[d].generation < call[c].generation
  BY SomeParts DEF CallsInOrder
<1>4. c < d \/ d < c \/ c = d
  OBVIOUS
<1>5. QED
  BY <1>1, <1>2, <1>3, <1>4

LEMMA ProgramLoadsInv ==
  ASSUME GuardInv, NEW c \in Calls, ProgramLoads(c)
  PROVE  GuardInv'
<1> DEFINE gen == call[c].generation
<1>1. /\ UNCHANGED <<documentVars, stack, eventVars>>
      /\ generation' = generation /\ stack = <<>>
      /\ call[c].phase = "loading" /\ program[c] = "loading"
      /\ initializing' = initializing \ {c}
  BY DEF ProgramLoads, Idle, documentVars
<1>2. /\ ProgramsOwned /\ ProgramOK /\ ViewsOK
      /\ call \in [Calls -> CallRecords(generation)]
      /\ generation \in Nat /\ gen \in 0..generation
      /\ call[c].kind = "program" /\ call[c].result = "none"
      /\ Begun(c) /\ runtime # c
  <2>1. ProgramsOwned /\ ProgramOK /\ ViewsOK /\ call \in [Calls -> CallRecords(generation)]
        /\ generation \in Nat
    BY SomeParts, EndedFacts DEF CallOK
  <2>2. gen \in 0..generation
    BY <2>1 DEF CallRecords
  <2>3. call[c].kind = "program" /\ Begun(c) /\ runtime # c
    BY <1>1, <2>1 DEF ProgramsOwned, Begun
  <2>4. call[c].result = "none"
    BY <1>1, SomeParts DEF CallsInOrder
  <2>5. QED
    BY <2>1, <2>2, <2>3, <2>4
<1>3. CASE StillCurrent(gen) /\ ~released
  <2>1. PICK req \in Requests :
          /\ Preprocess(req, gen, c)
          /\ call' = [call EXCEPT ![c].phase = "committing", ![c].request = req]
    BY <1>3 DEF ProgramLoads
  <2>2. /\ program' = [program EXCEPT ![c] = "live"]
        /\ runtime' = c
        /\ runtimeGeneration' = gen
        /\ gen = generation
    BY <1>3 DEF ProgramLoads, StillCurrent
  <2>3. /\ call'[c].phase = "committing" /\ call'[c].kind = call[c].kind
        /\ call'[c].generation = call[c].generation /\ call'[c].result = "none"
        /\ call'[c].request = req
        /\ \A d \in Calls : d # c => call'[d] = call[d]
    BY <1>2, <2>1 DEF CallRecords
  <2>4. call' \in [Calls -> CallRecords(generation)]
    <3>1. call[c] \in CallRecords(generation) /\ "committing" \in Phases
          /\ req \in Requests \cup {0}
      BY <1>2 DEF Phases
    <3>2. QED
      BY <1>2, <2>1, <3>1 DEF CallRecords
  <2>5. CallOK' /\ StackOK' /\ CallsInOrder' /\ OneInside' /\ KeepsPrograms /\ LifeOK'
    BY <1>1, <2>3, <2>4, AdvancedInOrder
  <2>6. ChainOK' /\ EventsOwned'
    BY <1>1, <2>5, ChainQuiet
  <2>7. runtime = 0
    <3> SUFFICES ASSUME runtime # 0 PROVE FALSE
      OBVIOUS
    <3>1. runtime \in Calls /\ Begun(runtime) /\ call[runtime].generation = generation
      BY <1>2 DEF ProgramsOwned, ProgramOK, Begun
    <3>2. QED
      BY <1>2, <2>2, <3>1, OneProgramPerGeneration
  <2>8. ProgramOK' /\ ProgramsOwned'
    <3>1. /\ program' \in [Calls -> ProgramStates]
          /\ \A d \in Calls : program'[d] = IF d = c THEN "live" ELSE program[d]
      BY <1>2, <2>2 DEF ProgramOK, ProgramStates
    <3>2. runtimeGeneration' \in 0..NoGeneration
      BY <2>2, SomeParts, GuardBoundsAssumption DEF CallOK
    <3>3. ProgramOK'
      BY <1>1, <1>2, <2>2, <3>1, <3>2 DEF ProgramOK
    <3>4. ProgramsOwned'
      BY <1>1, <1>2, <2>2, <2>3, <2>7, <3>1 DEF ProgramsOwned, ProgramOK, Alive
    <3>5. QED
      BY <3>3, <3>4
  <2>9. /\ ViewsInOrder' /\ ViewsOK'
    <3>1. /\ ViewsInOrder'
          /\ owner' \in [Requests -> OwnerRecords]
          /\ request' \in [Requests -> RequestStates]
          /\ shown' = shown /\ display' = display
      BY <1>1, <2>1, <2>2, PreprocessFacts
    <3>2. QED
      BY <1>2, <3>1 DEF ViewsOK
  <2>10. ReleasedInv'
    <3>1. /\ (disposed' <=> disposed) /\ (terminalReason' <=> terminalReason)
          /\ startup' = startup /\ ~released'
      BY <1>1, <1>3 DEF documentVars, lifeVars
    <3>2. QED
      BY Zenon, <1>3, <3>1, SomeParts DEF ReleasedInv, ReleasedHoldsNothing
  <2>11. QED
    BY Zenon, <2>5, <2>6, <2>8, <2>9, <2>10, AllParts
<1>4. CASE ~(StillCurrent(gen) /\ ~released)
  <2>1. /\ program' = Killing({c})
        /\ Returns(c, gen, "superseded")
        /\ UNCHANGED <<runtime, runtimeGeneration, serviceVars>>
    BY <1>4 DEF ProgramLoads
  <2>2. "superseded" \in Results
    BY DEF Results
  <2>3. /\ call' \in [Calls -> CallRecords(generation)]
        /\ call'[c].phase = "done" /\ call'[c].kind = call[c].kind
        /\ call'[c].generation = gen
        /\ \A d \in Calls : d # c => call'[d] = call[d]
    BY <1>2, <2>1, <2>2, ReturnsFacts
  <2>4. CallOK' /\ StackOK' /\ CallsInOrder' /\ OneInside' /\ KeepsPrograms /\ LifeOK'
    BY <1>1, <2>3, AdvancedInOrder
  <2>5. ChainOK' /\ EventsOwned'
    BY <1>1, <2>4, ChainQuiet
  <2>6. /\ program' \in [Calls -> ProgramStates]
        /\ \A d \in Calls : program'[d] = IF d = c THEN "dead" ELSE program[d]
    <3>1. program \in [Calls -> ProgramStates]
      BY <1>2 DEF ProgramOK
    <3>2. QED
      BY <1>1, <2>1, <3>1, KillingFacts
  <2>sameRuntime. runtime' = runtime /\ runtimeGeneration' = runtimeGeneration
    BY <2>1
  <2>7. Fewer
    <3>1. \A d \in Calls : program'[d] = "live" => d = runtime'
      BY <1>2, <2>6, <2>sameRuntime DEF ProgramsOwned
    <3>2. runtime' # 0 => program'[runtime'] = "live"
      BY <1>2, <2>6, <2>sameRuntime DEF ProgramsOwned, ProgramOK
    <3>3. QED
      BY <1>1, <1>2, <2>6, <2>sameRuntime, <3>1, <3>2 DEF Fewer, ProgramOK
  <2>8. ProgramOK' /\ ProgramsOwned'
    <3>1. ProgramOK'
      BY <1>1, <1>2, <2>1, <2>6 DEF ProgramOK
    <3>2. ProgramsOwned'
      BY <1>1, <1>2, <2>3, <2>6, <2>7, <2>sameRuntime DEF ProgramsOwned, ProgramOK, Alive, Fewer
    <3>3. QED
      BY <3>1, <3>2
  <2>9. ViewsOK' /\ ViewsInOrder'
    BY <1>1, <1>2, <2>1, ViewsQuiet
  <2>10. ReleasedInv'
    BY <1>1, <2>1, <2>7, ReleasedQuiet DEF documentVars, lifeVars, serviceVars
  <2>11. QED
    BY Zenon, <2>4, <2>5, <2>8, <2>9, <2>10, AllParts
<1>5. QED
  BY <1>3, <1>4

LEMMA ProgramLoadFailsInv ==
  ASSUME GuardInv, NEW c \in Calls, ProgramLoadFails(c)
  PROVE  GuardInv'
<1> DEFINE gen == call[c].generation
<1>1. /\ UNCHANGED <<documentVars, stack, eventVars, serviceVars>>
      /\ generation' = generation /\ stack = <<>>
      /\ call[c].phase = "loading"
      /\ initializing' = initializing \ {c}
  BY DEF ProgramLoadFails, Idle, documentVars
<1>2. /\ ProgramsOwned /\ ProgramOK
      /\ call \in [Calls -> CallRecords(generation)]
      /\ generation \in Nat /\ gen \in 0..generation
      /\ call[c].kind = "program" /\ program[c] \in {"loading", "dead"}
  <2>1. ProgramsOwned /\ ProgramOK /\ call \in [Calls -> CallRecords(generation)]
        /\ generation \in Nat
    BY SomeParts, EndedFacts DEF CallOK
  <2>2. gen \in 0..generation
    BY <2>1 DEF CallRecords
  <2>3. call[c].kind = "program" /\ program[c] \in {"loading", "dead"}
    BY <1>1, <2>1 DEF ProgramsOwned
  <2>4. QED
    BY <2>1, <2>2, <2>3
<1>3. PICK result \in Results : Returns(c, gen, result)
  BY DEF ProgramLoadFails, Results
<1>4. /\ call' \in [Calls -> CallRecords(generation)]
      /\ call'[c].phase = "done" /\ call'[c].kind = call[c].kind
      /\ call'[c].generation = gen
      /\ \A d \in Calls : d # c => call'[d] = call[d]
  BY <1>2, <1>3, ReturnsFacts
<1>5. CallOK' /\ StackOK' /\ CallsInOrder' /\ OneInside' /\ KeepsPrograms /\ LifeOK'
  BY <1>1, <1>4, AdvancedInOrder
<1>6. ChainOK' /\ EventsOwned'
  BY <1>1, <1>5, ChainQuiet
<1>7. Fewer /\ program'[c] = "dead"
  <2>1. CASE program[c] = "loading"
    <3>1. RuntimeDied(c, gen) /\ Alive(c)
      BY <2>1 DEF ProgramLoadFails, Alive
    <3>2. QED
      BY <3>1, DiedFewer
  <2>2. CASE program[c] # "loading"
    <3>1. UNCHANGED runtimeVars
      BY <2>2 DEF ProgramLoadFails
    <3>2. program'[c] = program[c]
      BY <3>1 DEF runtimeVars
    <3>3. QED
      BY <1>2, <2>2, <3>1, <3>2, SameIsFewer
  <2>3. QED
    BY <2>1, <2>2
<1>8. ProgramOK' /\ ProgramsOwned'
  <2>1. ProgramOK'
    BY <1>1, <1>2, <1>7 DEF ProgramOK, Fewer
  <2>2. ProgramsOwned'
    BY <1>1, <1>2, <1>4, <1>7 DEF ProgramsOwned, ProgramOK, Alive, Fewer
  <2>3. QED
    BY <2>1, <2>2
<1>9. ViewsOK' /\ ViewsInOrder'
  BY <1>1, <1>2, ViewsQuiet
<1>10. ReleasedInv'
  BY <1>1, <1>7, ReleasedQuiet DEF documentVars, lifeVars, serviceVars
<1>11. QED
  BY Zenon, <1>5, <1>6, <1>8, <1>9, <1>10, AllParts

LEMMA ViewSettledInv ==
  ASSUME GuardInv, NEW c \in Calls, ViewSettled(c)
  PROVE  GuardInv'
<1> DEFINE gen == call[c].generation
           result == CommitResult(gen, call[c].request)
<1>1. /\ UNCHANGED <<documentVars, initializing, stack, eventVars, serviceVars>>
      /\ generation' = generation /\ stack = <<>>
      /\ call[c].phase = "committing"
      /\ Returns(c, gen, result)
      /\ StopRuntime(StoppedBy(c, result))
  BY DEF ViewSettled, Idle, documentVars
<1>2. /\ ProgramsOwned /\ ProgramOK
      /\ call \in [Calls -> CallRecords(generation)]
      /\ generation \in Nat /\ gen \in 0..generation
  <2>1. ProgramsOwned /\ ProgramOK /\ call \in [Calls -> CallRecords(generation)]
        /\ generation \in Nat
    BY SomeParts, EndedFacts DEF CallOK
  <2>2. gen \in 0..generation
    BY <2>1 DEF CallRecords
  <2>3. QED
    BY <2>1, <2>2
<1>3. result \in Results
  BY DEF CommitResult, Results
<1> HIDE DEF result
<1>4. /\ call' \in [Calls -> CallRecords(generation)]
      /\ call'[c].phase = "done" /\ call'[c].kind = call[c].kind
      /\ call'[c].generation = gen /\ call'[c].result = result
      /\ \A d \in Calls : d # c => call'[d] = call[d]
  BY <1>1, <1>2, <1>3, ReturnsFacts
<1>5. CallOK' /\ StackOK' /\ CallsInOrder' /\ OneInside' /\ KeepsPrograms /\ LifeOK'
  BY <1>1, <1>4, AdvancedInOrder
<1>6. ChainOK' /\ EventsOwned'
  BY <1>1, <1>5, ChainQuiet
<1>7. /\ Fewer
      /\ Stops(StoppedBy(c, result)) => runtime' = 0
  BY <1>1, StopFewer
<1>8. runtime' = c => result = "rendered"
  <2> SUFFICES ASSUME runtime' = c, result # "rendered" PROVE FALSE
    OBVIOUS
  <2>1. runtime = c /\ c # 0
    BY <1>7 DEF Fewer
  <2>2. call[c].kind = "program" /\ runtimeGeneration = gen
    BY <1>2, <2>1 DEF ProgramsOwned
  <2>3. Stops(StoppedBy(c, result))
    BY <2>1, <2>2 DEF Stops, StoppedBy
  <2>4. QED
    BY <1>7, <2>1, <2>3
<1>9. ProgramOK' /\ ProgramsOwned'
  <2>1. ProgramOK'
    BY <1>1, <1>2, <1>7 DEF ProgramOK, Fewer
  <2>2. program[c] # "loading"
    BY <1>1, <1>2 DEF ProgramsOwned
  <2>3. ProgramsOwned'
    BY <1>1, <1>2, <1>4, <1>7, <1>8, <2>2 DEF ProgramsOwned, ProgramOK, Alive, Fewer
  <2>4. QED
    BY <2>1, <2>3
<1>10. ViewsOK' /\ ViewsInOrder'
  BY <1>1, <1>2, ViewsQuiet
<1>11. ReleasedInv'
  BY <1>1, <1>7, ReleasedQuiet DEF documentVars, lifeVars, serviceVars
<1>12. QED
  BY Zenon, <1>5, <1>6, <1>9, <1>10, <1>11, AllParts

-----------------------------------------------------------------------------
(***************************************************************************
 The invariant, and what follows.
 ***************************************************************************)
LEMMA GuardInitInv ==
  ASSUME GuardInit
  PROVE  GuardInv
<1>1. /\ startup = "pending" /\ ~disposed /\ ~terminalReason /\ ~released
      /\ generation = 0 /\ runtime = 0 /\ runtimeGeneration = NoGeneration
      /\ initializing = {} /\ call = [c \in Calls |-> NoCall]
      /\ stack = <<>> /\ chain = <<>> /\ events = 0
      /\ program = [c \in Calls |-> "none"]
      /\ owner = [r \in Requests |-> [generation |-> 0, program |-> 0]]
      /\ request = [r \in Requests |-> "new"] /\ shown = {} /\ display = 0
  BY DEF GuardInit, Service!ServiceInit
<1>2. LifeOK
  BY Zenon DEF LifeOK, GuardInit
<1>3. StackOK
  BY <1>1 DEF StackOK
<1>4. CallOK
  <2>1. NoCall \in CallRecords(0)
    BY DEF NoCall, CallRecords, Kinds, Phases
  <2>2. QED
    BY <1>1, <2>1, GuardBoundsAssumption DEF CallOK
<1>5. ProgramOK
  BY <1>1, GuardBoundsAssumption DEF ProgramOK, ProgramStates
<1>6. ChainOK
  BY <1>1, GuardBoundsAssumption DEF ChainOK
<1>7. ViewsOK
  <2>1. [generation |-> 0, program |-> 0] \in OwnerRecords
    BY GuardBoundsAssumption DEF OwnerRecords
  <2>2. QED
    BY <1>1, <2>1 DEF ViewsOK, RequestStates
<1>8. /\ \A c \in Calls : call[c].phase = "none" /\ call[c].kind = "none"
                         /\ call[c].result = "none"
  BY <1>1 DEF NoCall
<1>9. CallsInOrder
  <2>1. 0 \in 0..MaxCalls /\ (\A c \in Calls : ~(c <= 0))
    BY GuardBoundsAssumption
  <2>2. generation <= 0 + Ended
    BY <1>1 DEF Ended
  <2>3. \E n \in 0..MaxCalls :
          /\ \A c \in Calls : (call[c].phase # "none") <=> (c <= n)
          /\ generation <= n + Ended
    BY <1>8, <2>1, <2>2
  <2>4. QED
    BY <1>8, <2>3 DEF CallsInOrder, Begun
<1>10. OneInside
  BY <1>1 DEF OneInside
<1>11. ReleasedInv
  BY <1>1 DEF ReleasedInv, ReleasedHoldsNothing
<1>12. ProgramsOwned
  BY <1>1, <1>8 DEF ProgramsOwned, Alive
<1>13. EventsOwned
  BY <1>1 DEF EventsOwned
<1>14. ViewsInOrder
  BY <1>1 DEF ViewsInOrder
<1>15. GuardTypeOK
  BY Zenon, <1>2, <1>3, <1>4, <1>5, <1>6, <1>7, TypeParts
<1>16. QED
  BY Zenon, <1>9, <1>10, <1>11, <1>12, <1>13, <1>14, <1>15 DEF GuardInv

LEMMA GuardNextInv ==
  ASSUME GuardInv, ~CallbackReenters, [GuardNext]_guardVars
  PROVE  GuardInv'
<1>1. CASE StartupCompletes
  BY <1>1, StartupCompletesInv
<1>2. CASE StartupFails
  BY <1>2, StartupFailsInv
<1>3. CASE FrameReloaded
  BY <1>3, FrameReloadedInv
<1>4. CASE CallerNext
  <2>1. CASE \E c \in Calls : CallRefused(c)
    BY <2>1, CallRefusedInv
  <2>2. ASSUME NEW c \in Calls, NEW kind \in {"document", "program"}, CallBegins(c, kind)
        PROVE  GuardInv'
    BY <2>2, CallBeginsInv
  <2>3. CASE GuardDispose
    BY <2>3, GuardDisposeInv
  <2>4. QED
    BY <1>4, <2>1, <2>2, <2>3 DEF CallerNext
<1>5. CASE Continuations
  BY <1>5, DocumentContinuesInv, ProgramContinuesInv, ViewSettledInv, EventStartsInv,
     EventViewSettledInv DEF Continuations
<1>6. CASE Answers
  BY <1>6, ProgramLoadsInv, ProgramLoadFailsInv, EventSteppedInv, EventStepFailsInv,
     SessionSettlesInv DEF Answers
<1>7. CASE HandleEvent
  BY <1>7, HandleEventInv
<1>8. CASE \E c \in Calls : RuntimeDies(c)
  BY <1>8, RuntimeDiesInv
<1>9. CASE \E r \in Requests : SessionShows(r)
  BY <1>9, SessionShowsInv
<1>10. CASE UNCHANGED guardVars
  <2>1. /\ UNCHANGED <<documentVars, callVars, initializing, runtimeVars, eventVars,
                        serviceVars>>
        /\ KeepsPrograms
    BY <1>10, SameCallsKeep DEF guardVars, hostVars, documentVars, callVars, runtimeVars,
       installedVars, eventVars, serviceVars
  <2>2. ChainOK' /\ EventsOwned'
    BY <2>1, ChainQuiet
  <2>3. QED
    BY <2>1, <2>2, SameIsFewer, SameViews, QuietSteps
<1>11. QED
  BY <1>1, <1>2, <1>3, <1>4, <1>5, <1>6, <1>7, <1>8, <1>9, <1>10 DEF GuardNext

\* GuardInv holds in every state, as long as the host does not call the guard
\* from inside supersede().
THEOREM GuardInvariant ==
  ASSUME CallbackReenters = FALSE
  PROVE  GuardSpec => []GuardInv
<1>1. GuardInit => GuardInv
  BY GuardInitInv
<1>2. ~CallbackReenters
  OBVIOUS
<1>3. GuardInv /\ [GuardNext]_guardVars => GuardInv'
  BY <1>2, GuardNextInv
<1>4. QED
  BY <1>1, <1>3, PTL DEF GuardSpec

\* At most one program runs, the installed one of the current generation or one
\* whose load() is awaited, and the views reach the session in the order of
\* their generations (render(), supersede() and stopRuntime() of guard.js).
THEOREM OneProgramHolds ==
  ASSUME CallbackReenters = FALSE
  PROVE  GuardSpec => []OneProgram
<1>1. GuardInv => OneProgram
  <2> SUFFICES ASSUME GuardInv PROVE OneProgram
    OBVIOUS
  <2>1. GuardTypeOK
    BY Zenon DEF GuardInv
  <2>2. /\ runtime # 0 => /\ program[runtime] = "live"
                          /\ runtimeGeneration = generation
                          /\ call[runtime].generation = generation
        /\ \A c \in Calls :
             /\ program[c] = "live" => c = runtime
             /\ program[c] = "loading" => c \in initializing
             /\ Alive(c) => call[c].result \in {"none", "rendered"}
    BY SomeParts DEF ProgramsOwned
  <2>3. \A q, r \in Requests :
          q < r /\ request[r] # "new" => owner[q].generation <= owner[r].generation
    BY SomeParts DEF ViewsInOrder
  <2>4. QED
    BY Zenon, <2>1, <2>2, <2>3 DEF OneProgram
<1>2. QED
  BY <1>1, GuardInvariant, PTL

\* Once teardown() ran, no program runs or loads, no request is open and nothing
\* is displayed, whatever answers or events come late.
THEOREM ReleasedHoldsNothingHolds ==
  ASSUME CallbackReenters = FALSE
  PROVE  GuardSpec => []ReleasedHoldsNothing
<1>1. GuardInv => ReleasedHoldsNothing
  BY SomeParts DEF ReleasedInv
<1>2. QED
  BY <1>1, GuardInvariant, PTL

\* Only the answer to its view makes a call resolve as rendered.
LEMMA OnlyViewsRender ==
  ASSUME GuardInv, [GuardNext]_guardVars, NEW c \in Calls,
         call[c].result # "rendered", call'[c].result = "rendered"
  PROVE  /\ stack = <<>> /\ call[c].phase = "committing"
         /\ CommitResult(call[c].generation, call[c].request) = "rendered"
<1>1. /\ call \in [Calls -> CallRecords(generation)] /\ generation \in Nat
      /\ \A d \in Calls : call[d].generation \in 0..generation
  BY SomeParts, EndedFacts DEF CallOK, CallRecords
<1>2. ASSUME NEW d \in Calls, NEW gen \in 0..generation, NEW result \in Results,
             Returns(d, gen, result)
      PROVE  d = c /\ result = "rendered"
  BY <1>1, <1>2, ReturnsFacts
<1>3. ASSUME call' = call
      PROVE  FALSE
  BY <1>3
<1>4. ASSUME NEW d \in Calls,
             CallRefused(d) \/ DocumentContinues(d) \/ ProgramLoads(d) \/ ProgramLoadFails(d)
             \/ ProgramContinues(d)
             \/ (\E kind \in {"document", "program"} : CallBegins(d, kind))
      PROVE  FALSE
  <2>1. CASE CallRefused(d)
    <3>1. PICK result \in {"threw", "rejected"} : Returns(d, generation, result)
      BY <2>1 DEF CallRefused
    <3>2. result \in Results /\ generation \in 0..generation
      BY <1>1 DEF Results
    <3>3. QED
      BY <1>2, <3>1, <3>2
  <2>2. CASE DocumentContinues(d)
    <3>1. Resumes(d)
      BY <2>2 DEF DocumentContinues
    <3>2. ~released
      BY <3>1, ResumesFacts
    <3>3. PICK req \in Requests :
            call' = [call EXCEPT ![d].phase = "committing",
                                 ![d].generation = generation,
                                 ![d].request = req]
      BY <2>2, <3>2 DEF DocumentContinues
    <3>4. call'[c].result = call[c].result
      BY <1>1, <3>3 DEF CallRecords
    <3>5. QED
      BY <3>4
  <2>3. CASE ProgramLoads(d)
    <3>1. CASE StillCurrent(call[d].generation) /\ ~released
      <4>1. PICK req \in Requests :
              call' = [call EXCEPT ![d].phase = "committing", ![d].request = req]
        BY <2>3, <3>1 DEF ProgramLoads
      <4>2. call'[c].result = call[c].result
        BY <1>1, <4>1 DEF CallRecords
      <4>3. QED
        BY <4>2
    <3>2. CASE ~(StillCurrent(call[d].generation) /\ ~released)
      <4>1. Returns(d, call[d].generation, "superseded")
        BY <2>3, <3>2 DEF ProgramLoads
      <4>2. "superseded" \in Results
        BY DEF Results
      <4>3. QED
        BY <1>1, <1>2, <4>1, <4>2
    <3>3. QED
      BY <3>1, <3>2
  <2>4. CASE ProgramLoadFails(d)
    <3>1. PICK result \in {"rejected", "superseded", "threw"} :
            Returns(d, call[d].generation, result)
      BY <2>4 DEF ProgramLoadFails
    <3>2. result \in Results
      BY DEF Results
    <3>3. QED
      BY <1>1, <1>2, <3>1, <3>2
  <2>5. CASE ProgramContinues(d)
    <3>1. call' = [call EXCEPT ![d].phase = "loading", ![d].generation = generation]
      BY <2>5 DEF ProgramContinues
    <3>2. call'[c].result = call[c].result
      BY <1>1, <3>1 DEF CallRecords
    <3>3. QED
      BY <3>2
  <2>6. ASSUME NEW kind \in {"document", "program"}, CallBegins(d, kind)
        PROVE  FALSE
    <3>1. call' = [call EXCEPT ![d].kind = kind, ![d].phase = "superseding"]
      BY <2>6 DEF CallBegins
    <3>2. call'[c].result = call[c].result
      BY <1>1, <3>1 DEF CallRecords
    <3>3. QED
      BY <3>2
  <2>7. QED
    BY <1>4, <2>1, <2>2, <2>3, <2>4, <2>5, <2>6
<1>5. ASSUME NEW d \in Calls, ViewSettled(d)
      PROVE  /\ stack = <<>> /\ call[c].phase = "committing"
             /\ CommitResult(call[c].generation, call[c].request) = "rendered"
  <2> DEFINE result == CommitResult(call[d].generation, call[d].request)
  <2>1. Returns(d, call[d].generation, result)
    BY <1>5 DEF ViewSettled
  <2>2. result \in Results
    BY DEF CommitResult, Results
  <2>3. stack = <<>> /\ call[d].phase = "committing"
    BY <1>5 DEF ViewSettled, Idle
  <2> HIDE DEF result
  <2>4. d = c /\ result = "rendered"
    BY <1>1, <1>2, <2>1, <2>2
  <2>5. QED
    BY <2>3, <2>4 DEF result
<1>6. CASE StartupCompletes \/ StartupFails \/ FrameReloaded \/ GuardDispose
  BY <1>3, <1>6 DEF StartupCompletes, StartupFails, FrameReloaded, GuardDispose, callVars
<1>7. CASE HandleEvent \/ EventStarts \/ EventStepped \/ EventStepFails \/ EventViewSettled
  BY <1>3, <1>7 DEF HandleEvent, EventStarts, EventStepped, EventStepFails,
     EventViewSettled, callVars
<1>8. CASE (\E d \in Calls : RuntimeDies(d)) \/ UNCHANGED guardVars
  BY <1>3, <1>8 DEF RuntimeDies, callVars, guardVars, hostVars
<1>9. CASE \E r \in Requests : SessionShows(r) \/ SessionSettles(r)
  BY <1>3, <1>9 DEF SessionShows, SessionSettles, hostVars, callVars
<1>10. QED
  BY <1>4, <1>5, <1>6, <1>7, <1>8, <1>9
  DEF GuardNext, CallerNext, Continuations, Answers

\* A call that resolves as rendered has had its view shown, and no call was
\* accepted after it (commitView() compares the generations after the answer).
THEOREM NewestCallWinsHolds ==
  ASSUME CallbackReenters = FALSE
  PROVE  GuardSpec => NewestCallWins
<1> DEFINE Wins == \A c \in Calls :
        call[c].result # "rendered" /\ call'[c].result = "rendered"
          => /\ call[c].request \in shown
             /\ \A d \in Calls : d > c => call[d].phase = "none"
<1>1. ASSUME GuardInv, [GuardNext]_guardVars
      PROVE  Wins
  <2> SUFFICES ASSUME NEW c \in Calls,
                      call[c].result # "rendered", call'[c].result = "rendered"
               PROVE  /\ call[c].request \in shown
                      /\ \A d \in Calls : d > c => call[d].phase = "none"
    OBVIOUS
  <2>1. call \in [Calls -> CallRecords(generation)] /\ generation \in Nat
    BY <1>1, SomeParts, EndedFacts DEF CallOK
  <2>2. /\ stack = <<>> /\ call[c].phase = "committing"
        /\ CommitResult(call[c].generation, call[c].request) = "rendered"
    BY <1>1, OnlyViewsRender
  <2>3. /\ ~terminalReason /\ ~disposed /\ call[c].generation = generation
        /\ request[call[c].request] = "rendered"
    BY <2>2 DEF CommitResult
  <2>4. call[c].request \in shown
    BY <1>1, <2>2, <2>3, SomeParts DEF CallsInOrder, ViewsInOrder
  <2>5. ASSUME NEW d \in Calls, d > c, call[d].phase # "none"
        PROVE  FALSE
    <3>1. call[d].kind # "none" /\ call[d].phase # "superseding"
      BY <1>1, <2>2, <2>3, <2>5, SomeParts DEF CallsInOrder
    <3>2. Begun(d) /\ Begun(c)
      BY <1>1, <2>2, <2>3, <2>5, <3>1, SomeParts DEF Begun, CallsInOrder
    <3>3. call[c].generation < call[d].generation
      BY <1>1, <2>5, <3>2, SomeParts DEF CallsInOrder
    <3>4. call[d].generation \in 0..generation
      BY <2>1 DEF CallRecords
    <3>5. QED
      BY <2>1, <2>3, <3>3, <3>4
  <2>6. QED
    BY <2>4, <2>5
<1>2. GuardInv /\ [GuardNext]_guardVars => Wins
  BY <1>1
<1>3. GuardInv /\ [GuardNext]_guardVars => [Wins]_guardVars
  BY <1>2
<1>4. QED
  BY <1>3, GuardInvariant, PTL DEF GuardSpec, NewestCallWins
=============================================================================
