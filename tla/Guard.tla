-------------------------------- MODULE Guard --------------------------------
(***************************************************************************
 The integrated API: createGuardWith (src/guard.js), over the rendering path
 as RenderService promises it and over the program runtime as its controller
 promises it (RuntimeController): load() and step() settle once, a disposed
 runtime is dead, and a runtime that dies says so.

 Everything runs on the host's thread.  A handler runs until it awaits; what
 it awaits settles later and its continuation is a step of its own, before
 which other calls and events may run.  The one status callback that runs in
 the middle of a handler is `runtime-stopped` in supersede(): the host may call
 the guard again from there, and `stack` holds the calls that wait for it.  The
 others come when a handler has nothing left to do, so that a call from one of
 them is a call made right after it.

 clear() is render() of an empty document.  Status texts and reasons are left
 out.
 ***************************************************************************)
EXTENDS Naturals, Sequences, SequencesExt

CONSTANTS
  MaxCalls,           \* bound: calls of render() and clear()
  MaxEvents,          \* bound: user events
  MaxPendingEvents,   \* GUARD_MAX_PENDING_EVENTS
  CallbackReenters    \* the host's onStatus calls the guard

ASSUME GuardBoundsAssumption ==
  /\ MaxCalls \in Nat \ {0}
  /\ MaxEvents \in Nat
  /\ MaxPendingEvents \in Nat
  /\ CallbackReenters \in BOOLEAN

VARIABLES
  startup,            \* what createGuard() returned settles as
  disposed,
  terminalReason,     \* the frame navigated
  generation,
  released,           \* teardown() ran: session and frame are gone
  runtime,            \* the installed program: the call that made it, or 0
  runtimeGeneration,
  initializing,       \* programs whose load() is awaited
  call,               \* per call: what it awaits, and for which generation
  stack,              \* calls inside supersede(), innermost last
  chain,              \* the event chain: the event processed, and those after
  events,             \* user events so far
  program,            \* per call: state of the runtime it created
  request,            \* per preprocess() request: state of its promise
  owner,              \* per request: generation and program it is made for
  shown,              \* requests the frame has shown
  display             \* the request it shows, or 0

lifeVars == <<startup, disposed, terminalReason, released>>
documentVars == <<lifeVars, generation>>
installedVars == <<runtime, runtimeGeneration>>
runtimeVars == <<installedVars, program>>
callVars == <<call, stack>>
eventVars == <<chain, events>>
hostVars == <<documentVars, installedVars, initializing, callVars, eventVars>>
serviceVars == <<request, owner, shown, display>>
guardVars == <<hostVars, program, serviceVars>>

Calls == 1..MaxCalls
Requests == 1..(MaxCalls + MaxEvents)
NoGeneration == MaxCalls + 3     \* -1 in the code
Results == {"rendered", "rejected", "superseded", "threw"}

Service == INSTANCE RenderService WITH Calls <- Requests, state <- request

NoCall == [kind |-> "none", phase |-> "none", generation |-> 0, request |-> 0,
           result |-> "none"]
Event(gen, phase, prog, req) ==
  [generation |-> gen, phase |-> phase, program |-> prog, request |-> req]

GuardTypeOK ==
  /\ startup \in {"pending", "done", "failed"}
  /\ disposed \in BOOLEAN
  /\ terminalReason \in BOOLEAN
  /\ generation \in 0..(NoGeneration - 1)
  /\ released \in BOOLEAN
  /\ runtime \in Calls \cup {0}
  /\ runtimeGeneration \in 0..NoGeneration
  /\ initializing \subseteq Calls
  /\ call \in [Calls -> [kind : {"none", "document", "program"},
                        phase : {"none", "superseding", "loading", "committing", "done"},
                        generation : 0..generation,
                        request : Requests \cup {0},
                        result : Results \cup {"none"}]]
  /\ stack \in Seq([call : Calls, callback : BOOLEAN])
  /\ chain \in Seq([generation : 0..NoGeneration, program : Calls \cup {0},
                    phase : {"queued", "stepping", "committing"},
                    request : Requests \cup {0}])
  /\ Len(chain) <= MaxPendingEvents
  /\ events \in 0..MaxEvents
  /\ program \in [Calls -> {"none", "loading", "live", "dead"}]
  /\ owner \in [Requests -> [generation : 0..NoGeneration, program : Calls \cup {0}]]
  /\ Service!ServiceTypeOK

GuardInit ==
  /\ startup = "pending"
  /\ disposed = FALSE
  /\ terminalReason = FALSE
  /\ generation = 0
  /\ released = FALSE
  /\ runtime = 0
  /\ runtimeGeneration = NoGeneration
  /\ initializing = {}
  /\ call = [c \in Calls |-> NoCall]
  /\ stack = <<>>
  /\ chain = <<>>
  /\ events = 0
  /\ program = [c \in Calls |-> "none"]
  /\ owner = [r \in Requests |-> [generation |-> 0, program |-> 0]]
  /\ Service!ServiceInit

Idle == stack = <<>>

-----------------------------------------------------------------------------
(***************************************************************************
 Helpers of the handlers.
 ***************************************************************************)
Alive(c) == program[c] \in {"loading", "live"}

Killing(dying) ==
  [c \in Calls |-> IF c \in dying /\ Alive(c) THEN "dead" ELSE program[c]]

\* Seeded bug: programs that are still loading are forgotten.
Bug_InstalledOnly == {runtime}

Programs == initializing \cup {runtime}

\* Seeded bug: a disposed session leaves what is open as it is.
Bug_OpenForever == request

OpenFails ==
  [r \in Requests |-> IF request[r] = "open" THEN "failed" ELSE request[r]]

\* teardown(): every program, then the session, which settles what is open,
\* then the frame.
Teardown ==
  /\ program' = Killing(Programs)
  /\ initializing' = {}
  /\ runtime' = 0
  /\ released' = TRUE
  /\ request' = OpenFails
  /\ display' = 0
  /\ UNCHANGED <<runtimeGeneration, owner, shown>>

\* stopRuntime(gen): only the program of that generation.
Stops(gen) == runtime # 0 /\ runtimeGeneration = gen

StopRuntime(gen) ==
  IF Stops(gen)
  THEN /\ program' = Killing({runtime})
       /\ runtime' = 0
       /\ runtimeGeneration' = NoGeneration
  ELSE UNCHANGED runtimeVars

\* onRuntimeDead(gen) after the runtime of call c died by itself.
RuntimeDied(c, gen) ==
  /\ program' = Killing({c})
  /\ IF ~disposed /\ Stops(gen)
     THEN runtime' = 0 /\ runtimeGeneration' = NoGeneration
     ELSE UNCHANGED <<runtime, runtimeGeneration>>

\* session.preprocess(view) for generation gen: the next request, req.  There
\* are as many as calls and events, and each makes one at most.
Preprocess(req, gen, prog) ==
  /\ ~released
  /\ owner' = [owner EXCEPT ![req] = [generation |-> gen, program |-> prog]]
  /\ Service!Submit(req)

\* Seeded bug: the generation is not compared again after the answer.
Bug_CurrentWhenAsked(gen, req) ==
  IF terminalReason THEN "rejected"
  ELSE IF disposed THEN "superseded"
  ELSE IF request[req] = "rendered" THEN "rendered" ELSE "rejected"

\* commitView() after the session's answer.
CommitResult(gen, req) ==
  IF terminalReason THEN "rejected"
  ELSE IF disposed \/ gen # generation THEN "superseded"
  ELSE IF request[req] = "rendered" THEN "rendered" ELSE "rejected"

Settled(req) == request[req] \in {"rendered", "failed"}

Returns(c, gen, result) ==
  call' = [call EXCEPT ![c].phase = "done", ![c].generation = gen, ![c].result = result]

-----------------------------------------------------------------------------
(***************************************************************************
 createGuard().
 ***************************************************************************)
\* The frame is ready, the session started and the port is bound.
StartupCompletes ==
  /\ ~terminalReason
  /\ startup = "pending"
  /\ startup' = "done"
  /\ UNCHANGED <<disposed, terminalReason, released, generation, runtimeVars,
                 initializing, callVars, eventVars, serviceVars>>

StartupFails ==
  /\ startup = "pending"
  /\ startup' = "failed"
  /\ Teardown
  /\ UNCHANGED <<disposed, terminalReason, generation, callVars, eventVars>>

\* The frame reports that it navigated.
FrameReloaded ==
  /\ Idle
  /\ ~disposed
  /\ ~terminalReason
  /\ ~released
  /\ terminalReason' = TRUE
  /\ generation' = generation + 1
  /\ Teardown
  /\ UNCHANGED <<startup, disposed, callVars, eventVars>>

-----------------------------------------------------------------------------
(***************************************************************************
 render() and clear().
 ***************************************************************************)
\* The host calls from a task of its own, or from inside the callback.
MayCall ==
  /\ startup = "done"
  /\ Idle \/ (~Idle /\ CallbackReenters /\ Last(stack).callback)

NextCall(c) ==
  /\ MayCall
  /\ call[c].phase = "none"
  /\ \A d \in Calls : d < c => call[d].phase # "none"

CallRefused(c) ==
  /\ NextCall(c)
  /\ disposed \/ terminalReason
  /\ Returns(c, generation, IF disposed THEN "threw" ELSE "rejected")
  /\ UNCHANGED <<documentVars, runtimeVars, initializing, stack, eventVars,
                 serviceVars>>

\* supersede() up to the status callback of the program it stops.
CallBegins(c, kind) ==
  /\ NextCall(c)
  /\ ~disposed
  /\ ~terminalReason
  /\ generation' = generation + 1
  /\ StopRuntime(generation)
  /\ call' = [call EXCEPT ![c].kind = kind, ![c].phase = "superseding"]
  /\ stack' = Append(stack, [call |-> c, callback |-> Stops(generation)])
  /\ UNCHANGED <<lifeVars, initializing, eventVars, serviceVars>>

Resumes(c) ==
  /\ ~Idle
  /\ Last(stack).call = c
  /\ stack' = Front(stack)

\* supersede() returns the generation that is current by now.  A document is
\* committed; preprocess() of a disposed session throws.
DocumentContinues(c) ==
  /\ Resumes(c)
  /\ call[c].kind = "document"
  /\ IF released
     THEN /\ Returns(c, generation, "threw")
          /\ UNCHANGED serviceVars
     ELSE \E req \in Requests :
            /\ Preprocess(req, generation, 0)
            /\ call' = [call EXCEPT ![c].phase = "committing",
                                    ![c].generation = generation,
                                    ![c].request = req]
  /\ UNCHANGED <<documentVars, runtimeVars, initializing, eventVars>>

\* A program gets a runtime of its own.
ProgramContinues(c) ==
  /\ Resumes(c)
  /\ call[c].kind = "program"
  /\ program' = [program EXCEPT ![c] = "loading"]
  /\ initializing' = initializing \cup {c}
  /\ call' = [call EXCEPT ![c].phase = "loading", ![c].generation = generation]
  /\ UNCHANGED <<documentVars, installedVars, eventVars, serviceVars>>

StillCurrent(gen) == ~disposed /\ gen = generation

\* load() resolves: the program is installed and its first view committed,
\* unless a newer call won meanwhile.
ProgramLoads(c) ==
  /\ Idle
  /\ call[c].phase = "loading"
  /\ program[c] = "loading"
  /\ initializing' = initializing \ {c}
  /\ LET gen == call[c].generation
     IN IF StillCurrent(gen) /\ ~released
        THEN /\ program' = [program EXCEPT ![c] = "live"]
             /\ runtime' = c
             /\ runtimeGeneration' = gen
             /\ \E req \in Requests :
                  /\ Preprocess(req, gen, c)
                  /\ call' = [call EXCEPT ![c].phase = "committing",
                                          ![c].request = req]
        ELSE /\ program' = Killing({c})
             /\ Returns(c, gen, "superseded")
             /\ UNCHANGED <<runtime, runtimeGeneration, serviceVars>>
  /\ UNCHANGED <<documentVars, stack, eventVars>>

\* load() rejects: the program or its Worker failed, or it was disposed.
ProgramLoadFails(c) ==
  /\ Idle
  /\ call[c].phase = "loading"
  /\ initializing' = initializing \ {c}
  /\ LET gen == call[c].generation
     IN /\ IF program[c] = "loading"
           THEN RuntimeDied(c, gen)
           ELSE UNCHANGED runtimeVars
        /\ \E result \in (IF terminalReason THEN {"rejected"}
                          ELSE IF ~StillCurrent(gen) THEN {"superseded"}
                          ELSE {"threw", "rejected"}) :
             Returns(c, gen, result)
  /\ UNCHANGED <<documentVars, stack, eventVars, serviceVars>>

\* Seeded bug: a program whose first view was refused goes on.
Bug_NeverStopped(c, result) == NoGeneration

StoppedBy(c, result) ==
  IF call[c].kind = "program" /\ result # "rendered"
  THEN call[c].generation ELSE NoGeneration

\* commitView() of the call resolves; a program whose first view was not
\* rendered is stopped.
ViewSettled(c) ==
  /\ Idle
  /\ call[c].phase = "committing"
  /\ Settled(call[c].request)
  /\ LET gen == call[c].generation
         result == CommitResult(gen, call[c].request)
     IN /\ Returns(c, gen, result)
        /\ StopRuntime(StoppedBy(c, result))
  /\ UNCHANGED <<documentVars, initializing, stack, eventVars, serviceVars>>

GuardDispose ==
  /\ MayCall
  /\ ~disposed
  /\ disposed' = TRUE
  /\ generation' = generation + 1
  /\ Teardown
  /\ UNCHANGED <<startup, terminalReason, callVars, eventVars>>

-----------------------------------------------------------------------------
(***************************************************************************
 Events: frame -> program -> view -> acceptance path.
 ***************************************************************************)
ChainFull == Len(chain) >= MaxPendingEvents

\* handleEvent(): the user touches the document on display.  The event is
\* ignored when no program is installed and dropped when the chain is full.
HandleEvent ==
  /\ Idle
  /\ ~released
  /\ display # 0
  /\ events < MaxEvents
  /\ events' = events + 1
  /\ chain' = IF runtime # 0 /\ ~ChainFull
              THEN Append(chain, Event(runtimeGeneration, "queued", 0, 0))
              ELSE chain
  /\ UNCHANGED <<documentVars, runtimeVars, initializing, callVars,
                 serviceVars>>

Processing(phase) ==
  /\ Idle
  /\ chain # <<>>
  /\ Head(chain).phase = phase

\* processEvent(): the event of a program that is gone is skipped.
EventStarts ==
  /\ Processing("queued")
  /\ LET gen == Head(chain).generation
     IN chain' = IF StillCurrent(gen) /\ Stops(gen)
                 THEN [chain EXCEPT ![1] = Event(gen, "stepping", runtime, 0)]
                 ELSE Tail(chain)
  /\ UNCHANGED <<documentVars, runtimeVars, initializing, callVars, events,
                 serviceVars>>

\* step() resolves with the next view, which is committed if it is current.
EventStepped ==
  /\ Processing("stepping")
  /\ LET e == Head(chain)
     IN /\ program[e.program] = "live"
        /\ IF e.generation = generation
           THEN \E req \in Requests :
                  /\ Preprocess(req, generation, e.program)
                  /\ chain' = [chain EXCEPT ![1] =
                                 Event(e.generation, "committing", e.program, req)]
           ELSE /\ chain' = Tail(chain)
                /\ UNCHANGED serviceVars
  /\ UNCHANGED <<documentVars, runtimeVars, initializing, callVars, events>>

\* step() rejects: the program failed, which ends it, or was stopped.
EventStepFails ==
  /\ Processing("stepping")
  /\ LET e == Head(chain)
     IN IF program[e.program] = "live"
        THEN RuntimeDied(e.program, e.generation)
        ELSE StopRuntime(IF e.generation = generation THEN e.generation
                         ELSE NoGeneration)
  /\ chain' = Tail(chain)
  /\ UNCHANGED <<documentVars, initializing, callVars, events, serviceVars>>

EventViewSettled ==
  /\ Processing("committing")
  /\ LET e == Head(chain)
     IN /\ Settled(e.request)
        /\ StopRuntime(IF CommitResult(e.generation, e.request) = "rejected"
                       THEN e.generation ELSE NoGeneration)
  /\ chain' = Tail(chain)
  /\ UNCHANGED <<documentVars, initializing, callVars, events, serviceVars>>

-----------------------------------------------------------------------------
(***************************************************************************
 What the runtime and the rendering path do by themselves.
 ***************************************************************************)
RuntimeDies(c) ==
  /\ Idle
  /\ program[c] = "live"
  /\ RuntimeDied(c, call[c].generation)
  /\ UNCHANGED <<documentVars, initializing, callVars, eventVars, serviceVars>>

SessionShows(r) ==
  /\ ~released
  /\ Service!Show(r)
  /\ UNCHANGED <<hostVars, program, owner>>

\* The session answers `rendered` only for the current generation, and answers
\* nothing once it is disposed.
SessionSettles(r) ==
  /\ Idle
  /\ ~released
  /\ Service!Settle(r)
  /\ request'[r] = "rendered" => owner[r].generation = generation
  /\ UNCHANGED <<hostVars, program, owner>>

-----------------------------------------------------------------------------
CallerNext ==
  \/ \E c \in Calls : CallRefused(c)
  \/ \E c \in Calls : CallBegins(c, "document") \/ CallBegins(c, "program")
  \/ GuardDispose

Continuations ==
  \/ \E c \in Calls : DocumentContinues(c) \/ ProgramContinues(c)
  \/ \E c \in Calls : ViewSettled(c)
  \/ EventStarts
  \/ EventViewSettled

\* load(), step() and preprocess() settle.
Answers ==
  \/ \E c \in Calls : ProgramLoads(c) \/ ProgramLoadFails(c)
  \/ EventStepped
  \/ EventStepFails
  \/ \E r \in Requests : SessionSettles(r)

GuardNext ==
  \/ StartupCompletes
  \/ StartupFails
  \/ FrameReloaded
  \/ CallerNext
  \/ Continuations
  \/ Answers
  \/ HandleEvent
  \/ \E c \in Calls : RuntimeDies(c)
  \/ \E r \in Requests : SessionShows(r)

(***************************************************************************
 Fairness: a continuation runs, and what a call or an event awaits settles,
 as EveryRequestSettles (PolicyClient) and EveryPromiseSettles
 (RuntimeController) promise.
 ***************************************************************************)
GuardFairness ==
  /\ \A c \in Calls :
       /\ WF_guardVars(DocumentContinues(c) \/ ProgramContinues(c))
       /\ WF_guardVars(ViewSettled(c))
       /\ WF_guardVars(ProgramLoads(c) \/ ProgramLoadFails(c))
  /\ WF_guardVars(EventStarts)
  /\ WF_guardVars(EventStepped \/ EventStepFails)
  /\ WF_guardVars(EventViewSettled)
  /\ \A r \in Requests : WF_guardVars(SessionSettles(r))

GuardSpec == GuardInit /\ [][GuardNext]_guardVars /\ GuardFairness

-----------------------------------------------------------------------------
(***************************************************************************
 Properties.
 ***************************************************************************)
\* At most one program runs: the installed one, of the current generation, or
\* one whose load() is still awaited.  Nothing loses track of a runtime, and one
\* whose render() did not succeed does not go on.  The views of the programs and
\* documents reach the session in the order of their generations, so that the
\* session's own order makes the newest document win.
OneProgram ==
  /\ GuardTypeOK
  /\ runtime # 0 => /\ program[runtime] = "live"
                    /\ runtimeGeneration = generation
                    /\ call[runtime].generation = generation
  /\ \A c \in Calls :
       /\ program[c] = "live" => c = runtime
       /\ program[c] = "loading" => c \in initializing
       /\ Alive(c) => call[c].result \in {"none", "rendered"}
  /\ \A q, r \in Requests :
       q < r /\ request[r] # "new" => owner[q].generation <= owner[r].generation

\* "Release everything": once torn down, by dispose(), a navigation or a failed
\* startup, no program runs or loads, nothing is displayed, and no late answer
\* or event brings any of it back.
ReleasedHoldsNothing ==
  released => /\ \A c \in Calls : ~Alive(c)
              /\ \A r \in Requests : request[r] # "open"
              /\ display = 0

\* "`superseded` when a newer render, clear or dispose won": a call resolves as
\* rendered only if the frame showed its view and no newer call was accepted.
NewestCallWins ==
  [][\A c \in Calls :
       call[c].result # "rendered" /\ call'[c].result = "rendered"
         => /\ call[c].request \in shown
            /\ \A d \in Calls : d > c => call[d].phase = "none"]_guardVars

\* "A view the authority refuses ends the session that produced it": once
\* render() reported a program's first view as rejected, and the frame never
\* showed it, no later view of that program is reported as rendered.
RefusedProgramIsOver ==
  [][ /\ chain # <<>>
      /\ chain' = Tail(chain)
      /\ Head(chain).phase = "committing"
      /\ CommitResult(Head(chain).generation, Head(chain).request) = "rendered"
      => LET c == call[Head(chain).program]
         IN ~(c.result = "rejected" /\ c.request \notin shown)]_guardVars

\* Every render() and clear() settles, and the chain never gets stuck behind an
\* event of a program that is gone.
NothingHangs ==
  /\ \A c \in Calls : call[c].phase # "none" ~> call[c].phase = "done"
  /\ chain # <<>> ~> chain = <<>>
=============================================================================
