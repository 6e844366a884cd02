# Specifications of generative-web-guard

generative-web-guard renders HTML and programs written by a language model
inside a sandboxed frame.  Nothing generated reaches the page's DOM: a program
runs in QuickJS in a Worker, its view is a string, a second Worker parses the
string, repairs it and asks a checker proved in Lean, and the accepted tree
goes straight to the frame over a private port.  The host page holds the
threads together and sees statuses only.

Much of what can go wrong is in that "holding together": five state machines on
four threads, messages in queues, Workers that die and are replaced, timers,
promises that must settle once, callbacks that call back.  The rest is in the
decision itself: one policy written twice, in JavaScript and in Lean, whose two
sides must agree on every document, and a foreign module that may trap in the
middle of a call.  And at the end a document is patched that its user is typing
in.  These modules model all three.

Contents: [components](#components) · [modules](#modules) · [runs](#runs) ·
[what the runs found](#what-the-runs-found) · [proofs](#proofs) ·
[not modelled](#not-modelled) · [plan](#plan)

## Components

All paths are below `src/src/`.

| component | code | state | operations |
|---|---|---|---|
| integrated guard | `guard.js` | `disposed`, `generation`, `terminalReason`, the installed runtime and its generation, runtimes still loading, the event chain | `createGuard`, `render`, `clear`, `dispose`; callbacks: frame status, user event, runtime death |
| policy session client | `policy-client.js` | the Worker and its `sessionId`, `pending` map, held requests, two startup promises, three kinds of timer, `generation`, `disposed` | `start`, `preprocess`, `nextGeneration`, `whenReady`, `whenCheckerReady`, `dispose`; Worker messages, Worker errors, timers |
| channel protocols | `policy-protocol.js`, `frame-protocol.js` | none | message kinds, correlation fields, shape checks |
| policy Worker dispatcher | `policy-dispatcher.js`, `policy-worker.js` | the core or its absence, `failed`, startup queue, the frame sender, `closed` | `start`, `ready`, `fail`, `receive`, `drain`, `dispose` |
| private frame port | `frame-channel.js` | sender: sequence number, pending acknowledgements; receiver: last sequence number | `deliver`, acknowledgement, command, `dispose` |
| sandboxed frame, host end | `host.js` | `ready`, `destroyed`, loads seen, pending bootstrap, three promises, the bootstrap timer | `attachPort`, `whenBound`, `destroy`; frame messages, load events, timer |
| sandboxed frame, script | `frame.js` | the receiver, the display | bootstrap, commit, `pagehide`, user events |
| program runtime controller | `runtime/controller.js`, `runtime/protocol.js` | Worker, `dead`, `ready`, `generation`, committed state, request in flight, step queue | `load`, `step`, `dispose`; Worker messages, errors, watchdog |
| program Worker | `runtime/worker.js`, `runtime/core.js` | the QuickJS context, whether a program is loaded | load, init, step |
| policy decision core | `policy-core.js`, `policy.js`, `tree.js` | `poisoned` | `preprocess`: convert, normalise, ask Lean, deliver |
| adapters | `adapters/parse5.js`, `adapters/dom.js` | a stack and running counters, for one call | a parser's document to the normaliser's input, within limits |
| Lean checker binding | `lean-checker.js`, `lean-abi.js`, `lean-module.js`, `checker-asset.js` | the Wasm instance, `poisoned`, `calls` | startup (`init`, `info`, `configure`), `check`, `tryReconfigure`, `dispose` |
| Wasm shim | `../lean/wasm/shim.c` | `configured` and its bytes, the installed response, `in_call` | `guard_info`, `guard_configure_seal`, `guard_check`, `guard_response_release` |
| Lean authority | `../lean/Guard/` | none | `normalizeTree`, `acceptCandidate` |
| rules and tables | `policy-data.js`, `rules.js`, `capabilities-data.js` | none | generated data |
| policy generator | `../scripts/gen-policy.mjs`, `../rules/` | none | check a profile against the capability kernel, generate the tables of both sides |
| renderer | `render.js` | the tree last rendered | `render`, `clear`: create or patch by position, control state, focus |
| acceptance registry | `acceptance.js` | outstanding one-time tokens | record, claim; its header says production code does not use it |
| previews, entry points, build, demo, tests | `preview.js`, `gate.js`, `cdn*.js`, `../scripts`, `../demo`, `../test` | none | |

How they interact:

```
  guard --render/clear--> session client --postMessage--> policy Worker
    |                        ^  |  <--------reply--------     | core + Lean
    |                        |  | attachPort(port)            |
    |--load/step--> runtime  |  v                             | private port
    |     controller      frame (host end) --bootstrap-->  frame script
    |        | postMessage        <---ready, bound---         | acknowledgement
    |     QuickJS Worker                                      v to the Worker
    <---------------- user events ------------------------ display
```

What is hard here:

* A host handler runs to completion, but it calls out: `postMessage` may throw,
  `createWorker` may throw, `onTerminated` and `onStatus` are the embedder's and
  may call the same object again in the middle of a handler.
* Every `await` lets other calls, events and deaths in between.
* A Worker is terminated and replaced while its replies, its commands on the
  port and its `bound` report are still on their way.
* Every promise handed out must settle once, though Workers may hang.
* "Newest document wins" is decided in three places: the guard's generation,
  the client's generation, and the order of commands on the port.

`PROJECT.json` lists each of these hazards with the line it bites at and the
properties that cover it.

What makes each component correct, in one line:

* client: every request settles once, nothing outlives its Worker, only the
  current document succeeds;
* dispatcher: every request is answered once and only for what it declared,
  nothing is accepted before the checker is announced or after it trapped;
* frame: every `attachPort` promise settles, no command is answered twice, the
  display never falls back to a dead Worker's document;
* the three together: what callers see is `RenderService`;
* runtime: every promise settles once, the committed state is the history of the
  resolved steps, death is final;
* guard: at most one program runs, it is the current document's, a released
  guard holds nothing, the newest call wins;
* conversion: the document whole or not at all;
* normaliser: what the Lean reference computes, and what the Lean authority
  accepts, unless a forced attribute or a canonical form outgrew a limit or a number is
  in range only after rounding;
* checker binding: a verdict is the answer of the very call that asked, and
  nothing is asked of a trapped instance;
* core: only Lean's own tree, for this request, is delivered, and nothing in it is
  outside the capability kernel;
* policy generator: what it generates tables from, Lean certifies, and what Lean
  certifies is no wider than the kernel;
* renderer: what is shown is the last committed tree, and what the user typed,
  toggled and focused survives.

## Modules

| module | models | built on |
|---|---|---|
| `PolicyChannel` | messages of the two channels | |
| `PolicyClient` | `createPolicySession`, against any Worker (`OpenSpec`) | `PolicyChannel` |
| `PolicyDispatcher` | the policy Worker with the sending end of the port | `PolicyChannel` |
| `SandboxFrame` | the frame: host end, script, receiving end of the port | `PolicyChannel` |
| `PolicySession` | client, Worker and frame over their queues | the three above |
| `RenderService` | what a caller of `preprocess` may rely on | |
| `RuntimeController` | the program runtime and its Worker | |
| `Guard` | `createGuardWith` over the rendering path and a runtime per call | `RenderService` |
| `PolicyTables` | `policy-data.js`: elements, attributes, what is forced, what is unwrapped | |
| `Capabilities` | the capability kernel no profile may leave (`capabilities-data.js`) | `PolicyTables` |
| `PolicyValues` | the validators of attribute values, JavaScript's and Lean's side by side | |
| `PolicyTrees` | nodes, paths, sizes in characters and in bytes | `PolicyTables`, `PolicyValues` |
| `RawConversion` | the conversion of the parser's document (`adapters/parse5.js`) | `PolicyTrees` |
| `Normalizer` | the normaliser (`policy.js`) | `PolicyTrees` |
| `LeanAuthority` | the reference normaliser and the acceptance predicate in Lean | `PolicyTrees` |
| `LeanChecker` | the checker binding over the shim, with any Lean program inside | |
| `PolicyProfiles` | a profile being edited, the generator's gate and Lean's | `Capabilities`, `PolicyValues` |
| `PolicyDecision` | the stages of `preprocess` (`policy-core.js`), over any conversion, candidate builder and Lean | `LeanChecker` |
| `PolicyCore` | `preprocess` with its parts, request by request | `RawConversion`, `Normalizer`, `LeanAuthority`, `PolicyDecision`, `Capabilities` |
| `Display` | `render.js` and the user events of `frame.js` over one document | |
| `MC...` | the environments of the open components (any host, any frame, senders that post any command, stray replies), instances for TLC | |
| `PolicyClientProofs`, `PolicyClientSafety` | theorems about `PolicyClient`: types; the rest | `PolicyClient` |
| `PolicyDispatcherProofs` | theorems about `PolicyDispatcher` | `MCPolicyDispatcher` |
| `SandboxFrameProofs` | theorems about `SandboxFrame` | `MCSandboxFrame` |
| `RuntimeControllerProofs` | theorems about `RuntimeController` | `MCRuntimeController` |
| `GuardProofs` | theorems about `Guard` | `Guard` |
| `LeanCheckerProofs` | theorems about `LeanChecker` and `PolicyDecision` | `PolicyDecision` |
| `PolicySessionProofs` | theorems about `PolicySession`, its refinement of `RenderService` included | `PolicySession`, `PolicyClientSafety` |

Names follow the code: a variable has the name of the JavaScript variable where
there is one, an action the name of its handler.

**Handlers.** A handler is one action when nothing else can run in its middle.
Where it calls out, it is split at the call.  `PolicyClient` keeps the frames of
the host's call stack in `posting` (an envelope whose `postMessage` has not
returned), `inCallback` (`onTerminated` is running) and `releasing` (the loop over
the held requests).  While any of them is set no other event or timer runs, and
only the callback may call the public operations.  `Guard` does the same with
`stack`, for the one status callback in the middle of a handler
(`runtime-stopped` in `supersede`); the other status callbacks come last in their
handlers.  `RuntimeController` has `pumpDue`: the `finally(pump)` that runs after
the caller's own continuation.

**Identities.** Workers are numbered in the order they are created; the number
stands for the `sessionId` and for the port made for that Worker.  A Worker that
was terminated loses what it had not delivered to the host; what it posted on its
port stays there.  An acceptance token that the protocol would take is `matches`,
another `malformed`; the correlation checks are modelled field by field because
properties depend on them, the shape checks are not.

**The open client.** `OpenSpec` runs the client against `WorkerSays`: any of these
messages at any time, in any order, any number of times.  What holds there holds
whatever the Worker does, and the theorems are about that specification.

**Payloads.** A view, a tree and a document are the request they belong to.  A
program's state in `RuntimeController` is the sequence of the events applied to
it, so that losing, repeating or reordering one shows.

**The guard's parts.** `Guard` takes the rendering path as `RenderService` promises
it (requests open in order, settle once, what settles as rendered was shown) plus
the client's rule that only the current generation is answered `rendered`
(`OnlyCurrentSucceeds`), and a runtime as `RuntimeController` promises it (`load`
and `step` settle, death is final).  `PolicySession` is shown to implement
`RenderService`; the runtime's promises are properties of its own run.

**The decision.** `PolicyDispatcher` takes a verdict as a choice; `PolicyCore` is
what is behind it.  The order of the stages, with every early return, is
`PolicyDecision`: the conversion, the candidate builder (in the code an option of
`createPolicyCore`), the bounds of the Wasm input and `isTreeShaped` are operator
constants of it, to which `PolicyCore.cfg` gives the operators of `PolicyCore`.  A document is a forest of records, an attribute value a
sequence of characters of a small alphabet (a word that only matters as a whole,
such as a colour or a keyword, is one character).  The walks of the code are kept
as walks: `RawConversion` and `Normalizer` step an explicit stack with running
counters, as the JavaScript does, while `LeanAuthority` recurses over lists, as
the Lean does, so that comparing them compares two algorithms.  `~` is a control
character that cleaning drops, `^` a lone surrogate, `e'` a character of two
bytes.  `ticks` is the step at which the clock finds the deadline passed, 0 for
never; the code looks at the clock every 1024 nodes, the model at any node.

**The checker.** `LeanChecker` has the shim's calls as sets of ways to end
(`Shim`) and the binding's `invoke` as what it makes of each.  Lean may answer
anything.  An answer carries which call it answers and under which seal: the code
has neither, the properties need both.

**The profile.** The tables the policy runs on are generated from a profile, and the
kernel that bounds every profile is data of its own; both are transcribed, each
from its file, so that neither is right because it copies the other.
`PolicyProfiles` starts from the shipped profile and lets a maintainer edit it (add or
widen an attribute, an element, a forced pair, a limit; drop a control).  An edited
profile is not run: the question is whether the two gates, one in the generator
and one in Lean, let the same profiles through, and none that is wider than the
kernel.

**The display.** `Display` has the tree last rendered and the document, whose
elements carry what the tree does not decide: the value typed, the toggle, the
identity (`born`).  A tree with a `refused` element makes the renderer throw in the
middle of a patch, `Malformed` is a message that is no tree.

## Runs

Each property has a seeded bug in the module it is about (`Bug_...`, next to the
definition it replaces), which makes that property fail under the run's own bounds: this
is how we know that the bounds reach the case.

| run | asks | distinct states |
|---|---|---|
| `client_replies` | all replies a Worker can send, to a frame session with two requests under any two generations: no tree to the host, requests held until the port is confirmed, only the current document succeeds | 156,908 |
| `client_reentrant` | two requests, a Worker and two replacements, `onTerminated` calling the session from the middle of every terminating handler: bookkeeping, held requests, order of posting, results are final, and everything settles | 40,987 |
| `policy_dispatcher` | a Worker with a startup queue of one, three requests, a replaced port, acknowledgements in any order and repeated; a history variable remembers what the frame was rendering when its port was replaced | 224,790 |
| `sandbox_frame` | two ports attached at any time, senders that replay and reorder, a navigation, `destroy` at any moment, a script that may never run | 566,109 |
| `session` | the whole path: two requests, two generations, a Worker that may die at any step and its replacement.  `ImplementsRenderService` is the refinement | 1,237,118 |
| `runtime_controller` | five steps over a queue of two, events that cannot be serialized, a Worker that answers, throws, hangs or dies, and one stray reply (late, repeated, malformed) | 14,436 |
| `guard` | two calls, documents and programs, two user events over a chain of one, against navigation, `dispose` and programs that die | 66,346 |
| `policy_core` | every document of `MCPolicyCore` through conversion, normaliser and a healthy authority; and two requests to a module that answers anything or traps, with its startup and one reconfiguration; and up to two edits of the profile against both gates | 164,080 |
| `display` | four commits of 21 trees, one malformed message, over a document in which the user types, toggles, clicks, focuses and moves | 56,328 |
| `client_reentrant_hold`, `frame_attach`, `guard_reentrant` | one property each that the code violates: [below](#what-the-runs-found) | |

Type invariants are conjuncts of the properties about bookkeeping
(`OpenIsOutstanding`, `OneProgram`, `EveryRequestAccounted`, `AttachNeverForgotten`), which
would mean little without them; all of these, and the client's, are proved.

**Bounds.** `MaxRequests`, `MaxSessions`, `MaxGeneration`, `MaxCalls`, `MaxEvents`,
`MaxSteps`, `MaxDocuments`, `MaxSent`, `MaxSeq`, `MaxStray`, `MaxReconfigures`,
`MaxCommits`, `MaxMoves` and `MaxEdits` bound counters the
code leaves unbounded; they are guards of the actions that count.  Two requests
are enough for overtaking, supersession and a request caught in another's
termination; two Workers for everything a dead Worker leaves behind, three where
its replacement must die too; two generations for an answer that races
`nextGeneration`.  `QueueMax`, `MaxQueue` and `MaxPendingEvents` are limits of the
code (`POLICY_STARTUP_QUEUE_MAX`, `maxQueue`, `GUARD_MAX_PENDING_EVENTS`), small
enough to be hit.  Steps are five because a queue of two, one in flight, one
refused and one after make five.

A decimal stays a decimal: `ToDouble` says what converting it to a double does to its
comparison with 0 and with 1.  Where a double rounds is given by the digits of half a unit in
the last place of 1 (2^-53) and of half the least double (2^-1075), the constants `HalfUlpOfOne`
and `HalfLeastDouble`; the configuration has .1 and .01, so that values on both sides of
both fit in four characters (1.1 and 1.11, .01 and .11, -.01 and -.1).

`PolicyCore.cfg` scales the limits of `PREPROCESS_LIMITS`, `LIMITS` and the
validators down to between two and eighteen, keeping the order between them that
the code relies on (the raw limits at least the policy's, `MaxNodes` equal to
`MaxRawNodes`, a descent deeper than the raw depth).  The documents are then all
forests of up to three nodes over seven kinds of element (one in each position of
the policy: allowed, unwrapped, dropped, SVG root and child, text only, foreign)
and four leaves; larger forests of fewer kinds, up to nine nodes, so that each
limit is met and passed by one (every refusal of the code occurs but those that
another one always precedes); templates; a deadline at each node; one element
(inside an `svg` where it is a part of a drawing, or it would be removed with its attributes)
with each attribute the tables know, with values its validator takes, changes and
refuses; one attribute of each kind of validator with every value up to
three to seven characters of an alphabet chosen for its grammar (twelve of one letter
for the length limits); and every list of up to
four attributes of a few that collide, are forced, prefixed or forbidden.

`Display.cfg` gives four commits: one to build, one to patch, one that fails half
way, one to build again; two moves make one held back and one behind it.

`CHECK_DEADLOCK FALSE` is in every configuration: a session whose requests are
settled and whose bounds are spent does stop.

**Fairness.** Nothing is assumed of callers, of a Worker or of the frame's script.

* A handler that started finishes (weak fairness of its remaining steps): it is
  JavaScript on one thread.
* A timer that stays armed fires.  An expired timer is a queued task that a message
  handler may delay and not cancel, so timers get strong fairness
  (`RequestTimeout`, `HandshakeTimeout`, `CheckerTimeout`, `Watchdog`); the frame's
  timer cannot be interrupted that way and has weak fairness.
* The browser dispatches a load event that is due (`OnLoad`) and runs an animation
  frame it was asked for (`FlushPointer`).
* In `Guard`, what is awaited settles: that is what the liveness properties of the
  client and of the runtime say, with their timers.

## What the runs found

Three runs show statements of the source's comments that do not hold of the code.

* `client_reentrant_hold`: "a session with a frame HOLDS its requests until the
  Worker confirms it installed the port" (`policy-client.js:27-30`).  The loop that
  releases the held requests (line 308) calls `postEnvelope`; when that throws, the
  session is terminated and `onTerminated` may start a replacement Worker and hold
  a new request.  The loop is still running, sees a Worker and a held request, and
  posts it to the Worker whose port is not confirmed.
* `frame_attach`: `attachPort` "resolves true once the frame reports `bound`, false if
  the bootstrap ... was superseded by a newer one" (`host.js:244-246`).  The late
  `bound` of a replaced port resolves the newer port's promise true (line 219).
* `guard_reentrant`: "`superseded` when a newer render, clear or dispose won"
  (`guard.js:239-240`).  `supersede` calls `onStatus` before it returns `generation`; a
  `render` made from that callback is newer, but the older call goes on under the
  newer call's generation and both resolve `rendered`, the older document last.
  From there `OneProgram` and `ReleasedHoldsNothing` fail as well: a second program
  is started, and a guard that was disposed inside the callback goes on loading.  The theorems
  about the guard assume a host that does not call it from `onStatus`.

Other places where text and code part, seen while modelling:

* "Replies for a superseded generation settle as 'superseded' and are never
  rendered" (`policy-client.js:20-21`): the Worker posts the tree to the frame before
  the host compares generations.  Adding `SupersededNeverShown` to the run `session`
  shows it; what holds is `DisplayNeverGoesBack`: it is never shown after a newer one.
* "A view the authority refuses ends the session that produced it"
  (`guard.js:191-192`): the program is installed before its first view is decided;
  an event on the document still displayed gets a second view submitted, which is
  rendered, and reported so, after `render` was told the first was rejected and
  stopped the program.  Adding `RefusedProgramIsOver` to the run `guard` shows it.
* "A failing call leaves no response installed" (`shim.c:30-32`, and "negative values
  never install a response", 48-49): a configuration that Lean refuses returns
  `GUARD_ERR_CONFIG_REFUSED` with the refusal installed (line 213).  `invoke` does not
  read it, and the next call releases it: `VerdictIsThisCalls` holds nevertheless.
* A forced attribute is added after the attribute limit was applied (`policy.js:546`),
  and some canonical values are longer than what they were written as.  The
  normaliser then proposes what the Lean authority refuses, and the whole document is refused
  rather than the attribute.
* "Purely syntactic so that the Lean checker can mirror it exactly" (`policy.js:36`) is
  true of `boundedNumber`, not of three validators built on it, which convert its result to
  a double: `f >= 0 && f <= 1` (lines 175-176), `Number(n) < 0` (183), `w > 0 && h > 0` after
  `.map(Number)` (271-272).  Lean compares characters (`Number.lean:52-66`, and 103-109 for the
  `viewBox` that line 8 says it mirrors).  So `opacity="1.00000000000000000001"` is 1 as a
  double: JavaScript keeps it, Lean refuses the document.  A minus, a point, 330 zeros and a 1
  is -0 as a double: kept as an opacity or a width, refused by Lean.  A view box with a
  side of a point, 330 zeros and a 1 is dropped by JavaScript and kept by the Lean reference.
  All of it fails closed: the document is refused, or loses its view box.
  `RoundingDecides` names these values.  `ProposalIsReference` says that the two sides
  disagree on exactly these and on nothing else, `ProposalAccepted` that growth and rounding
  are the only reasons for which Lean refuses a proposal.  Without the exception
  `policy_core` shows both false: its scaled double has 1.1 for 1 and .01 for 0.
* An unsafe profile "fails `npm run check:policy`" (`gen-policy.mjs:7-10`): the
  generator reads a tag's forced pairs through `new Map(pairs)`, where the last pair of a
  name counts (lines 271-273); the normaliser (`policy.js:546-549`) and Lean's `lookup` take
  the first.  A profile that forces `type` on a button twice, the right value last, passes the
  generator and is refused by Lean's certificate.  `GatesAreSound` states the
  agreement for profiles that force a name once (`ForcesOnce`); without that
  conjunct the run `policy_core` shows the case.
* Neither gate asks whether a forced value that the kernel does not prescribe is in
  the grammar of its attribute.  Such a profile is certified, and every document with
  that element is then refused by Lean: it fails closed.  Of the kernel itself, Lean
  alone asks that no element shadows a global attribute (`capNoShadow`), the generator
  alone that a prescribed control can be expressed: the assumptions `KernelConsistent`
  and `KernelSchema` check both.
* "The validated tree carries state through children" for a textarea
  (`render.js:121-122`): once the user has typed, a browser no longer follows the children.
  `UserStateSurvives` leaves a new text of a textarea open.
* The click on a checkbox in an element with an action is prevented and reported
  with the value in between; the browser takes the toggle back, so two clicks report
  the same value.
* `pointerenter` and `pointerleave` are posted at once, a `pointermove` at the next
  animation frame: a leave may be followed by a move of the element left.

## Proofs

TLC shows a property for one small instance; the theorems below hold for every value
of the constants.  Each rests on an inductive invariant that TLC checked first.  What
is assumed of the constants is what they are (a number, a set of configurations),
except where a table says so.

| component | theorems about | assumptions |
|---|---|---|
| session client | `OpenSpec`: any Worker, with or without a frame | `BoundsAssumption`, `FrameAssumption`, `ClientAssumption` |
| Worker dispatcher | `MCSpec`: any host, any frame | `BoundsAssumption`, `QueueAssumption`, `OwnSessionAssumption` (the Worker has a sessionId) |
| frame | `MCSpec`: any host, senders that post any command at any time | `BoundsAssumption`, `DocumentsAssumption`, `SenderAssumption` |
| runtime | `MCSpec`: replies repeated, malformed or about other requests | `StepsAssumption`, `MaxQueueAssumption`, `StrayAssumption` |
| guard | `GuardSpec` | `GuardBoundsAssumption`; `CallbackReenters = FALSE` |
| Lean checker | its specification, with any Lean inside | `ConfigsAssumption` |
| decision | `DecisionSpec`: any document, conversion, candidate builder and Lean, other configurations offered in between | `ConfigsAssumption` |
| whole path | `SessionSpec`: client, Worker and frame | those of client, dispatcher and frame; `CallbackReenters = FALSE` for one theorem |

### Session client

| theorem | property |
|---|---|
| `ClientTypeCorrect` | `ClientTypeOK` |
| `PendingXorSettledHolds` | an issued request is pending or settled, never both |
| `TimersWatchTheLivingHolds` | timers belong to pending requests and the live Worker |
| `NothingWithoutAWorkerHolds` | without a Worker nothing is held, pending or posted |
| `OutcomeFinalHolds` | an outcome is never replaced |
| `OnlyCurrentSucceedsHolds` | only the current generation settles as rendered or accepted |
| `NoTreeToAFrameSessionHolds` | a frame session's caller never receives a tree |
| `EveryRequestInPlaceHolds` | a pending request is held, being posted or posted, once, and the requests keep their order |
| `HeldUntilAttachedHolds` | with `CallbackReenters = FALSE`, nothing is posted before the port is confirmed |

The inductive invariant of the first seven is `SafetyInv == ClientTypeOK /\
PendingXorSettled /\ TimersWatchTheLiving /\ NothingWithoutAWorker`.  None of the
three is inductive alone.  A request's timer terminates the session without asking
whether its request is still pending, so the bookkeeping needs `requestTimers = pending`;
the startup timers terminate "the" Worker, so they need `TimersWatchTheLiving`; a
request is put into `pending` by code that runs after a Worker was created, so
termination must have left nothing, `NothingWithoutAWorker`.  `terminate()` is shared by
a dozen handlers and has a lemma of its own (`TerminateKeeps`), cited once per handler;
then there is one step per action.  `OutcomeFinal` and `OnlyCurrentSucceeds` follow from
the same invariant step by step: a settled request is not pending, and only pending
requests are settled.

`EveryRequestInPlace` says where requests are, not why they stay there.  `PlaceInv` adds
that what was posted is older than what is being posted, that older than what is held,
and all of it older than the next request (`QueuesInOrder`); and that while the port
is confirmed only the release loop leaves anything held and no callback runs
(`HeldForThePort`), because a request posted past a held one would overtake it.  The
lemmas `OrderAppend`, `OrderTail` and `OrderConcat` say what appending, taking and
joining do to the order of a queue.

`HeldUntilAttached` is false when `onTerminated` re-enters (run
`client_reentrant_hold`), so its theorem assumes that it does not.  `HeldInv` says why it
is true then: a release loop without a confirmed port can only be one whose Worker is
gone.

The lemmas of a message (`MessageType`, `MessageKeeps`, `MessagePlace`) are about any
message at all, not about those of `WorkerSays`, so that the whole path can use them.

### Worker dispatcher

| theorem | property |
|---|---|
| `EveryRequestAccountedHolds` | a request that arrived is answered at most once, and has an answer unless it is queued, with the frame, was with the frame when its port was replaced, or the Worker was disposed |
| `PoisonIsFinalHolds` | a trapped checker accepts nothing and sends the frame nothing |

`DispatcherInv` adds to `EveryRequestAccounted`, which also holds the types, that a
request is at one place of the queue or with the frame and never at two
(`EachAtOnePlace`): otherwise draining the one and acknowledging the other would answer
it twice; and that what was dropped with a replaced port has left both
(`DroppedHasLeft`).  `dropped` is a history variable of `MCPolicyDispatcher`: without
it the invariant could only excuse every unanswered request once some port was
replaced, a lost one with them.

### Frame

| theorem | property |
|---|---|
| `AttachNeverForgottenHolds` | a promise of `attachPort` is open exactly while its resolver is held |
| `AnswersOnceHolds` | one acknowledgement of a command at most |
| `NeverBackToOlderWorkerHolds` | nothing of an older Worker after a newer one's |

`FrameInv`: nothing reaches the script before it reported, and nothing is held back
after (`HeldUntilReady`); ports on their way are in order and newer than the one the
frame listens on (`PortsArriveInOrder`), so replacing a port always goes forward; a port is
answered up to `lastSeq` and not at all before it arrives (`AnsweredUpToLastSeq`), which is
why resetting `lastSeq` for a new port repeats nothing.

### Runtime

| theorem | property |
|---|---|
| `OpenIsOutstandingHolds` | every open promise belongs to a step that waits or to the one in flight |
| `StateIsHistoryHolds` | the committed state is the history of the resolved steps |
| `DeathIsFinalHolds` | a dead session commits nothing and resolves nothing |
| `OnlyDeathFailsTheOthersHolds` | a step fails for its own event or with the session |

`RuntimeInv`: steps are taken up in the order they were asked for (`StepsInOrder`), the
session starts once and ends once (`Lifecycle`), and `RepliesFollow`: what is posted carries the
committed state and a reply that carries the id in flight the state that follows it.
A stray reply is a copy of one on its way, or one made up that answers another request or is
malformed; the one made-up reply left out is a successful answer under the id in flight.

### Guard

| theorem | property |
|---|---|
| `OneProgramHolds` | one program at most, and views in the order of their generations |
| `ReleasedHoldsNothingHolds` | after teardown nothing runs, loads or shows |
| `NewestCallWinsHolds` | a call resolves as rendered only if no call came after it |

All three for a host that does not call the guard from inside `onStatus`; with one that
does they are false (run `guard_reentrant`).  `GuardInv`: calls leave `supersede()` one
by one, each with a generation of its own (`CallsInOrder`, `OneInside`); what is torn down
stays so (`ReleasedInv`); every program belongs to the call that loads it or installed it and
is tracked by `initializing` or `runtime` (`ProgramsOwned`), or a late `load()` would leave it
running; an event being processed is its program's (`EventsOwned`); views are asked for in
order and shown before they are reported (`ViewsInOrder`).

### Lean checker

`LeanChecker`, for any configurations, request ids, trees and answers of Lean
(assumption `ConfigsAssumption`: this build's configuration is one an instance may be
offered and is not too long):

| theorem | property |
|---|---|
| `VerdictIsThisCallsHolds` | a verdict that decides anything answers the very call that asked, under this build's seal |
| `TrapIsFinalHolds` | a poisoned instance is never entered again and keeps its seal |

The inductive invariant is `CheckerInv`.  `VerdictIsThisCalls` needs to know that a
call that is entered is entered alone (`inCall => poisoned`: only a trap leaves the
flag, and the binding notices every trap), and that the seal is this build's
(`sealed \in {NoConfig, OwnConfig}`: no other configuration is offered before the
instance is handed out, and the shim takes none after).  `ShimEnds` and
`InvokeSound` say once how a call leaves the shim and the binding, three lemmas what
each kind of response amounts to; then there is one step per operation.

### Decision

| theorem | property |
|---|---|
| `OnlyLeanAcceptsHolds` | only the authority's tree is delivered, of the verdict on this request's proposal |
| `AcceptedByThisCallHolds` | Lean said so in the very call made for this request, under this build's configuration |
| `PoisonRefusesHolds` | once the instance is poisoned every answer is a refusal, that of the call which trapped included |

The repository's tests inject a candidate builder that proposes a forbidden tree and
show that it is refused; here builder, conversion and Lean are arbitrary.  The
invariant is `CheckerInv` with `OnlyLeanAccepts`: nothing but `preprocess` asks for a
verdict, so the one at hand is the one the reply was made of, and `VerdictIsThisCalls`
of the checker makes it this call's.  `PoisonRefuses` is what `PolicyDispatcher` assumes
of the decision (`Verdicts`).  What the parts compute is not in these theorems: that is
what `policy_core` checks.

### Whole path

| theorem | property |
|---|---|
| `PendingIsSomewhereHolds` | a pending request is held, posted, queued, with the frame, or answered by a reply on its way |
| `DisplayNeverGoesBackHolds` | the frame moves on to newer requests, never back to an older document |
| `ImplementsRenderServiceHolds` | client, Worker and frame implement `RenderService` |
| `NoneUndeliverableHolds` | with `CallbackReenters = FALSE`, no request is refused because its delivery does not fit the port |

These are all the properties of the run `session`, for any number of requests,
generations, Workers and documents, any length of the startup queue, with or without
a frame.  The inductive invariant is `PathInv`; TLC checked each part of it on that run,
with a callback that re-enters too, before it was proved.

* `ClientInv`: the client's own invariants.  A step of the path is a step of the client
  or leaves the client alone (`ClientOfStep`), so they hold here as they do against any
  Worker.
* `WireInv`: whatever the Worker holds or posted is of the session that lives, and a
  dead Worker left nothing (`OneWorker`); a Worker is given one port, once (`OnePort`).
  Without it a reply of one Worker could be counted for a request posted to the next.
* `OrderInv`: along the path (held, posted, queued, port) requests come in the order they
  were made and their generations in the order they were declared.  An order held
  in one queue says nothing when a request moves on to the next.
* `PortsInv`: ports on their way to the frame are in the order of their Workers and newer
  than the one it listens on, and no port newer than that was read from.
* `ShownInv`: what was shown was read from a port, and a reply that says "rendered" is
  about a request that was shown.

To each kind of step belongs one lemma about what it does to the path as a whole: the
client ends its Worker or goes on with it (`ClientEffect`), the Worker moves a request
along (`WorkerEffect`), the frame takes a command and shows it or drops it.  The parts
of the invariant are proved from these effects, not from the handlers.

The refinement maps `SessionSpec` to `RenderService` by `ServiceState` and `ShownBy`.
`CallerSees` says what a client step is to its caller: it opens one request (`Submit`),
fails all that are open (`FailAll`: the session ends), settles one (`Settle`), or changes
none.  A request that settles as rendered was shown: `ShownInv` says so of the reply it
settles by.  A step of the frame is `Show` or a
stutter, and `NextIsNewest` says that what it shows next is newer than all it showed.

For `NoneUndeliverable`, `DeliveryFits` says that every request declares the delivery of
its session and that none is posted or queued before the port is confirmed; once it is,
the Worker has it.  It rests on `HeldInv`, and is false, as `HeldUntilAttached` is, when
`onTerminated` re-enters.

### Left to TLC

* Liveness (`NobodyWaitsForever`, `EveryPromiseSettles`, `NothingHangs`,
  `FrameStagesEnd`): fairness and ENABLED are out of the prover's reach.
* Everything about documents: `ConversionIsExact`, `ProposalIsReference`,
  `ProposalAccepted`, `LeanInputBounded`, `WithinKernel`, and the display's
  `DisplayIsTree`, `UserStateSurvives`, `NewestMoveReported`.  The walks they are about
  are recursive over their input, and what a recursive definition computes for every
  input needs an induction the provers cannot instantiate.
* `GatesAreSound`: it compares two gates over the shipped tables, entry by entry, and
  reads values with the recursive validators.

## Not modelled

* the client's counters (`stats`) and the class allowlist it sends once;
* `frame-post-failed` (`frame-channel.js:72-74`) and the sender's own deadline (`timeoutMs`):
  the port of the installed sender is live and a tree is plain data, so posting it does
  not throw, and the Worker installs its sender without a deadline (`policy-dispatcher.js:64`);
* shape checks of messages, `sanitizeEvent`, bounded reason objects, status texts,
  the counters and previews of an accepted reply, a mint that fails: no property
  depends on them;
* a `host.js` status callback that calls the frame object from inside its handler;
* `createWorker` throwing inside the client leaves `whenCheckerReady()` pending
  until the next start or `dispose`: the model has it, and `NobodyWaitsForever`
  promises an end only for a Worker that exists;
* a runtime `load()` refused before a Worker exists;
* what QuickJS does: the program's Worker may answer, throw, hang or die;
* the HTML parser: a document starts as the tree parse5 returns;
* the colour grammar: a colour is one token that is or is not one;
* the DOM adapter, a copy of the modelled walk kept for tests of parser differences, and
  the previews: the policy Worker uses neither;
* the byte level of the checker: JSON, UTF-8, buffers and their lengths are values
  (a response that does not decode is an outcome of `invoke`), digests are equal or not;
* in `Display`: a change of an input's type in place, `select` and `option`, radio
  groups, keyboard events, `details`, the selection inside a text control;
* the Lean proofs: `LeanAuthority` models the definitions they are about;
* loading the Wasm module, startup error texts, entry points; `gate.js`, a linter that is
  "not on the execution path", and the acceptance registry, "retained solely as a
  reference/test utility": nothing modelled here calls them;
* rule ids and the tables that only label what was removed; how a profile is
  printed as JavaScript and as Lean, and the comparison of the printed files;
* generated and offline code.  More than half of the repository's lines are the two bundles
  under `cdn/`, built from the modules modelled here (12,284 and 5,701
  lines); with the build and verification scripts, demo, examples and tests they are
  most of the lines no definition stands for.  They keep no state of the system and
  decide nothing in it.

## Plan

Done, in this order: client, dispatcher, frame, their composition and its
refinement, runtime, guard; then the decision (tables, values, conversion, normaliser,
authority, checker, core), the kernel and the gates of the profile, and the display.
Proved: the safety properties of the client, the checker, the order of the decision, the
dispatcher, the frame, the runtime and the guard; and of their composition on the
rendering path everything its run checks, the refinement included.

What is left needs another prover or another form: the conversion and the two
normalisers hold recursive operators, and a theorem that they agree on every document
would be an induction over forests.  `LeanChecker` and `PolicyDecision` are kept apart
from them so that what does not depend on the documents is proved.
