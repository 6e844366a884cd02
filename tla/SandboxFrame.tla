---------------------------- MODULE SandboxFrame -----------------------------
(***************************************************************************
 The sandboxed frame: createSandboxFrame (src/host.js), the host's end, and
 the frame's own script (src/frame.js) with the receiving end of the private
 port, createFrameReceiver (src/frame-channel.js).

 Two threads talk by postMessage: the host posts bootstraps, the frame posts
 `ready` and `bound`.  The frame's `load` event reaches the host as a task of
 its own, in no order with the messages.  Every handler is one step.  A port
 is named by the session it was created for; the log of what was posted on
 it belongs to the sender and is a parameter of FrameReceives.

 User events and the renderer's own work are left out: a command is displayed,
 refused as malformed, or clears the display because the renderer threw.
 ***************************************************************************)
EXTENDS PolicyChannel

CONSTANT MaxDocuments   \* bound: documents the frame navigates through

ASSUME DocumentsAssumption == MaxDocuments \in Nat \ {0}

VARIABLES
  ready,             \* the frame's script reported ready
  destroyed,         \* destroy() was called
  loads,             \* load events the host saw
  portBound,
  pendingBootstrap,  \* the port held until the frame is ready, or NoSession
  bootstrapResolve,  \* the port whose attachPort() promise awaits `bound`
  attachResult,      \* per port: state of the promise attachPort() returned
  boundPromise,      \* state of whenBound()
  frameReady,        \* state of the `ready` promise
  bootstrapTimer,    \* the frame-bootstrap timer is armed
  toFrameWindow,     \* bootstraps posted to the frame's window
  fromFrame,         \* messages the frame posted to the host
  documents,         \* documents the frame has loaded
  scriptRuns,        \* the script of the present document runs
  receiver,          \* the port the frame listens on, or NoSession
  lastSeq,           \* sequence number it answered last
  portRead,          \* per port: commands taken from it
  display,           \* what the frame shows
  acks               \* per port: acknowledgements the frame posted

hostSideVars == <<ready, destroyed, loads, portBound, pendingBootstrap,
                  bootstrapResolve, attachResult, boundPromise, frameReady,
                  bootstrapTimer>>
frameSideVars == <<documents, scriptRuns, receiver, lastSeq, portRead,
                   display, acks>>
frameVars == <<hostSideVars, frameSideVars, toFrameWindow, fromFrame>>

Blank == [session |-> NoSession, requestId |-> 0, generation |-> 0, seq |-> 0]

Shown(s, c) == [session |-> s, requestId |-> c.requestId,
                generation |-> c.generation, seq |-> c.seq]

FrameReadyMsg == [type |-> "ready"]
Bound(s) == [type |-> "bound", session |-> s]
FrameMessages == {FrameReadyMsg} \cup {Bound(s) : s \in Sessions}

Promises == {"none", "pending", "true", "false"}

FrameTypeOK ==
  /\ ready \in BOOLEAN
  /\ destroyed \in BOOLEAN
  /\ loads \in 0..MaxDocuments
  /\ portBound \in BOOLEAN
  /\ pendingBootstrap \in SessionOrNone
  /\ bootstrapResolve \in SessionOrNone
  /\ attachResult \in [Sessions -> Promises]
  /\ boundPromise \in Promises
  /\ frameReady \in Promises
  /\ bootstrapTimer \in BOOLEAN
  /\ toFrameWindow \in Seq(Sessions)
  /\ fromFrame \in Seq(FrameMessages)
  /\ documents \in 1..MaxDocuments
  /\ scriptRuns \in BOOLEAN
  /\ receiver \in SessionOrNone
  /\ lastSeq \in Nat
  /\ portRead \in [Sessions -> Nat]
  /\ display \in {Blank} \cup [session : Sessions, requestId : Requests,
                               generation : Generations, seq : Nat]
  /\ acks \in [Sessions -> Seq(Acks)]

\* createSandboxFrame() appended the iframe; its document has not run yet.
FrameInit ==
  /\ ready = FALSE
  /\ destroyed = FALSE
  /\ loads = 0
  /\ portBound = FALSE
  /\ pendingBootstrap = NoSession
  /\ bootstrapResolve = NoSession
  /\ attachResult = [s \in Sessions |-> "none"]
  /\ boundPromise = "pending"
  /\ frameReady = "pending"
  /\ bootstrapTimer = TRUE
  /\ toFrameWindow = <<>>
  /\ fromFrame = <<>>
  /\ documents = 1
  /\ scriptRuns = FALSE
  /\ receiver = NoSession
  /\ lastSeq = 0
  /\ portRead = [s \in Sessions |-> 0]
  /\ display = Blank
  /\ acks = [s \in Sessions |-> <<>>]

-----------------------------------------------------------------------------
(***************************************************************************
 The host's end.
 ***************************************************************************)
SettleIf(promise, value) == IF promise = "pending" THEN value ELSE promise

\* attachResult after the promises of the ports in S resolved with value.
Resolving(S, value) ==
  [s \in Sessions |-> IF s \in S THEN value ELSE attachResult[s]]

Waiting == {pendingBootstrap, bootstrapResolve}

\* Seeded bug: a newer port takes the place of the one that waits.
Bug_SupersededNobody == {}

Superseded == Waiting

\* attachPort(): a newer port supersedes whatever waits.  postMessage may
\* throw, which resolves false at once.
AttachPort(s) ==
  IF destroyed
  THEN /\ attachResult' = Resolving({s}, "false")
       /\ UNCHANGED <<pendingBootstrap, bootstrapResolve, toFrameWindow>>
  ELSE \E throws \in {FALSE, ready} :
         /\ attachResult' =
              [Resolving(Superseded, "false") EXCEPT
                 ![s] = IF throws THEN "false" ELSE "pending"]
         /\ pendingBootstrap' = IF ready THEN NoSession ELSE s
         /\ bootstrapResolve' = IF ready /\ ~throws THEN s ELSE NoSession
         /\ toFrameWindow' = IF ready /\ ~throws THEN Append(toFrameWindow, s)
                             ELSE toFrameWindow

HostAttachesPort(s) ==
  /\ AttachPort(s)
  /\ UNCHANGED <<ready, destroyed, loads, portBound, boundPromise, frameReady,
                 bootstrapTimer, fromFrame, frameSideVars>>

\* What destroy() sets, in whichever handler calls it.  Removing the iframe
\* ends the frame's document and everything it posted.
FrameReadyWhenDestroyed ==
  IF ready THEN frameReady ELSE SettleIf(frameReady, "false")

Destroy ==
  /\ destroyed' = TRUE
  /\ frameReady' = FrameReadyWhenDestroyed
  /\ portBound' = FALSE
  /\ bootstrapTimer' = FALSE
  /\ attachResult' = Resolving(Waiting, "false")
  /\ bootstrapResolve' = NoSession
  /\ pendingBootstrap' = NoSession
  /\ boundPromise' = SettleIf(boundPromise, "false")
  /\ toFrameWindow' = <<>>
  /\ fromFrame' = <<>>
  /\ scriptRuns' = FALSE
  /\ receiver' = NoSession
  /\ display' = Blank

FrameDestroy ==
  /\ ~destroyed
  /\ Destroy
  /\ UNCHANGED <<ready, loads, documents, lastSeq, portRead, acks>>

\* onLoad(): a second document means the frame navigated.
\* Seeded bug: one navigation is forgiven.
Bug_TooManyLoads(n) == n > 2

Navigated(n) == n > 1

OnLoad ==
  /\ ~destroyed
  /\ loads < documents
  /\ loads' = loads + 1
  /\ IF Navigated(loads + 1)
     THEN Destroy
     ELSE UNCHANGED <<destroyed, frameReady, portBound, bootstrapTimer,
                      attachResult, bootstrapResolve, pendingBootstrap,
                      boundPromise, toFrameWindow, fromFrame, scriptRuns,
                      receiver, display>>
  /\ UNCHANGED <<ready, documents, lastSeq, portRead, acks>>

HostReads(msg) ==
  /\ ~destroyed
  /\ fromFrame # <<>>
  /\ Head(fromFrame) = msg

\* The first `ready` posts the bootstrap that was held for it.
OnFrameReady ==
  /\ HostReads(FrameReadyMsg)
  /\ ~ready
  /\ ready' = TRUE
  /\ bootstrapTimer' = FALSE
  /\ frameReady' = SettleIf(frameReady, "true")
  /\ pendingBootstrap' = NoSession
  /\ fromFrame' = Tail(fromFrame)
  /\ \/ /\ pendingBootstrap # NoSession
        /\ bootstrapResolve' = pendingBootstrap
        /\ toFrameWindow' = Append(toFrameWindow, pendingBootstrap)
        /\ UNCHANGED attachResult
     \/ /\ bootstrapResolve' = IF pendingBootstrap = NoSession
                               THEN bootstrapResolve ELSE NoSession
        /\ attachResult' = Resolving({pendingBootstrap}, "false")
        /\ UNCHANGED toFrameWindow
  /\ UNCHANGED <<destroyed, loads, portBound, boundPromise, frameSideVars>>

\* A second `ready` is another document.
OnReadyAgain ==
  /\ HostReads(FrameReadyMsg)
  /\ ready
  /\ Destroy
  /\ UNCHANGED <<ready, loads, documents, lastSeq, portRead, acks>>

OnBound(s) ==
  /\ HostReads(Bound(s))
  /\ portBound' = TRUE
  /\ attachResult' = Resolving({bootstrapResolve}, "true")
  /\ bootstrapResolve' = NoSession
  /\ boundPromise' = SettleIf(boundPromise, "true")
  /\ fromFrame' = Tail(fromFrame)
  /\ UNCHANGED <<ready, destroyed, loads, pendingBootstrap, frameReady,
                 bootstrapTimer, toFrameWindow, frameSideVars>>

BootstrapTimeout ==
  /\ bootstrapTimer
  /\ ~ready
  /\ ~destroyed
  /\ bootstrapTimer' = FALSE
  /\ frameReady' = SettleIf(frameReady, "false")
  /\ UNCHANGED <<ready, destroyed, loads, portBound, pendingBootstrap,
                 bootstrapResolve, attachResult, boundPromise, toFrameWindow,
                 fromFrame, frameSideVars>>

-----------------------------------------------------------------------------
(***************************************************************************
 The frame.
 ***************************************************************************)
\* The host's policy may refuse the script, and then this never happens.
FrameStarts ==
  /\ ~destroyed
  /\ ~scriptRuns
  /\ scriptRuns' = TRUE
  /\ fromFrame' = Append(fromFrame, FrameReadyMsg)
  /\ UNCHANGED <<hostSideVars, toFrameWindow, documents, receiver, lastSeq,
                 portRead, display, acks>>

\* The frame loads another document: pagehide disposes the receiver.  What the
\* host posted meanwhile may reach either document.  The load event of the
\* document it leaves is queued already: OnLoad may still be due.
FrameNavigates ==
  /\ ~destroyed
  /\ documents < MaxDocuments
  /\ documents' = documents + 1
  /\ scriptRuns' = FALSE
  /\ receiver' = NoSession
  /\ lastSeq' = 0
  /\ display' = Blank
  /\ toFrameWindow' \in {toFrameWindow, <<>>}
  /\ UNCHANGED <<hostSideVars, fromFrame, portRead, acks>>

\* bootstrap(): the new port replaces the one the frame listens on.
FrameBootstraps ==
  /\ scriptRuns
  /\ toFrameWindow # <<>>
  /\ toFrameWindow' = Tail(toFrameWindow)
  /\ receiver' = Head(toFrameWindow)
  /\ lastSeq' = 0
  /\ fromFrame' = Append(fromFrame, Bound(Head(toFrameWindow)))
  /\ UNCHANGED <<hostSideVars, documents, scriptRuns, portRead, display, acks>>

\* Seeded bug: the receiver of a replaced port is not disposed.
Bug_ListensToAll(s) == scriptRuns /\ receiver # NoSession /\ s <= receiver

ListensOn(s) == scriptRuns /\ receiver = s

\* Seeded bug: a replayed command is answered again.
Bug_ReplayIsNew(c) == c.seq >= lastSeq /\ c.seq # 0

IsNewer(c) == c.seq > lastSeq

\* The next command of the log on port s.
FrameReceives(s, log) ==
  /\ ListensOn(s)
  /\ portRead[s] < Len(log)
  /\ portRead' = [portRead EXCEPT ![s] = @ + 1]
  /\ LET c == log[portRead[s] + 1]
     IN \/ /\ ~IsNewer(c)
           /\ UNCHANGED <<lastSeq, display, acks>>
        \/ /\ IsNewer(c)
           /\ lastSeq' = c.seq
           /\ \/ /\ display' = Shown(s, c)
                 /\ acks' = [acks EXCEPT ![s] = Append(@, Ack(c, TRUE))]
              \/ /\ display' \in {display, Blank}
                 /\ acks' = [acks EXCEPT ![s] = Append(@, Ack(c, FALSE))]
  /\ UNCHANGED <<hostSideVars, toFrameWindow, fromFrame, documents,
                 scriptRuns, receiver>>

\* The events of the host's frame object.
HostFrameNext ==
  \/ OnLoad
  \/ OnFrameReady
  \/ OnReadyAgain
  \/ \E s \in Sessions : OnBound(s)
  \/ BootstrapTimeout

\* What the frame does by itself.
FrameScriptNext ==
  \/ FrameStarts
  \/ FrameNavigates
  \/ FrameBootstraps

\* A load event is dispatched, and an armed timer fires.
FrameFairness ==
  /\ WF_frameVars(OnLoad)
  /\ WF_frameVars(BootstrapTimeout)

-----------------------------------------------------------------------------
(***************************************************************************
 Properties, whatever is posted on the ports.
 ***************************************************************************)
\* A promise of attachPort() is open only while the frame object still holds
\* its resolver: a newer port, a failed bootstrap and destroy() all resolve
\* the one they displace, and at most one bootstrap is awaited at a time.
AttachNeverForgotten ==
  /\ FrameTypeOK
  /\ \A s \in Sessions :
       attachResult[s] = "pending" <=> s \in {pendingBootstrap, bootstrapResolve}
  /\ NoSession \in {pendingBootstrap, bootstrapResolve}

\* "A replay cannot elicit a second ack": on every port the frame answers
\* each command at most once, in the order of the sequence numbers, whatever
\* the port carries.
AnswersOnce ==
  \A s \in Sessions : \A i, j \in DOMAIN acks[s] :
    i < j => acks[s][i].seq < acks[s][j].seq

\* Once the frame showed what a newer Worker sent, nothing an older Worker
\* left on its port is displayed any more.
NeverBackToOlderWorker ==
  [][display' # Blank => display'.session >= display.session]_frameVars

\* "Resolves true once the frame reports `bound`, false if the bootstrap ...
\* was superseded by a newer one": a port's promise resolves true on the report
\* about that port.
TrueMeansBound ==
  [][\A s \in Sessions :
       attachResult[s] = "pending" /\ attachResult'[s] = "true"
         => Head(fromFrame) = Bound(s)]_frameVars

\* The frame-bootstrap stage ends although the script may never run.
FrameStartupEnds ==
  frameReady = "pending" ~> frameReady # "pending"

\* A frame that navigated is destroyed, also when its new document never
\* runs the script that would report ready a second time.
NavigationEndsFrame ==
  documents > 1 ~> destroyed

\* Whatever the frame's document does or fails to do, the host's wait for it
\* comes to an end, and so does a frame that is not the one it started.
FrameStagesEnd == FrameStartupEnds /\ NavigationEndsFrame
=============================================================================
