---------------------------- MODULE PolicyChannel ----------------------------
(***************************************************************************
 The host <-> policy Worker channel: identities, bounds and messages
 (src/policy-protocol.js).  PolicyClient is the host end, PolicyDispatcher
 the Worker end; PolicySession composes them with the frame, whose private
 port to the Worker is described here too.

 Data the properties do not tell apart is abstracted: a document is its
 request, a sessionId is the ordinal of the Worker that owns it, the
 protocol version and instanceId of a reply are folded into its session (a
 reply that fails either is a reply of NoSession), and a one-time acceptance
 record is how it compares with the reply that carries it.
 ***************************************************************************)
EXTENDS Naturals, Sequences

CONSTANTS
  MaxRequests,      \* bound: requests one policy session issues
  MaxSessions,      \* bound: Workers one policy session creates
  MaxGeneration,    \* bound: calls of nextGeneration()
  HasFrame          \* createPolicySession was given a sandbox frame

ASSUME BoundsAssumption ==
  /\ MaxRequests \in Nat
  /\ MaxSessions \in Nat
  /\ MaxGeneration \in Nat

ASSUME FrameAssumption == HasFrame \in BOOLEAN

NoSession == 0
Sessions == 1..MaxSessions
SessionOrNone == 0..MaxSessions
Requests == 1..MaxRequests
Generations == 0..MaxGeneration

(***************************************************************************
 Host -> Worker.  `delivery` is declared by the sender, never inferred.
 ***************************************************************************)
Deliveries == {"frame", "host"}

AttachFrame(s) == [kind |-> "attach-frame", session |-> s]

Preprocess(s, r, g, d) ==
  [kind |-> "preprocess", session |-> s, requestId |-> r, generation |-> g,
   delivery |-> d]

AttachMessages == [kind : {"attach-frame"}, session : Sessions]
Envelopes == [kind : {"preprocess"}, session : Sessions, requestId : Requests,
              generation : Generations, delivery : Deliveries]
HostMessages == AttachMessages \cup Envelopes

(***************************************************************************
 Worker -> host.  Startup messages carry no request; replies echo the
 identity of the request they answer.
 ***************************************************************************)
Ready == [kind |-> "ready"]
CheckerReady(v) == [kind |-> "checker-ready", version |-> v]
Failed == [kind |-> "failed"]
FrameAttached(s) == [kind |-> "frame-attached", session |-> s]

\* How a one-time acceptance record compares with the reply that carries it.
Tokens == {"matches", "malformed", "foreign", "other-version"}

\* Rejections the properties tell apart: a declared delivery that does not fit
\* the Worker's port, a full startup queue, and every other reason.
Rejections == {"rejected", "undeliverable", "startup-queue-full"}

Statuses ==
  {"rendered", "accepted", "checker-poisoned", "other"} \cup Rejections

Reply(k, s, r, g, st, lean, tok, tree) ==
  [kind |-> k, session |-> s, requestId |-> r, generation |-> g,
   status |-> st, lean |-> lean, token |-> tok, tree |-> tree]

StartupMessages ==
  {Ready, Failed} \cup {CheckerReady(v) : v \in BOOLEAN}
  \cup {FrameAttached(s) : s \in SessionOrNone}

\* Every reply a Worker, faithful to this build or not, can post.
ReplyBodies ==
  [kind : {"result"}, status : {"rendered", "accepted"}, lean : BOOLEAN,
   token : Tokens, tree : BOOLEAN]
  \cup [kind : {"result", "refused", "other"},
        status : Statuses \ {"rendered", "accepted"},
        lean : {FALSE}, token : {"malformed"}, tree : {FALSE}]

Replies ==
  {Reply(b.kind, s, r, g, b.status, b.lean, b.token, b.tree) :
     b \in ReplyBodies, s \in SessionOrNone, r \in Requests, g \in Generations}

WorkerMessages == StartupMessages \cup Replies

(***************************************************************************
 The private port, Worker -> frame and back (src/frame-protocol.js).  A
 render command and its acknowledgement carry the request's identity and the
 sender's sequence number; a tree is the request it was accepted for.  A
 malformed command, or one of another instance, has no sequence number a
 sender would use.
 ***************************************************************************)
Command(n, r, g) == [seq |-> n, requestId |-> r, generation |-> g]
Commands == [seq : Nat, requestId : Requests, generation : Generations]

\* ok is frame/rendered, ~ok is frame/refused.
Ack(c, b) == [seq |-> c.seq, requestId |-> c.requestId,
              generation |-> c.generation, ok |-> b]
Acks == [seq : Nat, requestId : Requests, generation : Generations,
         ok : BOOLEAN]
=============================================================================
