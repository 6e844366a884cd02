---------------------------- MODULE PolicyDecision ----------------------------
\* policy-core.js: the order in which preprocess() asks its parts, over any
\* conversion, any candidate builder (an option of createPolicyCore) and any Lean
\* program.  One call runs to its end; what its stages computed is kept in pre and
\* candidate.  PolicyCore gives the parts their definitions.
EXTENDS LeanChecker

CONSTANTS
  OwnClasses,            \* the class allowlist this instance was built with
  NoClasses,             \* a request that carries none
  PreprocessHtml(_, _),  \* the conversion of a document under a clock: a code, or a raw tree
  CandidateBuilder(_),   \* what is proposed of a raw tree
  Excess(_),             \* the bound a proposal exceeds, or ""
  IsTreeShaped(_)

VARIABLES
  request,      \* id, document, clock and class allowlist of the last request
  pre,          \* what preprocessHtml returned for it
  candidate,    \* what buildCandidate returned
  reply         \* what preprocess returned

requestVars == <<request, pre, candidate, reply>>
coreVars == <<checkerVars, requestVars>>

NoReply == [status |-> "none", code |-> "", tree |-> <<>>]
Refuse(code) == [NoReply EXCEPT !.status = "rejected", !.code = code]

\* What a stage that was not reached leaves behind.
NotConverted == [code |-> "not-converted", raw |-> <<>>]
NotProposed == [status |-> "none"]

CoreInit ==
  /\ request = [id |-> 0, doc |-> <<>>, ticks |-> 0, classes |-> NoClasses]
  /\ pre = NotConverted
  /\ candidate = NotProposed
  /\ reply = NoReply

-----------------------------------------------------------------------------
(***************************************************************************
 The stages of preprocess(): each hands on, or names why it refuses.
 ***************************************************************************)
\* Before any work.
Unable(req) ==
  IF phase # "ready" THEN "checker-unavailable"
  ELSE IF poisoned THEN "checker-poisoned"
  ELSE IF req.classes \notin {NoClasses, OwnClasses} THEN "class-allowlist-mismatch"
  ELSE ""

Converted(req) ==
  IF Unable(req) # "" THEN NotConverted ELSE PreprocessHtml(req.doc, req.ticks)

Proposal(converted) ==
  IF converted.code # "" THEN NotProposed ELSE CandidateBuilder(converted.raw)

\* Why the checker is not asked, or "": the bounds of the input to Wasm come last,
\* reapplied to what is proposed.
Unasked(req, converted, proposal) ==
  IF Unable(req) # "" THEN Unable(req)
  ELSE IF converted.code # "" THEN converted.code
  ELSE IF proposal.status # "proposed" THEN "candidate-rejected"
  ELSE Excess(proposal.tree)

\* Seeded bug: what is delivered is what was proposed.
Bug_ProposedTree(v) == v.asked

\* The reply to a verdict: only an acceptance carries a tree, and it is Lean's.
AuthorityTree(v) == v.answer.tree
Delivered(v, trapped) ==
  IF trapped THEN Refuse("checker-poisoned")
  ELSE IF v.status = "rejected" THEN Refuse("lean-rejected")
  ELSE IF v.status # "accepted" THEN Refuse("lean-error")
  ELSE IF ~IsTreeShaped(AuthorityTree(v)) THEN Refuse("authority-tree-malformed")
  ELSE [status |-> "accepted", code |-> "", tree |-> AuthorityTree(v)]

AsksLean(req, proposal, said) ==
  \E x \in said :
    /\ Check(req.id, proposal.tree, Says(x))
    /\ reply' = Delivered(verdict', poisoned')

\* preprocess(req), once the document is converted and a proposal made of it, when
\* Lean may say any of said.
Decide(req, converted, proposal, said) ==
  LET refused == Unasked(req, converted, proposal)
  IN /\ request' = req /\ pre' = converted /\ candidate' = proposal
     /\ IF refused # "" THEN reply' = Refuse(refused) /\ UNCHANGED checkerVars
        ELSE AsksLean(req, proposal, said)

-----------------------------------------------------------------------------
\* Only the authority's own tree is ever delivered, of the verdict on this
\* request's own proposal: never the proposal, nor the answer to an earlier one.
OnlyLeanAccepts ==
  reply.status = "accepted" =>
    /\ verdict.status = "accepted" /\ verdict.id = request.id
    /\ verdict.asked = candidate.tree
    /\ reply.tree = verdict.answer.tree
=============================================================================
