-------------------------- MODULE LeanCheckerProofs --------------------------
\* What the binding of the Lean checker promises for every configuration, every
\* caller of check() and every answer of the Lean program; and what preprocess()
\* makes of its verdicts, for every document, conversion and candidate builder.
EXTENDS PolicyDecision, TLAPS

CONSTANTS
  Said,    \* what Lean may say
  Ids,     \* ids check() may be asked under
  Trees,   \* trees it may be asked about
  Asked    \* requests preprocess() may be given

CheckerSpec == CheckerInit /\ [][CheckerNext(Said, Ids, Trees)]_checkerVars

\* The strengthening.  An instance still starting has met no trap: the first one
\* ends createLeanChecker.  Only this build's configuration can be sealed, because
\* no other is offered before the instance is handed out, and none is accepted
\* after.
CheckerInv ==
  /\ phase \in {"created", "initialised", "informed", "ready", "failed"}
  /\ phase \in {"created", "initialised", "informed"} => poisoned = FALSE
  /\ poisoned \in {TRUE, FALSE} /\ inCall \in {TRUE, FALSE}
  /\ inCall = TRUE => poisoned = TRUE
  /\ sealed \in {NoConfig, OwnConfig}
  /\ phase = "ready" => sealed = OwnConfig
  /\ VerdictIsThisCalls

\* The step TrapIsFinal asks for.
TrapStep ==
  /\ poisoned => /\ poisoned' /\ calls' = calls
                 /\ verdict' # verdict => verdict'.status = "error"
  /\ inCall' => poisoned'
  /\ sealed # NoConfig => sealed' = sealed
  /\ phase' = "ready" => sealed' = OwnConfig

-----------------------------------------------------------------------------
\* An outcome as invoke() reports it, of a call that was entered outside any
\* other: a flag left behind is a poisoned instance, and a text that is read is
\* the answer to this very call.
Sound(o, answer, config) ==
  /\ (o.poisoned = TRUE /\ o.code = "poisoned") \/ o.poisoned = FALSE
  /\ (o.inCall = TRUE /\ o.poisoned = TRUE) \/ o.inCall = FALSE
  /\ o.sealed \in {sealed, config}
  /\ o.code = "" => o.poisoned = FALSE /\ o.text = answer

ShimCodes ==
  {"ok", "trap", "not-installed", "config-refused", "not-configured", "length", "sealed"}

LEMMA CodesAreNoText == \A rc \in ShimCodes : rc # ""
BY Zenon DEF ShimCodes

\* A way a call that answers `answer' may leave the shim.
ShimEnd(e, answer, config) ==
  /\ (e.inCall = TRUE /\ e.rc = "trap") \/ e.inCall = FALSE
  /\ e.sealed \in {sealed, config}
  /\ e.rc = "ok" => e.response = answer
  /\ e.rc \in ShimCodes

\* How the shim leaves its variables, whether Lean ran or was not asked.
LEMMA ShimEnds ==
  ASSUME inCall = FALSE, NEW answer, NEW seal
  PROVE  /\ \A e \in InstallEnds(answer, "ok", seal) : ShimEnd(e, answer, seal)
         /\ \A e \in InstallEnds(answer, "config-refused", sealed) : ShimEnd(e, answer, seal)
         /\ \A e \in Traps : ShimEnd(e, answer, seal)
         /\ \A rc \in {"not-configured", "length", "sealed"} :
              ShimEnd(Unchanged(rc), answer, seal)
<1>1. \A e \in InstallEnds(answer, "ok", seal) : ShimEnd(e, answer, seal)
  BY DEF InstallEnds, Shim, ShimEnd, ShimCodes
<1>2. \A e \in InstallEnds(answer, "config-refused", sealed) : ShimEnd(e, answer, seal)
  BY DEF InstallEnds, Shim, ShimEnd, ShimCodes
<1>3. \A e \in Traps : ShimEnd(e, answer, seal)
  BY DEF Traps, Shim, ShimEnd, ShimCodes
<1>4. ASSUME NEW rc \in {"not-configured", "length", "sealed"}
      PROVE  ShimEnd(Unchanged(rc), answer, seal)
  BY DEF Unchanged, Shim, ShimEnd, ShimCodes
<1> QED
  BY <1>1, <1>2, <1>3, <1>4

\* invoke() over any such end.
LEMMA InvokeSound ==
  ASSUME NEW answer, NEW seal, NEW ends,
         \A e \in ends : ShimEnd(e, answer, seal),
         NEW o \in Invoke(ends)
  PROVE  Sound(o, answer, seal)
<1>1. PICK e \in ends : o \in Reads(e)
  BY DEF Invoke
<1>0. ShimEnd(e, answer, seal)
  OBVIOUS
<1>2. CASE e.rc = "trap"
  <2>1. o = Read("poisoned", None, e, e.response, TRUE)
    BY <1>1, <1>2 DEF Reads, Poisons
  <2>2. "poisoned" # ""
    BY Zenon
  <2> QED
    BY <2>1, <2>2, <1>0 DEF Read, Sound, ShimEnd
<1>3. CASE e.rc = "ok"
  <2>1. \/ o = Read("", e.response, e, None, FALSE)
        \/ o = Read("length-invalid", None, e, None, FALSE)
        \/ o = Read("poisoned", None, e, e.response, TRUE)
    BY <1>1, <1>3 DEF Reads, Poisons, Readable
  <2>2. e.inCall = FALSE /\ e.response = answer
    BY <1>0, <1>3 DEF ShimEnd
  <2>3. "length-invalid" # "" /\ "poisoned" # ""
    BY Zenon
  <2>4. CASE o = Read("", e.response, e, None, FALSE)
    BY <2>4, <2>2, <1>0 DEF Read, Sound, ShimEnd
  <2>5. CASE o = Read("length-invalid", None, e, None, FALSE)
    BY <2>5, <2>2, <2>3, <1>0 DEF Read, Sound, ShimEnd
  <2>6. CASE o = Read("poisoned", None, e, e.response, TRUE)
    BY <2>6, <2>2, <2>3, <1>0 DEF Read, Sound, ShimEnd
  <2> QED
    BY <2>1, <2>4, <2>5, <2>6
<1>4. CASE e.rc # "trap" /\ e.rc # "ok"
  <2>1. o = Read(e.rc, None, e, e.response, FALSE)
    BY <1>1, <1>4 DEF Reads, Poisons, Readable
  <2>2. e.rc # ""
    BY <1>0, CodesAreNoText DEF ShimEnd
  <2> QED
    BY <2>1, <2>2, <1>0, <1>4 DEF Read, Sound, ShimEnd
<1> QED
  BY <1>2, <1>3, <1>4

\* The three exports, called outside any other call.
LEMMA InfoSound ==
  ASSUME inCall = FALSE, NEW answer, NEW o \in Invoke(GuardInfo(answer))
  PROVE  Sound(o, answer, sealed)
<1>1. GuardInfo(answer) = InstallEnds(answer, "ok", sealed) \cup Traps
  BY DEF GuardInfo, RunsLean
<1>2. \A e \in GuardInfo(answer) : ShimEnd(e, answer, sealed)
  BY <1>1, ShimEnds
<1> QED
  BY <1>2, InvokeSound

LEMMA CheckSound ==
  ASSUME inCall = FALSE, NEW answer, NEW o \in Invoke(GuardCheck(answer))
  PROVE  Sound(o, answer, sealed)
<1>1. \A e \in GuardCheck(answer) :
        \/ e \in InstallEnds(answer, "ok", sealed)
        \/ e \in Traps
        \/ e = Unchanged("not-configured")
  BY DEF GuardCheck, RunsLean
<1>2. \A e \in GuardCheck(answer) : ShimEnd(e, answer, sealed)
  BY <1>1, ShimEnds
<1> QED
  BY <1>2, InvokeSound

LEMMA ConfigureSound ==
  ASSUME inCall = FALSE, NEW config, NEW answer, NEW o \in Invoke(GuardConfigure(config, answer))
  PROVE  /\ Sound(o, answer, config)
         /\ SealRefuses(config) => o.sealed = sealed
<1>1. \A e \in GuardConfigure(config, answer) :
        \/ e \in InstallEnds(answer, "ok", config)
        \/ e \in Traps
        \/ e \in InstallEnds(answer, "config-refused", sealed)
        \/ e = Unchanged("length")
        \/ e = Unchanged("sealed")
  BY DEF GuardConfigure
<1>2. Sound(o, answer, config)
  <2>1. \A e \in GuardConfigure(config, answer) : ShimEnd(e, answer, config)
    BY <1>1, ShimEnds
  <2> QED
    BY <2>1, InvokeSound
<1>3. ASSUME SealRefuses(config)
      PROVE  o.sealed = sealed
  <2>1. \A e \in GuardConfigure(config, answer) : e = Unchanged("length") \/ e = Unchanged("sealed")
    BY <1>3 DEF GuardConfigure
  <2>2. \A e \in GuardConfigure(config, answer) : ShimEnd(e, answer, sealed)
    BY <2>1, ShimEnds
  <2>3. Sound(o, answer, sealed)
    BY <2>2, InvokeSound
  <2> QED
    BY <2>3 DEF Sound
<1> QED
  BY <1>2, <1>3

-----------------------------------------------------------------------------
\* What the three kinds of call do to an instance no trap has hit.
LEMMA StartupStep ==
  ASSUME CheckerInv, Startup(Said)
  PROVE  CheckerInv' /\ TrapStep
<1> USE ConfigsAssumption
<1>1. CASE RuntimeInit
  BY <1>1 DEF RuntimeInit, shimVars, CheckerInv, VerdictIsThisCalls, TrapStep
<1>2. ASSUME NEW x \in Said, ReadsInfo(Says(x))
      PROVE  CheckerInv' /\ TrapStep
  <2>1. phase = "initialised" /\ inCall = FALSE /\ poisoned = FALSE
    BY <1>2 DEF ReadsInfo, CheckerInv
  <2>2. PICK o \in Invoke(GuardInfo(Says(x))) :
          /\ Took(o)
          /\ phase' = IF InfoOk(o, "info", "info") THEN "informed" ELSE "failed"
    BY <1>2 DEF ReadsInfo
  <2>3. Sound(o, Says(x), sealed)
    BY <2>1, InfoSound
  <2>4. InfoOk(o, "info", "info") => o.poisoned = FALSE
    BY <2>3 DEF InfoOk, Sound
  <2>5. verdict' = verdict
    BY <1>2 DEF ReadsInfo
  <2>6. /\ poisoned' = o.poisoned /\ inCall' = o.inCall /\ sealed' = sealed
    BY <2>2, <2>3 DEF Took, Sound
  <2> QED
    BY <2>1, <2>2, <2>3, <2>4, <2>5, <2>6
    DEF CheckerInv, VerdictIsThisCalls, TrapStep, Sound
<1>3. ASSUME NEW x \in Said, Seals(Says(x))
      PROVE  CheckerInv' /\ TrapStep
  <2>1. phase = "informed" /\ inCall = FALSE /\ poisoned = FALSE
    BY <1>3 DEF Seals, CheckerInv
  <2>2. PICK o \in Invoke(GuardConfigure(OwnConfig, Says(x))) :
          /\ Took(o)
          /\ phase' = IF InfoOk(o, "configure", "configured") /\ o.sealed # NoConfig
                      THEN "ready" ELSE "failed"
    BY <1>3 DEF Seals
  <2>3. Sound(o, Says(x), OwnConfig)
    BY <2>1, ConfigureSound
  <2>4. sealed' \in {NoConfig, OwnConfig} /\ (sealed # NoConfig => sealed' = sealed)
    BY <2>2, <2>3 DEF Took, Sound, CheckerInv
  <2>5. verdict' = verdict
    BY <1>3 DEF Seals
  <2>6. poisoned' = o.poisoned /\ inCall' = o.inCall /\ sealed' = o.sealed
    BY <2>2 DEF Took
  <2> QED
    BY <2>1, <2>2, <2>3, <2>4, <2>5, <2>6
    DEF CheckerInv, VerdictIsThisCalls, TrapStep, Sound
<1> QED
  BY <1>1, <1>2, <1>3 DEF Startup

LEMMA CheckStep ==
  ASSUME CheckerInv, NEW id, NEW tree, NEW x \in Said, Check(id, tree, Says(x))
  PROVE  CheckerInv' /\ TrapStep
<1> USE ConfigsAssumption
<1>1. phase = "ready" /\ phase' = phase /\ sealed = OwnConfig
  BY DEF Check, CheckerInv
<1>2. CASE poisoned = TRUE
  <2>1. /\ UNCHANGED <<shimVars, poisoned, calls>>
        /\ verdict' = [NoVerdict EXCEPT !.status = "error", !.code = "poisoned",
                                        !.id = id, !.asked = tree]
    BY <1>2 DEF Check, Enters
  <2>2. verdict'.status = "error"
    BY <2>1 DEF NoVerdict
  <2> QED
    BY <1>1, <1>2, <2>1, <2>2 DEF shimVars, CheckerInv, VerdictIsThisCalls, TrapStep
<1>3. CASE poisoned = FALSE
  <2>1. inCall = FALSE
    BY <1>3 DEF CheckerInv
  <2>2. PICK o \in Invoke(GuardCheck(Says(x))) : Took(o) /\ verdict' = Verdict(o, id, tree)
    BY <1>3 DEF Check, Enters
  <2>3. Sound(o, Says(x), sealed)
    BY <2>1, CheckSound
  <2>4. poisoned' = o.poisoned /\ inCall' = o.inCall /\ sealed' = sealed
    BY <2>2, <2>3 DEF Took, Sound
  <2>5. VerdictIsThisCalls'
    <3>1. /\ verdict'.status = CheckStatus(o, id) /\ verdict'.answer = o.text
          /\ verdict'.id = id /\ verdict'.call = calls + 1
      BY <2>2 DEF Verdict
    <3>2. ASSUME CheckStatus(o, id) \in {"accepted", "rejected"}
          PROVE  o.code = "" /\ Matches(o.text, id)
      <4>1. ASSUME ~(o.code = "" /\ Matches(o.text, id))
            PROVE  CheckStatus(o, id) = "error"
        <5>1. CASE o.code # ""
          BY <5>1 DEF CheckStatus
        <5>2. CASE o.code = ""
          BY <4>1, <5>2 DEF CheckStatus
        <5> QED
          BY <5>1, <5>2
      <4> QED
        BY <3>2, <4>1
    <3>3. ASSUME o.code = ""
          PROVE  o.text.from = calls + 1 /\ o.text.config = OwnConfig
      <4>1. o.text = Says(x)
        BY <3>3, <2>3 DEF Sound
      <4> QED
        BY <4>1, <1>1 DEF Says, Answer
    <3> QED
      BY <3>1, <3>2, <3>3 DEF VerdictIsThisCalls, Matches
  <2> QED
    BY <1>1, <1>3, <2>3, <2>4, <2>5 DEF CheckerInv, TrapStep, Sound
<1> QED
  BY <1>2, <1>3 DEF CheckerInv

LEMMA ReconfigureStep ==
  ASSUME CheckerInv, NEW config \in Configs, NEW x \in Said,
         TryReconfigure(config, Says(x))
  PROVE  CheckerInv' /\ TrapStep
<1>1. /\ phase = "ready" /\ phase' = phase /\ verdict' = verdict
      /\ poisoned = FALSE /\ inCall = FALSE /\ sealed = OwnConfig
  BY DEF TryReconfigure, Enters, CheckerInv
<1>2. PICK o \in Invoke(GuardConfigure(config, Says(x))) : Took(o)
  BY DEF TryReconfigure
<1>3. Sound(o, Says(x), config) /\ (SealRefuses(config) => o.sealed = sealed)
  BY <1>1, ConfigureSound
<1>4. o.sealed = OwnConfig
  BY <1>1, <1>3, ConfigsAssumption DEF Sound, SealRefuses
<1>5. poisoned' = o.poisoned /\ inCall' = o.inCall /\ sealed' = o.sealed
  BY <1>2 DEF Took
<1> QED
  BY <1>1, <1>3, <1>4, <1>5 DEF CheckerInv, VerdictIsThisCalls, TrapStep, Sound

\* One step per action.
LEMMA CheckerStep ==
  ASSUME CheckerInv, [CheckerNext(Said, Ids, Trees)]_checkerVars
  PROVE  CheckerInv' /\ [TrapStep]_checkerVars
<1>1. CASE Startup(Said)
  BY <1>1, StartupStep
<1>2. ASSUME NEW id \in Ids, NEW tree \in Trees, NEW x \in Said, Check(id, tree, Says(x))
      PROVE  CheckerInv' /\ TrapStep
  BY <1>2, CheckStep
<1>3. ASSUME NEW config \in Configs, NEW x \in Said, TryReconfigure(config, Says(x))
      PROVE  CheckerInv' /\ TrapStep
  BY <1>3, ReconfigureStep
<1>4. CASE Dispose
  BY <1>4 DEF Dispose, CheckerInv, VerdictIsThisCalls, TrapStep
<1>5. CASE UNCHANGED checkerVars
  BY <1>5 DEF checkerVars, CheckerInv, VerdictIsThisCalls
<1> QED
  BY <1>1, <1>2, <1>3, <1>4, <1>5 DEF CheckerNext

LEMMA CheckerInvInit == CheckerInit => CheckerInv
<1> SUFFICES ASSUME CheckerInit PROVE CheckerInv
  OBVIOUS
<1>1. VerdictIsThisCalls
  <2>1. verdict.status = "none"
    BY DEF CheckerInit, NoVerdict
  <2> QED
    BY <2>1 DEF VerdictIsThisCalls
<1> QED
  BY <1>1 DEF CheckerInit, CheckerInv

-----------------------------------------------------------------------------
\* A verdict that decides anything was read from the response of the very call
\* it answers: whatever a refused, failed or trapped call left installed is never
\* taken for it (check, readCheckResponse).
THEOREM VerdictIsThisCallsHolds == CheckerSpec => []VerdictIsThisCalls
<1>1. CheckerInv => VerdictIsThisCalls
  BY DEF CheckerInv
<1>2. CheckerInv /\ [CheckerNext(Said, Ids, Trees)]_checkerVars => CheckerInv'
  BY CheckerStep
<1> QED
  BY <1>1, <1>2, CheckerInvInit, PTL DEF CheckerSpec

\* A trapped instance is never entered again, and no configuration replaces this
\* build's (invoke, guard_configure).
THEOREM TrapIsFinalHolds == CheckerSpec => TrapIsFinal
<1>1. CheckerInv /\ [CheckerNext(Said, Ids, Trees)]_checkerVars
        => CheckerInv' /\ [TrapStep]_checkerVars
  BY CheckerStep
<1>2. CheckerSpec => [][TrapStep]_checkerVars
  BY <1>1, CheckerInvInit, PTL DEF CheckerSpec
<1> QED
  BY <1>2 DEF TrapIsFinal, TrapStep

-----------------------------------------------------------------------------
(***************************************************************************
 preprocess() over the checker: one instance, from its startup or as it was
 handed out, any requests, and other configurations offered in between.
 ***************************************************************************)
DecisionInit == (CheckerInit \/ CheckerReady) /\ CoreInit

Preprocesses(req) ==
  Decide(req, Converted(req), Proposal(Converted(req)), Said)

OtherCalls ==
  /\ \/ Startup(Said)
     \/ \E config \in Configs, x \in Said : TryReconfigure(config, Says(x))
     \/ Dispose
  /\ UNCHANGED requestVars

DecisionNext == OtherCalls \/ \E req \in Asked : Preprocesses(req)
DecisionSpec == DecisionInit /\ [][DecisionNext]_coreVars

\* Only preprocess() asks for a verdict, so the one at hand is the one its reply
\* was made of.
DecisionInv == CheckerInv /\ OnlyLeanAccepts

\* A reply made while the instance is poisoned, by an earlier call or by this one,
\* says so, or that no checker was handed out.
PoisonRefuses ==
  [][poisoned' /\ reply' # reply =>
       \E code \in {"checker-poisoned", "checker-unavailable"} : reply' = Refuse(code)]_coreVars

\* The whole of an acceptance: Lean said so, in the very call preprocess() made
\* for this request, of this request's proposal and under this build's
\* configuration, and what is delivered is the tree it said it with.
AcceptedByThisCall ==
  reply.status = "accepted" =>
    /\ verdict.asked = candidate.tree
    /\ verdict.answer.op = "check" /\ verdict.answer.id = request.id
    /\ verdict.answer.from = verdict.call
    /\ verdict.answer.config = OwnConfig
    /\ reply.tree = verdict.answer.tree

PoisonStep ==
  poisoned' /\ reply' # reply =>
    \E code \in {"checker-poisoned", "checker-unavailable"} : reply' = Refuse(code)

-----------------------------------------------------------------------------
LEMMA Refusals ==
  ASSUME NEW code
  PROVE  Refuse(code).status = "rejected" /\ Refuse(code).status # "accepted"
BY DEF Refuse, NoReply

\* A verdict that is delivered is an acceptance of an instance that is not
\* poisoned, with the authority's tree.
LEMMA DeliveredIsAccepted ==
  ASSUME NEW v, NEW trapped \in BOOLEAN, Delivered(v, trapped).status = "accepted"
  PROVE  /\ trapped = FALSE
         /\ v.status = "accepted"
         /\ Delivered(v, trapped).tree = v.answer.tree
BY Refusals DEF Delivered, AuthorityTree

\* check() answers for what it was asked.
LEMMA CheckAnswers ==
  ASSUME NEW id, NEW tree, NEW answer, Check(id, tree, answer)
  PROVE  verdict'.id = id /\ verdict'.asked = tree
<1>1. CASE Enters
  BY <1>1 DEF Check, Verdict
<1>2. CASE ~Enters
  BY <1>2 DEF Check, NoVerdict
<1>3. QED
  BY <1>1, <1>2

LEMMA PreprocessStep ==
  ASSUME DecisionInv, NEW req \in Asked, Preprocesses(req)
  PROVE  DecisionInv' /\ PoisonStep
<1> DEFINE proposal == Proposal(Converted(req))
           refused == Unasked(req, Converted(req), proposal)
<1>1. request' = req /\ candidate' = proposal
  BY DEF Preprocesses, Decide
<1>2. CASE refused # ""
  <2>1. reply' = Refuse(refused) /\ UNCHANGED checkerVars
    BY <1>2 DEF Preprocesses, Decide
  <2>2. CheckerInv'
    BY <2>1 DEF checkerVars, shimVars, DecisionInv, CheckerInv, VerdictIsThisCalls
  <2>3. OnlyLeanAccepts'
    BY <2>1, Refusals DEF OnlyLeanAccepts
  <2>4. ASSUME poisoned'
        PROVE  refused \in {"checker-poisoned", "checker-unavailable"}
    <3>1. poisoned
      BY <2>1, <2>4 DEF checkerVars
    <3>2. Unable(req) \in {"checker-poisoned", "checker-unavailable"}
      BY <3>1 DEF Unable
    <3>3. Unable(req) # ""
      BY <3>1 DEF Unable
    <3>4. QED
      BY <3>2, <3>3 DEF Unasked
  <2>5. QED
    BY <2>1, <2>2, <2>3, <2>4 DEF DecisionInv, PoisonStep
<1>3. CASE refused = ""
  <2>1. PICK x \in Said : /\ Check(req.id, proposal.tree, Says(x))
                          /\ reply' = Delivered(verdict', poisoned')
    BY <1>3 DEF Preprocesses, Decide, AsksLean
  <2>2. CheckerInv'
    BY <2>1, CheckStep DEF DecisionInv
  <2>3. verdict'.id = req.id /\ verdict'.asked = proposal.tree
    BY <2>1, CheckAnswers
  <2>4. poisoned' \in BOOLEAN
    BY <2>2 DEF CheckerInv
  <2>5. OnlyLeanAccepts'
    BY <1>1, <2>1, <2>3, <2>4, DeliveredIsAccepted DEF OnlyLeanAccepts
  <2>6. poisoned' => reply' = Refuse("checker-poisoned")
    BY <2>1 DEF Delivered
  <2>7. QED
    BY <2>2, <2>5, <2>6 DEF DecisionInv, PoisonStep
<1>4. QED
  BY <1>2, <1>3

LEMMA OtherCallsStep ==
  ASSUME DecisionInv, OtherCalls
  PROVE  DecisionInv' /\ PoisonStep
<1>1. CheckerInv' /\ UNCHANGED verdict
  <2>1. CASE Startup(Said)
    BY <2>1, StartupStep DEF DecisionInv, Startup, RuntimeInit, ReadsInfo, Seals
  <2>2. ASSUME NEW config \in Configs, NEW x \in Said, TryReconfigure(config, Says(x))
        PROVE  CheckerInv' /\ UNCHANGED verdict
    BY <2>2, ReconfigureStep DEF DecisionInv, TryReconfigure
  <2>3. CASE Dispose
    BY <2>3 DEF Dispose, DecisionInv, CheckerInv, VerdictIsThisCalls
  <2>4. QED
    BY <2>1, <2>2, <2>3 DEF OtherCalls
<1>2. UNCHANGED requestVars
  BY DEF OtherCalls
<1>3. QED
  BY <1>1, <1>2 DEF requestVars, DecisionInv, OnlyLeanAccepts, PoisonStep

LEMMA DecisionStep ==
  ASSUME DecisionInv, [DecisionNext]_coreVars
  PROVE  DecisionInv' /\ [PoisonStep]_coreVars
<1>1. CASE OtherCalls
  BY <1>1, OtherCallsStep
<1>2. ASSUME NEW req \in Asked, Preprocesses(req)
      PROVE  DecisionInv' /\ PoisonStep
  BY <1>2, PreprocessStep
<1>3. CASE UNCHANGED coreVars
  BY <1>3 DEF coreVars, checkerVars, shimVars, requestVars, DecisionInv, CheckerInv,
     VerdictIsThisCalls, OnlyLeanAccepts
<1>4. QED
  BY <1>1, <1>2, <1>3 DEF DecisionNext

LEMMA DecisionInvInit == DecisionInit => DecisionInv
<1> SUFFICES ASSUME DecisionInit PROVE DecisionInv
  OBVIOUS
<1>1. CheckerInv
  <2>1. CASE CheckerInit
    BY <2>1, CheckerInvInit
  <2>2. CASE CheckerReady
    BY <2>2 DEF CheckerReady, NoVerdict, CheckerInv, VerdictIsThisCalls
  <2>3. QED
    BY <2>1, <2>2 DEF DecisionInit
<1>2. OnlyLeanAccepts
  BY DEF DecisionInit, CoreInit, NoReply, OnlyLeanAccepts
<1>3. QED
  BY <1>1, <1>2 DEF DecisionInv

\* Whatever converts the document, whatever proposes a tree and whatever Lean
\* answers, preprocess() delivers the authority's tree of the verdict on this
\* request's proposal, and nothing else (policy-core.js).
THEOREM OnlyLeanAcceptsHolds == DecisionSpec => []OnlyLeanAccepts
<1>1. DecisionInv => OnlyLeanAccepts
  BY DEF DecisionInv
<1>2. DecisionInv /\ [DecisionNext]_coreVars => DecisionInv'
  BY DecisionStep
<1>3. QED
  BY <1>1, <1>2, DecisionInvInit, PTL DEF DecisionSpec

\* An acceptance was said by Lean in the very call preprocess() made for this
\* request: not left behind by another, not of a trapped instance, not under a
\* configuration offered since (policy-core.js over lean-checker.js and shim.c).
THEOREM AcceptedByThisCallHolds == DecisionSpec => []AcceptedByThisCall
<1>1. DecisionInv => AcceptedByThisCall
  BY DEF DecisionInv, CheckerInv, OnlyLeanAccepts, VerdictIsThisCalls, AcceptedByThisCall
<1>2. DecisionInv /\ [DecisionNext]_coreVars => DecisionInv'
  BY DecisionStep
<1>3. QED
  BY <1>1, <1>2, DecisionInvInit, PTL DEF DecisionSpec

\* A poisoned instance decides nothing more, and the call that trapped decides
\* nothing either: the fact the policy Worker's dispatcher is modelled with
\* (Verdicts of PolicyDispatcher).
THEOREM PoisonRefusesHolds == DecisionSpec => PoisonRefuses
<1>1. DecisionInv /\ [DecisionNext]_coreVars => DecisionInv' /\ [PoisonStep]_coreVars
  BY DecisionStep
<1>2. DecisionSpec => [][PoisonStep]_coreVars
  BY <1>1, DecisionInvInit, PTL DEF DecisionSpec
<1>3. QED
  BY <1>2 DEF PoisonRefuses, PoisonStep
=============================================================================
