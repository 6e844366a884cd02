----------------------------- MODULE LeanChecker -----------------------------
\* The binding of the Lean checker (lean-checker.js, lean-abi.js) over the C
\* shim of its Wasm module (lean/wasm/shim.c): one instance, sealed once, one
\* bounded call at a time, at most one response installed.
\*
\* The Lean program is trusted nowhere: its answer to a call is any of a set,
\* and a call may trap before or after the shim has released the last response.
EXTENDS Naturals, FiniteSets

CONSTANTS
  Configs,      \* configurations an instance may be offered
  OwnConfig,    \* the one this build seals
  NoConfig,
  LongConfigs,  \* those above GUARD_MAX_CONFIG_BYTES
  NoTree        \* no tree, or one that is not tree-shaped

ASSUME ConfigsAssumption ==
  /\ OwnConfig \in Configs /\ NoConfig \notin Configs
  /\ LongConfigs \subseteq Configs \ {OwnConfig}

VARIABLES
  phase,        \* how far createLeanChecker has come
  sealed,       \* config_buffer, once configured
  response,     \* the installed response
  inCall,       \* in_call
  poisoned,
  calls,        \* calls that entered the module
  verdict       \* what the last check() returned

shimVars == <<sealed, response, inCall>>
checkerVars == <<phase, sealed, response, inCall, poisoned, calls, verdict>>

None == [op |-> "none", id |-> 0, status |-> "", tree |-> NoTree, from |-> 0, config |-> NoConfig]

\* What Lean answers a call: a status, the id it echoes, a tree or NoTree.  `from' and
\* `config' say which call it was and under which seal; the code has neither.
Answer(op, id, status, tree) ==
  [op |-> op, id |-> id, status |-> status, tree |-> tree, from |-> calls + 1, config |-> sealed]

\* `call' is the number of the call a verdict answers, 0 if it entered none.
NoVerdict ==
  [status |-> "none", code |-> "", id |-> 0, asked |-> NoTree, answer |-> None, call |-> 0]

CheckerInit ==
  /\ phase = "created"
  /\ sealed = NoConfig /\ response = None /\ inCall = FALSE
  /\ poisoned = FALSE /\ calls = 0
  /\ verdict = NoVerdict

\* An instance as createLeanChecker hands it out.
CheckerReady ==
  /\ phase = "ready"
  /\ sealed = OwnConfig /\ response = None /\ inCall = FALSE
  /\ poisoned = FALSE /\ calls = 2
  /\ verdict = NoVerdict

-----------------------------------------------------------------------------
(***************************************************************************
 shim.c: the ways one exported call can end, as the new values of its
 variables.  rc is the status returned, "trap" when none is.
 ***************************************************************************)
Shim(rc, installed, busy, seal) ==
  [rc |-> rc, response |-> installed, inCall |-> busy, sealed |-> seal]
Unchanged(rc) == Shim(rc, response, inCall, sealed)

\* install_response releases what is installed, then refuses or installs.
InstallEnds(answer, rc, seal) ==
  {Shim(rc, answer, FALSE, seal), Shim("not-installed", None, FALSE, sealed)}

\* A trap leaves in_call as it was set.
Traps == {Shim("trap", response, TRUE, sealed), Shim("trap", None, TRUE, sealed)}

\* guard_info and guard_check, past their guards.
RunsLean(answer) == InstallEnds(answer, "ok", sealed) \cup Traps

GuardCheck(answer) ==
  CASE inCall -> {Unchanged("busy")}
    [] ~inCall /\ sealed = NoConfig -> {Unchanged("not-configured")}
    [] OTHER -> RunsLean(answer)

GuardInfo(answer) == IF inCall THEN {Unchanged("busy")} ELSE RunsLean(answer)

\* What the bytes of a second configuration meet once one is sealed.
SealRefuses(config) == sealed \notin {NoConfig, config}

\* A response that is not `configured' stays installed when it is refused.
GuardConfigure(config, answer) ==
  CASE inCall -> {Unchanged("busy")}
    [] ~inCall /\ config \in LongConfigs -> {Unchanged("length")}
    [] ~inCall /\ config \notin LongConfigs /\ SealRefuses(config) -> {Unchanged("sealed")}
    [] OTHER ->
         Traps \cup
         IF answer.status = "configured" THEN InstallEnds(answer, "ok", config)
         ELSE InstallEnds(answer, "config-refused", sealed)

-----------------------------------------------------------------------------
(***************************************************************************
 invoke(): how a call that ended in one of those ways is read.  A trap, and a
 response that is no UTF-8, poison the instance; a response is released once
 it is read, and is not read at all unless the status is 0.
 ***************************************************************************)
Poisons(rc) == rc = "trap"

Read(code, text, end, installed, poison) ==
  [code |-> code, text |-> text, response |-> installed,
   inCall |-> end.inCall, sealed |-> end.sealed, poisoned |-> poison]

\* Whether the status lets the response be read.
Readable(rc) == rc = "ok"

Reads(end) ==
  CASE Poisons(end.rc) -> {Read("poisoned", None, end, end.response, TRUE)}
    [] ~Poisons(end.rc) /\ Readable(end.rc) ->
         {Read("", end.response, end, None, FALSE),
          Read("length-invalid", None, end, None, FALSE),
          Read("poisoned", None, end, end.response, TRUE)}
    [] OTHER -> {Read(end.rc, None, end, end.response, FALSE)}

Invoke(ends) == UNION {Reads(e) : e \in ends}

\* Seeded bug: a trapped instance is used again.
Bug_EnterPoisoned == TRUE

\* invoke() on a poisoned instance, or a request above the input capacity,
\* enters nothing.
Enters == ~poisoned

Took(o) ==
  /\ response' = o.response /\ inCall' = o.inCall /\ sealed' = o.sealed
  /\ poisoned' = o.poisoned
  /\ calls' = calls + 1

-----------------------------------------------------------------------------
(***************************************************************************
 createLeanChecker: init, info, configure.  Any failure throws: the instance
 is never handed out.
 ***************************************************************************)
RuntimeInit ==
  /\ phase = "created"
  /\ phase' \in {"initialised", "failed"}
  /\ UNCHANGED <<shimVars, poisoned, calls, verdict>>

\* parseResponse and readInfoResponse: the operation, an empty id, identity and
\* limits of this build (status `info' or `configured' stands for them all).
InfoOk(o, op, status) == o.code = "" /\ o.text.op = op /\ o.text.id = 0 /\ o.text.status = status

ReadsInfo(answer) ==
  /\ phase = "initialised"
  /\ \E o \in Invoke(GuardInfo(answer)) :
       /\ Took(o)
       /\ phase' = IF InfoOk(o, "info", "info") THEN "informed" ELSE "failed"
  /\ UNCHANGED verdict

Seals(answer) ==
  /\ phase = "informed"
  /\ \E o \in Invoke(GuardConfigure(OwnConfig, answer)) :
       /\ Took(o)
       /\ phase' = IF InfoOk(o, "configure", "configured") /\ o.sealed # NoConfig
                   THEN "ready" ELSE "failed"
  /\ UNCHANGED verdict

-----------------------------------------------------------------------------
(***************************************************************************
 The instance handed out: check, tryReconfigure, dispose.
 ***************************************************************************)
\* Seeded bug: the request id of a response is not compared.
Bug_MatchesOp(text, id) == text.op = "check"

\* readCheckResponse: an acceptance has a tree, a rejection has none, and
\* everything else is an error.
Matches(text, id) == text.op = "check" /\ text.id = id
CheckStatus(o, id) ==
  CASE o.code # "" -> "error"
    [] o.code = "" /\ ~Matches(o.text, id) -> "error"
    [] o.code = "" /\ Matches(o.text, id) /\ o.text.status = "accepted" /\ o.text.tree # NoTree -> "accepted"
    [] o.code = "" /\ Matches(o.text, id) /\ o.text.status = "rejected" /\ o.text.tree = NoTree -> "rejected"
    [] OTHER -> "error"

Verdict(o, id, tree) ==
  [status |-> CheckStatus(o, id), code |-> o.code, id |-> id, asked |-> tree,
   answer |-> o.text, call |-> calls + 1]

\* check(id, tree): refused outright once poisoned.
Check(id, tree, answer) ==
  /\ phase = "ready"
  /\ IF Enters
     THEN \E o \in Invoke(GuardCheck(answer)) : Took(o) /\ verdict' = Verdict(o, id, tree)
     ELSE /\ verdict' = [NoVerdict EXCEPT !.status = "error", !.code = "poisoned",
                                          !.id = id, !.asked = tree]
          /\ UNCHANGED <<shimVars, poisoned, calls>>
  /\ UNCHANGED phase

TryReconfigure(config, answer) ==
  /\ phase = "ready" /\ Enters
  /\ \E o \in Invoke(GuardConfigure(config, answer)) : Took(o)
  /\ UNCHANGED <<phase, verdict>>

Dispose ==
  /\ phase = "ready" /\ response # None
  /\ response' = None
  /\ UNCHANGED <<phase, sealed, inCall, poisoned, calls, verdict>>

-----------------------------------------------------------------------------
(***************************************************************************
 The instance by itself, over whatever Lean answers: each of said is an
 operation, a request id, a status and a tree.
 ***************************************************************************)
Says(x) == Answer(x.op, x.id, x.status, x.tree)

Startup(said) == RuntimeInit \/ \E x \in said : ReadsInfo(Says(x)) \/ Seals(Says(x))

CheckerNext(said, ids, trees) ==
  \/ Startup(said)
  \/ \E id \in ids, tree \in trees, x \in said : Check(id, tree, Says(x))
  \/ \E config \in Configs, x \in said : TryReconfigure(config, Says(x))
  \/ Dispose

-----------------------------------------------------------------------------
\* A verdict that decides anything was read from the response of the very call
\* it answers, for the request that asked, under this build's configuration:
\* never a response left behind by a refused, failed or trapped call.
VerdictIsThisCalls ==
  verdict.status \in {"accepted", "rejected"} =>
    /\ verdict.answer.op = "check"
    /\ verdict.answer.id = verdict.id
    /\ verdict.answer.config = OwnConfig
    /\ verdict.answer.from = verdict.call

\* A trapped instance is never entered again, whatever is asked of it: the flag
\* its call left behind meets no later call, and check() reports errors only.  The
\* configuration an instance is handed out with is this build's, for good.
TrapIsFinal ==
  [][/\ poisoned => /\ poisoned' /\ calls' = calls
                    /\ verdict' # verdict => verdict'.status = "error"
     /\ inCall' => poisoned'
     /\ sealed # NoConfig => sealed' = sealed
     /\ phase' = "ready" => sealed' = OwnConfig]_checkerVars
=============================================================================
