--------------------------- MODULE MCPolicyClient ---------------------------
\* Instances of PolicyClient's open specification for TLC: how much of what an
\* arbitrary Worker may say each run lets it say.
EXTENDS PolicyClient

\* Everything a Worker can say under its own identity, and one stranger.
AnyMessage ==
  StartupMessages
  \cup {m \in Replies : m.session # NoSession}
  \cup {Reply("result", NoSession, 1, 0, "rendered", TRUE, "matches", FALSE)}

\* One reply for each way a reply can end a request or the session: enough
\* when the question is which requests settle, not what they settle as.
Honest(m) ==
  /\ m.token = (IF m.status \in {"rendered", "accepted"} THEN "matches" ELSE "malformed")
  /\ m.lean = (m.status \in {"rendered", "accepted"})
  /\ m.tree = (m.status = "accepted")

FewReplies ==
  {m \in Replies :
     /\ Honest(m)
     /\ m.session # NoSession
     /\ m.kind = "result"
     /\ m.status \in {"rendered", "accepted", "checker-poisoned"}}

FewMessages ==
  FewReplies \cup {Ready, Failed, CheckerReady(TRUE)}
             \cup {FrameAttached(s) : s \in Sessions}
=============================================================================
