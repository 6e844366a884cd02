--------------------------- MODULE MCSandboxFrame ---------------------------
\* The frame against a host that attaches a port whenever it likes and senders
\* that post any command on their port: in order, replayed, reordered or of
\* another instance.
EXTENDS SandboxFrame

CONSTANTS
  MaxSent,   \* bound: commands posted on one port
  MaxSeq     \* bound: sequence numbers a sender uses

ASSUME SenderAssumption == MaxSeq \in Nat

VARIABLES
  sent,      \* per port: what was posted on it
  attached   \* the newest port handed to attachPort()

mcVars == <<frameVars, sent, attached>>

MCInit ==
  /\ FrameInit
  /\ sent = [s \in Sessions |-> <<>>]
  /\ attached = NoSession

HostAttaches ==
  /\ attached < MaxSessions
  /\ attached' = attached + 1
  /\ HostAttachesPort(attached + 1)
  /\ UNCHANGED sent

SenderPosts ==
  /\ \E s \in 1..attached, n \in 0..MaxSeq, r \in Requests, g \in Generations :
       /\ Len(sent[s]) < MaxSent
       /\ sent' = [sent EXCEPT ![s] = Append(@, Command(n, r, g))]
  /\ UNCHANGED <<frameVars, attached>>

FrameTakes ==
  /\ \E s \in Sessions : FrameReceives(s, sent[s])
  /\ UNCHANGED <<sent, attached>>

MCNext ==
  \/ HostFrameNext /\ UNCHANGED <<sent, attached>>
  \/ FrameScriptNext /\ UNCHANGED <<sent, attached>>
  \/ FrameDestroy /\ UNCHANGED <<sent, attached>>
  \/ HostAttaches
  \/ SenderPosts
  \/ FrameTakes

MCSpec == MCInit /\ [][MCNext]_mcVars
FairMCSpec == MCSpec /\ FrameFairness
=============================================================================
