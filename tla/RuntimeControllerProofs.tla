----------------------- MODULE RuntimeControllerProofs -----------------------
(***************************************************************************
 Proofs about the program runtime with a Worker whose replies may be
 duplicated, malformed or stray (MCSpec of MCRuntimeController): for every
 number of steps, every maxQueue and every number of such replies.
 ***************************************************************************)
EXTENDS MCRuntimeController, SequenceTheorems, TLAPS

Outcomes == {"none", "open", "resolved", "rejected"}
RequestTypes == {"load", "init", "step"}
PostedRequests ==
  {m \in [id : 1..(nextId - 1), type : RequestTypes, step : Steps \cup {0},
          state : Seq(Steps)] : m.type = "step" => m.step # 0}
PostedAnswers == [id : 1..(nextId - 1), ok : {"ok", "error", "malformed"},
                  state : Seq(Steps)]

\* The steps are taken up in the order they were asked for: those that wait are
\* in that order and after the one in flight, those that were resolved came
\* before, and those not asked for come last.
StepsInOrder(waiting, results, flying) ==
  /\ \A s \in Steps : results[s] = "open" <=> s \in StepsOf(waiting) \cup {flying}
  /\ \A i, j \in DOMAIN waiting : i < j => waiting[i].step < waiting[j].step
  /\ \A i \in DOMAIN waiting : flying < waiting[i].step
  /\ \A s, t \in Steps : results[s] = "resolved" /\ results[t] = "open" => s < t
  /\ \A s, t \in Steps : results[s] = "none" /\ results[t] # "none" => t < s

\* Before the first view no step is accepted.
NoneAccepted(results) == \A s \in Steps : results[s] \in {"none", "rejected"}

\* The session starts once and ends once, and a request is in flight only in
\* between.
Lifecycle ==
  /\ worker => ~dead /\ generation = 1
  /\ dead => inFlight = Nothing /\ queue = <<>> /\ toWorker = <<>>
  /\ ~dead => generation <= 1
  /\ ~worker /\ ~dead => ~ready /\ generation = 0
  /\ inFlight # Nothing => worker /\ inFlight.generation = generation
  /\ inFlight.type = "step" => ready
  /\ ready => inFlight.type \in {"none", "step"}
  /\ ~ready => stateJson = <<>> /\ NoneAccepted(outcome)
  /\ pumpDue => ready

\* What the outstanding request commits.
Committed ==
  IF inFlight.type = "step" THEN Append(stateJson, inFlight.step) ELSE <<>>

\* The outstanding request carries the committed state, and its reply the state
\* that follows.
RepliesFollow ==
  /\ inFlight.type = "step" <=> inFlight.step \in Steps
  /\ \A i \in DOMAIN toWorker :
       toWorker[i].id = inFlight.id =>
         toWorker[i] = Request(inFlight.id, inFlight.type, inFlight.step, stateJson)
  /\ \A i \in DOMAIN fromWorker :
       fromWorker[i].id = inFlight.id /\ fromWorker[i].ok = "ok" =>
         fromWorker[i].state = Committed

RuntimeInv ==
  /\ RuntimeTypeOK
  /\ StepsInOrder(queue, outcome, inFlight.step)
  /\ Lifecycle
  /\ loadCall = "open" <=> inFlight.type \in {"load", "init"}
  /\ RepliesFollow
  /\ StateIsHistory
  /\ strays \in Nat

USE DEF Steps

-----------------------------------------------------------------------------
(***************************************************************************
 Queues of steps.
 ***************************************************************************)
\* The same steps were resolved.
SameResolved(before, after) ==
  \A s \in Steps : after[s] = "resolved" <=> before[s] = "resolved"

LEMMA StepsOfMember ==
  ASSUME NEW w, NEW s
  PROVE  s \in StepsOf(w) <=> \E i \in DOMAIN w : w[i].step = s
BY DEF StepsOf

LEMMA RejectingType ==
  ASSUME NEW S, NEW o \in [Steps -> Outcomes]
  PROVE  /\ Rejecting(S, o) \in [Steps -> Outcomes]
         /\ \A s \in Steps :
              Rejecting(S, o)[s] = IF s \in S THEN "rejected" ELSE o[s]
BY DEF Rejecting, Outcomes

\* The first n steps that wait are rejected.
LEMMA DropKeeps ==
  ASSUME NEW w \in Seq(Waiting), NEW o \in [Steps -> Outcomes],
         NEW f \in Steps \cup {0}, StepsInOrder(w, o, f), NEW n \in 0..Len(w)
  PROVE  LET rest == SubSeq(w, n + 1, Len(w))
             gone == StepsOf(SubSeq(w, 1, n))
         IN /\ rest \in Seq(Waiting)
            /\ Len(rest) = Len(w) - n
            /\ \A i \in 1..Len(rest) : rest[i] = w[n + i]
            /\ \A s \in Steps : s \in gone =>
                 o[s] = "open" /\ \E i \in 1..n : w[i].step = s
            /\ Rejecting(gone, o) \in [Steps -> Outcomes]
            /\ StepsInOrder(rest, Rejecting(gone, o), f)
            /\ SameResolved(o, Rejecting(gone, o))
<1> DEFINE rest == SubSeq(w, n + 1, Len(w))
           first == SubSeq(w, 1, n)
           gone == StepsOf(first)
           after == Rejecting(gone, o)
<1>1. /\ Len(w) \in Nat
      /\ DOMAIN w = 1..Len(w)
      /\ \A i \in 1..Len(w) : w[i] \in Waiting
  BY LenProperties, ElementOfSeq
<1>2. /\ rest \in Seq(Waiting)
      /\ Len(rest) = Len(w) - n
      /\ DOMAIN rest = 1..(Len(w) - n)
      /\ \A i \in 1..(Len(w) - n) : rest[i] = w[n + i]
  <2>1. \A i \in (n + 1)..Len(w) : w[i] \in Waiting
    BY <1>1
  <2>2. /\ rest \in Seq(Waiting)
        /\ Len(rest) = IF n + 1 <= Len(w) THEN Len(w) - (n + 1) + 1 ELSE 0
        /\ \A i \in 1..(Len(w) - (n + 1) + 1) : rest[i] = w[(n + 1) + i - 1]
    BY <1>1, <2>1, SubSeqProperties
  <2> HIDE DEF rest
  <2>3. \A i \in 1..(Len(w) - n) : (n + 1) + i - 1 = n + i
    OBVIOUS
  <2>4. Len(w) - (n + 1) + 1 = Len(w) - n
    BY <1>1
  <2>5. DOMAIN rest = 1..Len(rest)
    BY <2>2, LenProperties
  <2>6. Len(rest) = IF n + 1 <= Len(w) THEN Len(w) - (n + 1) + 1 ELSE 0
    BY <2>2
  <2>7. Len(w) \in Nat
    BY <1>1
  <2>8. Len(rest) = Len(w) - n
    BY <2>6, <2>7
  <2>9. \A i \in 1..(Len(w) - n) : rest[i] = w[n + i]
    BY <2>2, <2>3, <2>4
  <2>10. QED
    BY <2>2, <2>5, <2>8, <2>9
<1>3. /\ Len(first) = n
      /\ DOMAIN first = 1..n
      /\ \A i \in 1..n : first[i] = w[i]
  <2>1. \A i \in 1..n : w[i] \in Waiting
    BY <1>1
  <2>2. /\ first \in Seq(Waiting)
        /\ Len(first) = IF 1 <= n THEN n - 1 + 1 ELSE 0
        /\ \A i \in 1..(n - 1 + 1) : first[i] = w[1 + i - 1]
    BY <2>1, SubSeqProperties
  <2>3. Len(first) = n
    BY <2>2
  <2>4. DOMAIN first = 1..Len(first)
    BY <2>2, LenProperties
  <2>5. \A i \in 1..n : 1 + i - 1 = i
    OBVIOUS
  <2>6. n - 1 + 1 = n
    OBVIOUS
  <2>7. QED
    BY <2>2, <2>3, <2>4, <2>5, <2>6
<1>4. \A i \in 1..Len(w) : w[i].step \in Steps
  BY <1>1 DEF Waiting
<1>5. \A s : s \in gone <=> \E i \in 1..n : w[i].step = s
  BY <1>3 DEF StepsOf
<1>6. \A s : s \in StepsOf(rest) <=> \E i \in (n + 1)..Len(w) : w[i].step = s
  <2>1. \A s : s \in StepsOf(rest) <=>
                 \E i \in 1..(Len(w) - n) : w[n + i].step = s
    BY <1>2 DEF StepsOf
  <2>2. ASSUME NEW i \in (n + 1)..Len(w)
        PROVE  i - n \in 1..(Len(w) - n) /\ n + (i - n) = i
    BY <1>1
  <2>3. ASSUME NEW i \in 1..(Len(w) - n)
        PROVE  n + i \in (n + 1)..Len(w)
    BY <1>1
  <2>4. QED
    BY <2>1, <2>2, <2>3
<1>7. \A s : s \in StepsOf(w) <=> \E i \in 1..Len(w) : w[i].step = s
  BY <1>1 DEF StepsOf
<1>8. /\ after \in [Steps -> Outcomes]
      /\ \A s \in Steps : after[s] = IF s \in gone THEN "rejected" ELSE o[s]
  BY DEF Rejecting, Outcomes
<1>9. \A s \in Steps : s \in gone => o[s] = "open"
  BY <1>1, <1>5, <1>7 DEF StepsInOrder
<1>10. StepsInOrder(rest, after, f)
  <2>1. ASSUME NEW s \in Steps
        PROVE  after[s] = "open" <=> s \in StepsOf(rest) \cup {f}
    <3>1. s \in gone => s \notin StepsOf(rest) \cup {f}
      <4> SUFFICES ASSUME s \in gone
                   PROVE  s \notin StepsOf(rest) \cup {f}
        OBVIOUS
      <4>1. PICK i \in 1..n : w[i].step = s
        BY <1>5
      <4>2. f # s
        BY <1>1, <1>4, <4>1 DEF StepsInOrder
      <4>3. \A j \in (n + 1)..Len(w) : w[i].step < w[j].step
        BY <1>1 DEF StepsInOrder
      <4>4. \A j \in (n + 1)..Len(w) : w[j].step # s
        BY <1>1, <1>4, <4>1, <4>3
      <4>5. QED
        BY <1>6, <4>2, <4>4
    <3>2. s \notin gone => (s \in StepsOf(rest) <=> s \in StepsOf(w))
      BY <1>1, <1>5, <1>6, <1>7
    <3>3. o[s] = "open" <=> s \in StepsOf(w) \cup {f}
      BY DEF StepsInOrder
    <3>4. QED
      BY <3>1, <3>2, <3>3, <1>8
  <2>2. ASSUME NEW i \in 1..(Len(w) - n), NEW j \in 1..(Len(w) - n), i < j
        PROVE  rest[i].step < rest[j].step
    <3>1. n + i \in 1..Len(w) /\ n + j \in 1..Len(w) /\ n + i < n + j
      BY <1>1, <2>2
    <3>2. w[n + i].step < w[n + j].step
      BY <1>1, <3>1 DEF StepsInOrder
    <3>3. QED
      BY <1>2, <3>2
  <2>3. ASSUME NEW i \in 1..(Len(w) - n)
        PROVE  f < rest[i].step
    <3>1. n + i \in 1..Len(w)
      BY <1>1
    <3>2. f < w[n + i].step
      BY <1>1, <3>1 DEF StepsInOrder
    <3>3. QED
      BY <1>2, <3>2
  <2>4. \A s, t \in Steps :
          after[s] = "resolved" /\ after[t] = "open" => s < t
    BY <1>8 DEF StepsInOrder
  <2>5. \A s, t \in Steps : after[s] = "none" /\ after[t] # "none" => t < s
    BY <1>8, <1>9 DEF StepsInOrder
  <2>6. QED
    BY <1>2, <2>1, <2>2, <2>3, <2>4, <2>5 DEF StepsInOrder
<1>11. SameResolved(o, after)
  BY <1>8, <1>9 DEF SameResolved
<1>12. QED
  BY <1>2, <1>5, <1>8, <1>9, <1>10, <1>11

\* The first step that waits is sent.
LEMMA TakeKeeps ==
  ASSUME NEW w \in Seq(Waiting), NEW o \in [Steps -> Outcomes],
         StepsInOrder(w, o, 0), w # <<>>
  PROVE  /\ Head(w).step \in Steps
         /\ Tail(w) \in Seq(Waiting)
         /\ Len(Tail(w)) = Len(w) - 1
         /\ StepsInOrder(Tail(w), o, Head(w).step)
<1>1. /\ Len(w) \in Nat \ {0}
      /\ DOMAIN w = 1..Len(w)
      /\ \A i \in 1..Len(w) : w[i] \in Waiting
  BY LenProperties, ElementOfSeq, EmptySeq
<1> DEFINE rest == Tail(w)
<1>2. /\ Head(w) = w[1]
      /\ rest \in Seq(Waiting)
      /\ Len(rest) = Len(w) - 1
      /\ \A i \in 1..Len(rest) : rest[i] = w[i + 1]
      /\ DOMAIN rest = 1..(Len(w) - 1)
  BY <1>1, HeadTailProperties
<1> HIDE DEF rest
<1>3. \A i \in 1..Len(w) : w[i].step \in Steps
  BY <1>1 DEF Waiting
<1>4. ASSUME NEW s
      PROVE  s \in StepsOf(w) <=> s = w[1].step \/ s \in StepsOf(rest)
  <2>1. s \in StepsOf(w) <=> \E i \in 1..Len(w) : w[i].step = s
    BY <1>1 DEF StepsOf
  <2>2. s \in StepsOf(rest) <=> \E i \in 1..(Len(w) - 1) : w[i + 1].step = s
    BY <1>2, StepsOfMember
  <2>3. ASSUME NEW i \in 1..Len(w), i # 1
        PROVE  i - 1 \in 1..(Len(w) - 1) /\ (i - 1) + 1 = i
    BY <1>1, <2>3
  <2>4. ASSUME NEW i \in 1..(Len(w) - 1)
        PROVE  i + 1 \in 1..Len(w)
    BY <1>1
  <2>5. QED
    BY <1>1, <2>1, <2>2, <2>3, <2>4
<1>5. \A s \in Steps :
        o[s] = "open" <=> s \in StepsOf(rest) \cup {Head(w).step}
  BY <1>2, <1>4 DEF StepsInOrder
<1>6. /\ \A i, j \in DOMAIN rest : i < j => rest[i].step < rest[j].step
      /\ \A i \in DOMAIN rest : Head(w).step < rest[i].step
  <2>1. \A i \in 1..(Len(w) - 1) : rest[i] = w[i + 1]
    BY <1>2
  <2>2. \A i, j \in 1..Len(w) : i < j => w[i].step < w[j].step
    BY <1>1 DEF StepsInOrder
  <2>3. \A i, j \in 1..(Len(w) - 1) :
          i < j => i + 1 \in 1..Len(w) /\ j + 1 \in 1..Len(w) /\ i + 1 < j + 1
    BY <1>1
  <2>4. \A i \in 1..(Len(w) - 1) : i + 1 \in 1..Len(w) /\ 1 < i + 1
    BY <1>1
  <2>5. 1 \in 1..Len(w)
    BY <1>1
  <2>6. \A i, j \in 1..(Len(w) - 1) : i < j => rest[i].step < rest[j].step
    BY <2>1, <2>2, <2>3
  <2>7. \A i \in 1..(Len(w) - 1) : w[1].step < rest[i].step
    BY <2>1, <2>2, <2>4, <2>5
  <2>8. QED
    BY <1>2, <2>6, <2>7
<1>7. QED
  BY <1>1, <1>2, <1>3, <1>5, <1>6 DEF StepsInOrder, rest

\* The next step joins the queue.
LEMMA JoinKeeps ==
  ASSUME queue \in Seq(Waiting), outcome \in [Steps -> Outcomes],
         inFlight.step \in Steps \cup {0},
         StepsInOrder(queue, outcome, inFlight.step),
         NEW s \in Steps, NEW e \in Waiting, e.step = s, outcome[s] = "none",
         \A t \in Steps : t < s => outcome[t] # "none",
         NEW longer, longer = Append(queue, e),
         NEW after, after = [outcome EXCEPT ![s] = "open"]
  PROVE  /\ longer \in Seq(Waiting)
         /\ Len(longer) = Len(queue) + 1
         /\ \A i \in 1..Len(queue) : longer[i] = queue[i]
         /\ longer[Len(queue) + 1].step = s
         /\ after \in [Steps -> Outcomes]
         /\ StepsInOrder(longer, after, inFlight.step)
         /\ SameResolved(outcome, after)
<1>1. /\ Len(queue) \in Nat
      /\ DOMAIN queue = 1..Len(queue)
      /\ \A i \in 1..Len(queue) : queue[i] \in Waiting
  BY LenProperties, ElementOfSeq
<1>2. e \in Waiting /\ e.step = s
  OBVIOUS
<1>3. /\ longer \in Seq(Waiting)
      /\ Len(longer) = Len(queue) + 1
      /\ \A i \in 1..Len(queue) : longer[i] = queue[i]
      /\ longer[Len(queue) + 1] = e
      /\ DOMAIN longer = 1..(Len(queue) + 1)
  BY <1>1, <1>2, AppendProperties
<1>4. /\ after \in [Steps -> Outcomes]
      /\ \A t \in Steps : after[t] = IF t = s THEN "open" ELSE outcome[t]
  BY DEF Outcomes
<1>5. \A i \in 1..Len(queue) : queue[i].step \in Steps
  BY <1>1 DEF Waiting
<1>6. \A t : t \in StepsOf(longer) <=> t = s \/ t \in StepsOf(queue)
  BY <1>1, <1>2, <1>3 DEF StepsOf
<1>7. \A i \in 1..Len(queue) : queue[i].step < s
  <2>1. \A i \in 1..Len(queue) : outcome[queue[i].step] = "open"
    BY <1>1, <1>5 DEF StepsInOrder, StepsOf
  <2>2. QED
    BY <1>5, <2>1 DEF StepsInOrder
<1>8. inFlight.step < s
  BY DEF StepsInOrder
<1>9. \A t \in Steps : after[t] = "open" <=> t \in StepsOf(longer) \cup {inFlight.step}
  BY <1>4, <1>6 DEF StepsInOrder
<1>10. \A i, j \in DOMAIN longer : i < j => longer[i].step < longer[j].step
  BY <1>1, <1>2, <1>3, <1>7 DEF StepsInOrder
<1>11. \A i \in DOMAIN longer : inFlight.step < longer[i].step
  BY <1>1, <1>2, <1>3, <1>8 DEF StepsInOrder
<1>12. \A t, u \in Steps : after[t] = "resolved" /\ after[u] = "open" => t < u
  BY <1>4 DEF StepsInOrder
<1>13. \A t, u \in Steps : after[t] = "none" /\ after[u] # "none" => u < t
  BY <1>4 DEF StepsInOrder
<1>14. SameResolved(outcome, after)
  BY <1>4 DEF SameResolved
<1>15. StepsInOrder(longer, after, inFlight.step)
  BY <1>9, <1>10, <1>11, <1>12, <1>13 DEF StepsInOrder
<1>16. QED
  BY <1>2, <1>3, <1>4, <1>14, <1>15

\* The next step is refused at once.
LEMMA RefuseKeeps ==
  ASSUME NEW w \in Seq(Waiting), NEW o \in [Steps -> Outcomes],
         NEW f \in Steps \cup {0}, StepsInOrder(w, o, f),
         NEW s \in Steps, o[s] = "none",
         \A t \in Steps : t < s => o[t] # "none"
  PROVE  /\ StepsInOrder(w, Rejecting({s}, o), f)
         /\ SameResolved(o, Rejecting({s}, o))
<1> DEFINE after == Rejecting({s}, o)
<1>1. \A t \in Steps : after[t] = IF t = s THEN "rejected" ELSE o[t]
  BY DEF Rejecting, Outcomes
<1>2. \A t \in Steps : after[t] = "open" <=> t \in StepsOf(w) \cup {f}
  BY <1>1 DEF StepsInOrder
<1>3. \A t, u \in Steps : after[t] = "none" /\ after[u] # "none" => u < t
  BY <1>1 DEF StepsInOrder
<1>4. \A t, u \in Steps : after[t] = "resolved" /\ after[u] = "open" => t < u
  BY <1>1 DEF StepsInOrder
<1>5. SameResolved(o, after)
  BY <1>1 DEF SameResolved
<1>6. QED
  BY <1>2, <1>3, <1>4, <1>5 DEF StepsInOrder

\* Everything outstanding is rejected.
LEMMA EndKeeps ==
  ASSUME NEW w \in Seq(Waiting), NEW o \in [Steps -> Outcomes],
         NEW f \in Steps \cup {0}, StepsInOrder(w, o, f)
  PROVE  LET after == Rejecting({f} \cup StepsOf(w), o)
         IN /\ after \in [Steps -> Outcomes]
            /\ StepsInOrder(<<>>, after, 0)
            /\ SameResolved(o, after)
<1> DEFINE after == Rejecting({f} \cup StepsOf(w), o)
<1>1. /\ after \in [Steps -> Outcomes]
      /\ \A t \in Steps :
           after[t] = IF t \in {f} \cup StepsOf(w) THEN "rejected" ELSE o[t]
  BY DEF Rejecting, Outcomes
<1>2. \A t \in Steps : t \in {f} \cup StepsOf(w) <=> o[t] = "open"
  BY DEF StepsInOrder
<1>3. StepsOf(<<>>) = {} /\ DOMAIN (<<>>) = {}
  BY DEF StepsOf
<1>4. \A t \in Steps : after[t] # "open"
  BY <1>1, <1>2
<1>5. \A t, u \in Steps : after[t] = "none" /\ after[u] # "none" => u < t
  BY <1>1, <1>2 DEF StepsInOrder
<1>6. SameResolved(o, after)
  BY <1>1, <1>2 DEF SameResolved
<1> HIDE DEF after
<1>7. \A t \in Steps : after[t] = "open" <=> t \in StepsOf(<<>>) \cup {0}
  BY <1>3, <1>4
<1>8. StepsInOrder(<<>>, after, 0)
  BY <1>3, <1>4, <1>5, <1>7 DEF StepsInOrder
<1>9. QED
  BY <1>1, <1>6, <1>8 DEF after

\* The step in flight is resolved.
LEMMA ResolveKeeps ==
  ASSUME NEW w \in Seq(Waiting), NEW o \in [Steps -> Outcomes],
         NEW f \in Steps, StepsInOrder(w, o, f)
  PROVE  LET after == [o EXCEPT ![f] = "resolved"]
         IN /\ after \in [Steps -> Outcomes]
            /\ StepsInOrder(w, after, 0)
            /\ \A s \in Steps : after[s] = "resolved" <=> o[s] = "resolved" \/ s = f
            /\ \A s \in Steps : o[s] = "resolved" => s < f
<1> DEFINE after == [o EXCEPT ![f] = "resolved"]
<1>1. /\ after \in [Steps -> Outcomes]
      /\ \A t \in Steps : after[t] = IF t = f THEN "resolved" ELSE o[t]
  BY DEF Outcomes
<1>2. o[f] = "open"
  BY DEF StepsInOrder
<1>3. /\ Len(w) \in Nat
      /\ DOMAIN w = 1..Len(w)
      /\ \A i \in 1..Len(w) : w[i] \in Waiting
  BY LenProperties, ElementOfSeq
<1>4. \A i \in 1..Len(w) : w[i].step \in Steps
  BY <1>3 DEF Waiting
<1>5. \A s \in StepsOf(w) : s \in Steps /\ f < s
  BY <1>3, <1>4 DEF StepsInOrder, StepsOf
<1>6. \A t \in Steps : after[t] = "open" <=> t \in StepsOf(w) \cup {0}
  BY <1>1, <1>5 DEF StepsInOrder
<1>7. \A t, u \in Steps : after[t] = "resolved" /\ after[u] = "open" => t < u
  <2>1. \A u \in Steps : after[u] = "open" => f < u
    BY <1>5, <1>6
  <2>2. QED
    BY <1>1, <2>1 DEF StepsInOrder
<1>8. \A t, u \in Steps : after[t] = "none" /\ after[u] # "none" => u < t
  BY <1>1, <1>2 DEF StepsInOrder
<1>9. \A i \in DOMAIN w : 0 < w[i].step
  BY <1>3, <1>4
<1>10. \A s \in Steps : o[s] = "resolved" => s < f
  BY <1>2 DEF StepsInOrder
<1>11. QED
  BY <1>1, <1>6, <1>7, <1>8, <1>9, <1>10 DEF StepsInOrder

-----------------------------------------------------------------------------
(***************************************************************************
 What every step shares.
 ***************************************************************************)
LEMMA TailMembers ==
  ASSUME NEW S, NEW q \in Seq(S), q # <<>>
  PROVE  /\ Head(q) = q[1]
         /\ 1 \in DOMAIN q
         /\ Tail(q) \in Seq(S)
         /\ \A i \in DOMAIN Tail(q) : \E j \in DOMAIN q : Tail(q)[i] = q[j]
<1> DEFINE rest == Tail(q)
<1>1. Len(q) \in Nat \ {0} /\ DOMAIN q = 1..Len(q)
  BY LenProperties, EmptySeq
<1>2. /\ rest \in Seq(S)
      /\ Len(rest) = Len(q) - 1
      /\ \A i \in 1..Len(rest) : rest[i] = q[i + 1]
  BY HeadTailProperties
<1>3. DOMAIN rest = 1..Len(rest)
  BY <1>2, LenProperties
<1>4. Head(q) = q[1]
  BY <1>1
<1> HIDE DEF rest
<1>5. Len(rest) = Len(q) - 1
  BY <1>2
<1>6. \A i \in 1..Len(rest) : i + 1 \in 1..Len(q)
  BY <1>1, <1>5
<1>7. \A i \in DOMAIN rest : \E j \in DOMAIN q : rest[i] = q[j]
  BY <1>1, <1>2, <1>3, <1>6
<1>8. QED
  BY <1>1, <1>2, <1>4, <1>7 DEF rest

LEMMA AppendMembers ==
  ASSUME NEW S, NEW q \in Seq(S), NEW e \in S
  PROVE  /\ Append(q, e) \in Seq(S)
         /\ \A i \in DOMAIN Append(q, e) :
              Append(q, e)[i] = e \/ \E j \in DOMAIN q : Append(q, e)[i] = q[j]
<1> DEFINE longer == Append(q, e)
<1>1. Len(q) \in Nat /\ DOMAIN q = 1..Len(q)
  BY LenProperties
<1>2. /\ longer \in Seq(S)
      /\ Len(longer) = Len(q) + 1
      /\ \A i \in 1..Len(q) : longer[i] = q[i]
      /\ longer[Len(q) + 1] = e
  BY AppendProperties
<1>3. DOMAIN longer = 1..Len(longer)
  BY <1>2, LenProperties
<1> HIDE DEF longer
<1>4. \A i \in 1..Len(longer) : i = Len(q) + 1 \/ i \in 1..Len(q)
  BY <1>1, <1>2
<1>5. \A i \in DOMAIN longer : longer[i] = e \/ \E j \in DOMAIN q : longer[i] = q[j]
  BY <1>1, <1>2, <1>3, <1>4
<1>6. QED
  BY <1>2, <1>5 DEF longer

LEMMA WiderIds ==
  \A m, n \in Nat : m <= n => 1..(m - 1) \subseteq 1..(n - 1)
OBVIOUS

\* A message that was posted stays one when another is.
LEMMA StillPosted ==
  ASSUME RuntimeTypeOK, nextId' \in {nextId, nextId + 1}
  PROVE  /\ toWorker \in Seq(PostedRequests')
         /\ fromWorker \in Seq(PostedAnswers')
         /\ nextId \in 1..nextId'
<1>1. nextId \in Nat \ {0}
  BY DEF RuntimeTypeOK
<1>2. 1..(nextId - 1) \subseteq 1..(nextId' - 1)
  <2>1. nextId' = nextId \/ nextId' = nextId + 1
    OBVIOUS
  <2>2. nextId' \in Nat /\ nextId <= nextId'
    BY <1>1, <2>1
  <2>3. QED
    BY <1>1, <2>2, WiderIds
<1>3. PostedRequests \subseteq PostedRequests'
  BY <1>2 DEF PostedRequests
<1>4. PostedAnswers \subseteq PostedAnswers'
  BY <1>2 DEF PostedAnswers
<1>5. toWorker \in Seq(PostedRequests)
  BY DEF RuntimeTypeOK, PostedRequests, RequestTypes
<1>6. fromWorker \in Seq(PostedAnswers)
  BY DEF RuntimeTypeOK, PostedAnswers
<1>7. QED
  BY <1>1, <1>3, <1>4, <1>5, <1>6, SeqMonotonic

\* With nothing in flight every message is about an earlier request.
LEMMA NothingFollows ==
  ASSUME (nextId \in Nat)', (toWorker \in Seq(PostedRequests))',
         (fromWorker \in Seq(PostedAnswers))', inFlight' = Nothing
  PROVE  RepliesFollow'
<1>1. \A i \in DOMAIN toWorker' : toWorker'[i] \in PostedRequests'
  BY LenProperties, ElementOfSeq
<1>2. \A i \in DOMAIN fromWorker' : fromWorker'[i] \in PostedAnswers'
  BY LenProperties, ElementOfSeq
<1>3. \A i \in DOMAIN toWorker' : toWorker'[i].id # 0
  BY <1>1 DEF PostedRequests
<1>4. \A i \in DOMAIN fromWorker' : fromWorker'[i].id # 0
  BY <1>2 DEF PostedAnswers
<1>5. inFlight'.id = 0 /\ inFlight'.type = "none" /\ inFlight'.step = 0
  BY DEF Nothing
<1>6. QED
  BY <1>3, <1>4, <1>5 DEF RepliesFollow

\* The history is about the resolved steps and the state alone.
LEMMA HistoryKept ==
  ASSUME StateIsHistory, SameResolved(outcome, outcome'),
         stateJson' = stateJson, seen' = seen
  PROVE  StateIsHistory'
<1>1. ASSUME NEW h, NEW n \in Steps, IsHistory(h, n), NEW g, g = h
      PROVE  /\ \A i, j \in DOMAIN g : i < j => g[i] < g[j]
             /\ {g[i] : i \in DOMAIN g} = {s \in 1..n : outcome'[s] = "resolved"}
  <2>1. 1..n \subseteq Steps
    BY StepsAssumption
  <2>2. {s \in 1..n : outcome'[s] = "resolved"} =
          {s \in 1..n : outcome[s] = "resolved"}
    BY <2>1 DEF SameResolved
  <2>3. QED
    BY <1>1, <2>2 DEF IsHistory
<1>2. MaxSteps \in Steps
  BY StepsAssumption
<1>3. IsHistory(stateJson, MaxSteps)'
  BY <1>1, <1>2 DEF StateIsHistory, IsHistory
<1>4. ASSUME NEW s \in Steps, outcome'[s] = "resolved"
      PROVE  IsHistory(seen[s], s)'
  BY <1>1, <1>4 DEF StateIsHistory, IsHistory, SameResolved
<1>5. QED
  BY <1>3, <1>4 DEF StateIsHistory

\* The session ends, with the steps that wait and the results so far.
LEMMA DeathKeeps ==
  ASSUME RuntimeInv, ~dead,
         NEW w \in Seq(Waiting), NEW o \in [Steps -> Outcomes],
         StepsInOrder(w, o, inFlight.step), SameResolved(outcome, o),
         ready \/ NoneAccepted(o),
         MarkDead(w, o),
         (fromWorker \in Seq(PostedAnswers))',
         UNCHANGED <<ready, stateJson, nextId, seen, strays>>
  PROVE  RuntimeInv'
<1>1. /\ inFlight' = Nothing
      /\ queue' = <<>>
      /\ toWorker' = <<>>
      /\ generation' = generation + 1
      /\ outcome' = Rejecting({inFlight.step} \cup StepsOf(w), o)
  BY DEF MarkDead, InFlightWhenDead, Outstanding
<1>2. dead' /\ ~worker' /\ ~pumpDue' /\ ~loaded'
  BY DEF MarkDead
<1>3. /\ worker' \in BOOLEAN
      /\ dead' \in BOOLEAN
      /\ pumpDue' \in BOOLEAN
      /\ loaded' \in BOOLEAN
      /\ ready' \in BOOLEAN
  BY DEF MarkDead, RuntimeInv, RuntimeTypeOK
<1>4. /\ stateJson' \in Seq(Steps)
      /\ nextId' \in Nat \ {0}
      /\ seen' \in [Steps -> Seq(Steps)]
      /\ strays' \in Nat
  BY DEF RuntimeInv, RuntimeTypeOK
<1>5. inFlight.step \in Steps \cup {0}
  BY DEF RuntimeInv, RuntimeTypeOK, Nothing
<1>6. /\ outcome' \in [Steps -> Outcomes]
      /\ StepsInOrder(<<>>, outcome', 0)
      /\ SameResolved(o, outcome')
  BY <1>1, <1>5, EndKeeps
<1>7. generation' \in 0..2
  BY <1>1 DEF RuntimeInv, RuntimeTypeOK, Lifecycle
<1>8. loadCall' \in {"none", "resolved", "rejected"}
  BY DEF MarkDead, RuntimeInv, RuntimeTypeOK
<1>9. /\ queue' \in Seq(Waiting)
      /\ Len(queue') <= MaxQueue
      /\ (toWorker \in Seq(PostedRequests))'
  BY <1>1, EmptySeq, MaxQueueAssumption
<1>10. RuntimeTypeOK'
  BY <1>1, <1>3, <1>4, <1>6, <1>7, <1>8, <1>9
     DEF RuntimeTypeOK, Outcomes, PostedRequests, PostedAnswers, RequestTypes
<1>11. StepsInOrder(queue, outcome, inFlight.step)'
  BY <1>1, <1>6 DEF Nothing
<1>12. ~ready => NoneAccepted(outcome')
  BY <1>1 DEF NoneAccepted, Rejecting
<1>13. ready' = ready /\ stateJson' = stateJson
  OBVIOUS
<1>14. ~ready => stateJson = <<>>
  BY DEF RuntimeInv, Lifecycle
<1>15. inFlight'.type = "none"
  BY <1>1 DEF Nothing
<1>16. Lifecycle'
  BY <1>1, <1>2, <1>12, <1>13, <1>14, <1>15 DEF Lifecycle
<1>17. RepliesFollow'
  BY <1>1, <1>4, <1>9, NothingFollows
<1>18. SameResolved(outcome, outcome')
  BY <1>6 DEF SameResolved
<1>19. StateIsHistory'
  BY <1>18, HistoryKept DEF RuntimeInv
<1>20. QED
  BY <1>4, <1>8, <1>10, <1>11, <1>15, <1>16, <1>17, <1>19 DEF RuntimeInv

\* A request is posted and is the one in flight.
LEMMA PostFacts ==
  ASSUME RuntimeTypeOK,
         NEW type \in RequestTypes, NEW step \in Steps \cup {0}, NEW gen \in 0..2,
         type = "step" <=> step \in Steps,
         Posts(type, step, gen), stateJson' = stateJson,
         \A i \in DOMAIN fromWorker' :
           \E j \in DOMAIN fromWorker : fromWorker'[i] = fromWorker[j]
  PROVE  /\ nextId' \in Nat \ {0}
         /\ nextId' = nextId + 1
         /\ (inFlight \in [id : 1..(nextId - 1), type : RequestTypes,
                            step : Steps \cup {0}, generation : 0..2])'
         /\ (toWorker \in Seq(PostedRequests))'
         /\ inFlight' # Nothing
         /\ inFlight'.type = type
         /\ inFlight'.step = step
         /\ inFlight'.generation = gen
         /\ RepliesFollow'
<1>1. nextId \in Nat \ {0} /\ nextId' = nextId + 1 /\ stateJson \in Seq(Steps)
  BY DEF RuntimeTypeOK, Posts
<1>2. /\ inFlight' = [id |-> nextId, type |-> type, step |-> step,
                      generation |-> gen]
      /\ toWorker' = Append(toWorker, Request(nextId, type, step, stateJson))
  BY DEF Posts
<1>3. nextId \in 1..(nextId' - 1)
  BY <1>1
<1>4. Request(nextId, type, step, stateJson) \in PostedRequests'
  BY <1>1, <1>3 DEF Request, PostedRequests
<1>5. toWorker \in Seq(PostedRequests')
  BY <1>1, StillPosted
<1>6. /\ toWorker' \in Seq(PostedRequests')
      /\ \A i \in DOMAIN toWorker' :
           \/ toWorker'[i] = Request(nextId, type, step, stateJson)
           \/ \E j \in DOMAIN toWorker : toWorker'[i] = toWorker[j]
  BY <1>2, <1>4, <1>5, AppendMembers
<1>7. \A j \in DOMAIN toWorker : toWorker[j].id \in 1..(nextId - 1)
  <2>1. toWorker \in Seq(PostedRequests)
    BY DEF RuntimeTypeOK, PostedRequests, RequestTypes
  <2>2. \A j \in DOMAIN toWorker : toWorker[j] \in PostedRequests
    BY <2>1, LenProperties, ElementOfSeq
  <2>3. QED
    BY <2>2 DEF PostedRequests
<1>8. \A j \in DOMAIN fromWorker : fromWorker[j].id \in 1..(nextId - 1)
  <2>1. fromWorker \in Seq(PostedAnswers)
    BY DEF RuntimeTypeOK, PostedAnswers
  <2>2. \A j \in DOMAIN fromWorker : fromWorker[j] \in PostedAnswers
    BY <2>1, LenProperties, ElementOfSeq
  <2>3. QED
    BY <2>2 DEF PostedAnswers
<1>9. nextId \notin 1..(nextId - 1)
  BY <1>1
<1>10. /\ inFlight'.id = nextId
       /\ inFlight'.type = type
       /\ inFlight'.step = step
       /\ inFlight'.generation = gen
  BY <1>2
<1>11. inFlight' # Nothing
  BY <1>1, <1>10 DEF Nothing
<1>12. \A i \in DOMAIN toWorker' :
         toWorker'[i].id = nextId =>
           toWorker'[i] = Request(nextId, type, step, stateJson)
  BY <1>6, <1>7, <1>9
<1>13. \A i \in DOMAIN fromWorker' : fromWorker'[i].id # nextId
  BY <1>8, <1>9
<1>14. RepliesFollow'
  BY <1>10, <1>12, <1>13 DEF RepliesFollow
<1>15. (inFlight \in [id : 1..(nextId - 1), type : RequestTypes,
                       step : Steps \cup {0}, generation : 0..2])'
  BY <1>2, <1>3
<1>16. QED
  BY <1>1, <1>6, <1>10, <1>11, <1>14, <1>15

\* The controller takes up what waits, if nothing is in flight.
LEMMA PumpKeeps ==
  ASSUME RuntimeInv, ~dead, ready,
         NEW w \in Seq(Waiting), NEW o \in [Steps -> Outcomes],
         StepsInOrder(w, o, inFlight.step), SameResolved(outcome, o),
         Len(w) <= MaxQueue, Pump(w, o),
         UNCHANGED <<ready, stateJson, seen, strays>>
  PROVE  RuntimeInv'
<1>1. /\ worker /\ generation = 1
      /\ inFlight.type \in {"none", "step"}
      /\ loadCall \notin {"open"}
  BY DEF RuntimeInv, Lifecycle
<1>2. inFlight = Nothing => inFlight.step = 0 /\ inFlight.type = "none"
  BY DEF Nothing
<1>3. fromWorker \in Seq(PostedAnswers) /\ toWorker \in Seq(PostedRequests)
  BY DEF RuntimeInv, RuntimeTypeOK, PostedAnswers, PostedRequests, RequestTypes
<1>4. ready' /\ ready' \in BOOLEAN /\ stateJson' = stateJson /\ seen' = seen
  BY DEF RuntimeInv, RuntimeTypeOK
<1>5. strays' \in Nat
  BY DEF RuntimeInv
<1>6. ASSUME UNCHANGED <<worker, dead, generation, nextId, inFlight, loadCall,
                         coreVars>>,
             queue' \in Seq(Waiting), Len(queue') <= MaxQueue,
             outcome' \in [Steps -> Outcomes],
             StepsInOrder(queue', outcome', inFlight.step),
             SameResolved(outcome, outcome'), pumpDue' = FALSE
      PROVE  RuntimeInv'
  <2>1. RuntimeTypeOK'
    BY <1>4, <1>6 DEF RuntimeInv, RuntimeTypeOK, Outcomes, coreVars
  <2>2. Lifecycle'
    BY <1>1, <1>4, <1>6 DEF RuntimeInv, Lifecycle, coreVars
  <2>3. RepliesFollow'
    BY <1>4, <1>6 DEF RuntimeInv, RepliesFollow, Committed, coreVars
  <2>4. StateIsHistory'
    BY <1>4, <1>6, HistoryKept DEF RuntimeInv
  <2>5. (loadCall = "open" <=> inFlight.type \in {"load", "init"})'
    BY <1>6 DEF RuntimeInv
  <2>6. QED
    BY <1>5, <1>6, <2>1, <2>2, <2>3, <2>4, <2>5 DEF RuntimeInv
<1>7. CASE inFlight # Nothing
  BY <1>6, <1>7 DEF Pump
<1>8. CASE inFlight = Nothing
  <2>1. PICK n \in Unsendable(w) :
          LET rest == SubSeq(w, n + 1, Len(w))
              after == Rejecting(StepsOf(SubSeq(w, 1, n)), o)
          IN \/ /\ rest = <<>>
                /\ queue' = <<>>
                /\ outcome' = after
                /\ pumpDue' = FALSE
                /\ UNCHANGED <<worker, dead, generation, nextId, inFlight,
                               loadCall, coreVars>>
             \/ /\ rest # <<>>
                /\ Posts("step", Head(rest).step, generation)
                /\ queue' = Tail(rest)
                /\ outcome' = after
                /\ pumpDue' = FALSE
                /\ UNCHANGED <<worker, dead, generation, loadCall, loaded,
                               fromWorker>>
             \/ /\ rest # <<>>
                /\ MarkDead(rest, after)
                /\ UNCHANGED <<nextId, fromWorker>>
    BY <1>8 DEF Pump
  <2> DEFINE rest == SubSeq(w, n + 1, Len(w))
             after == Rejecting(StepsOf(SubSeq(w, 1, n)), o)
  <2>2. n \in 0..Len(w)
    BY DEF Unsendable
  <2>3. StepsInOrder(w, o, 0)
    BY <1>2, <1>8
  <2>4. /\ rest \in Seq(Waiting)
        /\ Len(rest) = Len(w) - n
        /\ after \in [Steps -> Outcomes]
        /\ StepsInOrder(rest, after, 0)
        /\ SameResolved(o, after)
    BY <2>2, <2>3, DropKeeps
  <2>5. SameResolved(outcome, after)
    BY <2>4 DEF SameResolved
  <2>6. Len(rest) <= MaxQueue
    BY <2>2, <2>4, LenProperties, MaxQueueAssumption
  <2> HIDE DEF rest, after
  <2>7. CASE /\ rest = <<>>
             /\ queue' = <<>>
             /\ outcome' = after
             /\ pumpDue' = FALSE
             /\ UNCHANGED <<worker, dead, generation, nextId, inFlight,
                            loadCall, coreVars>>
    BY <1>2, <1>6, <1>8, <2>4, <2>5, <2>6, <2>7
  <2>8. CASE /\ rest # <<>>
             /\ Posts("step", Head(rest).step, generation)
             /\ queue' = Tail(rest)
             /\ outcome' = after
             /\ pumpDue' = FALSE
             /\ UNCHANGED <<worker, dead, generation, loadCall, loaded,
                            fromWorker>>
    <3> DEFINE s == Head(rest).step
    <3>1. /\ s \in Steps
          /\ Tail(rest) \in Seq(Waiting)
          /\ Len(Tail(rest)) = Len(rest) - 1
          /\ StepsInOrder(Tail(rest), after, s)
      BY <2>4, <2>8, TakeKeeps
    <3> HIDE DEF s
    <3>2. /\ generation \in 0..2
          /\ \A i \in DOMAIN fromWorker' :
               \E j \in DOMAIN fromWorker : fromWorker'[i] = fromWorker[j]
          /\ Posts("step", s, generation)
      BY <1>1, <2>8 DEF s
    <3>3. /\ nextId' \in Nat \ {0}
          /\ nextId' = nextId + 1
          /\ (inFlight \in [id : 1..(nextId - 1), type : RequestTypes,
                             step : Steps \cup {0}, generation : 0..2])'
          /\ (toWorker \in Seq(PostedRequests))'
          /\ inFlight' # Nothing
          /\ inFlight'.type = "step"
          /\ inFlight'.step = s
          /\ inFlight'.generation = generation
          /\ RepliesFollow'
      BY <1>4, <3>1, <3>2, PostFacts DEF RequestTypes, RuntimeInv
    <3>4. (fromWorker \in Seq(PostedAnswers))'
      BY <2>8, <3>3, StillPosted DEF RuntimeInv
    <3>5. queue' \in Seq(Waiting) /\ Len(queue') <= MaxQueue
      BY <2>4, <2>6, <2>8, <3>1, LenProperties, MaxQueueAssumption
    <3>6. RuntimeTypeOK'
      BY <1>4, <2>4, <2>8, <3>3, <3>4, <3>5
         DEF RuntimeInv, RuntimeTypeOK, Outcomes, PostedRequests, PostedAnswers,
             RequestTypes
    <3>7. StepsInOrder(queue, outcome, inFlight.step)'
      BY <2>8, <3>1, <3>3
    <3>8. Lifecycle'
      BY <1>1, <1>4, <2>8, <3>3 DEF RuntimeInv, Lifecycle
    <3>9. StateIsHistory'
      BY <1>4, <2>5, <2>8, HistoryKept DEF RuntimeInv
    <3>10. (loadCall = "open" <=> inFlight.type \in {"load", "init"})'
      BY <1>1, <2>8, <3>3
    <3>11. QED
      BY <1>5, <3>3, <3>6, <3>7, <3>8, <3>9, <3>10 DEF RuntimeInv
  <2>9. CASE /\ rest # <<>>
             /\ MarkDead(rest, after)
             /\ UNCHANGED <<nextId, fromWorker>>
    <3>1. StepsInOrder(rest, after, inFlight.step)
      BY <1>2, <1>8, <2>4
    <3>2. (fromWorker \in Seq(PostedAnswers))'
      BY <2>9, StillPosted DEF RuntimeInv
    <3>3. QED
      BY <2>4, <2>5, <2>9, <3>1, <3>2, DeathKeeps
  <2>10. QED
    BY <2>1, <2>7, <2>8, <2>9 DEF rest, after
<1>9. QED
  BY <1>7, <1>8

-----------------------------------------------------------------------------
(***************************************************************************
 The steps, one lemma each.
 ***************************************************************************)
LEMMA InvInit == MCInit => RuntimeInv
<1> SUFFICES ASSUME MCInit PROVE RuntimeInv
  OBVIOUS
<1> USE DEF MCInit, RuntimeInit
<1>1. RuntimeTypeOK
  <2>1. /\ worker \in BOOLEAN
        /\ dead \in BOOLEAN
        /\ ready \in BOOLEAN
        /\ pumpDue \in BOOLEAN
        /\ loaded \in BOOLEAN
    OBVIOUS
  <2>2. /\ stateJson \in Seq(Steps)
        /\ queue \in Seq(Waiting)
        /\ Len(queue) <= MaxQueue
        /\ seen \in [Steps -> Seq(Steps)]
    BY EmptySeq, MaxQueueAssumption
  <2>3. toWorker = <<>> /\ fromWorker = <<>> /\ inFlight = Nothing
    OBVIOUS
  <2>4. /\ generation \in 0..2
        /\ nextId \in Nat \ {0}
        /\ loadCall \in Outcomes
        /\ outcome \in [Steps -> Outcomes]
    BY DEF Outcomes
  <2>5. QED
    BY <2>1, <2>2, <2>3, <2>4, EmptySeq DEF RuntimeTypeOK, Outcomes
<1>2. StepsInOrder(queue, outcome, inFlight.step)
  BY DEF StepsInOrder, StepsOf, Nothing
<1>3. Lifecycle
  BY DEF Lifecycle, NoneAccepted, Nothing
<1>4. RepliesFollow
  BY DEF RepliesFollow, Nothing
<1>5. StateIsHistory
  <2>1. \A s \in 1..MaxSteps : outcome[s] # "resolved"
    OBVIOUS
  <2>2. \A i, j \in DOMAIN stateJson : i < j => stateJson[i] < stateJson[j]
    OBVIOUS
  <2>3. {stateJson[i] : i \in DOMAIN stateJson} = {}
    OBVIOUS
  <2>4. {s \in 1..MaxSteps : outcome[s] = "resolved"} = {}
    BY <2>1
  <2>5. QED
    BY <2>1, <2>2, <2>3, <2>4 DEF StateIsHistory, IsHistory
<1>6. (loadCall = "open" <=> inFlight.type \in {"load", "init"}) /\ strays \in Nat
  BY DEF Nothing
<1>7. QED
  BY <1>1, <1>2, <1>3, <1>4, <1>5, <1>6 DEF RuntimeInv

\* What ends the session between two steps.
LEMMA DiesKeeps ==
  ASSUME RuntimeInv, ~dead, UNCHANGED strays,
         NEW undelivered, Dies(undelivered),
         undelivered \in Seq(PostedAnswers)
  PROVE  RuntimeInv'
<1>1. PostedAnswers' = PostedAnswers
  BY DEF PostedAnswers, Dies
<1>2. (fromWorker \in Seq(PostedAnswers))'
  BY <1>1 DEF Dies
<1>3. /\ queue \in Seq(Waiting)
      /\ outcome \in [Steps -> Outcomes]
      /\ StepsInOrder(queue, outcome, inFlight.step)
      /\ ready \/ NoneAccepted(outcome)
  BY DEF RuntimeInv, RuntimeTypeOK, Outcomes, Lifecycle
<1>4. SameResolved(outcome, outcome)
  BY DEF SameResolved
<1>5. MarkDead(queue, outcome) /\ UNCHANGED <<ready, stateJson, nextId, seen, strays>>
  BY DEF Dies
<1>6. QED
  BY <1>2, <1>3, <1>4, <1>5, DeathKeeps

LEMMA FromWorkerType ==
  ASSUME RuntimeInv
  PROVE  /\ fromWorker \in Seq(PostedAnswers)
         /\ fromWorker # <<>> =>
              /\ Tail(fromWorker) \in Seq(PostedAnswers)
              /\ Head(fromWorker) = fromWorker[1]
              /\ 1 \in DOMAIN fromWorker
              /\ Head(fromWorker) \in PostedAnswers
              /\ \A i \in DOMAIN Tail(fromWorker) :
                   \E j \in DOMAIN fromWorker : Tail(fromWorker)[i] = fromWorker[j]
<1>1. fromWorker \in Seq(PostedAnswers)
  BY DEF RuntimeInv, RuntimeTypeOK, PostedAnswers
<1>2. QED
  BY <1>1, TailMembers, HeadTailProperties

LEMMA LoadStartsKeeps ==
  ASSUME RuntimeInv, LoadStarts, UNCHANGED strays
  PROVE  RuntimeInv'
<1>1. /\ ~ready /\ ~dead /\ ~worker
      /\ generation = 0
      /\ inFlight = Nothing
      /\ stateJson = <<>>
      /\ NoneAccepted(outcome)
  BY DEF RuntimeInv, Lifecycle, LoadStarts
<1>2. /\ worker' = TRUE /\ ready' = ready /\ dead' = dead /\ pumpDue' = pumpDue
      /\ loaded' = loaded
  BY DEF LoadStarts
<1>3. /\ generation' = 1
      /\ stateJson' = stateJson
      /\ queue' = queue
      /\ outcome' = outcome
      /\ seen' = seen
      /\ fromWorker' = fromWorker
      /\ loadCall' = "open"
      /\ Posts("load", 0, 1)
  BY <1>1 DEF LoadStarts
<1>4. /\ nextId' \in Nat \ {0}
      /\ nextId' = nextId + 1
      /\ (inFlight \in [id : 1..(nextId - 1), type : RequestTypes,
                         step : Steps \cup {0}, generation : 0..2])'
      /\ (toWorker \in Seq(PostedRequests))'
      /\ inFlight' # Nothing
      /\ inFlight'.type = "load"
      /\ inFlight'.step = 0
      /\ inFlight'.generation = 1
      /\ RepliesFollow'
  BY <1>3, PostFacts DEF RequestTypes, RuntimeInv
<1>5. (fromWorker \in Seq(PostedAnswers))'
  BY <1>3, <1>4, StillPosted DEF RuntimeInv
<1>6. RuntimeTypeOK'
  BY <1>2, <1>3, <1>4, <1>5
     DEF RuntimeInv, RuntimeTypeOK, PostedRequests, PostedAnswers, RequestTypes
<1>7. StepsInOrder(queue, outcome, inFlight.step)'
  BY <1>1, <1>3, <1>4 DEF RuntimeInv, Nothing
<1>8. Lifecycle'
  BY <1>1, <1>2, <1>3, <1>4 DEF RuntimeInv, Lifecycle
<1>9. SameResolved(outcome, outcome')
  BY <1>3 DEF SameResolved
<1>10. StateIsHistory'
  BY <1>3, <1>9, HistoryKept DEF RuntimeInv
<1>11. QED
  BY <1>3, <1>4, <1>6, <1>7, <1>8, <1>10 DEF RuntimeInv

LEMMA StepKeeps ==
  ASSUME RuntimeInv, NEW s \in Steps, Step(s), UNCHANGED strays
  PROVE  RuntimeInv'
<1>1. /\ queue \in Seq(Waiting)
      /\ Len(queue) \in Nat
      /\ Len(queue) <= MaxQueue
      /\ outcome \in [Steps -> Outcomes]
      /\ StepsInOrder(queue, outcome, inFlight.step)
      /\ inFlight.step \in Steps \cup {0}
  BY LenProperties DEF RuntimeInv, RuntimeTypeOK, Outcomes, Nothing
<1>2. outcome[s] = "none" /\ \A t \in Steps : t < s => outcome[t] # "none"
  BY DEF Step
<1>3. CASE StepRefused(s)
  <2>1. /\ outcome' = Rejecting({s}, outcome)
        /\ UNCHANGED <<generation, stateJson, nextId, inFlight, queue, loadCall,
                       seen, toWorker, fromWorker>>
    BY <1>3 DEF StepRefused, coreVars
  <2>2. UNCHANGED <<worker, dead, ready, pumpDue, loaded>>
    BY <1>3 DEF StepRefused, coreVars
  <2>3. StepsInOrder(queue, outcome', inFlight.step) /\ SameResolved(outcome, outcome')
    BY <1>1, <1>2, <2>1, RefuseKeeps
  <2>4. outcome' \in [Steps -> Outcomes]
    BY <1>1, <2>1, RejectingType
  <2>5. NoneAccepted(outcome) => NoneAccepted(outcome')
    BY <2>1 DEF NoneAccepted, Rejecting
  <2>6. RuntimeTypeOK'
    BY <2>1, <2>2, <2>4 DEF RuntimeInv, RuntimeTypeOK, Outcomes
  <2>7. Lifecycle'
    BY <2>1, <2>2, <2>5 DEF RuntimeInv, Lifecycle
  <2>8. RepliesFollow'
    BY <2>1 DEF RuntimeInv, RepliesFollow, Committed
  <2>9. StateIsHistory'
    BY <2>1, <2>3, HistoryKept DEF RuntimeInv
  <2>10. QED
    BY <2>1, <2>3, <2>6, <2>7, <2>8, <2>9 DEF RuntimeInv
<1>4. ASSUME NEW b \in BOOLEAN, StepQueued(s, b)
      PROVE  RuntimeInv'
  <2> DEFINE e == [step |-> s, serializable |-> b]
             w == Append(queue, e)
             o == [outcome EXCEPT ![s] = "open"]
  <2>1. e \in Waiting /\ e.step = s
    BY DEF Waiting
  <2>2. w = Append(queue, e) /\ o = [outcome EXCEPT ![s] = "open"]
    OBVIOUS
  <2> HIDE DEF e, w, o, Steps
  <2>3. /\ w \in Seq(Waiting)
        /\ Len(w) = Len(queue) + 1
        /\ o \in [Steps -> Outcomes]
        /\ StepsInOrder(w, o, inFlight.step)
        /\ SameResolved(outcome, o)
    <3>1. \A t \in Steps : t < s => outcome[t] # "none"
      BY <1>2
    <3>2. s \in Steps
      BY DEF Steps
    <3>3. e \in Waiting /\ e.step = s /\ outcome[s] = "none"
      BY <1>2, <2>1
    <3>4. w \in Seq(Waiting) /\ Len(w) = Len(queue) + 1
      BY <1>1, <2>1, <2>2, AppendProperties
    <3>5. o \in [Steps -> Outcomes]
      BY <1>1, <1>2, <2>2 DEF Outcomes
    <3>6. SameResolved(outcome, o)
      BY <1>1, <3>1, <3>2, <3>3, <2>2, JoinKeeps
    <3>7. StepsInOrder(w, o, inFlight.step)
      BY <1>1, <3>1, <3>2, <3>3, <2>2, JoinKeeps
    <3>8. QED
      BY <3>4, <3>5, <3>6, <3>7
  <2>4. ~dead /\ ready /\ Pump(w, o)
    BY <1>4 DEF StepQueued, e, w, o
  <2>5. UNCHANGED <<ready, stateJson, seen, strays>>
    BY <1>4 DEF StepQueued
  <2>6. Len(w) <= MaxQueue
    BY <1>1, <1>4, <2>3, MaxQueueAssumption DEF StepQueued, QueueFull
  <2>7. QED
    BY <2>3, <2>4, <2>5, <2>6, PumpKeeps
<1>5. QED
  BY <1>3, <1>4 DEF Step

LEMMA FinallyPumpKeeps ==
  ASSUME RuntimeInv, FinallyPump, UNCHANGED strays
  PROVE  RuntimeInv'
<1>1. /\ queue \in Seq(Waiting)
      /\ Len(queue) <= MaxQueue
      /\ outcome \in [Steps -> Outcomes]
      /\ StepsInOrder(queue, outcome, inFlight.step)
      /\ ready
  BY DEF RuntimeInv, RuntimeTypeOK, Outcomes, Lifecycle, FinallyPump
<1>2. SameResolved(outcome, outcome)
  BY DEF SameResolved
<1>3. UNCHANGED <<ready, stateJson, seen, strays>>
  BY DEF FinallyPump
<1>4. CASE ~dead
  <2>1. Pump(queue, outcome)
    BY <1>4 DEF FinallyPump
  <2>2. QED
    BY <1>1, <1>2, <1>3, <1>4, <2>1, PumpKeeps
<1>5. CASE dead
  <2>1. /\ UNCHANGED <<generation, nextId, inFlight, queue, loadCall, outcome,
                       toWorker, fromWorker>>
        /\ UNCHANGED <<worker, dead, loaded>>
        /\ pumpDue' = FALSE
    BY <1>5 DEF FinallyPump, coreVars
  <2>2. RuntimeTypeOK'
    BY <1>3, <2>1 DEF RuntimeInv, RuntimeTypeOK
  <2>3. Lifecycle'
    BY <1>3, <2>1 DEF RuntimeInv, Lifecycle
  <2>4. RepliesFollow'
    BY <1>3, <2>1 DEF RuntimeInv, RepliesFollow, Committed
  <2>5. StateIsHistory'
    BY <1>2, <1>3, <2>1, HistoryKept DEF RuntimeInv
  <2>6. QED
    BY <1>3, <2>1, <2>2, <2>3, <2>4, <2>5 DEF RuntimeInv
<1>6. QED
  BY <1>4, <1>5

LEMMA OnBadReplyKeeps ==
  ASSUME RuntimeInv, NEW m, OnBadReply(m), UNCHANGED strays
  PROVE  RuntimeInv'
<1>1. fromWorker # <<>>
  BY DEF OnBadReply, HostTakes
<1>2. Tail(fromWorker) \in Seq(PostedAnswers)
  BY <1>1, FromWorkerType
<1>3. CASE ~dead
  <2>1. Dies(Tail(fromWorker))
    BY <1>3 DEF OnBadReply
  <2>2. QED
    BY <1>2, <1>3, <2>1, DiesKeeps
<1>4. CASE dead
  <2>1. /\ UNCHANGED <<generation, stateJson, nextId, inFlight, queue, loadCall,
                       outcome, seen, toWorker>>
        /\ UNCHANGED <<worker, dead, ready, pumpDue, loaded>>
        /\ fromWorker' = Tail(fromWorker)
    BY <1>4 DEF OnBadReply, promiseVars
  <2>2. inFlight = Nothing
    BY <1>4 DEF RuntimeInv, Lifecycle
  <2>3. (fromWorker \in Seq(PostedAnswers))'
    BY <1>2, <2>1 DEF PostedAnswers
  <2>4. /\ nextId' \in Nat
        /\ (toWorker \in Seq(PostedRequests))'
    BY <2>1, StillPosted DEF RuntimeInv, RuntimeTypeOK
  <2>5. RuntimeTypeOK'
    BY <2>1, <2>3 DEF RuntimeInv, RuntimeTypeOK, PostedAnswers
  <2>6. Lifecycle'
    BY <2>1 DEF RuntimeInv, Lifecycle
  <2>7. RepliesFollow'
    BY <2>1, <2>2, <2>3, <2>4, NothingFollows
  <2>8. SameResolved(outcome, outcome')
    BY <2>1 DEF SameResolved
  <2>9. StateIsHistory'
    BY <2>1, <2>8, HistoryKept DEF RuntimeInv
  <2>10. QED
    BY <2>1, <2>5, <2>6, <2>7, <2>9 DEF RuntimeInv
<1>5. QED
  BY <1>3, <1>4

LEMMA OnLoadedKeeps ==
  ASSUME RuntimeInv, NEW m, OnLoaded(m), UNCHANGED strays
  PROVE  RuntimeInv'
<1>1. fromWorker # <<>> /\ inFlight.type = "load"
  BY DEF OnLoaded, HostTakes
<1>2. /\ Tail(fromWorker) \in Seq(PostedAnswers)
      /\ \A i \in DOMAIN Tail(fromWorker) :
           \E j \in DOMAIN fromWorker : Tail(fromWorker)[i] = fromWorker[j]
  BY <1>1, FromWorkerType
<1>3. /\ ~ready
      /\ inFlight # Nothing
      /\ generation = 1
      /\ inFlight.step \notin Steps
      /\ inFlight.step = 0
  BY <1>1 DEF RuntimeInv, RuntimeTypeOK, Lifecycle, RepliesFollow, Nothing
<1>4. worker /\ ~dead
  BY <1>3 DEF RuntimeInv, Lifecycle
<1>5. CASE Dies(Tail(fromWorker))
  BY <1>2, <1>4, <1>5, DiesKeeps
<1>6. CASE /\ Posts("init", 0, generation)
           /\ fromWorker' = Tail(fromWorker)
           /\ UNCHANGED <<worker, dead, ready, generation, stateJson, queue,
                          promiseVars, pumpDue, loaded>>
  <2>1. /\ Posts("init", 0, 1)
        /\ fromWorker' = Tail(fromWorker)
        /\ UNCHANGED <<generation, stateJson, queue, loadCall, outcome, seen>>
        /\ UNCHANGED <<worker, dead, ready, pumpDue, loaded>>
    BY <1>3, <1>6 DEF promiseVars
  <2>2. /\ nextId' \in Nat \ {0}
        /\ nextId' = nextId + 1
        /\ (inFlight \in [id : 1..(nextId - 1), type : RequestTypes,
                           step : Steps \cup {0}, generation : 0..2])'
        /\ (toWorker \in Seq(PostedRequests))'
        /\ inFlight' # Nothing
        /\ inFlight'.type = "init"
        /\ inFlight'.step = 0
        /\ inFlight'.generation = 1
        /\ RepliesFollow'
    BY <1>2, <2>1, PostFacts DEF RequestTypes, RuntimeInv
  <2>3. PostedAnswers \subseteq PostedAnswers'
    BY <2>2, WiderIds DEF PostedAnswers, RuntimeInv, RuntimeTypeOK
  <2>4. (fromWorker \in Seq(PostedAnswers))'
    BY <1>2, <2>1, <2>3, SeqMonotonic
  <2>5. RuntimeTypeOK'
    BY <2>1, <2>2, <2>4
       DEF RuntimeInv, RuntimeTypeOK, PostedRequests, PostedAnswers, RequestTypes
  <2>6. StepsInOrder(queue, outcome, inFlight.step)'
    BY <1>3, <2>1, <2>2 DEF RuntimeInv
  <2>7. Lifecycle'
    BY <1>3, <1>4, <2>1, <2>2 DEF RuntimeInv, Lifecycle
  <2>8. SameResolved(outcome, outcome')
    BY <2>1 DEF SameResolved
  <2>9. StateIsHistory'
    BY <2>1, <2>8, HistoryKept DEF RuntimeInv
  <2>10. (loadCall = "open" <=> inFlight.type \in {"load", "init"})'
    BY <1>1, <2>1, <2>2 DEF RuntimeInv
  <2>11. QED
    BY <2>2, <2>5, <2>6, <2>7, <2>9, <2>10 DEF RuntimeInv
<1>7. QED
  BY <1>5, <1>6 DEF OnLoaded

\* The reply at the head is the one that is waited for.
LEMMA AcceptedReply ==
  ASSUME RuntimeInv, NEW m, HostTakes(m), Accepted(m), m.ok = "ok"
  PROVE  /\ Tail(fromWorker) \in Seq(PostedAnswers)
         /\ inFlight # Nothing
         /\ m.state = Committed
<1>1. fromWorker # <<>> /\ m = Head(fromWorker) /\ m.id = inFlight.id
  BY DEF HostTakes, Accepted
<1>2. m = fromWorker[1] /\ 1 \in DOMAIN fromWorker
  BY <1>1, FromWorkerType
<1>3. m.state = Committed
  BY <1>1, <1>2 DEF RuntimeInv, RepliesFollow
<1>4. QED
  BY <1>1, <1>3, FromWorkerType DEF Accepted

LEMMA OnInitializedKeeps ==
  ASSUME RuntimeInv, NEW m, OnInitialized(m), UNCHANGED strays
  PROVE  RuntimeInv'
<1>1. /\ HostTakes(m) /\ Accepted(m) /\ m.ok = "ok"
      /\ inFlight.type = "init"
      /\ inFlight' = Nothing
      /\ stateJson' = m.state
      /\ loadCall' = "resolved"
      /\ fromWorker' = Tail(fromWorker)
      /\ UNCHANGED <<generation, nextId, queue, outcome, seen, toWorker>>
  BY DEF OnInitialized
<1>2. ready' = TRUE /\ UNCHANGED <<worker, dead, pumpDue, loaded>>
  BY DEF OnInitialized
<1>3. /\ Tail(fromWorker) \in Seq(PostedAnswers)
      /\ inFlight # Nothing
      /\ m.state = <<>>
  BY <1>1, AcceptedReply DEF Committed
<1>4. /\ ~ready
      /\ generation = 1
      /\ inFlight.step = 0
      /\ stateJson = <<>>
  BY <1>1, <1>3 DEF RuntimeInv, RuntimeTypeOK, Lifecycle, RepliesFollow, Nothing
<1>5. worker /\ ~dead /\ pumpDue = FALSE
  BY <1>3, <1>4 DEF RuntimeInv, RuntimeTypeOK, Lifecycle
<1>6. stateJson' = stateJson
  BY <1>1, <1>3, <1>4
<1>7. (fromWorker \in Seq(PostedAnswers))'
  BY <1>1, <1>3 DEF PostedAnswers
<1>8. /\ nextId' \in Nat
      /\ (toWorker \in Seq(PostedRequests))'
  BY <1>1, StillPosted DEF RuntimeInv, RuntimeTypeOK
<1>9. RuntimeTypeOK'
  BY <1>1, <1>2, <1>6, <1>7 DEF RuntimeInv, RuntimeTypeOK, PostedAnswers
<1>10. StepsInOrder(queue, outcome, inFlight.step)'
  BY <1>1, <1>4 DEF RuntimeInv, Nothing
<1>11. Lifecycle'
  BY <1>1, <1>2, <1>4, <1>5 DEF Lifecycle, Nothing
<1>12. RepliesFollow'
  BY <1>1, <1>7, <1>8, NothingFollows
<1>13. SameResolved(outcome, outcome')
  BY <1>1 DEF SameResolved
<1>14. StateIsHistory'
  BY <1>1, <1>6, <1>13, HistoryKept DEF RuntimeInv
<1>15. QED
  BY <1>1, <1>9, <1>10, <1>11, <1>12, <1>14 DEF RuntimeInv, Nothing

\* A step that is committed comes after everything that was.
LEMMA HistoryGrows ==
  ASSUME StateIsHistory, stateJson \in Seq(Steps),
         seen \in [Steps -> Seq(Steps)],
         NEW s \in Steps,
         \A t \in Steps : outcome[t] = "resolved" => t < s,
         \A t \in Steps : outcome'[t] = "resolved" <=> outcome[t] = "resolved" \/ t = s,
         stateJson' = Append(stateJson, s),
         seen' = [seen EXCEPT ![s] = Append(stateJson, s)]
  PROVE  StateIsHistory'
<1> DEFINE h == stateJson
           g == Append(stateJson, s)
<1>1. /\ Len(h) \in Nat
      /\ DOMAIN h = 1..Len(h)
      /\ \A i \in 1..Len(h) : h[i] \in Steps
  BY LenProperties, ElementOfSeq
<1>2. /\ g \in Seq(Steps)
      /\ Len(g) = Len(h) + 1
      /\ \A i \in 1..Len(h) : g[i] = h[i]
      /\ g[Len(h) + 1] = s
  BY <1>1, AppendProperties
<1>3. DOMAIN g = 1..(Len(h) + 1)
  BY <1>2, LenProperties
<1>4. /\ \A i, j \in DOMAIN h : i < j => h[i] < h[j]
      /\ {h[i] : i \in DOMAIN h} = {t \in 1..MaxSteps : outcome[t] = "resolved"}
  BY DEF StateIsHistory, IsHistory
<1> HIDE DEF g, h
<1>5. \A i \in 1..Len(h) : h[i] < s
  <2>1. \A i \in 1..Len(h) : h[i] \in {t \in 1..MaxSteps : outcome[t] = "resolved"}
    BY <1>1, <1>4
  <2>2. QED
    BY <2>1
<1>6. \A i, j \in DOMAIN g : i < j => g[i] < g[j]
  <2>0. \A k \in 1..(Len(h) + 1) : k \in 1..Len(h) \/ k = Len(h) + 1
    BY <1>1
  <2> SUFFICES ASSUME NEW i \in 1..(Len(h) + 1), NEW j \in 1..(Len(h) + 1), i < j
               PROVE  g[i] < g[j]
    BY <1>3
  <2>1. i \in 1..Len(h)
    BY <1>1
  <2>2. CASE j \in 1..Len(h)
    BY <1>1, <1>2, <1>4, <2>1, <2>2
  <2>3. CASE j = Len(h) + 1
    BY <1>2, <1>5, <2>1, <2>3
  <2>4. QED
    BY <2>0, <2>2, <2>3
<1>7. \A t : t \in {g[i] : i \in DOMAIN g} <=> t = s \/ t \in {h[i] : i \in DOMAIN h}
  <2>1. \A t : t \in {g[i] : i \in DOMAIN g} <=> \E i \in 1..(Len(h) + 1) : g[i] = t
    BY <1>3
  <2>2. \A t : t \in {h[i] : i \in DOMAIN h} <=> \E i \in 1..Len(h) : h[i] = t
    BY <1>1
  <2>3. \A i \in 1..(Len(h) + 1) : i \in 1..Len(h) \/ i = Len(h) + 1
    BY <1>1
  <2>4. \A i \in 1..Len(h) : i \in 1..(Len(h) + 1)
    BY <1>1
  <2>5. Len(h) + 1 \in 1..(Len(h) + 1)
    BY <1>1
  <2>6. QED
    BY <1>2, <2>1, <2>2, <2>3, <2>4, <2>5
<1>8. ASSUME NEW n \in Steps, s <= n
      PROVE  {g[i] : i \in DOMAIN g} = {t \in 1..n : outcome'[t] = "resolved"}
  <2>1. 1..n \subseteq Steps /\ s \in 1..n
    BY <1>8, StepsAssumption
  <2>2. \A t : t \in {h[i] : i \in DOMAIN h} <=>
                 t \in Steps /\ outcome[t] = "resolved"
    BY <1>4
  <2>3. \A t \in Steps : outcome[t] = "resolved" => t \in 1..n
    BY <1>8, StepsAssumption
  <2>4. \A t : t \in {g[i] : i \in DOMAIN g} <=>
                 t \in 1..n /\ outcome'[t] = "resolved"
    BY <1>7, <2>1, <2>2, <2>3
  <2>5. QED
    BY <2>4
<1>9. IsHistory(stateJson, MaxSteps)'
  <2>1. MaxSteps \in Steps /\ s <= MaxSteps
    BY StepsAssumption
  <2>2. stateJson' = g
    BY DEF g
  <2>3. QED
    BY <1>6, <1>8, <2>1, <2>2 DEF IsHistory
<1>10. ASSUME NEW t \in Steps, outcome'[t] = "resolved"
       PROVE  IsHistory(seen[t], t)'
  <2>1. CASE t = s
    <3>1. seen'[t] = g
      BY <2>1 DEF g
    <3>2. s <= s
      OBVIOUS
    <3>3. {g[i] : i \in DOMAIN g} = {u \in 1..s : outcome'[u] = "resolved"}
      BY <1>8, <3>2
    <3>4. IsHistory(seen[s], s)'
      BY <1>6, <2>1, <3>1, <3>3 DEF IsHistory
    <3>5. QED
      BY <2>1, <3>4
  <2>2. CASE t # s
    <3>1. seen'[t] = seen[t] /\ outcome[t] = "resolved" /\ t < s
      BY <1>10, <2>2
    <3>2. IsHistory(seen[t], t)
      BY <3>1 DEF StateIsHistory
    <3>3. \A u \in 1..t : u \in Steps /\ u # s
      BY <3>1, StepsAssumption
    <3>4. {u \in 1..t : outcome'[u] = "resolved"} =
            {u \in 1..t : outcome[u] = "resolved"}
      BY <3>3
    <3>5. QED
      BY <3>1, <3>2, <3>4 DEF IsHistory
  <2>3. QED
    BY <2>1, <2>2
<1>11. QED
  BY <1>9, <1>10 DEF StateIsHistory

LEMMA OnSteppedKeeps ==
  ASSUME RuntimeInv, NEW m, OnStepped(m), UNCHANGED strays
  PROVE  RuntimeInv'
<1>1. /\ HostTakes(m) /\ Accepted(m) /\ m.ok = "ok"
      /\ inFlight.type = "step"
      /\ inFlight' = Nothing
      /\ fromWorker' = Tail(fromWorker)
      /\ UNCHANGED <<generation, nextId, queue, loadCall, toWorker>>
  BY DEF OnStepped
<1>2. pumpDue' = TRUE /\ UNCHANGED <<worker, dead, ready, loaded>>
  BY DEF OnStepped
<1> DEFINE s == inFlight.step
<1>3. /\ Tail(fromWorker) \in Seq(PostedAnswers)
      /\ inFlight # Nothing
      /\ m.state = Append(stateJson, s)
  BY <1>1, AcceptedReply DEF Committed
<1>4. /\ s \in Steps
      /\ ready
      /\ inFlight.generation = generation
  BY <1>1, <1>3 DEF RuntimeInv, Lifecycle, RepliesFollow
<1>5. /\ stateJson' = Append(stateJson, s)
      /\ seen' = [seen EXCEPT ![s] = Append(stateJson, s)]
      /\ outcome' = [outcome EXCEPT ![s] = "resolved"]
  BY <1>3, <1>4 DEF OnStepped
<1>6. /\ stateJson \in Seq(Steps)
      /\ seen \in [Steps -> Seq(Steps)]
      /\ queue \in Seq(Waiting)
      /\ outcome \in [Steps -> Outcomes]
      /\ StepsInOrder(queue, outcome, s)
  BY DEF RuntimeInv, RuntimeTypeOK, Outcomes
<1> HIDE DEF s
<1>7. /\ outcome' \in [Steps -> Outcomes]
      /\ StepsInOrder(queue, outcome', 0)
      /\ \A t \in Steps :
           outcome'[t] = "resolved" <=> outcome[t] = "resolved" \/ t = s
      /\ \A t \in Steps : outcome[t] = "resolved" => t < s
  BY <1>4, <1>5, <1>6, ResolveKeeps
<1>8. /\ stateJson' \in Seq(Steps)
      /\ seen' \in [Steps -> Seq(Steps)]
  BY <1>4, <1>5, <1>6, AppendProperties
<1>9. StateIsHistory'
  BY <1>4, <1>5, <1>6, <1>7, HistoryGrows DEF RuntimeInv
<1>10. (fromWorker \in Seq(PostedAnswers))'
  BY <1>1, <1>3 DEF PostedAnswers
<1>11. /\ nextId' \in Nat
       /\ (toWorker \in Seq(PostedRequests))'
  BY <1>1, StillPosted DEF RuntimeInv, RuntimeTypeOK
<1>12. RuntimeTypeOK'
  BY <1>1, <1>2, <1>7, <1>8, <1>10
     DEF RuntimeInv, RuntimeTypeOK, PostedAnswers, Outcomes
<1>13. StepsInOrder(queue, outcome, inFlight.step)'
  BY <1>1, <1>7 DEF Nothing
<1>14. Lifecycle'
  <2>1. worker /\ ~dead
    BY <1>3 DEF RuntimeInv, Lifecycle
  <2>2. generation = 1
    BY <2>1 DEF RuntimeInv, Lifecycle
  <2>3. QED
    BY <1>1, <1>2, <1>4, <2>1, <2>2 DEF Lifecycle, Nothing
<1>15. RepliesFollow'
  BY <1>1, <1>10, <1>11, NothingFollows
<1>16. (loadCall = "open" <=> inFlight.type \in {"load", "init"})'
  BY <1>1 DEF RuntimeInv, Nothing
<1>17. QED
  BY <1>9, <1>12, <1>13, <1>14, <1>15, <1>16 DEF RuntimeInv

\* Another reply is on its way.
LEMMA ReplyPostedKeeps ==
  ASSUME RuntimeInv,
         UNCHANGED <<ready, generation, stateJson, nextId, inFlight, queue,
                     loadCall, outcome, seen>>,
         UNCHANGED <<worker, dead, pumpDue>>,
         loaded' \in BOOLEAN, strays' \in Nat,
         toWorker' \in Seq(PostedRequests),
         \A i \in DOMAIN toWorker' :
           \E j \in DOMAIN toWorker : toWorker'[i] = toWorker[j],
         dead => toWorker' = <<>>,
         NEW a \in PostedAnswers, fromWorker' = Append(fromWorker, a),
         a.id = inFlight.id /\ a.ok = "ok" => a.state = Committed
  PROVE  RuntimeInv'
<1>1. fromWorker \in Seq(PostedAnswers)
  BY FromWorkerType
<1>2. /\ fromWorker' \in Seq(PostedAnswers)
      /\ \A i \in DOMAIN fromWorker' :
           \/ fromWorker'[i] = a
           \/ \E j \in DOMAIN fromWorker : fromWorker'[i] = fromWorker[j]
  BY <1>1, AppendMembers
<1>3. PostedAnswers' = PostedAnswers /\ PostedRequests' = PostedRequests
  BY DEF PostedAnswers, PostedRequests
<1>4. RuntimeTypeOK'
  BY <1>2, <1>3
     DEF RuntimeInv, RuntimeTypeOK, PostedAnswers, PostedRequests, RequestTypes
<1>5. StepsInOrder(queue, outcome, inFlight.step)'
  BY DEF RuntimeInv
<1>6. Lifecycle'
  BY DEF RuntimeInv, Lifecycle
<1>7. Committed' = Committed
  BY DEF Committed
<1>8. \A i \in DOMAIN fromWorker' :
        fromWorker'[i].id = inFlight.id /\ fromWorker'[i].ok = "ok" =>
          fromWorker'[i].state = Committed
  BY <1>2 DEF RuntimeInv, RepliesFollow
<1>9. \A i \in DOMAIN toWorker' :
        toWorker'[i].id = inFlight.id =>
          toWorker'[i] = Request(inFlight.id, inFlight.type, inFlight.step, stateJson)
  BY DEF RuntimeInv, RepliesFollow
<1>10. RepliesFollow'
  BY <1>7, <1>8, <1>9 DEF RuntimeInv, RepliesFollow
<1>11. SameResolved(outcome, outcome')
  BY DEF SameResolved
<1>12. StateIsHistory'
  BY <1>11, HistoryKept DEF RuntimeInv
<1>13. (loadCall = "open" <=> inFlight.type \in {"load", "init"})'
  BY DEF RuntimeInv
<1>14. QED
  BY <1>4, <1>5, <1>6, <1>10, <1>12, <1>13 DEF RuntimeInv

LEMMA WorkerHandlesKeeps ==
  ASSUME RuntimeInv, WorkerHandles, UNCHANGED strays
  PROVE  RuntimeInv'
<1>1. toWorker # <<>> /\ toWorker \in Seq(PostedRequests)
  BY DEF WorkerHandles, RuntimeInv, RuntimeTypeOK, PostedRequests, RequestTypes
<1> DEFINE r == Head(toWorker)
<1>2. /\ r = toWorker[1]
      /\ 1 \in DOMAIN toWorker
      /\ r \in PostedRequests
      /\ Tail(toWorker) \in Seq(PostedRequests)
      /\ \A i \in DOMAIN Tail(toWorker) :
           \E j \in DOMAIN toWorker : Tail(toWorker)[i] = toWorker[j]
  BY <1>1, TailMembers, HeadTailProperties
<1>3. /\ toWorker' = Tail(toWorker)
      /\ UNCHANGED <<ready, generation, stateJson, nextId, inFlight, queue,
                     loadCall, outcome, seen>>
      /\ \/ fromWorker' = Append(fromWorker, Answer(r.id, "ok", Result(r)))
         \/ fromWorker' = Append(fromWorker, Answer(r.id, "error", <<>>))
  BY DEF WorkerHandles, promiseVars
<1>4. UNCHANGED <<worker, dead, pumpDue>>
  BY DEF WorkerHandles
<1>5. loaded' \in BOOLEAN
  BY DEF WorkerHandles
<1>6. ~dead
  BY <1>1 DEF RuntimeInv, Lifecycle
<1>7. strays' \in Nat
  BY DEF RuntimeInv
<1> HIDE DEF r
<1>8. r.id = inFlight.id =>
        r = Request(inFlight.id, inFlight.type, inFlight.step, stateJson)
  BY <1>2 DEF RuntimeInv, RepliesFollow
<1>9. Result(r) \in Seq(Steps)
  <2>1. /\ r.type \in RequestTypes
        /\ r.step \in Steps \cup {0}
        /\ r.state \in Seq(Steps)
    BY <1>2 DEF PostedRequests
  <2>2. r.type = "step" => r.step \in Steps
    BY <1>2, <2>1 DEF PostedRequests
  <2>3. QED
    BY <2>1, <2>2, EmptySeq, AppendProperties DEF Result, RequestTypes
<1>10. r.id = inFlight.id => Result(r) = Committed
  BY <1>2, <1>8 DEF Result, Committed, Request, PostedRequests, RequestTypes
<1>11. CASE fromWorker' = Append(fromWorker, Answer(r.id, "ok", Result(r)))
  <2>1. Answer(r.id, "ok", Result(r)) \in PostedAnswers
    BY <1>2, <1>9 DEF Answer, PostedAnswers, PostedRequests
  <2>2. LET a == Answer(r.id, "ok", Result(r))
        IN a.id = inFlight.id /\ a.ok = "ok" => a.state = Committed
    BY <1>10 DEF Answer
  <2>3. QED
    BY <1>2, <1>3, <1>4, <1>5, <1>6, <1>7, <1>11, <2>1, <2>2, ReplyPostedKeeps
<1>12. CASE fromWorker' = Append(fromWorker, Answer(r.id, "error", <<>>))
  <2>1. Answer(r.id, "error", <<>>) \in PostedAnswers
    BY <1>2, EmptySeq DEF Answer, PostedAnswers, PostedRequests
  <2>2. Answer(r.id, "error", <<>>).ok # "ok"
    BY DEF Answer
  <2>3. QED
    BY <1>2, <1>3, <1>4, <1>5, <1>6, <1>7, <1>12, <2>1, <2>2, ReplyPostedKeeps
<1>13. QED
  BY <1>3, <1>11, <1>12

LEMMA StrayReplyKeeps ==
  ASSUME RuntimeInv, StrayReply
  PROVE  RuntimeInv'
<1>1. PICK m \in {Answer(id, ok, <<>>) : id \in 1..(nextId - 1),
                                        ok \in {"ok", "error", "malformed"}}
                \cup Range(fromWorker) :
        /\ m.id = inFlight.id => m.ok = "malformed" \/ m \in Range(fromWorker)
        /\ fromWorker' = Append(fromWorker, m)
  BY DEF StrayReply
<1>2. /\ UNCHANGED <<ready, generation, stateJson, nextId, inFlight, queue,
                     loadCall, outcome, seen, toWorker>>
      /\ strays' = strays + 1
  BY DEF StrayReply, promiseVars
<1>3. UNCHANGED <<worker, dead, pumpDue, loaded>>
  BY DEF StrayReply
<1>4. loaded' \in BOOLEAN
  BY <1>3 DEF RuntimeInv, RuntimeTypeOK
<1>5. strays' \in Nat
  BY <1>2 DEF RuntimeInv
<1>6. m \in Range(fromWorker) => \E i \in DOMAIN fromWorker : m = fromWorker[i]
  BY DEF Range
<1>7. m \in PostedAnswers
  <2>1. CASE m \in Range(fromWorker)
    BY <1>6, <2>1, FromWorkerType, LenProperties, ElementOfSeq
  <2>2. CASE m \notin Range(fromWorker)
    <3>1. PICK id \in 1..(nextId - 1), ok \in {"ok", "error", "malformed"} :
            m = Answer(id, ok, <<>>)
      BY <1>1, <2>2
    <3>2. QED
      BY <3>1, EmptySeq DEF Answer, PostedAnswers
  <2>3. QED
    BY <2>1, <2>2
<1>8. m.id = inFlight.id /\ m.ok = "ok" => m.state = Committed
  BY <1>1, <1>6 DEF RuntimeInv, RepliesFollow
<1>9. /\ toWorker' \in Seq(PostedRequests)
      /\ \A i \in DOMAIN toWorker' :
           \E j \in DOMAIN toWorker : toWorker'[i] = toWorker[j]
  BY <1>2 DEF RuntimeInv, RuntimeTypeOK, PostedRequests, RequestTypes
<1>10. dead => toWorker' = <<>>
  BY <1>2 DEF RuntimeInv, Lifecycle
<1>11. QED
  BY <1>1, <1>2, <1>3, <1>4, <1>5, <1>7, <1>8, <1>9, <1>10, ReplyPostedKeeps

LEMMA StutterKeeps ==
  ASSUME RuntimeInv, UNCHANGED mcVars
  PROVE  RuntimeInv'
<1>1. UNCHANGED <<generation, stateJson, nextId, inFlight, queue, loadCall,
                  outcome, seen, toWorker, fromWorker, strays>>
  BY DEF mcVars, runtimeVars, promiseVars, coreVars
<1>2. UNCHANGED <<worker, dead, ready, pumpDue, loaded>>
  BY DEF mcVars, runtimeVars, promiseVars, coreVars
<1>3. RuntimeTypeOK'
  BY <1>1, <1>2 DEF RuntimeInv, RuntimeTypeOK
<1>4. Lifecycle'
  BY <1>1, <1>2 DEF RuntimeInv, Lifecycle
<1>5. RepliesFollow'
  BY <1>1 DEF RuntimeInv, RepliesFollow, Committed
<1>6. SameResolved(outcome, outcome')
  BY <1>1 DEF SameResolved
<1>7. StateIsHistory'
  BY <1>1, <1>6, HistoryKept DEF RuntimeInv
<1>8. QED
  BY <1>1, <1>3, <1>4, <1>5, <1>7 DEF RuntimeInv

-----------------------------------------------------------------------------
(***************************************************************************
 The theorems.
 ***************************************************************************)
LEMMA InvNext ==
  ASSUME RuntimeInv, [MCNext]_mcVars
  PROVE  RuntimeInv'
<1>1. CASE StrayReply
  BY <1>1, StrayReplyKeeps
<1>2. CASE UNCHANGED mcVars
  BY <1>2, StutterKeeps
<1>3. CASE RuntimeNext /\ UNCHANGED strays
  <2>1. fromWorker \in Seq(PostedAnswers)
    BY FromWorkerType
  <2>2. CASE LoadFails
    BY <1>3, <2>1, <2>2, DiesKeeps DEF LoadFails
  <2>3. CASE LoadStarts
    BY <1>3, <2>3, LoadStartsKeeps
  <2>4. CASE \E s \in Steps : Step(s)
    BY <1>3, <2>4, StepKeeps
  <2>5. CASE RuntimeDispose
    BY <1>3, <2>1, <2>5, DiesKeeps DEF RuntimeDispose
  <2>6. CASE FinallyPump
    BY <1>3, <2>6, FinallyPumpKeeps
  <2>7. CASE Watchdog
    <3>1. ~dead
      BY <2>7 DEF Watchdog, Watched, RuntimeInv, Lifecycle
    <3>2. QED
      BY <1>3, <2>1, <2>7, <3>1, DiesKeeps DEF Watchdog
  <2>8. CASE OnRuntimeError
    <3>1. ~dead
      BY <2>8 DEF OnRuntimeError, RuntimeInv, Lifecycle
    <3>2. QED
      BY <1>3, <2>1, <2>8, <3>1, DiesKeeps DEF OnRuntimeError
  <2>9. CASE \E i \in DOMAIN fromWorker :
               \/ OnBadReply(fromWorker[i])
               \/ OnLoaded(fromWorker[i])
               \/ OnInitialized(fromWorker[i])
               \/ OnStepped(fromWorker[i])
    BY <1>3, <2>9, OnBadReplyKeeps, OnLoadedKeeps, OnInitializedKeeps,
       OnSteppedKeeps
  <2>10. CASE WorkerHandles
    BY <1>3, <2>10, WorkerHandlesKeeps
  <2>11. QED
    BY <1>3, <2>2, <2>3, <2>4, <2>5, <2>6, <2>7, <2>8, <2>9, <2>10
       DEF RuntimeNext, HostEvents
<1>4. QED
  BY <1>1, <1>2, <1>3 DEF MCNext

\* The inductive invariant of the controller and its Worker.
THEOREM RuntimeInvariant == MCSpec => []RuntimeInv
<1>1. MCInit => RuntimeInv
  BY InvInit
<1>2. RuntimeInv /\ [MCNext]_mcVars => RuntimeInv'
  BY InvNext
<1>3. QED
  BY <1>1, <1>2, PTL DEF MCSpec

\* Every promise of step() that is open belongs to a step that waits or to the
\* one in flight, and load()'s to one of its two round trips, whatever the
\* Worker answers (controller.js).
THEOREM OpenIsOutstandingHolds == MCSpec => []OpenIsOutstanding
<1>1. ASSUME RuntimeInv
      PROVE  OpenIsOutstanding
  <2>1. queue \in Seq(Waiting)
    BY <1>1 DEF RuntimeInv, RuntimeTypeOK
  <2>2. inFlight.step \notin StepsOf(queue)
    <3>1. \A i \in DOMAIN queue : inFlight.step < queue[i].step
      BY <1>1 DEF RuntimeInv, StepsInOrder
    <3>2. \A i \in DOMAIN queue : queue[i].step \in Steps
      <4>1. \A i \in DOMAIN queue : queue[i] \in Waiting
        BY <2>1, LenProperties, ElementOfSeq
      <4>2. QED
        BY <4>1 DEF Waiting
    <3>3. inFlight.step \in Steps \cup {0}
      BY <1>1 DEF RuntimeInv, RuntimeTypeOK, Nothing
    <3>4. \A i \in DOMAIN queue : queue[i].step # inFlight.step
      BY <3>1, <3>2, <3>3
    <3>5. QED
      BY <3>4 DEF StepsOf
  <2>3. QED
    BY <1>1, <2>2 DEF RuntimeInv, StepsInOrder, OpenIsOutstanding
<1>2. QED
  BY <1>1, RuntimeInvariant, PTL

\* The committed state is that of the resolved steps in the order they were
\* asked for, and a step's view shows exactly those up to itself, even when
\* replies are duplicated or about other requests (checkReply, controller.js).
THEOREM StateIsHistoryHolds == MCSpec => []StateIsHistory
<1>1. RuntimeInv => StateIsHistory
  BY DEF RuntimeInv
<1>2. QED
  BY <1>1, RuntimeInvariant, PTL

\* Once the session is dead nothing is committed, no promise succeeds and it
\* does not come back, whatever replies are still delivered (markDead(),
\* controller.js).
THEOREM DeathIsFinalHolds == MCSpec => DeathIsFinal
<1> DEFINE Final == dead => /\ dead' /\ ~worker' /\ stateJson' = stateJson
                            /\ \A s \in Steps :
                                 outcome'[s] = "resolved" => outcome[s] = "resolved"
                            /\ loadCall' = loadCall
<1>1. ASSUME RuntimeInv, [MCNext]_mcVars, dead
      PROVE  /\ dead' /\ ~worker' /\ stateJson' = stateJson
             /\ \A s \in Steps :
                  outcome'[s] = "resolved" => outcome[s] = "resolved"
             /\ loadCall' = loadCall
  <2>1. /\ ~worker
        /\ inFlight = Nothing
        /\ toWorker = <<>>
    BY <1>1 DEF RuntimeInv, Lifecycle
  <2>2. CASE UNCHANGED <<worker, dead, stateJson, outcome, loadCall>>
    BY <1>1, <2>1, <2>2
  <2>3. CASE StrayReply \/ UNCHANGED mcVars
    BY <2>1, <2>2, <2>3
       DEF StrayReply, mcVars, runtimeVars, promiseVars, coreVars
  <2>4. CASE \E s \in Steps : Step(s)
    <3>1. PICK s \in Steps : StepRefused(s)
      BY <1>1, <2>4 DEF Step, StepQueued
    <3>2. /\ outcome' = Rejecting({s}, outcome)
          /\ UNCHANGED <<worker, dead, stateJson, loadCall>>
      BY <3>1 DEF StepRefused
    <3>3. \A u \in Steps :
            outcome'[u] = "resolved" => outcome[u] = "resolved"
      BY <3>2 DEF Rejecting
    <3>4. QED
      BY <1>1, <2>1, <3>2, <3>3
  <2>5. CASE FinallyPump
    BY <1>1, <2>2, <2>5 DEF FinallyPump
  <2>6. CASE \E i \in DOMAIN fromWorker :
               \/ OnBadReply(fromWorker[i])
               \/ OnLoaded(fromWorker[i])
               \/ OnInitialized(fromWorker[i])
               \/ OnStepped(fromWorker[i])
    <3>1. PICK i \in DOMAIN fromWorker : OnBadReply(fromWorker[i])
      BY <2>1, <2>6 DEF OnLoaded, OnInitialized, OnStepped, Accepted
    <3>2. QED
      BY <1>1, <2>2, <3>1 DEF OnBadReply, promiseVars
  <2>7. ~(LoadFails \/ LoadStarts \/ RuntimeDispose \/ Watchdog \/ OnRuntimeError
            \/ WorkerHandles)
    BY <1>1, <2>1 DEF LoadFails, LoadStarts, RuntimeDispose, Watchdog, Watched,
       OnRuntimeError, WorkerHandles
  <2>8. QED
    BY <1>1, <2>3, <2>4, <2>5, <2>6, <2>7 DEF MCNext, RuntimeNext, HostEvents
<1>2. RuntimeInv /\ [MCNext]_mcVars => [Final]_runtimeVars
  BY <1>1
<1>3. QED
  BY <1>2, RuntimeInvariant, PTL DEF MCSpec, DeathIsFinal

\* A pump rejects only what cannot be sent, unless the session dies.
LEMMA PumpRejects ==
  ASSUME NEW w \in Seq(Waiting), NEW o \in [Steps -> Outcomes],
         StepsInOrder(w, o, inFlight.step), Pump(w, o),
         NEW s \in Steps, o[s] = "open", outcome'[s] = "rejected", ~dead'
  PROVE  \E i \in 1..Len(w) : w[i].step = s /\ ~w[i].serializable
<1>1. inFlight = Nothing
  BY DEF Pump
<1>2. PICK n \in Unsendable(w) :
        outcome' = Rejecting(StepsOf(SubSeq(w, 1, n)), o)
  BY <1>1 DEF Pump, MarkDead
<1>3. n \in 0..Len(w) /\ \A i \in 1..n : ~w[i].serializable
  BY DEF Unsendable
<1>4. StepsInOrder(w, o, 0)
  BY <1>1 DEF Nothing
<1>5. \A u \in Steps : u \in StepsOf(SubSeq(w, 1, n)) =>
        \E i \in 1..n : w[i].step = u
  BY <1>3, <1>4, DropKeeps
<1>6. s \in StepsOf(SubSeq(w, 1, n))
  BY <1>2 DEF Rejecting
<1>7. Len(w) \in Nat
  BY LenProperties
<1>8. 1..n \subseteq 1..Len(w)
  BY <1>3, <1>7
<1>9. QED
  BY <1>3, <1>5, <1>6, <1>8

\* A step that was accepted is rejected only when its own event cannot cross
\* the boundary or the session dies: pump() rejects that event and keeps the
\* session alive (controller.js).
THEOREM OnlyDeathFailsTheOthersHolds == MCSpec => OnlyDeathFailsTheOthers
<1> DEFINE Alone ==
      \A s \in Steps :
        outcome[s] = "open" /\ outcome'[s] = "rejected"
          => \/ dead'
             \/ \E i \in DOMAIN queue :
                  queue[i].step = s /\ ~queue[i].serializable
<1>1. ASSUME RuntimeInv, [MCNext]_mcVars, NEW s \in Steps,
             outcome[s] = "open", outcome'[s] = "rejected", ~dead'
      PROVE  \E i \in DOMAIN queue : queue[i].step = s /\ ~queue[i].serializable
  <2>1. /\ queue \in Seq(Waiting)
        /\ Len(queue) \in Nat
        /\ DOMAIN queue = 1..Len(queue)
        /\ outcome \in [Steps -> Outcomes]
        /\ inFlight.step \in Steps \cup {0}
        /\ StepsInOrder(queue, outcome, inFlight.step)
    BY <1>1, LenProperties DEF RuntimeInv, RuntimeTypeOK, Outcomes, Nothing
  <2>2. outcome'[s] # outcome[s]
    BY <1>1
  <2>3. ~(StrayReply \/ UNCHANGED mcVars \/ LoadStarts \/ WorkerHandles)
    BY <2>2 DEF StrayReply, mcVars, runtimeVars, promiseVars, LoadStarts,
       WorkerHandles
  <2>4. ~(LoadFails \/ RuntimeDispose \/ Watchdog \/ OnRuntimeError)
    BY <1>1 DEF LoadFails, RuntimeDispose, Watchdog, OnRuntimeError, Dies, MarkDead
  <2>5. ASSUME NEW i \in DOMAIN fromWorker
        PROVE  ~(OnBadReply(fromWorker[i]) \/ OnLoaded(fromWorker[i])
                   \/ OnInitialized(fromWorker[i]))
    BY <1>1, <2>2 DEF OnBadReply, OnLoaded, OnInitialized, Dies, MarkDead,
       promiseVars
  <2>6. ASSUME NEW i \in DOMAIN fromWorker, OnStepped(fromWorker[i])
        PROVE  FALSE
    <3>1. inFlight # Nothing
      BY <2>6 DEF OnStepped, Accepted
    <3>2. inFlight.generation = generation
      BY <1>1, <3>1 DEF RuntimeInv, Lifecycle
    <3>3. outcome' = [outcome EXCEPT ![inFlight.step] = "resolved"]
      BY <2>6, <3>2 DEF OnStepped
    <3>4. QED
      BY <1>1, <2>1, <3>3
  <2>7. CASE FinallyPump
    <3>1. Pump(queue, outcome)
      BY <2>2, <2>7 DEF FinallyPump
    <3> HIDE DEF Steps
    <3>2. \E i \in 1..Len(queue) : queue[i].step = s /\ ~queue[i].serializable
      BY <1>1, <2>1, <3>1, PumpRejects
    <3>3. QED
      BY <2>1, <3>2
  <2>8. ASSUME NEW t \in Steps, Step(t)
        PROVE  \E i \in DOMAIN queue : queue[i].step = s /\ ~queue[i].serializable
    <3>1. outcome[t] = "none" /\ s # t
      BY <1>1, <2>8 DEF Step
    <3>2. ~StepRefused(t)
      BY <1>1, <2>2, <3>1 DEF StepRefused, Rejecting
    <3>3. PICK b \in BOOLEAN : StepQueued(t, b)
      BY <2>8, <3>2 DEF Step
    <3> DEFINE e == [step |-> t, serializable |-> b]
               w == Append(queue, e)
               o == [outcome EXCEPT ![t] = "open"]
    <3>4. e \in Waiting /\ e.step = t
      BY DEF Waiting
    <3>5. Pump(w, o)
      BY <3>3 DEF StepQueued
    <3>6. w = Append(queue, e) /\ o = [outcome EXCEPT ![t] = "open"]
      OBVIOUS
    <3> HIDE DEF e, w, o, Steps
    <3>7. \A u \in Steps : u < t => outcome[u] # "none"
      BY <2>8 DEF Step
    <3>8. StepsInOrder(w, o, inFlight.step)
      BY <2>1, <2>8, <3>1, <3>4, <3>6, <3>7, JoinKeeps
    <3>9. /\ w \in Seq(Waiting)
          /\ Len(w) = Len(queue) + 1
          /\ \A i \in 1..Len(queue) : w[i] = queue[i]
          /\ w[Len(queue) + 1] = e
      BY <2>1, <3>4, <3>6, AppendProperties
    <3>10. o \in [Steps -> Outcomes] /\ o[s] = "open"
      BY <1>1, <2>1, <3>6 DEF Outcomes
    <3>11. PICK i \in 1..Len(w) : w[i].step = s /\ ~w[i].serializable
      BY <1>1, <3>5, <3>8, <3>9, <3>10, PumpRejects
    <3>12. i # Len(queue) + 1
      BY <3>1, <3>4, <3>9, <3>11
    <3>13. i \in 1..Len(queue)
      BY <2>1, <3>9, <3>12
    <3>14. QED
      BY <2>1, <3>9, <3>11, <3>13
  <2>9. QED
    BY <1>1, <2>3, <2>4, <2>5, <2>6, <2>7, <2>8 DEF MCNext, RuntimeNext, HostEvents
<1>2. RuntimeInv /\ [MCNext]_mcVars => [Alone]_runtimeVars
  BY <1>1
<1>3. QED
  BY <1>2, RuntimeInvariant, PTL DEF MCSpec, OnlyDeathFailsTheOthers
=============================================================================
