---------------------------- MODULE Records_proofs ----------------------------
(*************************************************************************)
(* Proofs about what becomes of speech, and of what a Campaign knows:    *)
(* the finals of a Speaker Lane (SpeechStream), the two records a        *)
(* session leaves (Transcript), and the Nodes of the Knowledge Graph     *)
(* (KnowledgeGraph). For any number of utterances, recognizer sessions,  *)
(* turns, sentences, Nodes, editors and proposals, and any bound of the  *)
(* queue, of a chunk and of a Node's Aspects.                            *)
(*************************************************************************)
EXTENDS SpeechStream, TranscriptProps, KnowledgeGraph, SequenceTheorems, FiniteSetTheorems,
  TLAPS

-------------------------------------------------------------------------------
(*************************************************************************)
(* The lane. SpeechInv speaks of settled utterances; LaneInv says in     *)
(* whose hands one is until then, and that it is in one pair of hands    *)
(* only.                                                                 *)
(*************************************************************************)

\* The utterance in the lane's buffer is the current one, from its first frame to its
\* dispatch; whoever sends to a session has one.
LoopSound ==
  /\ uBuf # Nobody <=> uPc \in {"head", "heard", "tail", "spoken", "ending", "enqueueing",
                                "flush"}
  /\ uBuf # Nobody => uBuf = uNow
  /\ uPc \in {"enlisted", "inline"} => uNow # 0
  /\ uPc \in {"tail", "ending", "enqueueing"} => uSession # Nobody

\* The hands an utterance can be in, once it has been spoken.
InHand(u) ==
  \/ u = uBuf \/ (uPc = "enlisted" /\ u = uNow)
  \/ u \in Range(jobs) \/ \E p \in Transcribers : scribe[p].u = u

\* It is in one pair of hands at a time, and it is lost by none of them.
OneHand ==
  /\ IsInjective(jobs)
  /\ \A u \in Range(jobs) :
       /\ u <= uNow /\ u # uBuf /\ settled[u] = "none"
       /\ uPc = "enlisted" => u # uNow
       /\ \A p \in Transcribers : scribe[p].u # u
  /\ \A p \in Transcribers :
       /\ scribe[p].u = Nobody <=> scribe[p].at = "free"
       /\ scribe[p].u # Nobody =>
            /\ scribe[p].u <= uNow /\ scribe[p].u # uBuf /\ settled[scribe[p].u] = "none"
            /\ uPc = "enlisted" => scribe[p].u # uNow
  /\ scribe["inline"].u # Nobody =>
       /\ uPc = "inline" /\ scribe["inline"].u = uNow /\ scribe["worker"].u # uNow
  /\ uPc = "enlisted" => settled[uNow] = "none"
  /\ uBuf # Nobody => settled[uBuf] = "none"
  /\ \A u \in Speeches : settled[u] # "none" => u <= uNow
  /\ \A u \in 1..uNow : settled[u] # "none" \/ InHand(u)

\* The current utterance has no commit yet.
NotCommitted == uPc \in {"head", "heard", "tail", "spoken", "ending"}

\* A commit in flight is one of an utterance committed once, and not resolved yet.
PendingOnce ==
  /\ \A s \in Streams : IsInjective(sPending[s])
  /\ \A s, r \in Streams : s # r => Range(sPending[s]) \cap Range(sPending[r]) = {}
  /\ \A s \in Streams : \A u \in Range(sPending[s]) : cTimes[u] = 0
  /\ \A u \in Speeches : cTimes[u] # 0 => u <= uNow /\ (NotCommitted => u # uNow)
  /\ \A s \in Streams : \A u \in Range(sPending[s]) :
       u <= uNow /\ (NotCommitted => u # uNow)

\* No audio is there before it was said.
AudioSaid ==
  /\ \A s \in Streams : \A a \in sAudio[s] : a[1] <= uNow
  /\ \A u \in Speeches : \A a \in cAudio[u] : a[1] <= u

\* How far the teardown is.
TornDownSoFar ==
  /\ chan = "closed" <=> tPc \in {"worker", "done"}
  /\ tPc # "bound" <=> segClosed

\* SpeechInv, and in whose hands an utterance and its commit are between two steps.
LaneInv ==
  SpeechInv /\ LoopSound /\ OneHand /\ PendingOnce /\ AudioSaid /\ TornDownSoFar

\* What Append gives: its elements, each once if the new one is new.
LEMMA AppendRange ==
  ASSUME NEW S, NEW s \in Seq(S), NEW x \in S
  PROVE  /\ Append(s, x) \in Seq(S) /\ Append(s, x) # <<>>
         /\ Range(Append(s, x)) = Range(s) \cup {x}
         /\ IsInjective(s) /\ x \notin Range(s) => IsInjective(Append(s, x))
<1>1. /\ Append(s, x) \in Seq(S) /\ Append(s, x) # <<>> /\ Len(s) \in Nat
      /\ DOMAIN s = 1..Len(s) /\ DOMAIN Append(s, x) = 1..(Len(s) + 1)
      /\ Append(s, x)[Len(s) + 1] = x
      /\ \A i \in 1..Len(s) : Append(s, x)[i] = s[i]
  BY AppendProperties
<1>2. \A i \in 1..Len(s) : s[i] \in Range(s)
  BY <1>1 DEF Range
<1>3. Range(Append(s, x)) \subseteq Range(s) \cup {x}
  <2>1. \A i \in 1..(Len(s) + 1) : Append(s, x)[i] \in Range(s) \cup {x}
    BY <1>1, <1>2
  <2> QED BY <1>1, <2>1 DEF Range
<1>4. Range(s) \cup {x} \subseteq Range(Append(s, x))
  <2>1. x \in Range(Append(s, x))
    BY <1>1 DEF Range
  <2>2. Range(s) \subseteq Range(Append(s, x))
    BY <1>1 DEF Range
  <2> QED BY <2>1, <2>2
<1>5. ASSUME IsInjective(s), x \notin Range(s) PROVE IsInjective(Append(s, x))
  BY <1>1, <1>2, <1>5 DEF IsInjective
<1> QED BY <1>1, <1>3, <1>4, <1>5

\* What is left of a sequence without repetition when one of its elements is taken out:
\* all the others, each once.
LEMMA RemoveRange ==
  ASSUME NEW S, NEW s \in Seq(S), IsInjective(s), NEW i \in DOMAIN s
  PROVE  /\ RemoveAt(s, i) \in Seq(S) /\ IsInjective(RemoveAt(s, i))
         /\ Range(RemoveAt(s, i)) = Range(s) \ {s[i]}
<1> DEFINE l == SubSeq(s, 1, i - 1)
           r == SubSeq(s, i + 1, Len(s))
           t == RemoveAt(s, i)
           Old(j) == IF j <= i - 1 THEN j ELSE j + 1
<1>1. Len(s) \in Nat /\ DOMAIN s = 1..Len(s) /\ i \in 1..Len(s)
      /\ \A j \in 1..Len(s) : s[j] \in S
  OBVIOUS
<1>2. /\ l \in Seq(S) /\ Len(l) = i - 1
      /\ \A j \in 1..(i - 1) : l[j] = s[j]
  <2>1. \A j \in 1..(i - 1) : s[j] \in S
    BY <1>1
  <2>2. 1 \in Int /\ i - 1 \in Int /\ i - 1 >= 0
    BY <1>1
  <2>3. /\ l \in Seq(S) /\ Len(l) = IF 1 <= i - 1 THEN (i - 1) - 1 + 1 ELSE 0
        /\ \A j \in 1..((i - 1) - 1 + 1) : l[j] = s[1 + j - 1]
    BY <2>1, <2>2, SubSeqProperties
  <2> QED BY <1>1, <2>2, <2>3
<1>3. /\ r \in Seq(S) /\ Len(r) = Len(s) - i
      /\ \A j \in 1..(Len(s) - i) : r[j] = s[i + j]
  <2>1. \A j \in (i + 1)..Len(s) : s[j] \in S
    BY <1>1
  <2>2. i + 1 \in Int /\ Len(s) \in Int
    BY <1>1
  <2>3. /\ r \in Seq(S) /\ Len(r) = IF i + 1 <= Len(s) THEN Len(s) - (i + 1) + 1 ELSE 0
        /\ \A j \in 1..(Len(s) - (i + 1) + 1) : r[j] = s[(i + 1) + j - 1]
    BY <2>1, <2>2, SubSeqProperties
  <2>4. Len(s) - (i + 1) + 1 = Len(s) - i /\ \A j \in Int : (i + 1) + j - 1 = i + j
    BY <1>1
  <2>5. Len(r) = Len(s) - i
    BY <1>1, <2>3
  <2>6. \A j \in 1..(Len(s) - i) : r[j] = s[(i + 1) + j - 1]
    BY <2>3, <2>4
  <2>7. \A j \in 1..(Len(s) - i) : j \in Int
    BY <1>1
  <2>8. \A j \in 1..(Len(s) - i) : r[j] = s[i + j]
    BY <2>4, <2>6, <2>7
  <2> QED BY <2>3, <2>5, <2>8
<1>4. t = l \o r
  BY DEF RemoveAt
<1> HIDE DEF l, r, t
<1>5. /\ t \in Seq(S) /\ Len(t) = Len(s) - 1
      /\ \A j \in 1..(Len(s) - 1) : t[j] = IF j <= i - 1 THEN l[j] ELSE r[j - (i - 1)]
  <2>1. /\ l \o r \in Seq(S) /\ Len(l \o r) = Len(l) + Len(r)
        /\ \A j \in 1..(Len(l) + Len(r)) : (l \o r)[j] = IF j <= Len(l) THEN l[j]
             ELSE r[j - Len(l)]
    BY <1>2, <1>3, ConcatProperties
  <2>2. Len(l) + Len(r) = Len(s) - 1
    BY <1>1, <1>2, <1>3
  <2> QED BY <1>1, <1>2, <1>3, <1>4, <2>1, <2>2
<1>6. DOMAIN t = 1..(Len(s) - 1)
  BY <1>5
<1>7. \A j \in 1..(Len(s) - 1) : Old(j) \in 1..Len(s) /\ Old(j) # i /\ t[j] = s[Old(j)]
  <2> TAKE j \in 1..(Len(s) - 1)
  <2>1. CASE j <= i - 1
    BY <1>1, <1>2, <1>5, <2>1
  <2>2. CASE ~(j <= i - 1)
    <3>1. j - (i - 1) \in 1..(Len(s) - i)
      BY <1>1, <2>2
    <3>2. r[j - (i - 1)] = s[i + (j - (i - 1))]
      BY <1>3, <3>1
    <3>3. i + (j - (i - 1)) = j + 1
      BY <1>1
    <3> QED BY <1>1, <1>5, <2>2, <3>1, <3>2, <3>3
  <2> QED BY <2>1, <2>2
<1>8. \A k \in 1..Len(s) : k # i => \E j \in 1..(Len(s) - 1) : Old(j) = k
  <2> TAKE k \in 1..Len(s)
  <2>1. CASE k < i
    <3>1. k \in 1..(Len(s) - 1) /\ Old(k) = k
      BY <1>1, <2>1
    <3> QED BY <3>1
  <2>2. CASE k > i
    <3>1. k - 1 \in 1..(Len(s) - 1) /\ Old(k - 1) = k
      BY <1>1, <2>2
    <3> QED BY <3>1
  <2> QED BY <1>1, <2>1, <2>2
<1>9. \A j, k \in 1..(Len(s) - 1) : Old(j) = Old(k) => j = k
  BY <1>1
<1> HIDE DEF Old
<1>10. IsInjective(t)
  BY <1>1, <1>6, <1>7, <1>9 DEF IsInjective
<1>11. Range(t) = Range(s) \ {s[i]}
  <2>1. \A j \in DOMAIN t : t[j] \in Range(s) \ {s[i]}
    BY <1>1, <1>6, <1>7 DEF Range, IsInjective
  <2>2. \A k \in DOMAIN s : s[k] # s[i] => s[k] \in Range(t)
    <3> SUFFICES ASSUME NEW k \in DOMAIN s, s[k] # s[i] PROVE s[k] \in Range(t)
      OBVIOUS
    <3>1. PICK j \in 1..(Len(s) - 1) : Old(j) = k
      BY <1>1, <1>8
    <3>2. t[j] = s[k]
      BY <1>7, <3>1
    <3> QED BY <1>6, <3>1, <3>2 DEF Range
  <2> QED BY <2>1, <2>2 DEF Range
<1> QED BY <1>5, <1>10, <1>11 DEF t

\* What is left when the first element is taken.
LEMMA TailRange ==
  ASSUME NEW S, NEW s \in Seq(S), s # <<>>, IsInjective(s)
  PROVE  /\ Head(s) \in S /\ Head(s) \in Range(s) /\ Tail(s) \in Seq(S)
         /\ IsInjective(Tail(s)) /\ Range(Tail(s)) = Range(s) \ {Head(s)}
<1>1. /\ Len(s) \in Nat \ {0} /\ DOMAIN s = 1..Len(s) /\ Head(s) = s[1] /\ Head(s) \in S
      /\ Tail(s) \in Seq(S) /\ Len(Tail(s)) = Len(s) - 1 /\ DOMAIN Tail(s) = 1..(Len(s) - 1)
      /\ \A i \in 1..(Len(s) - 1) : Tail(s)[i] = s[i + 1]
  BY HeadTailProperties
<1>2. \A i \in 1..(Len(s) - 1) : i + 1 \in 1..Len(s) /\ i + 1 # 1
  BY <1>1
<1>3. \A i \in 1..Len(s) : i # 1 => i - 1 \in 1..(Len(s) - 1) /\ (i - 1) + 1 = i
  BY <1>1
<1>4. IsInjective(Tail(s))
  BY <1>1, <1>2 DEF IsInjective
<1>5. Head(s) \in Range(s)
  BY <1>1 DEF Range
<1>6. \A i \in DOMAIN Tail(s) : Tail(s)[i] \in Range(s) \ {Head(s)}
  BY <1>1, <1>2 DEF Range, IsInjective
<1>7. \A i \in DOMAIN s : s[i] # Head(s) => s[i] \in Range(Tail(s))
  <2> SUFFICES ASSUME NEW i \in DOMAIN s, s[i] # Head(s) PROVE s[i] \in Range(Tail(s))
    OBVIOUS
  <2>1. i # 1 /\ i - 1 \in DOMAIN Tail(s) /\ Tail(s)[i - 1] = s[i]
    BY <1>1, <1>3
  <2> QED BY <2>1 DEF Range
<1>8. Range(Tail(s)) = Range(s) \ {Head(s)}
  BY <1>6, <1>7 DEF Range
<1> QED BY <1>1, <1>4, <1>5, <1>8

\* Nothing is in an empty sequence, and only in an empty one.
LEMMA EmptyRange ==
  ASSUME NEW S, NEW s \in Seq(S)
  PROVE  /\ <<>> \in Seq(S) /\ Range(<<>>) = {} /\ IsInjective(<<>>)
         /\ Range(s) \subseteq S /\ (Range(s) = {} <=> s = <<>>)
<1>1. Len(s) \in Nat /\ DOMAIN s = 1..Len(s) /\ \A i \in 1..Len(s) : s[i] \in S
  OBVIOUS
<1>2. DOMAIN <<>> = {} /\ <<>> \in Seq(S)
  OBVIOUS
<1>3. Range(<<>>) = {} /\ IsInjective(<<>>)
  BY <1>2 DEF Range, IsInjective
<1>4. Range(s) \subseteq S
  BY <1>1 DEF Range
<1>5. s # <<>> => s[1] \in Range(s)
  <2>1. s # <<>> => Len(s) # 0
    OBVIOUS
  <2> QED BY <1>1, <2>1 DEF Range
<1> QED BY <1>2, <1>3, <1>4, <1>5

USE SpeechAssumption

\* The maintainer dials, waits, backs off and installs a session; once gone it takes no step.
LEMMA MaintainerStepKeeps ==
  ASSUME LaneInv, MaintainerStep
  PROVE  LaneInv'
<1> USE DEF LaneInv, SpeechInv
<1>0. /\ UNCHANGED <<uPc, uNow, uBuf, uSession, uCommit, uFinal, mDead, mBound, sAudio,
                     sPending, cResult, cAudio, cTimes, scribe, jobs, jobCommit, chan, tPc,
                     segClosed, settled, text>>
      /\ mPc # "gone" /\ mPc' \in {"dialing", "up", "waiting", "sleeping", "gone"}
      /\ mPoke' \in BOOLEAN /\ mStream' \in 0..MaxStreams
      /\ sState' \in [Streams -> {"none", "open", "dead", "drained"}]
      /\ \A r \in Streams : sState'[r] = "drained" => sState[r] = "drained"
  <2>1. /\ mPoke \in BOOLEAN /\ mStream \in 0..MaxStreams
             /\ sState \in [Streams -> {"none", "open", "dead", "drained"}]
    BY DEF SpeechTypeOK
  <2>2. CASE DialSucceeds
    <3>1. PICK s \in Streams : sState' = [sState EXCEPT ![s] = "open"] /\ mStream' = s
      BY <2>2 DEF DialSucceeds
    <3> QED BY <2>1, <2>2, <3>1 DEF DialSucceeds, Streams, loopVars, managerVars,
                   sessionVars, commitVars, workVars, teardownVars, onlyMaintainer,
                   onlySession, onlyLoop, onlyWorker, onlyTeardown
  <2>3. CASE DialFails \/ DrainStalePoke \/ Poked \/ BackoffEnds \/ MaintainerStops
    BY <2>1, <2>3 DEF DialFails, DrainStalePoke, Poked, BackoffEnds, MaintainerStops,
           loopVars, managerVars, sessionVars, commitVars, workVars, teardownVars,
           onlyMaintainer, onlySession, onlyLoop, onlyWorker, onlyTeardown
  <2> QED BY <2>2, <2>3 DEF MaintainerStep
<1>1. SpeechTypeOK'
  <2>1. {mDead, mPoke, mBound, segClosed} \subseteq BOOLEAN
    BY DEF SpeechTypeOK
  <2>2. {mDead', mPoke', mBound', segClosed'} \subseteq BOOLEAN
    <3> HIDE DEF LaneInv, SpeechInv
    <3> QED BY <1>0, <2>1
  <2>3. SpeechTypeOK
    OBVIOUS
  <2> HIDE DEF LaneInv, SpeechInv
  <2> QED BY <1>0, <2>2, <2>3 DEF SpeechTypeOK, Nobody, Streams, Speeches
<1>2. ResolvesOnce'
  BY <1>0 DEF ResolvesOnce, PendingOnce, SpeechTypeOK, Speeches
<1>3. StreamsClosed'
  BY <1>0 DEF StreamsClosed, Nobody
<1>4. OneHand'
  BY <1>0 DEF OneHand, InHand
<1>5. NoSendOnClosed' /\ TranscribedOnce' /\ FlushDrains' /\ NoForeignTail' /\ LoopSound'
      /\ PendingOnce' /\ AudioSaid' /\ TornDownSoFar'
  BY <1>0 DEF NoSendOnClosed, TranscribedOnce, FlushDrains, NoForeignTail, LoopSound,
         PendingOnce, AudioSaid, TornDownSoFar, NotCommitted
<1> QED BY <1>1, <1>2, <1>3, <1>4, <1>5

\* The provider resolves the commit at the front of a session's queue.
LEMMA ProviderAnswersKeeps ==
  ASSUME LaneInv, NEW s \in Streams, ProviderAnswers(s)
  PROVE  LaneInv'
<1> USE DEF LaneInv, SpeechInv
<1>0. /\ UNCHANGED <<uPc, uNow, uBuf, uSession, uCommit, uFinal, mPc, mStream, mDead,
                     mPoke, mBound, sState, sAudio, cAudio, scribe, jobs, jobCommit, chan,
                     tPc, segClosed, settled, text>>
      /\ sState[s] = "open" /\ \A r \in Streams : r # s => sPending'[r] = sPending[r]
      /\ cResult' \in [Speeches -> {"none", "text", "error"}]
           /\ cTimes' \in [Speeches -> 0..2]
      /\ sPending' \in [Streams -> Seq(Speeches)]
           /\ \A r \in Streams : IsInjective(sPending'[r])
      /\ \E u \in Range(sPending[s]) :
           /\ \A r \in Streams : Range(sPending'[r]) = IF r = s
                THEN Range(sPending[r]) \ {u} ELSE Range(sPending[r])
           /\ \A v \in Speeches : cTimes'[v] = IF v = u THEN cTimes[v] + 1 ELSE cTimes[v]
  <2>1. /\ sPending \in [Streams -> Seq(Speeches)] /\ sPending[s] \in Seq(Speeches)
             /\ sPending[s] # <<>>
        /\ cResult \in [Speeches -> {"none", "text", "error"}]
             /\ cTimes \in [Speeches -> 0..2]
        /\ \A r \in Streams : IsInjective(sPending[r])
    BY DEF ProviderAnswers, SpeechTypeOK, PendingOnce
  <2> DEFINE u == Head(sPending[s])
  <2>2. /\ u \in Speeches /\ u \in Range(sPending[s]) /\ Tail(sPending[s]) \in Seq(Speeches)
        /\ IsInjective(Tail(sPending[s]))
             /\ Range(Tail(sPending[s])) = Range(sPending[s]) \ {u}
    BY <2>1, TailRange
  <2>3. cTimes[u] = 0
    BY <2>2 DEF PendingOnce
  <2>4. PICK result \in {"text", "error"} : ResolveCommits({u}, result)
    BY DEF ProviderAnswers
  <2> HIDE DEF u
  <2>5. /\ cResult' \in [Speeches -> {"none", "text", "error"}]
        /\ \A v \in Speeches : cTimes'[v] = IF v = u THEN cTimes[v] + 1 ELSE cTimes[v]
        /\ cTimes' = [v \in Speeches |-> IF v \in {u} THEN cTimes[v] + 1 ELSE cTimes[v]]
    BY <2>1, <2>4 DEF ResolveCommits
  <2>6. cTimes' \in [Speeches -> 0..2]
    BY <2>1, <2>3, <2>5
  <2>7. sPending' = [sPending EXCEPT ![s] = Tail(sPending[s])]
    BY DEF ProviderAnswers
  <2>8. /\ sPending' \in [Streams -> Seq(Speeches)]
        /\ \A r \in Streams : sPending'[r] = IF r = s THEN Tail(sPending[s])
             ELSE sPending[r]
    BY <2>1, <2>2, <2>7
  <2>9. /\ \A r \in Streams : IsInjective(sPending'[r])
        /\ \A r \in Streams : Range(sPending'[r]) = IF r = s THEN Range(sPending[r]) \ {u}
             ELSE Range(sPending[r])
    BY <2>1, <2>2, <2>8
  <2>10. /\ sState[s] = "open"
         /\ UNCHANGED <<uPc, uNow, uBuf, uSession, uCommit, uFinal, mPc, mStream, mDead,
                        mPoke, mBound, sState, sAudio, cAudio, scribe, jobs, jobCommit,
                        chan, tPc, segClosed, settled, text>>
    BY DEF ProviderAnswers, ResolveCommits, loopVars, managerVars, sessionVars, commitVars,
           workVars, teardownVars, onlyMaintainer, onlySession, onlyLoop, onlyWorker,
           onlyTeardown
  <2> QED BY <2>2, <2>5, <2>6, <2>8, <2>9, <2>10
<1>1. SpeechTypeOK'
  <2>1. {mDead, mPoke, mBound, segClosed} \subseteq BOOLEAN
    BY DEF SpeechTypeOK
  <2>2. {mDead', mPoke', mBound', segClosed'} \subseteq BOOLEAN
    <3> HIDE DEF LaneInv, SpeechInv
    <3> QED BY <1>0, <2>1
  <2>3. SpeechTypeOK
    OBVIOUS
  <2> HIDE DEF LaneInv, SpeechInv
  <2> QED BY <1>0, <2>2, <2>3 DEF SpeechTypeOK, Nobody, Streams, Speeches
<1>2. ResolvesOnce'
  <2>1. \A u \in Speeches : cTimes[u] <= 1 /\ cTimes[u] \in 0..2
    BY DEF ResolvesOnce, SpeechTypeOK
  <2>2. \A s1 \in Streams : \A u \in Range(sPending[s1]) : cTimes[u] = 0
    BY DEF PendingOnce
  <2>3. \A u \in Speeches : cTimes'[u] <= 1
    BY <1>0, <2>1, <2>2
  <2> QED BY <1>0, <2>3 DEF ResolvesOnce
<1>3. PendingOnce'
  <2>1. /\ \A s1, r \in Streams : s1 # r => Range(sPending[s1]) \cap Range(sPending[r]) = {}
        /\ \A s1 \in Streams : \A v \in Range(sPending[s1]) :
             cTimes[v] = 0 /\ v <= uNow /\ (NotCommitted => v # uNow)
        /\ \A v \in Speeches : cTimes[v] # 0 => v <= uNow /\ (NotCommitted => v # uNow)
        /\ \A s1 \in Streams : Range(sPending[s1]) \subseteq Speeches
    BY EmptyRange DEF PendingOnce, SpeechTypeOK
  <2>2. /\ NotCommitted' => NotCommitted
        /\ uNow' = uNow
    BY <1>0 DEF NotCommitted
  <2>3. \A r \in Streams : Range(sPending'[r]) \subseteq Range(sPending[r])
    BY <1>0
  <2>4. \A s1, r \in Streams : s1 # r => Range(sPending'[s1]) \cap Range(sPending'[r]) = {}
    BY <2>1, <2>3
  <2>5. \A s1 \in Streams : \A v \in Range(sPending'[s1]) : cTimes'[v] = 0
    <3> TAKE s1 \in Streams
    <3> TAKE v \in Range(sPending'[s1])
    <3>1. v \in Range(sPending[s1]) /\ v \in Speeches /\ cTimes[v] = 0
      BY <2>1, <2>3
    <3>2. PICK u \in Range(sPending[s]) :
            /\ \A r \in Streams : Range(sPending'[r]) = IF r = s
                 THEN Range(sPending[r]) \ {u} ELSE Range(sPending[r])
            /\ \A w \in Speeches : cTimes'[w] = IF w = u THEN cTimes[w] + 1 ELSE cTimes[w]
      BY <1>0
    <3>3. v # u
      <4>1. CASE s1 = s
        BY <3>2, <4>1
      <4>2. CASE s1 # s
        <5> HIDE DEF LaneInv, SpeechInv
        <5> QED BY <2>1, <3>1, <3>2, <4>2
      <4> QED BY <4>1, <4>2
    <3>4. cTimes'[v] = cTimes[v]
      BY <3>1, <3>2, <3>3
    <3> QED BY <3>1, <3>4
  <2>6. \A v \in Speeches : cTimes'[v] # 0 => v <= uNow' /\ (NotCommitted' => v # uNow')
    <3> TAKE v \in Speeches
    <3>1. cTimes'[v] # 0 => cTimes[v] # 0 \/ \E r \in Streams : v \in Range(sPending[r])
      BY <1>0
    <3> QED BY <2>1, <2>2, <3>1
  <2>7. \A s1 \in Streams : \A v \in Range(sPending'[s1]) : v <= uNow' /\ (NotCommitted'
        => v # uNow')
    BY <2>1, <2>2, <2>3
  <2>8. \A s1 \in Streams : IsInjective(sPending'[s1])
    BY <1>0
  <2> QED BY <2>4, <2>5, <2>6, <2>7, <2>8 DEF PendingOnce
<1>4. OneHand'
  BY <1>0 DEF OneHand, InHand
<1>5. NoSendOnClosed' /\ TranscribedOnce' /\ FlushDrains' /\ StreamsClosed'
      /\ NoForeignTail' /\ LoopSound' /\ AudioSaid' /\ TornDownSoFar'
  BY <1>0 DEF NoSendOnClosed, TranscribedOnce, FlushDrains, StreamsClosed, NoForeignTail,
         LoopSound, AudioSaid, TornDownSoFar
<1> QED BY <1>1, <1>2, <1>3, <1>4, <1>5

\* A session that dies forgets the audio no commit has taken.
LEMMA SessionDiesKeeps ==
  ASSUME LaneInv, NEW s \in Streams, SessionDies(s)
  PROVE  LaneInv'
<1> USE DEF LaneInv, SpeechInv
<1>0. /\ UNCHANGED <<uPc, uNow, uBuf, uSession, uCommit, uFinal, mPc, mStream, mDead,
                     mPoke, mBound, sPending, cResult, cAudio, cTimes, scribe, jobs,
                     jobCommit, chan, tPc, segClosed, settled, text>>
      /\ sState' \in [Streams -> {"none", "open", "dead", "drained"}]
           /\ sAudio' \in [Streams -> SUBSET (Speeches \X Parts)]
      /\ \A r \in Streams : (sState'[r] = "drained" => sState[r] = "drained")
           /\ sAudio'[r] \subseteq sAudio[r]
  BY DEF SessionDies, loopVars, managerVars, sessionVars, commitVars, workVars,
         teardownVars, onlyMaintainer, onlySession, onlyLoop, onlyWorker, onlyTeardown,
         SpeechTypeOK
<1>1. SpeechTypeOK'
  <2>1. {mDead, mPoke, mBound, segClosed} \subseteq BOOLEAN
    BY DEF SpeechTypeOK
  <2>2. {mDead', mPoke', mBound', segClosed'} \subseteq BOOLEAN
    <3> HIDE DEF LaneInv, SpeechInv
    <3> QED BY <1>0, <2>1
  <2>3. SpeechTypeOK
    OBVIOUS
  <2> HIDE DEF LaneInv, SpeechInv
  <2> QED BY <1>0, <2>2, <2>3 DEF SpeechTypeOK, Nobody, Streams, Speeches
<1>2. ResolvesOnce'
  BY <1>0 DEF ResolvesOnce, PendingOnce, SpeechTypeOK, Speeches
<1>3. AudioSaid'
  BY <1>0 DEF AudioSaid, SpeechTypeOK, Speeches, LoopSound, Nobody
<1>4. OneHand'
  BY <1>0 DEF OneHand, InHand
<1>5. NoSendOnClosed' /\ TranscribedOnce' /\ FlushDrains' /\ StreamsClosed'
      /\ NoForeignTail' /\ LoopSound' /\ PendingOnce' /\ TornDownSoFar'
  BY <1>0 DEF NoSendOnClosed, TranscribedOnce, FlushDrains, StreamsClosed, NoForeignTail,
         LoopSound, PendingOnce, TornDownSoFar, NotCommitted
<1> QED BY <1>1, <1>2, <1>3, <1>4, <1>5

\* The death of a session fails every commit in its queue, each of them once.
LEMMA DrainPendingKeeps ==
  ASSUME LaneInv, NEW s \in Streams, DrainPending(s)
  PROVE  LaneInv'
<1> USE DEF LaneInv, SpeechInv
<1>0. /\ UNCHANGED <<uPc, uNow, uBuf, uSession, uCommit, uFinal, mPc, mStream, mDead,
                     mPoke, mBound, sAudio, cAudio, scribe, jobs, jobCommit, chan, tPc,
                     segClosed, settled, text>>
      /\ sState' \in [Streams -> {"none", "open", "dead", "drained"}]
           /\ sPending' \in [Streams -> Seq(Speeches)]
      /\ cResult' \in [Speeches -> {"none", "text", "error"}]
           /\ cTimes' \in [Speeches -> 0..2]
      /\ \A r \in Streams : sState'[r] = IF r = s THEN "drained" ELSE sState[r]
      /\ \A r \in Streams : sPending'[r] = IF r = s THEN <<>> ELSE sPending[r]
      /\ \A r \in Streams : IsInjective(sPending'[r])
      /\ \A r \in Streams : Range(sPending'[r]) = IF r = s THEN {} ELSE Range(sPending[r])
      /\ \A v \in Speeches : cTimes'[v] = IF v \in Range(sPending[s]) THEN cTimes[v] + 1
           ELSE cTimes[v]
  <2>1. /\ sPending \in [Streams -> Seq(Speeches)] /\ sState \in [Streams -> {"none",
               "open", "dead", "drained"}]
        /\ cResult \in [Speeches -> {"none", "text", "error"}]
             /\ cTimes \in [Speeches -> 0..2]
        /\ \A r \in Streams : IsInjective(sPending[r])
        /\ \A v \in Range(sPending[s]) : cTimes[v] = 0
    BY DEF SpeechTypeOK, PendingOnce
  <2>2. <<>> \in Seq(Speeches) /\ Range(<<>>) = {} /\ IsInjective(<<>>)
    BY <2>1, EmptyRange
  <2>3. /\ cResult' \in [Speeches -> {"none", "text", "error"}]
        /\ \A v \in Speeches : cTimes'[v] = IF v \in Range(sPending[s]) THEN cTimes[v] + 1
             ELSE cTimes[v]
        /\ cTimes' = [v \in Speeches |-> IF v \in Range(sPending[s]) THEN cTimes[v] + 1
                      ELSE cTimes[v]]
    BY <2>1 DEF DrainPending, ResolveCommits
  <2>4. cTimes' \in [Speeches -> 0..2]
    BY <2>1, <2>3
  <2>5. /\ sPending' = [sPending EXCEPT ![s] = <<>>]
             /\ sState' = [sState EXCEPT ![s] = "drained"]
    BY DEF DrainPending
  <2>6. /\ sPending' \in [Streams -> Seq(Speeches)]
        /\ \A r \in Streams : sPending'[r] = IF r = s THEN <<>> ELSE sPending[r]
        /\ sState' \in [Streams -> {"none", "open", "dead", "drained"}]
        /\ \A r \in Streams : sState'[r] = IF r = s THEN "drained" ELSE sState[r]
    BY <2>1, <2>2, <2>5
  <2>7. /\ \A r \in Streams : IsInjective(sPending'[r])
        /\ \A r \in Streams : Range(sPending'[r]) = IF r = s THEN {} ELSE Range(sPending[r])
    BY <2>1, <2>2, <2>6
  <2>8. UNCHANGED <<uPc, uNow, uBuf, uSession, uCommit, uFinal, mPc, mStream, mDead, mPoke,
                    mBound, sAudio, cAudio, scribe, jobs, jobCommit, chan, tPc, segClosed,
                    settled, text>>
    BY DEF DrainPending, ResolveCommits, loopVars, managerVars, sessionVars, commitVars,
           workVars, teardownVars, onlyMaintainer, onlySession, onlyLoop, onlyWorker,
           onlyTeardown
  <2> HIDE DEF LaneInv, SpeechInv
  <2> QED BY <2>3, <2>4, <2>6, <2>7, <2>8
<1>1. SpeechTypeOK'
  <2>1. {mDead, mPoke, mBound, segClosed} \subseteq BOOLEAN
    BY DEF SpeechTypeOK
  <2>2. {mDead', mPoke', mBound', segClosed'} \subseteq BOOLEAN
    <3> HIDE DEF LaneInv, SpeechInv
    <3> QED BY <1>0, <2>1
  <2>3. SpeechTypeOK
    OBVIOUS
  <2> HIDE DEF LaneInv, SpeechInv
  <2> QED BY <1>0, <2>2, <2>3 DEF SpeechTypeOK
<1>2. ResolvesOnce'
  <2>1. \A u \in Speeches : cTimes[u] <= 1 /\ cTimes[u] \in 0..2
    BY DEF ResolvesOnce, SpeechTypeOK
  <2>2. \A s1 \in Streams : \A u \in Range(sPending[s1]) : cTimes[u] = 0
    BY DEF PendingOnce
  <2>3. \A u \in Speeches : cTimes'[u] <= 1
    BY <1>0, <2>1, <2>2
  <2> QED BY <1>0, <2>3 DEF ResolvesOnce
<1>3. PendingOnce'
  <2>1. /\ \A s1, r \in Streams : s1 # r => Range(sPending[s1]) \cap Range(sPending[r]) = {}
        /\ \A s1 \in Streams : \A v \in Range(sPending[s1]) :
             cTimes[v] = 0 /\ v <= uNow /\ (NotCommitted => v # uNow)
        /\ \A v \in Speeches : cTimes[v] # 0 => v <= uNow /\ (NotCommitted => v # uNow)
        /\ \A s1 \in Streams : Range(sPending[s1]) \subseteq Speeches
    BY EmptyRange DEF PendingOnce, SpeechTypeOK
  <2>2. /\ NotCommitted' => NotCommitted
        /\ uNow' = uNow
    BY <1>0 DEF NotCommitted
  <2>3. \A r \in Streams : Range(sPending'[r]) \subseteq Range(sPending[r])
    BY <1>0
  <2>4. \A s1, r \in Streams : s1 # r => Range(sPending'[s1]) \cap Range(sPending'[r]) = {}
    BY <2>1, <2>3
  <2>5. \A s1 \in Streams : \A v \in Range(sPending'[s1]) : cTimes'[v] = 0
    <3> TAKE s1 \in Streams
    <3> TAKE v \in Range(sPending'[s1])
    <3>1. v \in Range(sPending[s1]) /\ v \in Speeches /\ cTimes[v] = 0
      BY <2>1, <2>3
    <3>2. cTimes'[v] = cTimes[v]
      BY <1>0, <2>1, <3>1
    <3> QED BY <3>1, <3>2
  <2>6. \A v \in Speeches : cTimes'[v] # 0 => v <= uNow' /\ (NotCommitted' => v # uNow')
    <3> TAKE v \in Speeches
    <3>1. cTimes'[v] # 0 => cTimes[v] # 0 \/ \E r \in Streams : v \in Range(sPending[r])
      BY <1>0
    <3> QED BY <2>1, <2>2, <3>1
  <2>7. \A s1 \in Streams : \A v \in Range(sPending'[s1]) : v <= uNow' /\ (NotCommitted'
        => v # uNow')
    BY <2>1, <2>2, <2>3
  <2>8. \A s1 \in Streams : IsInjective(sPending'[s1])
    BY <1>0
  <2> QED BY <2>4, <2>5, <2>6, <2>7, <2>8 DEF PendingOnce
<1>4. OneHand'
  BY <1>0 DEF OneHand, InHand
<1>5. NoSendOnClosed' /\ TranscribedOnce' /\ FlushDrains' /\ StreamsClosed'
      /\ NoForeignTail' /\ LoopSound' /\ AudioSaid' /\ TornDownSoFar'
  BY <1>0 DEF NoSendOnClosed, TranscribedOnce, FlushDrains, StreamsClosed, NoForeignTail,
         LoopSound, AudioSaid, TornDownSoFar
<1> QED BY <1>1, <1>2, <1>3, <1>4, <1>5

\* The next utterance is in the buffer, and nothing is known of it before.
LEMMA BeginUtteranceKeeps ==
  ASSUME LaneInv, BeginUtterance
  PROVE  LaneInv'
<1> USE DEF LaneInv, SpeechInv
<1>0. /\ UNCHANGED <<uCommit, uFinal, mPc, mStream, mPoke, mBound, sState, sAudio,
                     sPending, cResult, cAudio, cTimes, scribe, jobs, jobCommit, chan, tPc,
                     segClosed, settled, text>>
      /\ uPc = "idle" /\ uPc' = "head" /\ ~segClosed
      /\ uNow' = uNow + 1 /\ uBuf' = uNow + 1 /\ uNow < MaxSpeeches /\ uNow \in Nat
      /\ uSession' \in 0..MaxStreams /\ mDead' \in BOOLEAN
  BY DEF BeginUtterance, LoopTo, loopVars, managerVars, sessionVars, commitVars, workVars,
         teardownVars, onlyMaintainer, onlySession, onlyLoop, onlyWorker, onlyTeardown,
         SpeechTypeOK
<1>1. SpeechTypeOK'
  <2>1. {mDead, mPoke, mBound, segClosed} \subseteq BOOLEAN
    BY DEF SpeechTypeOK
  <2>2. {mDead', mPoke', mBound', segClosed'} \subseteq BOOLEAN
    <3> HIDE DEF LaneInv, SpeechInv
    <3> QED BY <1>0, <2>1
  <2>3. SpeechTypeOK
    OBVIOUS
  <2> HIDE DEF LaneInv, SpeechInv
  <2> QED BY <1>0, <2>2, <2>3 DEF SpeechTypeOK, Nobody, Streams, Speeches
<1>2. NoSendOnClosed'
  BY <1>0 DEF NoSendOnClosed, TornDownSoFar, OneHand, Free, LoopSound, Transcribers
<1>3. TranscribedOnce'
  BY <1>0 DEF TranscribedOnce, OneHand, LoopSound, SpeechTypeOK, Speeches, Nobody,
         Transcribers
<1>4. FlushDrains'
  BY <1>0 DEF FlushDrains, OneHand, LoopSound, SpeechTypeOK, InHand, Nobody, Transcribers
<1>5. LoopSound'
  BY <1>0 DEF LoopSound, Nobody, Speeches, SpeechTypeOK
<1>6. OneHand'
  <2>1. /\ uNow' = uNow + 1 /\ uBuf' = uNow + 1 /\ uNow < MaxSpeeches /\ uNow \in Nat
             /\ uPc = "idle" /\ uPc' = "head"
        /\ UNCHANGED <<jobs, scribe, settled>>
    BY <1>0
  <2>2. \A v \in 0..MaxSpeeches : v <= uNow => v <= uNow' /\ v # uBuf'
    BY <2>1
  <2>3. uBuf = 0 /\ Range(jobs) \subseteq Speeches
        /\ \A p \in Transcribers : scribe[p].u \in 0..MaxSpeeches
    BY <2>1, EmptyRange DEF LoopSound, Nobody, SpeechTypeOK
  <2>4. IsInjective(jobs') /\ \A u \in Range(jobs') :
          u <= uNow' /\ u # uBuf' /\ settled'[u] = "none"
            /\ \A p \in Transcribers : scribe'[p].u # u
    BY <2>1, <2>2, <2>3 DEF OneHand, Speeches
  <2>5. \A p \in Transcribers :
          /\ scribe'[p].u = Nobody <=> scribe'[p].at = "free"
          /\ scribe'[p].u # Nobody => scribe'[p].u <= uNow' /\ scribe'[p].u # uBuf'
               /\ settled'[scribe'[p].u] = "none"
    BY <2>1, <2>2, <2>3 DEF OneHand
  <2>6. scribe'["inline"].u = Nobody
    BY <2>1 DEF OneHand
  <2>7. settled[uNow + 1] = "none"
    <3>1. uNow + 1 \in Speeches /\ ~(uNow + 1 <= uNow)
      BY <2>1 DEF Speeches
    <3> QED BY <3>1 DEF OneHand
  <2>8. \A u \in Speeches : settled'[u] # "none" => u <= uNow'
    <3>1. \A u \in Speeches : settled[u] # "none" => u <= uNow
      BY DEF OneHand
    <3> QED BY <2>1, <3>1 DEF Speeches
  <2>9. \A u \in 1..uNow' : settled'[u] # "none" \/ InHand(u)'
    <3> TAKE u \in 1..uNow'
    <3>1. u = uNow + 1 \/ u \in 1..uNow
      BY <2>1
    <3>2. CASE u = uNow + 1
      BY <2>1, <3>2 DEF InHand
    <3>3. CASE u \in 1..uNow
      <4>1. settled[u] # "none" \/ InHand(u)
        BY <3>3 DEF OneHand
      <4>2. u # uBuf
        BY <2>3, <3>3
      <4> QED BY <2>1, <4>1, <4>2 DEF InHand
    <3> QED BY <3>1, <3>2, <3>3
  <2> QED BY <2>1, <2>4, <2>5, <2>6, <2>7, <2>8, <2>9 DEF OneHand
<1>7. PendingOnce'
  <2>1. uNow' = uNow + 1 /\ uNow \in Nat /\ UNCHANGED <<sPending, cTimes>>
    BY <1>0
  <2>2. /\ \A s1 \in Streams : \A v \in Range(sPending[s1]) : v \in Speeches /\ v <= uNow
        /\ \A v \in Speeches : cTimes[v] # 0 => v <= uNow
    BY EmptyRange DEF PendingOnce, SpeechTypeOK
  <2>3. \A v \in Speeches : v <= uNow => v <= uNow' /\ v # uNow'
    BY <2>1 DEF Speeches
  <2> QED BY <2>1, <2>2, <2>3 DEF PendingOnce
<1>8. AudioSaid'
  BY <1>0 DEF AudioSaid, SpeechTypeOK, Speeches, LoopSound, Nobody
<1>9. ResolvesOnce' /\ StreamsClosed' /\ NoForeignTail' /\ TornDownSoFar'
  BY <1>0 DEF ResolvesOnce, StreamsClosed, NoForeignTail, TornDownSoFar
<1> QED BY <1>1, <1>2, <1>3, <1>4, <1>5, <1>6, <1>7, <1>8, <1>9

\* The head goes to the session read at the start, which may have died since.
LEMMA SendHeadKeeps ==
  ASSUME LaneInv, SendHead
  PROVE  LaneInv'
<1> USE DEF LaneInv, SpeechInv
<1>0. /\ UNCHANGED <<uNow, uBuf, uCommit, uFinal, mPc, mBound, sState, sPending, cResult,
                     cAudio, cTimes, scribe, jobs, jobCommit, chan, tPc, segClosed,
                     settled, text>>
      /\ uPc = "head" /\ uPc' = "heard" /\ uSession' = 0
      /\ mStream' \in {mStream, 0} /\ mDead' \in BOOLEAN /\ mPoke' \in BOOLEAN
      /\ sAudio' \in [Streams -> SUBSET (Speeches \X Parts)]
      /\ \A r \in Streams : \A a \in sAudio'[r] : a \in sAudio[r] \/ a[1] = uNow
  <2>1. /\ uNow \in Speeches /\ sAudio \in [Streams -> SUBSET (Speeches \X Parts)]
             /\ mStream \in 0..MaxStreams
        /\ mDead \in BOOLEAN /\ mPoke \in BOOLEAN /\ uSession \in 0..MaxStreams
    BY DEF SendHead, SpeechTypeOK, LoopSound, Speeches, Nobody
  <2>2. \/ uSession = Nobody /\ mPoke' = TRUE /\ UNCHANGED <<mDead, mStream, sAudio>>
        \/ uSession # Nobody /\ Send(uSession, "head")
    BY DEF SendHead, LoopSound, Nobody
  <2>3. /\ mStream' \in {mStream, 0} /\ mDead' \in BOOLEAN /\ mPoke' \in BOOLEAN
    BY <2>1, <2>2 DEF Send, SessionFailed, Nobody
  <2>4. \/ sAudio' = sAudio
        \/ uSession \in Streams
             /\ sAudio' = [sAudio EXCEPT ![uSession] = sAudio[uSession] \cup {<<uNow,
                                                                                "head">>}]
    BY <2>1, <2>2 DEF Send, Nobody, Streams
  <2>5. <<uNow, "head">> \in Speeches \X Parts /\ <<uNow, "head">>[1] = uNow
    BY <2>1 DEF Parts
  <2> DEFINE sound == <<uNow, "head">>
  <2>6. /\ sAudio' \in [Streams -> SUBSET (Speeches \X Parts)]
        /\ \A r \in Streams : \A a \in sAudio'[r] : a \in sAudio[r] \/ a[1] = uNow
    <3> HIDE DEF sound
    <3>1. CASE sAudio' = sAudio
      BY <2>1, <3>1
    <3>2. CASE uSession \in Streams
          /\ sAudio' = [sAudio EXCEPT ![uSession] = sAudio[uSession] \cup {sound}]
      <4>1. sAudio[uSession] \cup {sound} \in SUBSET (Speeches \X Parts)
        BY <2>1, <2>5, <3>2 DEF sound
      <4>2. \A r \in Streams : sAudio'[r] = IF r = uSession THEN sAudio[r] \cup {sound}
            ELSE sAudio[r]
        BY <2>1, <3>2
      <4>3. sound[1] = uNow
        BY <2>5 DEF sound
      <4> QED BY <2>1, <3>2, <4>1, <4>2, <4>3
    <3> QED BY <2>4, <3>1, <3>2 DEF sound
  <2>7. /\ uPc = "head" /\ uPc' = "heard" /\ uSession' = Nobody
        /\ UNCHANGED <<uNow, uBuf, uCommit, uFinal, mPc, mBound, sState, sPending, cResult,
                       cAudio, cTimes, scribe, jobs, jobCommit, chan, tPc, segClosed,
                       settled, text>>
    BY DEF SendHead, LoopTo, loopVars, managerVars, sessionVars, commitVars, workVars,
           teardownVars, onlyMaintainer, onlySession, onlyLoop, onlyWorker, onlyTeardown
  <2> QED BY <2>3, <2>6, <2>7 DEF Nobody
<1>1. SpeechTypeOK'
  <2>1. {mDead, mPoke, mBound, segClosed} \subseteq BOOLEAN
    BY DEF SpeechTypeOK
  <2>2. {mDead', mPoke', mBound', segClosed'} \subseteq BOOLEAN
    <3> HIDE DEF LaneInv, SpeechInv
    <3> QED BY <1>0, <2>1
  <2>3. SpeechTypeOK
    OBVIOUS
  <2> HIDE DEF LaneInv, SpeechInv
  <2> QED BY <1>0, <2>2, <2>3 DEF SpeechTypeOK, Nobody, Streams, Speeches
<1>2. NoSendOnClosed'
  BY <1>0 DEF NoSendOnClosed, TornDownSoFar, OneHand, Free, LoopSound, Transcribers
<1>3. FlushDrains'
  BY <1>0 DEF FlushDrains, OneHand, LoopSound, SpeechTypeOK, InHand, Nobody, Transcribers
<1>4. StreamsClosed'
  BY <1>0 DEF StreamsClosed, Nobody
<1>5. LoopSound'
  BY <1>0 DEF LoopSound, Nobody, Speeches, SpeechTypeOK
<1>6. OneHand'
  <2>1. \A u \in Speeches : InHand(u)' <=> InHand(u)
    BY <1>0 DEF InHand
  <2>2. uNow' = uNow /\ uNow \in Nat /\ 1..uNow \subseteq Speeches
    BY <1>0 DEF SpeechTypeOK, Speeches
  <2>3. \A u \in 1..uNow' : settled'[u] # "none" \/ InHand(u)'
    BY <1>0, <2>1, <2>2 DEF OneHand
  <2> QED BY <1>0, <2>3 DEF OneHand
<1>7. PendingOnce'
  BY <1>0 DEF PendingOnce, NotCommitted, SpeechTypeOK, Speeches, LoopSound, Nobody
<1>8. AudioSaid'
  BY <1>0 DEF AudioSaid, SpeechTypeOK, Speeches, LoopSound, Nobody
<1>9. ResolvesOnce' /\ TranscribedOnce' /\ NoForeignTail' /\ TornDownSoFar'
  BY <1>0 DEF ResolvesOnce, TranscribedOnce, NoForeignTail, TornDownSoFar
<1> QED BY <1>1, <1>2, <1>3, <1>4, <1>5, <1>6, <1>7, <1>8, <1>9

\* The tail is for the session installed now, or for none.
LEMMA ReadSessionKeeps ==
  ASSUME LaneInv, ReadSession
  PROVE  LaneInv'
<1> USE DEF LaneInv, SpeechInv
<1>0. /\ UNCHANGED <<uNow, uBuf, uCommit, uFinal, mPc, mStream, mBound, sState, sAudio,
                     sPending, cResult, cAudio, cTimes, scribe, jobs, jobCommit, chan, tPc,
                     segClosed, settled, text>>
      /\ uPc = "heard" /\ mDead' \in BOOLEAN /\ mPoke' \in BOOLEAN
      /\ \/ uPc' = "spoken" /\ uSession' = uSession
         \/ uPc' = "tail" /\ uSession' = mStream /\ mStream # 0
  BY DEF ReadSession, LoopTo, Nobody, loopVars, managerVars, sessionVars, commitVars,
         workVars, teardownVars, onlyMaintainer, onlySession, onlyLoop, onlyWorker,
         onlyTeardown, SpeechTypeOK
<1>1. SpeechTypeOK'
  <2>1. {mDead, mPoke, mBound, segClosed} \subseteq BOOLEAN
    BY DEF SpeechTypeOK
  <2>2. {mDead', mPoke', mBound', segClosed'} \subseteq BOOLEAN
    <3> HIDE DEF LaneInv, SpeechInv
    <3> QED BY <1>0, <2>1
  <2>3. SpeechTypeOK
    OBVIOUS
  <2> HIDE DEF LaneInv, SpeechInv
  <2> QED BY <1>0, <2>2, <2>3 DEF SpeechTypeOK, Nobody, Streams, Speeches
<1>2. NoSendOnClosed'
  BY <1>0 DEF NoSendOnClosed, TornDownSoFar, OneHand, Free, LoopSound, Transcribers
<1>3. FlushDrains'
  BY <1>0 DEF FlushDrains, OneHand, LoopSound, SpeechTypeOK, InHand, Nobody, Transcribers
<1>4. LoopSound'
  BY <1>0 DEF LoopSound, Nobody, Speeches, SpeechTypeOK
<1>5. OneHand'
  BY <1>0 DEF OneHand, InHand, LoopSound, SpeechTypeOK, Nobody, Speeches, Transcribers
<1>6. PendingOnce'
  BY <1>0 DEF PendingOnce, NotCommitted, SpeechTypeOK, Speeches, LoopSound, Nobody
<1>7. ResolvesOnce' /\ TranscribedOnce' /\ StreamsClosed' /\ NoForeignTail' /\ AudioSaid'
      /\ TornDownSoFar'
  BY <1>0 DEF ResolvesOnce, TranscribedOnce, StreamsClosed, NoForeignTail, AudioSaid,
         TornDownSoFar
<1> QED BY <1>1, <1>2, <1>3, <1>4, <1>5, <1>6, <1>7

\* The tail goes to the session read, which may have died since.
LEMMA SendTailKeeps ==
  ASSUME LaneInv, SendTail
  PROVE  LaneInv'
<1> USE DEF LaneInv, SpeechInv
<1>0. /\ UNCHANGED <<uNow, uBuf, uCommit, uFinal, mPc, mBound, sState, sPending, cResult,
                     cAudio, cTimes, scribe, jobs, jobCommit, chan, tPc, segClosed,
                     settled, text>>
      /\ uPc = "tail" /\ uPc' = "spoken" /\ uSession' = 0
      /\ mStream' \in {mStream, 0} /\ mDead' \in BOOLEAN /\ mPoke' \in BOOLEAN
      /\ sAudio' \in [Streams -> SUBSET (Speeches \X Parts)]
      /\ \A r \in Streams : \A a \in sAudio'[r] : a \in sAudio[r] \/ a[1] = uNow
  <2>1. /\ uNow \in Speeches /\ sAudio \in [Streams -> SUBSET (Speeches \X Parts)]
             /\ mStream \in 0..MaxStreams
        /\ mDead \in BOOLEAN /\ mPoke \in BOOLEAN /\ uSession \in 0..MaxStreams
    BY DEF SendTail, SpeechTypeOK, LoopSound, Speeches, Nobody
  <2>2. \/ uSession = Nobody /\ mPoke' = TRUE /\ UNCHANGED <<mDead, mStream, sAudio>>
        \/ uSession # Nobody /\ Send(uSession, "tail")
    BY DEF SendTail, LoopSound, Nobody
  <2>3. /\ mStream' \in {mStream, 0} /\ mDead' \in BOOLEAN /\ mPoke' \in BOOLEAN
    BY <2>1, <2>2 DEF Send, SessionFailed, Nobody
  <2>4. \/ sAudio' = sAudio
        \/ uSession \in Streams
             /\ sAudio' = [sAudio EXCEPT ![uSession] = sAudio[uSession] \cup {<<uNow,
                                                                                "tail">>}]
    BY <2>1, <2>2 DEF Send, Nobody, Streams
  <2>5. <<uNow, "tail">> \in Speeches \X Parts /\ <<uNow, "tail">>[1] = uNow
    BY <2>1 DEF Parts
  <2> DEFINE sound == <<uNow, "tail">>
  <2>6. /\ sAudio' \in [Streams -> SUBSET (Speeches \X Parts)]
        /\ \A r \in Streams : \A a \in sAudio'[r] : a \in sAudio[r] \/ a[1] = uNow
    <3> HIDE DEF sound
    <3>1. CASE sAudio' = sAudio
      BY <2>1, <3>1
    <3>2. CASE uSession \in Streams
          /\ sAudio' = [sAudio EXCEPT ![uSession] = sAudio[uSession] \cup {sound}]
      <4>1. sAudio[uSession] \cup {sound} \in SUBSET (Speeches \X Parts)
        BY <2>1, <2>5, <3>2 DEF sound
      <4>2. \A r \in Streams : sAudio'[r] = IF r = uSession THEN sAudio[r] \cup {sound}
            ELSE sAudio[r]
        BY <2>1, <3>2
      <4>3. sound[1] = uNow
        BY <2>5 DEF sound
      <4> QED BY <2>1, <3>2, <4>1, <4>2, <4>3
    <3> QED BY <2>4, <3>1, <3>2 DEF sound
  <2>7. /\ uPc = "tail" /\ uPc' = "spoken" /\ uSession' = Nobody
        /\ UNCHANGED <<uNow, uBuf, uCommit, uFinal, mPc, mBound, sState, sPending, cResult,
                       cAudio, cTimes, scribe, jobs, jobCommit, chan, tPc, segClosed,
                       settled, text>>
    BY DEF SendTail, LoopTo, loopVars, managerVars, sessionVars, commitVars, workVars,
           teardownVars, onlyMaintainer, onlySession, onlyLoop, onlyWorker, onlyTeardown
  <2> QED BY <2>3, <2>6, <2>7 DEF Nobody
<1>1. SpeechTypeOK'
  <2>1. {mDead, mPoke, mBound, segClosed} \subseteq BOOLEAN
    BY DEF SpeechTypeOK
  <2>2. {mDead', mPoke', mBound', segClosed'} \subseteq BOOLEAN
    <3> HIDE DEF LaneInv, SpeechInv
    <3> QED BY <1>0, <2>1
  <2>3. SpeechTypeOK
    OBVIOUS
  <2> HIDE DEF LaneInv, SpeechInv
  <2> QED BY <1>0, <2>2, <2>3 DEF SpeechTypeOK, Nobody, Streams, Speeches
<1>2. NoSendOnClosed'
  BY <1>0 DEF NoSendOnClosed, TornDownSoFar, OneHand, Free, LoopSound, Transcribers
<1>3. FlushDrains'
  BY <1>0 DEF FlushDrains, OneHand, LoopSound, SpeechTypeOK, InHand, Nobody, Transcribers
<1>4. StreamsClosed'
  BY <1>0 DEF StreamsClosed, Nobody
<1>5. LoopSound'
  BY <1>0 DEF LoopSound, Nobody, Speeches, SpeechTypeOK
<1>6. OneHand'
  BY <1>0 DEF OneHand, InHand, LoopSound, SpeechTypeOK, Nobody, Speeches, Transcribers
<1>7. PendingOnce'
  BY <1>0 DEF PendingOnce, NotCommitted, SpeechTypeOK, Speeches, LoopSound, Nobody
<1>8. AudioSaid'
  BY <1>0 DEF AudioSaid, SpeechTypeOK, Speeches, LoopSound, Nobody
<1>9. ResolvesOnce' /\ TranscribedOnce' /\ NoForeignTail' /\ TornDownSoFar'
  BY <1>0 DEF ResolvesOnce, TranscribedOnce, NoForeignTail, TornDownSoFar
<1> QED BY <1>1, <1>2, <1>3, <1>4, <1>5, <1>6, <1>7, <1>8, <1>9

\* The end of speech reads the session it will commit, or finds none.
LEMMA EndUtteranceKeeps ==
  ASSUME LaneInv, NEW flush \in BOOLEAN, EndUtterance(flush)
  PROVE  LaneInv'
<1> USE DEF LaneInv, SpeechInv
<1>0. /\ UNCHANGED <<uNow, uBuf, uCommit, mPc, mStream, mDead, mPoke, mBound, sState,
                     sAudio, sPending, cResult, cAudio, cTimes, scribe, jobs, jobCommit,
                     chan, tPc, segClosed, settled, text>>
      /\ uPc \in {"spoken", "heard"} /\ uFinal' \in BOOLEAN
      /\ \/ uPc' = "flush" /\ uSession' = uSession
         \/ uPc' = "ending" /\ uSession' = mStream /\ mStream # 0
  BY DEF EndUtterance, LoopTo, Nobody, loopVars, managerVars, sessionVars, commitVars,
         workVars, teardownVars, onlyMaintainer, onlySession, onlyLoop, onlyWorker,
         onlyTeardown
<1>1. SpeechTypeOK'
  <2>1. {mDead, mPoke, mBound, segClosed} \subseteq BOOLEAN
    BY DEF SpeechTypeOK
  <2>2. {mDead', mPoke', mBound', segClosed'} \subseteq BOOLEAN
    <3> HIDE DEF LaneInv, SpeechInv
    <3> QED BY <1>0, <2>1
  <2>3. SpeechTypeOK
    OBVIOUS
  <2> HIDE DEF LaneInv, SpeechInv
  <2> QED BY <1>0, <2>2, <2>3 DEF SpeechTypeOK, Nobody, Streams, Speeches
<1>2. NoSendOnClosed'
  BY <1>0 DEF NoSendOnClosed, TornDownSoFar, OneHand, Free, LoopSound, Transcribers
<1>3. FlushDrains'
  BY <1>0 DEF FlushDrains, OneHand, LoopSound, SpeechTypeOK, InHand, Nobody, Transcribers
<1>4. LoopSound'
  BY <1>0 DEF LoopSound, Nobody, Speeches, SpeechTypeOK
<1>5. OneHand'
  BY <1>0 DEF OneHand, InHand, LoopSound, SpeechTypeOK, Nobody, Speeches, Transcribers
<1>6. PendingOnce'
  BY <1>0 DEF PendingOnce, NotCommitted, SpeechTypeOK, Speeches, LoopSound, Nobody
<1>7. ResolvesOnce' /\ TranscribedOnce' /\ StreamsClosed' /\ NoForeignTail' /\ AudioSaid'
      /\ TornDownSoFar'
  BY <1>0 DEF ResolvesOnce, TranscribedOnce, StreamsClosed, NoForeignTail, AudioSaid,
         TornDownSoFar
<1> QED BY <1>1, <1>2, <1>3, <1>4, <1>5, <1>6, <1>7

\* Commit registers the utterance in one queue, in which no commit of it is yet.
LEMMA CommitSessionKeeps ==
  ASSUME LaneInv, CommitSession
  PROVE  LaneInv'
<1> USE DEF LaneInv, SpeechInv
<1>0. /\ UNCHANGED <<uNow, uBuf, uSession, uFinal, mPc, mBound, sState, sAudio, cResult,
                     cAudio, cTimes, scribe, jobs, jobCommit, chan, tPc, segClosed,
                     settled, text>>
      /\ uPc = "ending"
      /\ uCommit' \in 0..MaxSpeeches /\ mStream' \in {mStream, 0} /\ mDead' \in BOOLEAN
           /\ mPoke' \in BOOLEAN
      /\ sPending' \in [Streams -> Seq(Speeches)]
           /\ \A r \in Streams : IsInjective(sPending'[r])
      /\ \/ uPc' = "flush" /\ sPending' = sPending
         \/ /\ uPc' = "enqueueing" /\ uSession \in Streams /\ sState[uSession] # "drained"
                 /\ uNow \in Speeches
            /\ \A r \in Streams : r # uSession => sPending'[r] = sPending[r]
            /\ \A r \in Streams : Range(sPending'[r]) = IF r = uSession
                 THEN Range(sPending[r]) \cup {uNow} ELSE Range(sPending[r])
  <2>1. /\ uPc = "ending" /\ uNow \in Speeches /\ uSession \in Streams
             /\ sPending \in [Streams -> Seq(Speeches)]
        /\ mDead \in BOOLEAN /\ mPoke \in BOOLEAN /\ uCommit \in 0..MaxSpeeches
        /\ uNow \in 0..MaxSpeeches
    BY DEF CommitSession, SpeechTypeOK, LoopSound, Speeches, Streams, Nobody
  <2>2. /\ \A r \in Streams : IsInjective(sPending[r])
        /\ uNow \notin Range(sPending[uSession])
    BY <2>1 DEF PendingOnce, NotCommitted
  <2>3. UNCHANGED <<uNow, uBuf, uSession, uFinal, mPc, mBound, sState, sAudio, cResult,
                    cAudio, cTimes, scribe, jobs, jobCommit, chan, tPc, segClosed, settled,
                    text>>
    BY DEF CommitSession, LoopTo, loopVars, managerVars, sessionVars, commitVars, workVars,
           teardownVars, onlyMaintainer, onlySession, onlyLoop, onlyWorker, onlyTeardown
  <2>4. CASE /\ LoopTo("flush") /\ SessionFailed(uSession) /\ UNCHANGED <<uCommit,
                                                                          sPending>>
    BY <2>1, <2>2, <2>3, <2>4 DEF LoopTo, SessionFailed, Nobody
  <2>5. CASE /\ sState[uSession] # "drained" /\ LoopTo("enqueueing") /\ uCommit' = uNow
             /\ sPending' = [sPending EXCEPT ![uSession] = Append(sPending[uSession], uNow)]
             /\ UNCHANGED <<mDead, mStream, mPoke>>
    <3> DEFINE q == Append(sPending[uSession], uNow)
    <3>1. q \in Seq(Speeches) /\ Range(q) = Range(sPending[uSession]) \cup {uNow}
          /\ IsInjective(q)
      BY <2>1, <2>2, AppendRange
    <3> HIDE DEF q
    <3>2. sPending' = [sPending EXCEPT ![uSession] = q]
      BY <2>5 DEF q
    <3>3. /\ sPending' \in [Streams -> Seq(Speeches)]
          /\ \A r \in Streams : sPending'[r] = IF r = uSession THEN q ELSE sPending[r]
      BY <2>1, <3>1, <3>2
    <3>4. /\ \A r \in Streams : IsInjective(sPending'[r])
          /\ \A r \in Streams : Range(sPending'[r]) =
               IF r = uSession THEN Range(sPending[r]) \cup {uNow} ELSE Range(sPending[r])
      BY <2>1, <2>2, <3>1, <3>3
    <3>5. uPc' = "enqueueing" /\ sState[uSession] # "drained" /\ uCommit' = uNow
          /\ UNCHANGED <<mDead, mStream, mPoke>>
      BY <2>5 DEF LoopTo
    <3> QED BY <2>1, <2>3, <3>3, <3>4, <3>5
  <2> QED BY <2>4, <2>5 DEF CommitSession
<1>1. SpeechTypeOK'
  <2>1. {mDead, mPoke, mBound, segClosed} \subseteq BOOLEAN
    BY DEF SpeechTypeOK
  <2>2. {mDead', mPoke', mBound', segClosed'} \subseteq BOOLEAN
    <3> HIDE DEF LaneInv, SpeechInv
    <3> QED BY <1>0, <2>1
  <2>3. SpeechTypeOK
    OBVIOUS
  <2> HIDE DEF LaneInv, SpeechInv
  <2> QED BY <1>0, <2>2, <2>3 DEF SpeechTypeOK, Nobody, Streams, Speeches
<1>2. NoSendOnClosed'
  BY <1>0 DEF NoSendOnClosed, TornDownSoFar, OneHand, Free, LoopSound, Transcribers
<1>3. ResolvesOnce'
  BY <1>0 DEF ResolvesOnce, PendingOnce, SpeechTypeOK, Speeches
<1>4. FlushDrains'
  BY <1>0 DEF FlushDrains, OneHand, LoopSound, SpeechTypeOK, InHand, Nobody, Transcribers
<1>5. StreamsClosed'
  BY <1>0 DEF StreamsClosed, Nobody
<1>6. LoopSound'
  BY <1>0 DEF LoopSound, Nobody, Speeches, SpeechTypeOK
<1>7. OneHand'
  BY <1>0 DEF OneHand, InHand, LoopSound, SpeechTypeOK, Nobody, Speeches, Transcribers
<1>8. PendingOnce'
  <2>1. /\ \A s1, r \in Streams : s1 # r => Range(sPending[s1]) \cap Range(sPending[r]) = {}
        /\ \A s1 \in Streams : \A v \in Range(sPending[s1]) :
             cTimes[v] = 0 /\ v <= uNow /\ v # uNow
        /\ \A v \in Speeches : cTimes[v] # 0 => v <= uNow /\ v # uNow
        /\ uNow \in 0..MaxSpeeches /\ cTimes \in [Speeches -> 0..2]
    BY <1>0 DEF PendingOnce, SpeechTypeOK, NotCommitted
  <2>2. UNCHANGED <<uNow, cTimes>> /\ ~NotCommitted'
        /\ \A s1 \in Streams : IsInjective(sPending'[s1])
    BY <1>0 DEF NotCommitted
  <2>3. \A v \in Speeches : cTimes'[v] # 0 => v <= uNow'
    BY <2>1, <2>2
  <2>4. CASE sPending' = sPending
    BY <2>1, <2>2, <2>3, <2>4 DEF PendingOnce
  <2>5. CASE /\ uSession \in Streams /\ uNow \in Speeches
             /\ \A r \in Streams : Range(sPending'[r]) = IF r = uSession
                  THEN Range(sPending[r]) \cup {uNow} ELSE Range(sPending[r])
    <3>1. \A s1, r \in Streams : s1 # r
          => Range(sPending'[s1]) \cap Range(sPending'[r]) = {}
      BY <2>1, <2>5
    <3>2. cTimes[uNow] = 0
      BY <2>1, <2>5
    <3>3. \A s1 \in Streams : \A v \in Range(sPending'[s1]) : cTimes'[v] = 0 /\ v <= uNow'
      <4> TAKE s1 \in Streams
      <4> TAKE v \in Range(sPending'[s1])
      <4>1. v = uNow \/ v \in Range(sPending[s1])
        BY <2>5
      <4>2. uNow <= uNow
        BY <2>1
      <4> QED BY <2>1, <2>2, <3>2, <4>1, <4>2
    <3> QED BY <2>2, <2>3, <3>1, <3>3 DEF PendingOnce
  <2> QED BY <1>0, <2>4, <2>5
<1>9. TranscribedOnce' /\ NoForeignTail' /\ AudioSaid' /\ TornDownSoFar'
  BY <1>0 DEF TranscribedOnce, NoForeignTail, AudioSaid, TornDownSoFar
<1> QED BY <1>1, <1>2, <1>3, <1>4, <1>5, <1>6, <1>7, <1>8, <1>9

\* The sentinel takes the audio, or the full queue fails the commit if it is still there.
LEMMA EnqueueCommitKeeps ==
  ASSUME LaneInv, EnqueueCommit
  PROVE  LaneInv'
<1> USE DEF LaneInv, SpeechInv
<1>0. /\ UNCHANGED <<uNow, uBuf, uSession, uCommit, uFinal, mPc, mStream, mDead, mPoke,
                     mBound, sState, scribe, jobs, jobCommit, chan, tPc, segClosed,
                     settled, text>>
      /\ uPc = "enqueueing" /\ uPc' = "flush"
      /\ cResult' \in [Speeches -> {"none", "text", "error"}]
           /\ cTimes' \in [Speeches -> 0..2]
      /\ sPending' \in [Streams -> Seq(Speeches)]
           /\ \A r \in Streams : IsInjective(sPending'[r])
      /\ sAudio' \in [Streams -> SUBSET (Speeches \X Parts)]
           /\ cAudio' \in [Speeches -> SUBSET (Speeches \X Parts)]
      /\ \A r \in Streams : sAudio'[r] \subseteq sAudio[r]
      /\ \A u \in Speeches : \A a \in cAudio'[u] : a[1] <= u
      /\ \A r \in Streams : sPending[r] = <<>> => sPending'[r] = <<>>
      /\ \/ UNCHANGED <<sPending, cTimes>>
         \/ \E s \in Streams : \E u \in Range(sPending[s]) :
              /\ \A r \in Streams : Range(sPending'[r]) = IF r = s
                   THEN Range(sPending[r]) \ {u} ELSE Range(sPending[r])
              /\ \A v \in Speeches : cTimes'[v] = IF v = u THEN cTimes[v] + 1 ELSE cTimes[v]
  <2>1. /\ uPc = "enqueueing" /\ uNow \in Speeches /\ uSession \in Streams
             /\ sPending \in [Streams -> Seq(Speeches)]
        /\ sAudio \in [Streams -> SUBSET (Speeches \X Parts)]
             /\ cAudio \in [Speeches -> SUBSET (Speeches \X Parts)]
        /\ cResult \in [Speeches -> {"none", "text", "error"}]
             /\ cTimes \in [Speeches -> 0..2]
        /\ \A r \in Streams : IsInjective(sPending[r])
    <3>1. uPc = "enqueueing" /\ uSession # 0 /\ uBuf # 0 /\ uBuf = uNow
      BY DEF EnqueueCommit, LoopSound, Nobody
    <3>2. uNow \in Speeches /\ uSession \in Streams
      BY <3>1 DEF SpeechTypeOK, Speeches, Streams
    <3>3. \A r \in Streams : IsInjective(sPending[r])
      BY DEF PendingOnce
    <3> QED BY <3>1, <3>2, <3>3 DEF SpeechTypeOK
  <2>2. /\ uPc' = "flush"
        /\ UNCHANGED <<uNow, uBuf, uSession, uCommit, uFinal, mPc, mStream, mDead, mPoke,
                       mBound, sState, scribe, jobs, jobCommit, chan, tPc, segClosed,
                       settled, text>>
    BY DEF EnqueueCommit, LoopTo, loopVars, managerVars, sessionVars, commitVars, workVars,
           teardownVars, onlyMaintainer, onlySession, onlyLoop, onlyWorker, onlyTeardown
  <2>3. CASE /\ cAudio' = [cAudio EXCEPT ![uNow] = sAudio[uSession]]
             /\ sAudio' = [sAudio EXCEPT ![uSession] = {}]
             /\ UNCHANGED <<sPending, cResult, cTimes>>
    <3>1. /\ cAudio' \in [Speeches -> SUBSET (Speeches \X Parts)]
               /\ sAudio' \in [Streams -> SUBSET (Speeches \X Parts)]
          /\ \A u \in Speeches : cAudio'[u] = IF u = uNow THEN sAudio[uSession]
               ELSE cAudio[u]
          /\ \A r \in Streams : sAudio'[r] = IF r = uSession THEN {} ELSE sAudio[r]
      BY <2>1, <2>3
    <3>2. \A u \in Speeches : \A a \in cAudio'[u] : a[1] <= u
      BY <2>1, <3>1 DEF AudioSaid
    <3>3. UNCHANGED <<sPending, cResult, cTimes>>
      BY <2>3
    <3> QED BY <2>1, <2>2, <3>1, <3>2, <3>3
  <2>4. CASE FailCommit(uNow, uSession) /\ UNCHANGED <<cAudio, sAudio>>
    <3>1. CASE UNCHANGED <<cResult, cTimes, sPending>>
      BY <2>1, <2>2, <2>4, <3>1 DEF AudioSaid
    <3>2. CASE uNow \in Range(sPending[uSession])
      <4> DEFINE i == CHOOSE k \in DOMAIN sPending[uSession] : sPending[uSession][k] = uNow
                 q == RemoveAt(sPending[uSession], i)
      <4>1. i \in DOMAIN sPending[uSession] /\ sPending[uSession][i] = uNow
        BY <3>2 DEF Range
      <4>2. ResolveCommits({uNow}, "error") /\ sPending' = [sPending EXCEPT ![uSession] = q]
        BY <2>4, <3>2 DEF FailCommit
      <4> HIDE DEF i
      <4>3. q \in Seq(Speeches) /\ IsInjective(q)
            /\ Range(q) = Range(sPending[uSession]) \ {uNow}
        <5>1. sPending[uSession] \in Seq(Speeches) /\ IsInjective(sPending[uSession])
          BY <2>1
        <5> QED BY <4>1, <5>1, RemoveRange
      <4> HIDE DEF q
      <4>4. cTimes[uNow] = 0
        BY <2>1, <3>2 DEF PendingOnce
      <4>5. /\ cResult' \in [Speeches -> {"none", "text", "error"}]
            /\ \A v \in Speeches : cTimes'[v] = IF v = uNow THEN cTimes[v] + 1
                 ELSE cTimes[v]
            /\ cTimes' = [v \in Speeches |-> IF v \in {uNow} THEN cTimes[v] + 1
                          ELSE cTimes[v]]
        BY <2>1, <4>2 DEF ResolveCommits
      <4>6. cTimes' \in [Speeches -> 0..2]
        BY <2>1, <4>4, <4>5
      <4>7. /\ sPending' \in [Streams -> Seq(Speeches)]
            /\ \A r \in Streams : sPending'[r] = IF r = uSession THEN q ELSE sPending[r]
        BY <2>1, <4>2, <4>3
      <4>8. /\ \A r \in Streams : IsInjective(sPending'[r])
            /\ \A r \in Streams : Range(sPending'[r]) =
                 IF r = uSession THEN Range(sPending[r]) \ {uNow} ELSE Range(sPending[r])
        BY <2>1, <4>3, <4>7
      <4>9. \A r \in Streams : sPending[r] = <<>> => sPending'[r] = <<>>
        <5>1. Range(sPending[uSession]) # {} /\ Range(<<>>) = {}
          BY <2>1, <3>2, EmptyRange
        <5> QED BY <4>7, <5>1
      <4>10. /\ cAudio' \in [Speeches -> SUBSET (Speeches \X Parts)]
                  /\ sAudio' \in [Streams -> SUBSET (Speeches \X Parts)]
             /\ \A r \in Streams : sAudio'[r] \subseteq sAudio[r]
             /\ \A u \in Speeches : \A a \in cAudio'[u] : a[1] <= u
        BY <2>1, <2>4 DEF AudioSaid
      <4> QED BY <2>1, <2>2, <3>2, <4>5, <4>6, <4>7, <4>8, <4>9, <4>10
    <3> QED BY <2>4, <3>1, <3>2 DEF FailCommit
  <2> QED BY <2>3, <2>4 DEF EnqueueCommit
<1>1. SpeechTypeOK'
  <2>1. {mDead, mPoke, mBound, segClosed} \subseteq BOOLEAN
    BY DEF SpeechTypeOK
  <2>2. {mDead', mPoke', mBound', segClosed'} \subseteq BOOLEAN
    <3> HIDE DEF LaneInv, SpeechInv
    <3> QED BY <1>0, <2>1
  <2>3. SpeechTypeOK
    OBVIOUS
  <2> HIDE DEF LaneInv, SpeechInv
  <2> QED BY <1>0, <2>2, <2>3 DEF SpeechTypeOK, Nobody, Streams, Speeches
<1>2. NoSendOnClosed'
  BY <1>0 DEF NoSendOnClosed, TornDownSoFar, OneHand, Free, LoopSound, Transcribers
<1>3. ResolvesOnce'
  <2>1. CASE UNCHANGED <<sPending, cTimes>>
    BY <1>0, <2>1 DEF ResolvesOnce
  <2>2. CASE \E s \in Streams : \E u \in Range(sPending[s]) :
               /\ \A r \in Streams : Range(sPending'[r]) = IF r = s
                    THEN Range(sPending[r]) \ {u} ELSE Range(sPending[r])
               /\ \A v \in Speeches : cTimes'[v] = IF v = u THEN cTimes[v] + 1
                    ELSE cTimes[v]
    <3>01. PICK s2 \in Streams : \E u \in Range(sPending[s2]) :
               /\ \A r \in Streams : Range(sPending'[r]) = IF r = s2
                    THEN Range(sPending[r]) \ {u} ELSE Range(sPending[r])
               /\ \A v \in Speeches : cTimes'[v] = IF v = u THEN cTimes[v] + 1
                    ELSE cTimes[v]
      BY <2>2
    <3>0. PICK w \in Range(sPending[s2]) :
               /\ \A r \in Streams : Range(sPending'[r]) = IF r = s2
                    THEN Range(sPending[r]) \ {w} ELSE Range(sPending[r])
               /\ \A v \in Speeches : cTimes'[v] = IF v = w THEN cTimes[v] + 1
                    ELSE cTimes[v]
      BY <3>01
    <3>1. \A u \in Speeches : cTimes[u] <= 1 /\ cTimes[u] \in 0..2
      BY DEF ResolvesOnce, SpeechTypeOK
    <3>2. \A s1 \in Streams : \A u \in Range(sPending[s1]) : cTimes[u] = 0
      BY DEF PendingOnce
    <3>3. \A u \in Speeches : cTimes'[u] <= 1
      BY <1>0, <3>0, <3>1, <3>2
    <3> QED BY <1>0, <3>0, <3>3 DEF ResolvesOnce
  <2> QED BY <1>0, <2>1, <2>2
<1>4. FlushDrains'
  BY <1>0 DEF FlushDrains, OneHand, LoopSound, SpeechTypeOK, InHand, Nobody, Transcribers
<1>5. LoopSound'
  BY <1>0 DEF LoopSound, Nobody, Speeches, SpeechTypeOK
<1>6. OneHand'
  BY <1>0 DEF OneHand, InHand, LoopSound, SpeechTypeOK, Nobody, Speeches, Transcribers
<1>7. PendingOnce'
  <2>1. CASE UNCHANGED <<sPending, cTimes>>
    BY <1>0, <2>1 DEF PendingOnce, NotCommitted
  <2>2. CASE \E s \in Streams : \E u \in Range(sPending[s]) :
               /\ \A r \in Streams : Range(sPending'[r]) = IF r = s
                    THEN Range(sPending[r]) \ {u} ELSE Range(sPending[r])
               /\ \A v \in Speeches : cTimes'[v] = IF v = u THEN cTimes[v] + 1
                    ELSE cTimes[v]
    <3>01. PICK s2 \in Streams : \E u \in Range(sPending[s2]) :
               /\ \A r \in Streams : Range(sPending'[r]) = IF r = s2
                    THEN Range(sPending[r]) \ {u} ELSE Range(sPending[r])
               /\ \A v \in Speeches : cTimes'[v] = IF v = u THEN cTimes[v] + 1
                    ELSE cTimes[v]
      BY <2>2
    <3>0. PICK w \in Range(sPending[s2]) :
               /\ \A r \in Streams : Range(sPending'[r]) = IF r = s2
                    THEN Range(sPending[r]) \ {w} ELSE Range(sPending[r])
               /\ \A v \in Speeches : cTimes'[v] = IF v = w THEN cTimes[v] + 1
                    ELSE cTimes[v]
      BY <3>01
    <3>1. /\ \A s1, r \in Streams : s1 # r
               => Range(sPending[s1]) \cap Range(sPending[r]) = {}
          /\ \A s1 \in Streams : \A v \in Range(sPending[s1]) :
               cTimes[v] = 0 /\ v <= uNow /\ (NotCommitted => v # uNow)
          /\ \A v \in Speeches : cTimes[v] # 0 => v <= uNow /\ (NotCommitted => v # uNow)
          /\ \A s1 \in Streams : Range(sPending[s1]) \subseteq Speeches
      BY EmptyRange DEF PendingOnce, SpeechTypeOK
    <3>2. /\ NotCommitted' => NotCommitted
          /\ uNow' = uNow
      BY <1>0, <3>0 DEF NotCommitted
    <3>3. \A r \in Streams : Range(sPending'[r]) \subseteq Range(sPending[r])
      BY <1>0, <3>0
    <3>4. \A s1, r \in Streams : s1 # r
          => Range(sPending'[s1]) \cap Range(sPending'[r]) = {}
      BY <3>1, <3>3
    <3>5. \A s1 \in Streams : \A v \in Range(sPending'[s1]) : cTimes'[v] = 0
      <4> TAKE s1 \in Streams
      <4> TAKE v \in Range(sPending'[s1])
      <4>1. v \in Range(sPending[s1]) /\ v \in Speeches /\ cTimes[v] = 0
        BY <3>1, <3>3
      <4>2. cTimes'[v] = cTimes[v]
        <5>1. s1 = s2 => v # w
          BY <3>0
        <5>2. s1 # s2 => v # w
          BY <3>0, <3>1, <4>1
        <5> QED BY <3>0, <4>1, <5>1, <5>2
      <4> QED BY <4>1, <4>2
    <3>6. \A v \in Speeches : cTimes'[v] # 0 => v <= uNow' /\ (NotCommitted' => v # uNow')
      <4> TAKE v \in Speeches
      <4>1. cTimes'[v] # 0 => cTimes[v] # 0 \/ \E r \in Streams : v \in Range(sPending[r])
        BY <1>0, <3>0
      <4> QED BY <3>1, <3>2, <4>1
    <3>7. \A s1 \in Streams : \A v \in Range(sPending'[s1]) : v <= uNow' /\ (NotCommitted'
          => v # uNow')
      BY <3>1, <3>2, <3>3
    <3>8. \A s1 \in Streams : IsInjective(sPending'[s1])
      BY <1>0, <3>0
    <3> QED BY <3>4, <3>5, <3>6, <3>7, <3>8 DEF PendingOnce
  <2> QED BY <1>0, <2>1, <2>2
<1>8. AudioSaid'
  BY <1>0 DEF AudioSaid, SpeechTypeOK, Speeches, LoopSound, Nobody
<1>9. TranscribedOnce' /\ StreamsClosed' /\ NoForeignTail' /\ TornDownSoFar'
  BY <1>0 DEF TranscribedOnce, StreamsClosed, NoForeignTail, TornDownSoFar
<1> QED BY <1>1, <1>2, <1>3, <1>4, <1>5, <1>6, <1>7, <1>8, <1>9

\* The loop ends without an utterance in the buffer.
LEMMA FlushIdleKeeps ==
  ASSUME LaneInv, FlushIdle
  PROVE  LaneInv'
<1> USE DEF LaneInv, SpeechInv
<1>0. /\ UNCHANGED <<uNow, uBuf, uSession, uCommit, mPc, mStream, mDead, mPoke, mBound,
                     sState, sAudio, sPending, cResult, cAudio, cTimes, scribe, jobs,
                     jobCommit, chan, tPc, segClosed, settled, text>>
      /\ uPc = "idle" /\ uPc' = "draining" /\ uFinal' = TRUE
  BY DEF FlushIdle, LoopTo, loopVars, managerVars, sessionVars, commitVars, workVars,
         teardownVars, onlyMaintainer, onlySession, onlyLoop, onlyWorker, onlyTeardown
<1>1. SpeechTypeOK'
  <2>1. {mDead, mPoke, mBound, segClosed} \subseteq BOOLEAN
    BY DEF SpeechTypeOK
  <2>2. {mDead', mPoke', mBound', segClosed'} \subseteq BOOLEAN
    <3> HIDE DEF LaneInv, SpeechInv
    <3> QED BY <1>0, <2>1
  <2>3. SpeechTypeOK
    OBVIOUS
  <2> HIDE DEF LaneInv, SpeechInv
  <2> QED BY <1>0, <2>2, <2>3 DEF SpeechTypeOK, Nobody, Streams, Speeches
<1>2. NoSendOnClosed'
  BY <1>0 DEF NoSendOnClosed, TornDownSoFar, OneHand, Free, LoopSound, Transcribers
<1>3. FlushDrains'
  BY <1>0 DEF FlushDrains, OneHand, LoopSound, SpeechTypeOK, InHand, Nobody, Transcribers
<1>4. LoopSound'
  BY <1>0 DEF LoopSound, Nobody, Speeches, SpeechTypeOK
<1>5. OneHand'
  BY <1>0 DEF OneHand, InHand, LoopSound, SpeechTypeOK, Nobody, Speeches, Transcribers
<1>6. PendingOnce'
  BY <1>0 DEF PendingOnce, NotCommitted, SpeechTypeOK, Speeches, LoopSound, Nobody
<1>7. ResolvesOnce' /\ TranscribedOnce' /\ StreamsClosed' /\ NoForeignTail' /\ AudioSaid'
      /\ TornDownSoFar'
  BY <1>0 DEF ResolvesOnce, TranscribedOnce, StreamsClosed, NoForeignTail, AudioSaid,
         TornDownSoFar
<1> QED BY <1>1, <1>2, <1>3, <1>4, <1>5, <1>6, <1>7

\* The utterance leaves the buffer, to be enlisted or transcribed inline.
LEMMA DispatchTranscriptionKeeps ==
  ASSUME LaneInv, DispatchTranscription
  PROVE  LaneInv'
<1> USE DEF LaneInv, SpeechInv
<1>0. /\ UNCHANGED <<uNow, uFinal, mPc, mStream, mDead, mPoke, mBound, sState, sAudio,
                     sPending, cResult, cAudio, cTimes, jobs, chan, tPc, segClosed,
                     settled, text>>
      /\ uPc = "flush" /\ uBuf = uNow /\ uNow \in Speeches
      /\ uBuf' = 0 /\ uCommit' = 0 /\ uSession' = 0
      /\ scribe' \in [Transcribers -> [u : 0..MaxSpeeches, at : {"free", "awaiting",
             "batch"}]] /\ jobCommit' \in [Speeches -> BOOLEAN]
      /\ \/ /\ segClosed /\ uPc' = "inline" /\ scribe'["worker"] = scribe["worker"]
                 /\ scribe["inline"].u = 0
            /\ scribe'["inline"].u = uNow /\ scribe'["inline"].at \in {"awaiting", "batch"}
         \/ ~segClosed /\ uPc' = "enlisted" /\ scribe' = scribe
  <2>1. /\ uPc = "flush" /\ uBuf = uNow /\ uNow \in Speeches
             /\ scribe \in [Transcribers -> [u : 0..MaxSpeeches, at : {"free", "awaiting",
                    "batch"}]]
        /\ jobCommit \in [Speeches -> BOOLEAN] /\ uNow \in 0..MaxSpeeches
    BY DEF DispatchTranscription, SpeechTypeOK, LoopSound, Speeches, Nobody
  <2>2. scribe["inline"].u = 0
    BY <2>1 DEF OneHand, Nobody
  <2>3. /\ uBuf' = 0 /\ uCommit' = 0 /\ uSession' = 0
        /\ UNCHANGED <<uNow, uFinal, mPc, mStream, mDead, mPoke, mBound, sState, sAudio,
                       sPending, cResult, cAudio, cTimes, jobs, chan, tPc, segClosed,
                       settled, text>>
    BY DEF DispatchTranscription, Nobody, loopVars, managerVars, sessionVars, commitVars,
           workVars, teardownVars, onlyMaintainer, onlySession, onlyLoop, onlyWorker,
           onlyTeardown
  <2>4. CASE segClosed
    <3> DEFINE r == [u |-> uNow, at |-> IF uCommit # Nobody THEN "awaiting" ELSE "batch"]
    <3>1. /\ r \in [u : 0..MaxSpeeches, at : {"free", "awaiting", "batch"}]
          /\ r.u = uNow /\ r.at \in {"awaiting", "batch"}
      BY <2>1
    <3>2. uPc' = "inline" /\ jobCommit' = jobCommit
          /\ scribe' = [scribe EXCEPT !["inline"] = r]
      BY <2>4 DEF DispatchTranscription, LoopTo
    <3> HIDE DEF r
    <3>3. /\ scribe' \in [Transcribers -> [u : 0..MaxSpeeches, at : {"free", "awaiting",
                 "batch"}]]
          /\ scribe'["inline"] = r /\ scribe'["worker"] = scribe["worker"]
      BY <2>1, <3>1, <3>2 DEF Transcribers
    <3> QED BY <2>1, <2>2, <2>3, <2>4, <3>1, <3>2, <3>3
  <2>5. CASE ~segClosed
    <3>1. /\ uPc' = "enlisted" /\ scribe' = scribe
          /\ jobCommit' = [jobCommit EXCEPT ![uNow] = (uCommit # Nobody)]
      BY <2>5 DEF DispatchTranscription, LoopTo, Enlists
    <3>2. jobCommit' \in [Speeches -> BOOLEAN]
      BY <2>1, <3>1
    <3> QED BY <2>1, <2>2, <2>3, <2>5, <3>1, <3>2
  <2> QED BY <2>4, <2>5
<1>1. SpeechTypeOK'
  <2>1. {mDead, mPoke, mBound, segClosed} \subseteq BOOLEAN
    BY DEF SpeechTypeOK
  <2>2. {mDead', mPoke', mBound', segClosed'} \subseteq BOOLEAN
    <3> HIDE DEF LaneInv, SpeechInv
    <3> QED BY <1>0, <2>1
  <2>3. SpeechTypeOK
    OBVIOUS
  <2> HIDE DEF LaneInv, SpeechInv
  <2> QED BY <1>0, <2>2, <2>3 DEF SpeechTypeOK, Nobody, Streams, Speeches
<1>2. NoSendOnClosed'
  BY <1>0 DEF NoSendOnClosed, TornDownSoFar, OneHand, Free, LoopSound, Transcribers
<1>3. TranscribedOnce'
  BY <1>0 DEF TranscribedOnce, OneHand, LoopSound, SpeechTypeOK, Speeches, Nobody,
         Transcribers
<1>4. FlushDrains'
  BY <1>0 DEF FlushDrains, OneHand, LoopSound, SpeechTypeOK, InHand, Nobody, Transcribers
<1>5. LoopSound'
  BY <1>0 DEF LoopSound, Nobody, Speeches, SpeechTypeOK
<1>6. OneHand'
  BY <1>0 DEF OneHand, InHand, LoopSound, SpeechTypeOK, Nobody, Speeches, Transcribers
<1>7. PendingOnce'
  BY <1>0 DEF PendingOnce, NotCommitted, SpeechTypeOK, Speeches, LoopSound, Nobody
<1>8. ResolvesOnce' /\ StreamsClosed' /\ NoForeignTail' /\ AudioSaid' /\ TornDownSoFar'
  BY <1>0 DEF ResolvesOnce, StreamsClosed, NoForeignTail, AudioSaid, TornDownSoFar
<1> QED BY <1>1, <1>2, <1>3, <1>4, <1>5, <1>6, <1>7, <1>8

\* An enlisted utterance enters the worker's queue, where it is not yet.
LEMMA SendJobKeeps ==
  ASSUME LaneInv, SendJob
  PROVE  LaneInv'
<1> USE DEF LaneInv, SpeechInv
<1>0. /\ UNCHANGED <<uNow, uBuf, uSession, uCommit, uFinal, mPc, mStream, mDead, mPoke,
                     mBound, sState, sAudio, sPending, cResult, cAudio, cTimes, scribe,
                     jobCommit, chan, tPc, segClosed, settled, text>>
      /\ uPc = "enlisted" /\ uNow \in Speeches /\ uPc' \in {"draining", "idle"}
      /\ jobs' \in Seq(Speeches) /\ jobs' # <<>> /\ IsInjective(jobs')
           /\ Range(jobs') = Range(jobs) \cup {uNow}
  <2>1. uPc = "enlisted" /\ uNow \in Speeches /\ jobs \in Seq(Speeches)
    BY DEF SendJob, SpeechTypeOK, LoopSound, Speeches
  <2>2. uNow \notin Range(jobs) /\ IsInjective(jobs)
    BY <2>1 DEF OneHand
  <2>3. /\ jobs' = Append(jobs, uNow) /\ uPc' \in {"draining", "idle"}
        /\ UNCHANGED <<uNow, uBuf, uSession, uCommit, uFinal, mPc, mStream, mDead, mPoke,
                       mBound, sState, sAudio, sPending, cResult, cAudio, cTimes, scribe,
                       jobCommit, chan, tPc, segClosed, settled, text>>
    BY DEF SendJob, LoopTo, AfterDispatch, loopVars, managerVars, sessionVars, commitVars,
           workVars, teardownVars, onlyMaintainer, onlySession, onlyLoop, onlyWorker,
           onlyTeardown
  <2>4. /\ Append(jobs, uNow) \in Seq(Speeches) /\ Append(jobs, uNow) # <<>>
        /\ Range(Append(jobs, uNow)) = Range(jobs) \cup {uNow} /\ IsInjective(Append(jobs,
               uNow))
    BY <2>1, <2>2, AppendRange
  <2> QED BY <2>1, <2>3, <2>4
<1>1. SpeechTypeOK'
  <2>1. {mDead, mPoke, mBound, segClosed} \subseteq BOOLEAN
    BY DEF SpeechTypeOK
  <2>2. {mDead', mPoke', mBound', segClosed'} \subseteq BOOLEAN
    <3> HIDE DEF LaneInv, SpeechInv
    <3> QED BY <1>0, <2>1
  <2>3. SpeechTypeOK
    OBVIOUS
  <2> HIDE DEF LaneInv, SpeechInv
  <2> QED BY <1>0, <2>2, <2>3 DEF SpeechTypeOK, Nobody, Streams, Speeches
<1>2. NoSendOnClosed'
  BY <1>0 DEF NoSendOnClosed, TornDownSoFar, OneHand, Free, LoopSound, Transcribers
<1>3. TranscribedOnce'
  BY <1>0 DEF TranscribedOnce, OneHand, LoopSound, SpeechTypeOK, Speeches, Nobody,
         Transcribers
<1>4. FlushDrains'
  BY <1>0 DEF FlushDrains, OneHand, LoopSound, SpeechTypeOK, InHand, Nobody, Transcribers
<1>5. LoopSound'
  BY <1>0 DEF LoopSound, Nobody, Speeches, SpeechTypeOK
<1>6. OneHand'
  BY <1>0 DEF OneHand, InHand, LoopSound, SpeechTypeOK, Nobody, Speeches, Transcribers
<1>7. PendingOnce'
  BY <1>0 DEF PendingOnce, NotCommitted, SpeechTypeOK, Speeches, LoopSound, Nobody
<1>8. ResolvesOnce' /\ StreamsClosed' /\ NoForeignTail' /\ AudioSaid' /\ TornDownSoFar'
  BY <1>0 DEF ResolvesOnce, StreamsClosed, NoForeignTail, AudioSaid, TornDownSoFar
<1> QED BY <1>1, <1>2, <1>3, <1>4, <1>5, <1>6, <1>7, <1>8

\* The audio loop goes on once its own transcription is over.
LEMMA InlineDoneKeeps ==
  ASSUME LaneInv, InlineDone
  PROVE  LaneInv'
<1> USE DEF LaneInv, SpeechInv
<1>0. /\ UNCHANGED <<uNow, uBuf, uSession, uCommit, uFinal, mPc, mStream, mDead, mPoke,
                     mBound, sState, sAudio, sPending, cResult, cAudio, cTimes, scribe,
                     jobs, jobCommit, chan, tPc, segClosed, settled, text>>
      /\ uPc = "inline" /\ scribe["inline"].u = 0 /\ uPc' \in {"draining", "idle"}
  BY DEF InlineDone, LoopTo, AfterDispatch, Free, Nobody, loopVars, managerVars,
         sessionVars, commitVars, workVars, teardownVars, onlyMaintainer, onlySession,
         onlyLoop, onlyWorker, onlyTeardown
<1>1. SpeechTypeOK'
  <2>1. {mDead, mPoke, mBound, segClosed} \subseteq BOOLEAN
    BY DEF SpeechTypeOK
  <2>2. {mDead', mPoke', mBound', segClosed'} \subseteq BOOLEAN
    <3> HIDE DEF LaneInv, SpeechInv
    <3> QED BY <1>0, <2>1
  <2>3. SpeechTypeOK
    OBVIOUS
  <2> HIDE DEF LaneInv, SpeechInv
  <2> QED BY <1>0, <2>2, <2>3 DEF SpeechTypeOK, Nobody, Streams, Speeches
<1>2. NoSendOnClosed'
  BY <1>0 DEF NoSendOnClosed, TornDownSoFar, OneHand, Free, LoopSound, Transcribers
<1>3. FlushDrains'
  BY <1>0 DEF FlushDrains, OneHand, LoopSound, SpeechTypeOK, InHand, Nobody, Transcribers
<1>4. LoopSound'
  BY <1>0 DEF LoopSound, Nobody, Speeches, SpeechTypeOK
<1>5. OneHand'
  BY <1>0 DEF OneHand, InHand, LoopSound, SpeechTypeOK, Nobody, Speeches, Transcribers
<1>6. PendingOnce'
  BY <1>0 DEF PendingOnce, NotCommitted, SpeechTypeOK, Speeches, LoopSound, Nobody
<1>7. ResolvesOnce' /\ TranscribedOnce' /\ StreamsClosed' /\ NoForeignTail' /\ AudioSaid'
      /\ TornDownSoFar'
  BY <1>0 DEF ResolvesOnce, TranscribedOnce, StreamsClosed, NoForeignTail, AudioSaid,
         TornDownSoFar
<1> QED BY <1>1, <1>2, <1>3, <1>4, <1>5, <1>6, <1>7

\* Flush returns when no hand is left for an utterance to be in.
LEMMA FlushReturnsKeeps ==
  ASSUME LaneInv, FlushReturns
  PROVE  LaneInv'
<1> USE DEF LaneInv, SpeechInv
<1>0. /\ UNCHANGED <<uNow, uBuf, uSession, uCommit, uFinal, mPc, mStream, mDead, mPoke,
                     mBound, sState, sAudio, sPending, cResult, cAudio, cTimes, scribe,
                     jobs, jobCommit, chan, tPc, segClosed, settled, text>>
      /\ uPc = "draining" /\ Range(jobs) = {} /\ scribe["worker"].u = 0 /\ uPc' = "flushed"
  <2>1. Range(<<>>) = {}
    BY DEF Range
  <2> QED BY <2>1 DEF FlushReturns, LoopTo, Free, Nobody, loopVars, managerVars,
                 sessionVars, commitVars, workVars, teardownVars, onlyMaintainer,
                 onlySession, onlyLoop, onlyWorker, onlyTeardown
<1>1. SpeechTypeOK'
  <2>1. {mDead, mPoke, mBound, segClosed} \subseteq BOOLEAN
    BY DEF SpeechTypeOK
  <2>2. {mDead', mPoke', mBound', segClosed'} \subseteq BOOLEAN
    <3> HIDE DEF LaneInv, SpeechInv
    <3> QED BY <1>0, <2>1
  <2>3. SpeechTypeOK
    OBVIOUS
  <2> HIDE DEF LaneInv, SpeechInv
  <2> QED BY <1>0, <2>2, <2>3 DEF SpeechTypeOK, Nobody, Streams, Speeches
<1>2. NoSendOnClosed'
  BY <1>0 DEF NoSendOnClosed, TornDownSoFar, OneHand, Free, LoopSound, Transcribers
<1>3. FlushDrains'
  <2> SUFFICES ASSUME NEW u \in 1..uNow, settled[u] = "none" PROVE FALSE
    BY <1>0 DEF FlushDrains
  <2>1. InHand(u)
    BY DEF OneHand
  <2>2. uBuf = 0
    BY <1>0 DEF LoopSound, Nobody
  <2>3. scribe["inline"].u = 0
    BY <1>0 DEF OneHand, Nobody
  <2>4. u # 0
    BY DEF SpeechTypeOK
  <2> QED BY <1>0, <2>1, <2>2, <2>3, <2>4 DEF InHand, Transcribers
<1>4. LoopSound'
  BY <1>0 DEF LoopSound, Nobody, Speeches, SpeechTypeOK
<1>5. OneHand'
  BY <1>0 DEF OneHand, InHand, LoopSound, SpeechTypeOK, Nobody, Speeches, Transcribers
<1>6. PendingOnce'
  BY <1>0 DEF PendingOnce, NotCommitted, SpeechTypeOK, Speeches, LoopSound, Nobody
<1>7. ResolvesOnce' /\ TranscribedOnce' /\ StreamsClosed' /\ NoForeignTail' /\ AudioSaid'
      /\ TornDownSoFar'
  BY <1>0 DEF ResolvesOnce, TranscribedOnce, StreamsClosed, NoForeignTail, AudioSaid,
         TornDownSoFar
<1> QED BY <1>1, <1>2, <1>3, <1>4, <1>5, <1>6, <1>7

\* The worker takes the utterance at the front out of the queue.
LEMMA TakeJobKeeps ==
  ASSUME LaneInv, TakeJob
  PROVE  LaneInv'
<1> USE DEF LaneInv, SpeechInv
<1>0. /\ UNCHANGED <<uPc, uNow, uBuf, uSession, uCommit, uFinal, mPc, mStream, mDead,
                     mPoke, mBound, sState, sAudio, sPending, cResult, cAudio, cTimes,
                     chan, tPc, segClosed, settled, text>>
      /\ jobs # <<>> /\ jobs' \in Seq(Speeches) /\ IsInjective(jobs')
           /\ jobCommit' \in [Speeches -> BOOLEAN]
      /\ scribe' \in [Transcribers -> [u : 0..MaxSpeeches, at : {"free", "awaiting",
             "batch"}]] /\ scribe["worker"].u = 0 /\ scribe'["inline"] = scribe["inline"]
      /\ scribe'["worker"].u \in Range(jobs) /\ scribe'["worker"].at \in {"awaiting",
             "batch"}
      /\ Range(jobs') = Range(jobs) \ {scribe'["worker"].u}
  <2>1. /\ jobs \in Seq(Speeches) /\ scribe \in [Transcribers -> [u : 0..MaxSpeeches,
               at : {"free", "awaiting", "batch"}]]
        /\ jobCommit \in [Speeches -> BOOLEAN] /\ jobs # <<>> /\ IsInjective(jobs)
        /\ scribe["worker"].u = 0
    BY DEF TakeJob, SpeechTypeOK, OneHand, Free, Nobody
  <2> DEFINE j == Head(jobs)
             r == [u |-> j, at |-> IF jobCommit[j] THEN "awaiting" ELSE "batch"]
  <2>2. /\ j \in Speeches /\ j \in Range(jobs) /\ Tail(jobs) \in Seq(Speeches)
        /\ IsInjective(Tail(jobs)) /\ Range(Tail(jobs)) = Range(jobs) \ {j}
    BY <2>1, TailRange
  <2>3. /\ jobs' = Tail(jobs) /\ scribe' = [scribe EXCEPT !["worker"] = r]
        /\ jobCommit' = [jobCommit EXCEPT ![j] = FALSE]
        /\ UNCHANGED <<uPc, uNow, uBuf, uSession, uCommit, uFinal, mPc, mStream, mDead,
                       mPoke, mBound, sState, sAudio, sPending, cResult, cAudio, cTimes,
                       chan, tPc, segClosed, settled, text>>
    BY DEF TakeJob, loopVars, managerVars, sessionVars, commitVars, workVars, teardownVars,
           onlyMaintainer, onlySession, onlyLoop, onlyWorker, onlyTeardown
  <2> HIDE DEF j
  <2>4. /\ r \in [u : 0..MaxSpeeches, at : {"free", "awaiting", "batch"}]
        /\ r.u = j /\ r.at \in {"awaiting", "batch"}
    BY <2>2 DEF Speeches
  <2> HIDE DEF r
  <2>5. /\ scribe' \in [Transcribers -> [u : 0..MaxSpeeches, at : {"free", "awaiting",
               "batch"}]]
        /\ scribe'["worker"] = r /\ scribe'["inline"] = scribe["inline"]
    BY <2>1, <2>3, <2>4 DEF Transcribers
  <2>6. jobCommit' \in [Speeches -> BOOLEAN]
    BY <2>1, <2>3
  <2> QED BY <2>1, <2>2, <2>3, <2>4, <2>5, <2>6
<1>1. SpeechTypeOK'
  <2>1. {mDead, mPoke, mBound, segClosed} \subseteq BOOLEAN
    BY DEF SpeechTypeOK
  <2>2. {mDead', mPoke', mBound', segClosed'} \subseteq BOOLEAN
    <3> HIDE DEF LaneInv, SpeechInv
    <3> QED BY <1>0, <2>1
  <2>3. SpeechTypeOK
    OBVIOUS
  <2> HIDE DEF LaneInv, SpeechInv
  <2> QED BY <1>0, <2>2, <2>3 DEF SpeechTypeOK
<1>2. NoSendOnClosed'
  BY <1>0 DEF NoSendOnClosed, TornDownSoFar, OneHand, Free, LoopSound, Transcribers
<1>3. TranscribedOnce'
  BY <1>0 DEF TranscribedOnce, OneHand, LoopSound, SpeechTypeOK, Speeches, Nobody,
         Transcribers
<1>4. OneHand'
  BY <1>0 DEF OneHand, InHand, LoopSound, SpeechTypeOK, Nobody, Speeches, Transcribers
<1>5. ResolvesOnce' /\ FlushDrains' /\ StreamsClosed' /\ NoForeignTail' /\ LoopSound'
      /\ PendingOnce' /\ AudioSaid' /\ TornDownSoFar'
  BY <1>0 DEF ResolvesOnce, FlushDrains, StreamsClosed, NoForeignTail, LoopSound,
         PendingOnce, AudioSaid, TornDownSoFar, NotCommitted
<1> QED BY <1>1, <1>2, <1>3, <1>4, <1>5

\* The worker gives a commit up and posts the buffer.
LEMMA CommitFailsKeeps ==
  ASSUME LaneInv, NEW p \in Transcribers, CommitFails(p)
  PROVE  LaneInv'
<1> USE DEF LaneInv, SpeechInv
<1>0. /\ UNCHANGED <<uPc, uNow, uBuf, uSession, uCommit, uFinal, mPc, mStream, mDead,
                     mPoke, mBound, sState, sAudio, sPending, cResult, cAudio, cTimes,
                     jobs, jobCommit, chan, tPc, segClosed, settled, text>>
      /\ scribe[p].at = "awaiting" /\ scribe' \in [Transcribers -> [u : 0..MaxSpeeches,
             at : {"free", "awaiting", "batch"}]]
      /\ scribe'[p].u = scribe[p].u /\ scribe'[p].at = "batch"
           /\ \A q \in Transcribers : q # p => scribe'[q] = scribe[q]
  <2>1. scribe \in [Transcribers -> [u : 0..MaxSpeeches, at : {"free", "awaiting",
        "batch"}]]
    BY DEF SpeechTypeOK
  <2>2. /\ scribe[p].at = "awaiting"
             /\ scribe' = [scribe EXCEPT ![p] = [scribe[p] EXCEPT !.at = "batch"]]
        /\ UNCHANGED <<uPc, uNow, uBuf, uSession, uCommit, uFinal, mPc, mStream, mDead,
                       mPoke, mBound, sState, sAudio, sPending, cResult, cAudio, cTimes,
                       jobs, jobCommit, chan, tPc, segClosed, settled, text>>
    BY DEF CommitFails, loopVars, managerVars, sessionVars, commitVars, workVars,
           teardownVars, onlyMaintainer, onlySession, onlyLoop, onlyWorker, onlyTeardown
  <2> DEFINE r == [scribe[p] EXCEPT !.at = "batch"]
  <2>3. /\ r \in [u : 0..MaxSpeeches, at : {"free", "awaiting", "batch"}]
        /\ r.u = scribe[p].u /\ r.at = "batch"
    BY <2>1
  <2> HIDE DEF r
  <2>4. scribe' = [scribe EXCEPT ![p] = r]
    BY <2>2 DEF r
  <2>5. scribe' \in [Transcribers -> [u : 0..MaxSpeeches, at : {"free", "awaiting",
        "batch"}]] /\ scribe'[p] = r
        /\ \A q \in Transcribers : q # p => scribe'[q] = scribe[q]
    BY <2>1, <2>3, <2>4
  <2> QED BY <2>2, <2>3, <2>5
<1>1. SpeechTypeOK'
  <2>1. {mDead, mPoke, mBound, segClosed} \subseteq BOOLEAN
    BY DEF SpeechTypeOK
  <2>2. {mDead', mPoke', mBound', segClosed'} \subseteq BOOLEAN
    <3> HIDE DEF LaneInv, SpeechInv
    <3> QED BY <1>0, <2>1
  <2>3. SpeechTypeOK
    OBVIOUS
  <2> HIDE DEF LaneInv, SpeechInv
  <2> QED BY <1>0, <2>2, <2>3 DEF SpeechTypeOK, Nobody, Streams, Speeches
<1>2. NoSendOnClosed'
  BY <1>0 DEF NoSendOnClosed, TornDownSoFar, OneHand, Free, LoopSound, Transcribers
<1>3. OneHand'
  <2>1. \A q \in Transcribers : scribe'[q].u = scribe[q].u /\ (scribe'[q].at = "free"
        <=> scribe[q].at = "free")
    BY <1>0
  <2>2. \A u \in Speeches : InHand(u)' <=> InHand(u)
    BY <1>0, <2>1 DEF InHand
  <2>3. uNow' = uNow /\ 1..uNow \subseteq Speeches
    BY <1>0 DEF SpeechTypeOK, Speeches
  <2>4. \A u \in 1..uNow' : settled'[u] # "none" \/ InHand(u)'
    BY <1>0, <2>2, <2>3 DEF OneHand
  <2>5. OneHand /\ "inline" \in Transcribers /\ "worker" \in Transcribers
    BY DEF Transcribers
  <2> HIDE DEF LaneInv, SpeechInv
  <2> QED BY <1>0, <2>1, <2>4, <2>5 DEF OneHand
<1>4. TranscribedOnce'
  BY <1>3 DEF OneHand, TranscribedOnce, Speeches, Nobody
<1>5. ResolvesOnce' /\ FlushDrains' /\ StreamsClosed' /\ NoForeignTail' /\ LoopSound'
      /\ PendingOnce' /\ AudioSaid' /\ TornDownSoFar'
  BY <1>0 DEF ResolvesOnce, FlushDrains, StreamsClosed, NoForeignTail, LoopSound,
         PendingOnce, AudioSaid, TornDownSoFar, NotCommitted
<1> QED BY <1>1, <1>2, <1>3, <1>4, <1>5

\* An utterance is settled with audio none of which was said after it.
LEMMA SettleUtteranceKeeps ==
  ASSUME LaneInv, NEW p \in Transcribers, NEW how \in {"streamed", "batch", "failed"},
         NEW audio \in SUBSET (Speeches \X Parts), scribe[p].at # "free",
         \A a \in audio : a[1] <= scribe[p].u, SettleUtterance(p, how, audio)
  PROVE  LaneInv'
<1> USE DEF LaneInv, SpeechInv
<1>0. /\ UNCHANGED <<uPc, uNow, uBuf, uSession, uCommit, uFinal, mPc, mStream, mDead,
                     mPoke, mBound, sState, sAudio, sPending, cResult, cTimes, jobs,
                     jobCommit, chan, tPc, segClosed>>
      /\ scribe[p].u \in Speeches /\ scribe' \in [Transcribers -> [u : 0..MaxSpeeches,
             at : {"free", "awaiting", "batch"}]]
      /\ scribe'[p] = Free /\ scribe'[p].u = 0 /\ scribe'[p].at = "free"
           /\ \A q \in Transcribers : q # p => scribe'[q] = scribe[q]
      /\ settled' \in [Speeches -> {"none", "streamed", "batch", "failed"}]
           /\ text' \in [Speeches -> SUBSET (Speeches \X Parts)]
                /\ cAudio' \in [Speeches -> SUBSET (Speeches \X Parts)]
      /\ \A v \in Speeches : settled'[v] = IF v = scribe[p].u THEN how ELSE settled[v]
      /\ \A v \in Speeches : text'[v] = IF v = scribe[p].u THEN audio ELSE text[v]
      /\ \A v \in Speeches : cAudio'[v] = IF v = scribe[p].u THEN {} ELSE cAudio[v]
  <2>1. /\ scribe[p].u \in Speeches /\ scribe \in [Transcribers -> [u : 0..MaxSpeeches,
               at : {"free", "awaiting", "batch"}]]
               /\ cAudio \in [Speeches -> SUBSET (Speeches \X Parts)]
        /\ settled \in [Speeches -> {"none", "streamed", "batch", "failed"}]
             /\ text \in [Speeches -> SUBSET (Speeches \X Parts)]
    BY DEF SpeechTypeOK, OneHand, Nobody, Speeches
  <2>2. /\ settled' = [settled EXCEPT ![scribe[p].u] = how]
             /\ text' = [text EXCEPT ![scribe[p].u] = audio]
        /\ scribe' = [scribe EXCEPT ![p] = Free]
             /\ cAudio' = [cAudio EXCEPT ![scribe[p].u] = {}]
        /\ UNCHANGED <<uPc, uNow, uBuf, uSession, uCommit, uFinal, mPc, mStream, mDead,
                       mPoke, mBound, sState, sAudio, sPending, cResult, cTimes, jobs,
                       jobCommit, chan, tPc, segClosed>>
    BY DEF SettleUtterance, loopVars, managerVars, sessionVars, commitVars, workVars,
           teardownVars, onlyMaintainer, onlySession, onlyLoop, onlyWorker, onlyTeardown
  <2>3. Free \in [u : 0..MaxSpeeches, at : {"free", "awaiting", "batch"}] /\ Free.u = 0
        /\ Free.at = "free"
    BY SpeechAssumption DEF Free, Nobody
  <2>4. /\ scribe' \in [Transcribers -> [u : 0..MaxSpeeches, at : {"free", "awaiting",
               "batch"}]] /\ scribe'[p] = Free
        /\ \A q \in Transcribers : q # p => scribe'[q] = scribe[q]
    BY <2>1, <2>2, <2>3
  <2>5. /\ settled' \in [Speeches -> {"none", "streamed", "batch", "failed"}]
        /\ \A v \in Speeches : settled'[v] = IF v = scribe[p].u THEN how ELSE settled[v]
    BY <2>1, <2>2
  <2>6. /\ text' \in [Speeches -> SUBSET (Speeches \X Parts)]
             /\ cAudio' \in [Speeches -> SUBSET (Speeches \X Parts)]
        /\ \A v \in Speeches : text'[v] = IF v = scribe[p].u THEN audio ELSE text[v]
        /\ \A v \in Speeches : cAudio'[v] = IF v = scribe[p].u THEN {} ELSE cAudio[v]
    BY <2>1, <2>2
  <2> QED BY <2>1, <2>2, <2>3, <2>4, <2>5, <2>6
<1>1. SpeechTypeOK'
  <2>1. {mDead, mPoke, mBound, segClosed} \subseteq BOOLEAN
    BY DEF SpeechTypeOK
  <2>2. {mDead', mPoke', mBound', segClosed'} \subseteq BOOLEAN
    <3> HIDE DEF LaneInv, SpeechInv
    <3> QED BY <1>0, <2>1
  <2>3. SpeechTypeOK
    OBVIOUS
  <2> HIDE DEF LaneInv, SpeechInv
  <2> QED BY <1>0, <2>2, <2>3 DEF SpeechTypeOK, Nobody, Streams, Speeches
<1>2. NoSendOnClosed'
  BY <1>0 DEF NoSendOnClosed, TornDownSoFar, OneHand, Free, LoopSound, Transcribers
<1>3. TranscribedOnce'
  BY <1>0 DEF TranscribedOnce, OneHand, LoopSound, SpeechTypeOK, Speeches, Nobody,
         Transcribers
<1>4. FlushDrains'
  BY <1>0 DEF FlushDrains, OneHand, LoopSound, SpeechTypeOK, InHand, Nobody, Transcribers
<1>5. NoForeignTail'
  BY <1>0 DEF NoForeignTail, AudioSaid
<1>6. OneHand'
  <2> DEFINE w == scribe[p].u
  <2>1. /\ w \in Speeches /\ w # uBuf /\ w <= uNow /\ w \notin Range(jobs)
             /\ (uPc = "enlisted" => w # uNow)
        /\ \A q \in Transcribers : q # p => scribe[q].u # w
    BY <1>0 DEF OneHand, Nobody, Transcribers, Speeches
  <2>2. \A q \in Transcribers : scribe'[q].u # 0 => q # p /\ scribe'[q] = scribe[q]
    BY <1>0
  <2>3. UNCHANGED <<uPc, uNow, uBuf, jobs>> /\ settled'[w] # "none"
        /\ \A v \in Speeches : v # w => settled'[v] = settled[v]
    BY <1>0
  <2>4. Range(jobs) \subseteq Speeches /\ uNow \in 0..MaxSpeeches
        /\ uBuf \in 0..MaxSpeeches /\ scribe \in [Transcribers -> [u : 0..MaxSpeeches,
               at : {"free", "awaiting", "batch"}]]
    BY EmptyRange DEF SpeechTypeOK
  <2> HIDE DEF w
  <2>5. IsInjective(jobs') /\ \A u \in Range(jobs') :
          /\ u <= uNow' /\ u # uBuf' /\ settled'[u] = "none" /\ (uPc' = "enlisted"
                 => u # uNow')
          /\ \A q \in Transcribers : scribe'[q].u # u
    <3>1. \A u \in Range(jobs) : u # 0 /\ u # w /\ u \in Speeches
      BY <2>1, <2>4 DEF Speeches
    <3> QED BY <2>2, <2>3, <3>1 DEF OneHand
  <2>6. \A q \in Transcribers : scribe'[q].u = Nobody <=> scribe'[q].at = "free"
    <3> TAKE q \in Transcribers
    <3>1. CASE q = p
      BY <1>0, <3>1 DEF Nobody
    <3>2. CASE q # p
      BY <1>0, <3>2 DEF OneHand
    <3> QED BY <3>1, <3>2
  <2>7. \A q \in Transcribers : scribe'[q].u # Nobody =>
          /\ scribe'[q].u <= uNow' /\ scribe'[q].u # uBuf'
               /\ settled'[scribe'[q].u] = "none"
          /\ uPc' = "enlisted" => scribe'[q].u # uNow'
    <3> SUFFICES ASSUME NEW q \in Transcribers, scribe'[q].u # Nobody
        PROVE /\ scribe'[q].u <= uNow' /\ scribe'[q].u # uBuf'
                   /\ settled'[scribe'[q].u] = "none"
              /\ uPc' = "enlisted" => scribe'[q].u # uNow'
      OBVIOUS
    <3>1. q # p /\ scribe'[q] = scribe[q] /\ scribe[q].u # w /\ scribe[q].u \in Speeches
      BY <2>1, <2>2, <2>4 DEF Nobody, Speeches
    <3>2. settled'[scribe[q].u] = settled[scribe[q].u]
      BY <2>3, <3>1
    <3> QED BY <2>3, <3>1, <3>2 DEF OneHand
  <2>8. scribe'["inline"].u # Nobody =>
          uPc' = "inline" /\ scribe'["inline"].u = uNow' /\ scribe'["worker"].u # uNow'
    <3> SUFFICES ASSUME scribe'["inline"].u # Nobody
        PROVE uPc' = "inline" /\ scribe'["inline"].u = uNow' /\ scribe'["worker"].u # uNow'
      OBVIOUS
    <3>1. scribe'["inline"] = scribe["inline"] /\ scribe["inline"].u # Nobody
      BY <2>2 DEF Nobody, Transcribers
    <3>2. uPc = "inline" /\ scribe["inline"].u = uNow /\ scribe["worker"].u # uNow
      BY <3>1 DEF OneHand
    <3>3. scribe'["worker"].u # 0 => scribe'["worker"] = scribe["worker"]
      BY <2>2 DEF Transcribers
    <3> QED BY <2>3, <3>1, <3>2, <3>3 DEF Nobody
  <2>9. /\ uPc' = "enlisted" => settled'[uNow'] = "none"
        /\ uBuf' # Nobody => settled'[uBuf'] = "none"
        /\ \A u \in Speeches : settled'[u] # "none" => u <= uNow'
    <3>1. /\ uPc = "enlisted" => settled[uNow] = "none" /\ uNow \in Speeches
          /\ uBuf # Nobody => settled[uBuf] = "none" /\ uBuf \in Speeches
          /\ \A u \in Speeches : settled[u] # "none" => u <= uNow
      BY <2>4 DEF OneHand, LoopSound, Nobody, Speeches
    <3> QED BY <2>1, <2>3, <3>1
  <2>10. \A u \in 1..uNow' : settled'[u] # "none" \/ InHand(u)'
    <3> TAKE u \in 1..uNow'
    <3>1. u \in 1..uNow /\ u \in Speeches
      BY <2>3, <2>4 DEF Speeches
    <3>2. settled[u] # "none" \/ InHand(u)
      BY <3>1 DEF OneHand
    <3>3. CASE u = w
      BY <2>3, <3>3
    <3>4. CASE u # w
      <4>1. \A q \in Transcribers : scribe[q].u = u => scribe'[q].u = u
        BY <1>0, <3>4 DEF w
      <4> QED BY <2>3, <3>1, <3>2, <3>4, <4>1 DEF InHand
    <3> QED BY <3>3, <3>4
  <2> QED BY <2>5, <2>6, <2>7, <2>8, <2>9, <2>10 DEF OneHand
<1>7. AudioSaid'
  BY <1>0 DEF AudioSaid, SpeechTypeOK, Speeches, LoopSound, Nobody
<1>8. ResolvesOnce' /\ StreamsClosed' /\ LoopSound' /\ PendingOnce' /\ TornDownSoFar'
  BY <1>0 DEF ResolvesOnce, StreamsClosed, LoopSound, PendingOnce, TornDownSoFar,
         NotCommitted
<1> QED BY <1>1, <1>2, <1>3, <1>4, <1>5, <1>6, <1>7, <1>8

\* A commit's final covers what was sent up to it, none of it later than its utterance.
LEMMA CommitResolvesKeeps ==
  ASSUME LaneInv, NEW p \in Transcribers, CommitResolves(p)
  PROVE  LaneInv'
<1> USE DEF LaneInv, SpeechInv
<1>1. scribe[p].u \in Speeches /\ scribe[p].at # "free"
  BY DEF CommitResolves, SpeechTypeOK, OneHand, Nobody, Speeches
<1>2. /\ cAudio[scribe[p].u] \in SUBSET (Speeches \X Parts)
      /\ \A a \in cAudio[scribe[p].u] : a[1] <= scribe[p].u
  BY <1>1 DEF SpeechTypeOK, AudioSaid
<1>3. SettleUtterance(p, "streamed", cAudio[scribe[p].u])
  BY DEF CommitResolves
<1> QED BY <1>1, <1>2, <1>3, SettleUtteranceKeeps DEF LaneInv

\* The batch recognizer transcribes the buffer of its utterance, or fails.
LEMMA TranscribeKeeps ==
  ASSUME LaneInv, NEW p \in Transcribers, Transcribe(p)
  PROVE  LaneInv'
<1>1. scribe[p].u \in Speeches /\ scribe[p].at # "free"
  BY DEF LaneInv, SpeechInv, Transcribe, SpeechTypeOK, OneHand, Nobody, Speeches
<1> DEFINE audio == {scribe[p].u} \X Parts
<1>2. audio \in SUBSET (Speeches \X Parts) /\ \A a \in audio : a[1] <= scribe[p].u
  <2>1. scribe[p].u <= scribe[p].u
    BY <1>1 DEF Speeches
  <2> QED BY <1>1, <2>1
<1> HIDE DEF audio
<1>3. CASE SettleUtterance(p, "batch", audio)
  BY <1>1, <1>2, <1>3, SettleUtteranceKeeps
<1>4. CASE SettleUtterance(p, "failed", {})
  BY <1>1, <1>4, SettleUtteranceKeeps
<1> QED BY <1>3, <1>4 DEF Transcribe, audio

\* The teardown cuts the segmenter off and cancels the maintainer.
LEMMA CloseSegmenterKeeps ==
  ASSUME LaneInv, CloseSegmenter
  PROVE  LaneInv'
<1> USE DEF LaneInv, SpeechInv
<1>0. /\ UNCHANGED <<uPc, uNow, uBuf, uSession, uCommit, uFinal, mPc, mStream, mDead,
                     mPoke, sState, sAudio, sPending, cResult, cAudio, cTimes, scribe,
                     jobs, jobCommit, chan, settled, text>>
      /\ tPc = "bound" /\ tPc' = "streams" /\ segClosed' = TRUE /\ mBound' = FALSE
  BY DEF CloseSegmenter, loopVars, managerVars, sessionVars, commitVars, workVars,
         teardownVars, onlyMaintainer, onlySession, onlyLoop, onlyWorker, onlyTeardown
<1>1. SpeechTypeOK'
  <2>1. {mDead, mPoke, mBound, segClosed} \subseteq BOOLEAN
    BY DEF SpeechTypeOK
  <2>2. {mDead', mPoke', mBound', segClosed'} \subseteq BOOLEAN
    <3> HIDE DEF LaneInv, SpeechInv
    <3> QED BY <1>0, <2>1
  <2>3. SpeechTypeOK
    OBVIOUS
  <2> HIDE DEF LaneInv, SpeechInv
  <2> QED BY <1>0, <2>2, <2>3 DEF SpeechTypeOK, Nobody, Streams, Speeches
<1>2. NoSendOnClosed'
  BY <1>0 DEF NoSendOnClosed, TornDownSoFar, OneHand, Free, LoopSound, Transcribers
<1>3. StreamsClosed'
  BY <1>0 DEF StreamsClosed, Nobody
<1>4. TornDownSoFar'
  BY <1>0 DEF TornDownSoFar
<1>5. OneHand'
  BY <1>0 DEF OneHand, InHand
<1>6. ResolvesOnce' /\ TranscribedOnce' /\ FlushDrains' /\ NoForeignTail' /\ LoopSound'
      /\ PendingOnce' /\ AudioSaid'
  BY <1>0 DEF ResolvesOnce, TranscribedOnce, FlushDrains, NoForeignTail, LoopSound,
         PendingOnce, AudioSaid, NotCommitted
<1> QED BY <1>1, <1>2, <1>3, <1>4, <1>5, <1>6

\* The session is closed once the maintainer is gone, so none is installed after.
LEMMA CloseStreamKeeps ==
  ASSUME LaneInv, CloseStream
  PROVE  LaneInv'
<1> USE DEF LaneInv, SpeechInv
<1>0. /\ UNCHANGED <<uPc, uNow, uBuf, uSession, uCommit, uFinal, mPc, mDead, mPoke, mBound,
                     sState, sAudio, sPending, cResult, cAudio, cTimes, scribe, jobs,
                     jobCommit, chan, segClosed, settled, text>>
      /\ tPc = "streams" /\ tPc' = "senders" /\ mPc = "gone" /\ mStream' = 0
  BY DEF CloseStream, Nobody, loopVars, managerVars, sessionVars, commitVars, workVars,
         teardownVars, onlyMaintainer, onlySession, onlyLoop, onlyWorker, onlyTeardown
<1>1. SpeechTypeOK'
  <2>1. {mDead, mPoke, mBound, segClosed} \subseteq BOOLEAN
    BY DEF SpeechTypeOK
  <2>2. {mDead', mPoke', mBound', segClosed'} \subseteq BOOLEAN
    <3> HIDE DEF LaneInv, SpeechInv
    <3> QED BY <1>0, <2>1
  <2>3. SpeechTypeOK
    OBVIOUS
  <2> HIDE DEF LaneInv, SpeechInv
  <2> QED BY <1>0, <2>2, <2>3 DEF SpeechTypeOK, Nobody, Streams, Speeches
<1>2. NoSendOnClosed'
  BY <1>0 DEF NoSendOnClosed, TornDownSoFar, OneHand, Free, LoopSound, Transcribers
<1>3. StreamsClosed'
  BY <1>0 DEF StreamsClosed, Nobody
<1>4. TornDownSoFar'
  BY <1>0 DEF TornDownSoFar
<1>5. OneHand'
  BY <1>0 DEF OneHand, InHand
<1>6. ResolvesOnce' /\ TranscribedOnce' /\ FlushDrains' /\ NoForeignTail' /\ LoopSound'
      /\ PendingOnce' /\ AudioSaid'
  BY <1>0 DEF ResolvesOnce, TranscribedOnce, FlushDrains, NoForeignTail, LoopSound,
         PendingOnce, AudioSaid, NotCommitted
<1> QED BY <1>1, <1>2, <1>3, <1>4, <1>5, <1>6

\* The channel is closed when no sender is enlisted.
LEMMA CloseJobsKeeps ==
  ASSUME LaneInv, CloseJobs
  PROVE  LaneInv'
<1> USE DEF LaneInv, SpeechInv
<1>0. /\ UNCHANGED <<uPc, uNow, uBuf, uSession, uCommit, uFinal, mPc, mStream, mDead,
                     mPoke, mBound, sState, sAudio, sPending, cResult, cAudio, cTimes,
                     scribe, jobs, jobCommit, segClosed, settled, text>>
      /\ tPc = "senders" /\ tPc' = "worker" /\ uPc # "enlisted" /\ chan' = "closed"
  BY DEF CloseJobs, NoSender, loopVars, managerVars, sessionVars, commitVars, workVars,
         teardownVars, onlyMaintainer, onlySession, onlyLoop, onlyWorker, onlyTeardown
<1>1. SpeechTypeOK'
  <2>1. {mDead, mPoke, mBound, segClosed} \subseteq BOOLEAN
    BY DEF SpeechTypeOK
  <2>2. {mDead', mPoke', mBound', segClosed'} \subseteq BOOLEAN
    <3> HIDE DEF LaneInv, SpeechInv
    <3> QED BY <1>0, <2>1
  <2>3. SpeechTypeOK
    OBVIOUS
  <2> HIDE DEF LaneInv, SpeechInv
  <2> QED BY <1>0, <2>2, <2>3 DEF SpeechTypeOK, Nobody, Streams, Speeches
<1>2. NoSendOnClosed'
  BY <1>0 DEF NoSendOnClosed, TornDownSoFar, OneHand, Free, LoopSound, Transcribers
<1>3. StreamsClosed'
  BY <1>0 DEF StreamsClosed, Nobody
<1>4. TornDownSoFar'
  BY <1>0 DEF TornDownSoFar
<1>5. OneHand'
  BY <1>0 DEF OneHand, InHand
<1>6. ResolvesOnce' /\ TranscribedOnce' /\ FlushDrains' /\ NoForeignTail' /\ LoopSound'
      /\ PendingOnce' /\ AudioSaid'
  BY <1>0 DEF ResolvesOnce, TranscribedOnce, FlushDrains, NoForeignTail, LoopSound,
         PendingOnce, AudioSaid, NotCommitted
<1> QED BY <1>1, <1>2, <1>3, <1>4, <1>5, <1>6

\* The worker leaves when its queue is empty.
LEMMA WorkerDrainedKeeps ==
  ASSUME LaneInv, WorkerDrained
  PROVE  LaneInv'
<1> USE DEF LaneInv, SpeechInv
<1>0. /\ UNCHANGED <<uPc, uNow, uBuf, uSession, uCommit, uFinal, mPc, mStream, mDead,
                     mPoke, mBound, sState, sAudio, sPending, cResult, cAudio, cTimes,
                     scribe, jobs, jobCommit, chan, segClosed, settled, text>>
      /\ tPc = "worker" /\ tPc' = "done" /\ jobs = <<>> /\ scribe["worker"] = Free
  BY DEF WorkerDrained, loopVars, managerVars, sessionVars, commitVars, workVars,
         teardownVars, onlyMaintainer, onlySession, onlyLoop, onlyWorker, onlyTeardown
<1>1. SpeechTypeOK'
  <2>1. {mDead, mPoke, mBound, segClosed} \subseteq BOOLEAN
    BY DEF SpeechTypeOK
  <2>2. {mDead', mPoke', mBound', segClosed'} \subseteq BOOLEAN
    <3> HIDE DEF LaneInv, SpeechInv
    <3> QED BY <1>0, <2>1
  <2>3. SpeechTypeOK
    OBVIOUS
  <2> HIDE DEF LaneInv, SpeechInv
  <2> QED BY <1>0, <2>2, <2>3 DEF SpeechTypeOK, Nobody, Streams, Speeches
<1>2. NoSendOnClosed'
  BY <1>0 DEF NoSendOnClosed, TornDownSoFar, OneHand, Free, LoopSound, Transcribers
<1>3. StreamsClosed'
  BY <1>0 DEF StreamsClosed, Nobody
<1>4. TornDownSoFar'
  BY <1>0 DEF TornDownSoFar
<1>5. OneHand'
  BY <1>0 DEF OneHand, InHand
<1>6. ResolvesOnce' /\ TranscribedOnce' /\ FlushDrains' /\ NoForeignTail' /\ LoopSound'
      /\ PendingOnce' /\ AudioSaid'
  BY <1>0 DEF ResolvesOnce, TranscribedOnce, FlushDrains, NoForeignTail, LoopSound,
         PendingOnce, AudioSaid, NotCommitted
<1> QED BY <1>1, <1>2, <1>3, <1>4, <1>5, <1>6

\* A step that changes nothing of the lane keeps it.
LEMMA LaneStutters ==
  ASSUME LaneInv, UNCHANGED speechVars
  PROVE  LaneInv'
<1> USE DEF LaneInv, SpeechInv, speechVars, loopVars, managerVars, sessionVars, commitVars,
  workVars, teardownVars, onlyMaintainer, onlySession, onlyLoop, onlyWorker, onlyTeardown
<1>1. SpeechTypeOK'
  BY DEF SpeechTypeOK, Speeches, Streams
<1>2. NoSendOnClosed'
  BY DEF NoSendOnClosed, TornDownSoFar, OneHand, Free, LoopSound, Transcribers
<1>3. ResolvesOnce'
  BY DEF ResolvesOnce, PendingOnce, SpeechTypeOK, Speeches
<1>4. TranscribedOnce'
  BY DEF TranscribedOnce, OneHand, LoopSound, SpeechTypeOK, Speeches, Nobody, Transcribers
<1>5. FlushDrains'
  BY DEF FlushDrains, OneHand, LoopSound, SpeechTypeOK, InHand, Nobody, Transcribers
<1>6. StreamsClosed'
  BY DEF StreamsClosed, Nobody
<1>7. NoForeignTail'
  BY DEF NoForeignTail, AudioSaid
<1>8. LoopSound'
  BY DEF LoopSound, Nobody, Speeches, SpeechTypeOK
<1>9. OneHand'
  BY DEF OneHand, InHand, LoopSound, SpeechTypeOK, Nobody, Speeches, Transcribers
<1>10. PendingOnce'
  BY DEF PendingOnce, NotCommitted, SpeechTypeOK, Speeches, LoopSound, Nobody
<1>11. AudioSaid'
  BY DEF AudioSaid, SpeechTypeOK, Speeches, LoopSound, Nobody
<1>12. TornDownSoFar'
  BY DEF TornDownSoFar
<1> QED BY <1>1, <1>2, <1>3, <1>4, <1>5, <1>6, <1>7, <1>8, <1>9, <1>10, <1>11, <1>12

\* Every step of a Speaker Lane, its sessions and its worker keeps it.
LEMMA LaneStep == LaneInv /\ [SpeechNext]_speechVars => LaneInv'
<1> SUFFICES ASSUME LaneInv, [SpeechNext]_speechVars PROVE LaneInv'
  OBVIOUS
<1>1. CASE MaintainerStep
  BY <1>1, MaintainerStepKeeps
<1>2. ASSUME NEW s \in Streams, ProviderAnswers(s) PROVE LaneInv'
  BY <1>2, ProviderAnswersKeeps
<1>3. ASSUME NEW s \in Streams, SessionDies(s) PROVE LaneInv'
  BY <1>3, SessionDiesKeeps
<1>4. ASSUME NEW s \in Streams, DrainPending(s) PROVE LaneInv'
  BY <1>4, DrainPendingKeeps
<1>5. CASE BeginUtterance
  BY <1>5, BeginUtteranceKeeps
<1>6. CASE SendHead
  BY <1>6, SendHeadKeeps
<1>7. CASE ReadSession
  BY <1>7, ReadSessionKeeps
<1>8. CASE SendTail
  BY <1>8, SendTailKeeps
<1>9. ASSUME NEW flush \in BOOLEAN, EndUtterance(flush) PROVE LaneInv'
  BY <1>9, EndUtteranceKeeps
<1>10. CASE CommitSession
  BY <1>10, CommitSessionKeeps
<1>11. CASE EnqueueCommit
  BY <1>11, EnqueueCommitKeeps
<1>12. CASE FlushIdle
  BY <1>12, FlushIdleKeeps
<1>13. CASE DispatchTranscription
  BY <1>13, DispatchTranscriptionKeeps
<1>14. CASE SendJob
  BY <1>14, SendJobKeeps
<1>15. CASE InlineDone
  BY <1>15, InlineDoneKeeps
<1>16. CASE FlushReturns
  BY <1>16, FlushReturnsKeeps
<1>17. CASE TakeJob
  BY <1>17, TakeJobKeeps
<1>18. ASSUME NEW p \in Transcribers, CommitFails(p) PROVE LaneInv'
  BY <1>18, CommitFailsKeeps
<1>19. ASSUME NEW p \in Transcribers, CommitResolves(p) PROVE LaneInv'
  BY <1>19, CommitResolvesKeeps
<1>20. ASSUME NEW p \in Transcribers, Transcribe(p) PROVE LaneInv'
  BY <1>20, TranscribeKeeps
<1>21. CASE CloseSegmenter
  BY <1>21, CloseSegmenterKeeps
<1>22. CASE CloseStream
  BY <1>22, CloseStreamKeeps
<1>23. CASE CloseJobs
  BY <1>23, CloseJobsKeeps
<1>24. CASE WorkerDrained
  BY <1>24, WorkerDrainedKeeps
<1>25. CASE UNCHANGED speechVars
  BY <1>25, LaneStutters
<1> QED BY <1>1, <1>2, <1>3, <1>4, <1>5, <1>6, <1>7, <1>8, <1>9, <1>10, <1>11, <1>12,
             <1>13, <1>14, <1>15, <1>16, <1>17, <1>18, <1>19, <1>20, <1>21, <1>22, <1>23,
             <1>24, <1>25 DEF SpeechNext, SessionStep, LoopStep, TranscriberStep,
             TeardownStep

\* A lane is bound so.
LEMMA LaneStarts == SpeechInit => LaneInv
<1> SUFFICES ASSUME SpeechInit PROVE LaneInv
  OBVIOUS
<1>1. /\ <<>> \in Seq(Speeches) /\ Range(<<>>) = {} /\ IsInjective(<<>>)
  <2>1. <<>> \in Seq(Speeches)
    OBVIOUS
  <2> QED BY <2>1, EmptyRange
<1>2. /\ MaxSpeeches \in Nat /\ MaxStreams \in Nat
  BY SpeechAssumption
<1>3. Free \in [u : 0..MaxSpeeches, at : {"free", "awaiting", "batch"}] /\ Free.u = 0
      /\ Free.at = "free"
  BY <1>2 DEF Free, Nobody
<1>4. \A p \in Transcribers : scribe[p].u = 0 /\ scribe[p].at = "free"
  BY <1>3 DEF SpeechInit
<1>5. SpeechTypeOK
  <2>1. {mDead, mPoke, mBound, segClosed} \subseteq BOOLEAN
    BY DEF SpeechInit
  <2>2. scribe \in [Transcribers -> [u : 0..MaxSpeeches, at : {"free", "awaiting",
        "batch"}]]
    BY <1>3 DEF SpeechInit
  <2>3. sPending \in [Streams -> Seq(Speeches)] /\ jobs \in Seq(Speeches)
    BY <1>1 DEF SpeechInit
  <2>4. /\ sAudio \in [Streams -> SUBSET (Speeches \X Parts)]
        /\ cAudio \in [Speeches -> SUBSET (Speeches \X Parts)]
             /\ text \in [Speeches -> SUBSET (Speeches \X Parts)]
    BY DEF SpeechInit
  <2>5. uNow \in 0..MaxSpeeches /\ uBuf \in 0..MaxSpeeches /\ uCommit \in 0..MaxSpeeches
    BY <1>2 DEF SpeechInit, Nobody
  <2>6. uSession \in 0..MaxStreams /\ mStream \in 0..MaxStreams
    BY <1>2 DEF SpeechInit, Nobody
  <2>7. /\ sState \in [Streams -> {"none", "open", "dead", "drained"}]
        /\ cResult \in [Speeches -> {"none", "text", "error"}]
             /\ cTimes \in [Speeches -> 0..2]
        /\ jobCommit \in [Speeches -> BOOLEAN]
        /\ settled \in [Speeches -> {"none", "streamed", "batch", "failed"}]
    BY DEF SpeechInit
  <2>8. /\ uPc = "idle" /\ uFinal = FALSE /\ mPc = "dialing" /\ chan = "open"
             /\ tPc = "bound"
    BY DEF SpeechInit
  <2> QED BY <2>1, <2>2, <2>3, <2>4, <2>5, <2>6, <2>7, <2>8 DEF SpeechTypeOK
<1>6. NoSendOnClosed /\ FlushDrains /\ StreamsClosed /\ TornDownSoFar
  BY DEF SpeechInit, NoSendOnClosed, FlushDrains, StreamsClosed, TornDownSoFar
<1>7. ResolvesOnce /\ TranscribedOnce /\ NoForeignTail
  BY DEF SpeechInit, ResolvesOnce, TranscribedOnce, NoForeignTail
<1>8. LoopSound /\ AudioSaid
  BY DEF SpeechInit, LoopSound, AudioSaid, Nobody
<1>9. OneHand
  BY <1>1, <1>4 DEF SpeechInit, OneHand, Nobody, Transcribers
<1>10. PendingOnce
  BY <1>1 DEF SpeechInit, PendingOnce
<1> QED BY <1>5, <1>6, <1>7, <1>8, <1>9, <1>10 DEF LaneInv, SpeechInv

\* The invariant of a Speaker Lane holds in every state of every behaviour, however the
\* audio loop, the maintainer, the provider, the worker and the teardown interleave
\* (reactor.go, sttstream.go, stt/elevenlabs/stream.go).
THEOREM LaneKept == SpeechSpec => []LaneInv
<1> QED BY LaneStarts, LaneStep, PTL DEF SpeechSpec

\* Nobody sends on the closed channel, a commit resolves once, an utterance has one final
\* of no audio said after it, and Flush leaves none behind, for any number of utterances
\* and sessions.
THEOREM SpeechSafe == SpeechSpec => []SpeechInv
<1>1. LaneInv => SpeechInv
  BY DEF LaneInv
<1> QED BY <1>1, LaneKept, PTL

HIDE SpeechAssumption
-------------------------------------------------------------------------------
(*************************************************************************)
(* The records. TranscriptInv and CountAuthoritative are not inductive:  *)
(* RecordSound adds what the write queue may hold, what the relay still  *)
(* owes of a line that was never heard, and what both projections know   *)
(* of the sentence a turn speaks.                                        *)
(*************************************************************************)

\* What the queue may hold: a barrier is its last item, and the retraction of a line comes
\* after every UPSERT of it.
Upsert(t) == [op |-> "upsert", id |-> t]

Retraction(t) == [op |-> "delete", id |-> t]

NoBarrier(q) == \A i \in DOMAIN q : q[i].op # "barrier"

RetractionsLast(q) == \A t \in Turns : \A i, j \in DOMAIN q :
  q[i] = Upsert(t) /\ q[j] = Retraction(t) => i < j

BarrierLast(q) == \A i \in DOMAIN q : q[i].op = "barrier" => i = Len(q)

\* While both projections may fold.
Folding == phase \in {"live", "ended"}

QueueSound ==
  /\ RetractionsLast(queue) /\ BarrierLast(queue)
  /\ ~NoBarrier(queue) => phase \in {"flushing", "finalized", "flushed"}
  /\ counted # NoCount => queue = <<>> /\ phase \in {"finalized", "flushed"}

\* DeliveredOnce and RecordsAgree, of one turn.
Delivered(t) ==
  /\ phase # "flushed" => cLine[t] \subseteq heard[t]
  /\ heard[t] \subseteq cLine[t] \cup chunked[t]
  /\ cLine[t] \cap chunked[t] = {}

Agree(t) == Folding /\ ~over[t] =>
  /\ deliveredN[t] = Cardinality(heard[t])
  /\ pending[t] <=> cPending[t] # 0
  /\ line[t] /\ deliveredN[t] = 0 => t \in unconfirmed

\* A line nothing of was delivered is to be taken back, or was given up; it is taken back
\* when its turn is over.
Settled(t) ==
  /\ deliveredN[t] = 0 /\ (t \in rows \/ Upsert(t) \in Range(queue)) =>
       t \in unconfirmed \/ t \in undone \/ Retraction(t) \in Range(queue)
  /\ Retraction(t) \in Range(queue) => ended[t] \/ ~Folding
  /\ ~Folding => t \notin unconfirmed

\* A projection that has no entry has folded nothing.
Unseen(t) == ~seen =>
  /\ ~ended[t] /\ ~cEnded[t] /\ ~pending[t] /\ ~line[t] /\ deliveredN[t] = 0
  /\ cPending[t] = 0 /\ lastCommitted[t] = 0 /\ cLine[t] = {} /\ heard[t] = {}
  /\ mouth[t] # "none" => t \notin mid
  /\ phase = "live" => ~over[t] /\ mouth[t] = "none" /\ said[t] = 0

\* What the projections know of a turn's sentence.
Known(t) ==
  /\ heard[t] \cup cLine[t] \cup chunked[t] \subseteq 1..said[t]
  /\ mouth[t] # "none" => said[t] > 0
  /\ mouth[t] = "dispatched" => said[t] \notin heard[t] \cup cLine[t] \cup chunked[t]
  /\ mouth[t] = "dispatched" /\ ~over[t] /\ seen => cPending[t] = said[t]
  /\ mouth[t] = "audible" => cPending[t] = 0
  /\ mouth[t] = "audible" /\ ~over[t] => said[t] \in heard[t]
  /\ mouth[t] = "audible" /\ ~over[t] /\ seen => lastCommitted[t] = said[t]
  /\ cPending[t] \in {0, said[t]}
  /\ cEnded[t] \/ ended[t] => over[t]
  /\ over[t] /\ seen => cEnded[t] /\ cPending[t] = 0
  /\ deliveredN[t] <= said[t] /\ (pending[t] => deliveredN[t] < said[t])
  /\ pending[t] \/ deliveredN[t] > 0 => line[t]

TurnSound(t) == Delivered(t) /\ Agree(t) /\ Settled(t) /\ Unseen(t) /\ Known(t)

\* RecordInv but for NoUnheardLine, which follows, and what the queue, the relay and the
\* chunker hold in between.
RecordSound ==
  /\ TypeOK /\ CountIsEntries /\ CountAuthoritative /\ QueueSound
  /\ \A t \in Turns : TurnSound(t)

\* An item the queue takes, at its end.
LEMMA QueueAppends ==
  ASSUME NEW q \in Seq(Ops), NEW x \in Ops, NoBarrier(q), RetractionsLast(q),
         \A t \in Turns : x = Upsert(t) => Retraction(t) \notin Range(q)
  PROVE  /\ Append(q, x) \in Seq(Ops) /\ Len(Append(q, x)) = Len(q) + 1
         /\ Range(Append(q, x)) = Range(q) \cup {x}
         /\ RetractionsLast(Append(q, x))
         /\ BarrierLast(Append(q, x))
         /\ x.op # "barrier" => NoBarrier(Append(q, x))
<1> DEFINE r == Append(q, x)
<1>1. /\ r \in Seq(Ops) /\ Len(r) = Len(q) + 1 /\ Len(q) \in Nat
      /\ DOMAIN q = 1..Len(q) /\ DOMAIN r = 1..(Len(q) + 1)
      /\ r[Len(q) + 1] = x /\ \A i \in 1..Len(q) : r[i] = q[i]
  BY AppendProperties
<1> HIDE DEF r
<1>2. \A i \in DOMAIN r : (i \in DOMAIN q /\ r[i] = q[i]) \/ (i = Len(q) + 1 /\ r[i] = x)
  BY <1>1
<1>3. Range(r) = Range(q) \cup {x}
  <2>1. \A i \in DOMAIN r : r[i] \in Range(q) \cup {x}
    BY <1>2 DEF Range
  <2>2. \A i \in DOMAIN q : i \in DOMAIN r /\ q[i] = r[i]
    BY <1>1
  <2>3. x \in Range(r)
    BY <1>1 DEF Range
  <2> QED BY <2>1, <2>2, <2>3 DEF Range
<1>4. RetractionsLast(r)
  <2> SUFFICES ASSUME NEW t \in Turns, NEW i \in DOMAIN r, NEW j \in DOMAIN r,
                      r[i] = Upsert(t), r[j] = Retraction(t)
               PROVE  i < j
    BY DEF RetractionsLast
  <2>1. r[i].op = "upsert" /\ r[j].op = "delete"
    BY DEF Upsert, Retraction
  <2>2. CASE j \in DOMAIN q /\ r[j] = q[j]
    <3>1. Retraction(t) \in Range(q)
      BY <2>2 DEF Range
    <3>2. i \in DOMAIN q /\ r[i] = q[i]
      BY <1>2, <3>1
    <3> QED BY <2>2, <3>2 DEF RetractionsLast
  <2>3. CASE j = Len(q) + 1 /\ r[j] = x
    <3>1. i \in DOMAIN q
      BY <1>2, <2>1, <2>3
    <3> QED BY <1>1, <2>3, <3>1
  <2> QED BY <1>2, <2>2, <2>3
<1>5. BarrierLast(r)
  BY <1>1, <1>2 DEF NoBarrier, BarrierLast
<1>6. x.op # "barrier" => NoBarrier(r)
  BY <1>2 DEF NoBarrier
<1> QED BY <1>1, <1>3, <1>4, <1>5, <1>6 DEF r

\* The item at its head is taken.
LEMMA QueueTakes ==
  ASSUME NEW q \in Seq(Ops), q # <<>>, RetractionsLast(q), BarrierLast(q)
  PROVE  /\ Head(q) \in Ops /\ Tail(q) \in Seq(Ops) /\ Len(Tail(q)) = Len(q) - 1
         /\ Range(q) = Range(Tail(q)) \cup {Head(q)}
         /\ RetractionsLast(Tail(q))
         /\ BarrierLast(Tail(q)) /\ (NoBarrier(q) => NoBarrier(Tail(q)))
         /\ Head(q).op = "barrier" => Tail(q) = <<>>
         /\ \A t \in Turns : Head(q) = Retraction(t) => Upsert(t) \notin Range(Tail(q))
<1> DEFINE r == Tail(q)
<1>1. /\ Len(q) \in Nat \ {0} /\ DOMAIN q = 1..Len(q) /\ Head(q) = q[1] /\ Head(q) \in Ops
      /\ r \in Seq(Ops) /\ Len(r) = Len(q) - 1 /\ DOMAIN r = 1..(Len(q) - 1)
      /\ \A i \in 1..(Len(q) - 1) : r[i] = q[i + 1]
  BY HeadTailProperties
<1> HIDE DEF r
<1>2. \A i \in DOMAIN r : i + 1 \in DOMAIN q /\ r[i] = q[i + 1]
  BY <1>1
<1>3. \A i \in DOMAIN q : i = 1 \/ (i - 1 \in DOMAIN r /\ r[i - 1] = q[i])
  <2> TAKE i \in DOMAIN q
  <2>1. CASE i = 1
    BY <2>1
  <2>2. CASE i # 1
    <3>1. i - 1 \in 1..(Len(q) - 1) /\ (i - 1) + 1 = i
      BY <1>1, <2>2
    <3> QED BY <1>1, <3>1
  <2> QED BY <2>1, <2>2
<1>4. Range(q) = Range(r) \cup {Head(q)}
  <2>1. \A i \in DOMAIN q : q[i] \in Range(r) \cup {Head(q)}
    BY <1>1, <1>3 DEF Range
  <2>2. \A i \in DOMAIN r : r[i] \in Range(q)
    BY <1>2 DEF Range
  <2>3. Head(q) \in Range(q)
    BY <1>1 DEF Range
  <2> QED BY <2>1, <2>2, <2>3 DEF Range
<1>5. RetractionsLast(r)
  <2> SUFFICES ASSUME NEW t \in Turns, NEW i \in DOMAIN r, NEW j \in DOMAIN r,
                      r[i] = Upsert(t), r[j] = Retraction(t)
               PROVE  i < j
    BY DEF RetractionsLast
  <2>1. i + 1 < j + 1
    BY <1>2 DEF RetractionsLast
  <2> QED BY <1>1, <2>1
<1>6. BarrierLast(r) /\ (NoBarrier(q) => NoBarrier(r))
  <2> SUFFICES ASSUME NEW i \in DOMAIN r, r[i].op = "barrier"
               PROVE  i = Len(r) /\ ~NoBarrier(q)
    BY DEF BarrierLast, NoBarrier
  <2>1. i + 1 \in DOMAIN q /\ q[i + 1].op = "barrier"
    BY <1>2
  <2>2. i + 1 = Len(q)
    BY <2>1 DEF BarrierLast
  <2> QED BY <1>1, <2>1, <2>2 DEF NoBarrier
<1>7. Head(q).op = "barrier" => r = <<>>
  <2>1. Head(q).op = "barrier" => Len(q) = 1
    BY <1>1 DEF BarrierLast
  <2> QED BY <1>1, <2>1, EmptySeq
<1>8. \A t \in Turns : Head(q) = Retraction(t) => Upsert(t) \notin Range(r)
  <2> SUFFICES ASSUME NEW t \in Turns, q[1] = Retraction(t), NEW i \in DOMAIN r,
    r[i] = Upsert(t)
               PROVE  FALSE
    BY <1>1 DEF Range
  <2>1. i + 1 \in DOMAIN q /\ q[i + 1] = Upsert(t) /\ 1 \in DOMAIN q
    BY <1>1, <1>2
  <2>2. i + 1 < 1
    BY <2>1 DEF RetractionsLast
  <2> QED BY <1>1, <2>2
<1> QED BY <1>1, <1>4, <1>5, <1>6, <1>7, <1>8 DEF r

\* The elements of a finite set, each once.
LEMMA SetToSeqRange ==
  ASSUME NEW S, IsFiniteSet(S)
  PROVE  SetToSeq(S) \in Seq(S) /\ Len(SetToSeq(S)) = Cardinality(S)
         /\ Range(SetToSeq(S)) = S
<1> DEFINE n == Cardinality(S)
           f == SetToSeq(S)
<1>1. n \in Nat /\ ExistsBijection(1..n, S)
  BY FS_CardinalityType
<1>2. IsFiniteSet(1..n) /\ Cardinality(1..n) = n
  BY <1>1, FS_Interval
<1>3. \E g \in [1..n -> S] : IsInjective(g)
  BY <1>1 DEF ExistsBijection, Bijection, Injection
<1>4. f \in [1..n -> S] /\ IsInjective(f)
  BY <1>3 DEF SetToSeq
<1>5. f \in Injection(1..n, S)
  BY <1>4 DEF Injection
<1>6. f \in Surjection(1..n, S)
  BY <1>2, <1>5, FS_Injection
<1> HIDE DEF n, f
<1>7. Range(f) = S
  BY <1>4, <1>6 DEF Surjection, Range
<1>8. f \in Seq(S) /\ Len(f) = n
  BY <1>1, <1>4
<1> QED BY <1>7, <1>8 DEF n, f

\* The retractions of a set of turns, behind all that is queued.
LEMMA QueueRetracts ==
  ASSUME NEW q \in Seq(Ops), NEW S \in SUBSET Turns, NoBarrier(q), RetractionsLast(q)
  PROVE  LET r == q \o SetToSeq({[op |-> "delete", id |-> t] : t \in S}) IN
         /\ r \in Seq(Ops) /\ Len(r) <= Len(q) + Cardinality(S)
         /\ Range(r) = Range(q) \cup {Retraction(t) : t \in S}
         /\ RetractionsLast(r) /\ NoBarrier(r)
<1> DEFINE T == {Retraction(t) : t \in S}
           s == SetToSeq(T)
           r == q \o s
<1>1. IsFiniteSet(S) /\ IsFiniteSet(T) /\ Cardinality(T) <= Cardinality(S)
  <2>1. IsFiniteSet(S)
    BY TranscriptAssumption, FS_Subset
  <2> DEFINE f == [t \in S |-> Retraction(t)]
  <2>2. f \in Surjection(S, T)
    BY DEF Surjection
  <2> HIDE DEF f, T
  <2> QED BY <2>1, <2>2, FS_Surjection
<1>2. T \subseteq Ops
  BY DEF Ops, Retraction, Lines
<1>3. T = {[op |-> "delete", id |-> t] : t \in S}
  BY DEF Retraction
<1>4. \A x \in T : x.op = "delete"
  BY DEF Retraction
<1> HIDE DEF T
<1>5. s \in Seq(T) /\ Len(s) = Cardinality(T) /\ Range(s) = T
  BY <1>1, SetToSeqRange
<1> HIDE DEF s
<1>6. Len(q) \in Nat /\ Len(s) \in Nat /\ DOMAIN q = 1..Len(q) /\ DOMAIN s = 1..Len(s)
      /\ s \in Seq(Ops)
  BY <1>2, <1>5
<1>7. /\ r \in Seq(Ops) /\ Len(r) = Len(q) + Len(s)
      /\ \A i \in 1..(Len(q) + Len(s)) : r[i] = IF i <= Len(q) THEN q[i] ELSE s[i - Len(q)]
  BY <1>6, ConcatProperties
<1> HIDE DEF r
<1>8. \A i \in DOMAIN r : (i \in DOMAIN q /\ r[i] = q[i]) \/ (i > Len(q) /\ r[i] \in T)
  <2> TAKE i \in DOMAIN r
  <2>1. i \in 1..(Len(q) + Len(s))
    BY <1>6, <1>7
  <2>2. CASE i <= Len(q)
    BY <1>6, <1>7, <2>1, <2>2
  <2>3. CASE ~(i <= Len(q))
    <3>1. i - Len(q) \in DOMAIN s
      BY <1>6, <2>1, <2>3
    <3>2. s[i - Len(q)] \in T
      BY <1>5, <3>1 DEF Range
    <3> QED BY <1>6, <1>7, <2>1, <2>3, <3>2
  <2> QED BY <2>2, <2>3
<1>9. Range(r) = Range(q) \cup T
  <2>1. \A i \in DOMAIN r : r[i] \in Range(q) \cup T
    BY <1>8 DEF Range
  <2>2. \A i \in DOMAIN q : i \in DOMAIN r /\ r[i] = q[i]
    BY <1>6, <1>7
  <2>3. \A i \in DOMAIN s : i + Len(q) \in DOMAIN r /\ r[i + Len(q)] = s[i]
    <3> TAKE i \in DOMAIN s
    <3>1. /\ i + Len(q) \in 1..(Len(q) + Len(s)) /\ ~(i + Len(q) <= Len(q))
          /\ (i + Len(q)) - Len(q) = i
      BY <1>6
    <3> QED BY <1>7, <3>1
  <2>4. \A x \in T : \E i \in DOMAIN r : r[i] = x
    BY <1>5, <2>3 DEF Range
  <2> QED BY <2>1, <2>2, <2>4 DEF Range
<1>10. NoBarrier(r)
  BY <1>4, <1>8 DEF NoBarrier
<1>11. RetractionsLast(r)
  <2> SUFFICES ASSUME NEW t \in Turns, NEW i \in DOMAIN r, NEW j \in DOMAIN r,
                      r[i] = Upsert(t), r[j] = Retraction(t)
               PROVE  i < j
    BY DEF RetractionsLast
  <2>1. r[i].op = "upsert"
    BY DEF Upsert
  <2>2. i \in DOMAIN q /\ q[i] = Upsert(t)
    BY <1>4, <1>8, <2>1
  <2>3. CASE j \in DOMAIN q /\ r[j] = q[j]
    BY <2>2, <2>3 DEF RetractionsLast
  <2>4. CASE j > Len(q)
    BY <1>6, <1>7, <2>2, <2>4
  <2> QED BY <1>8, <2>3, <2>4
<1>12. Cardinality(S) \in Nat /\ Cardinality(T) \in Nat
  BY <1>1, FS_CardinalityType
<1>13. Len(r) <= Len(q) + Cardinality(S)
  BY <1>1, <1>5, <1>6, <1>7, <1>12
<1>14. r = q \o SetToSeq({[op |-> "delete", id |-> t] : t \in S})
  BY <1>3 DEF r, s
<1>15. Range(r) = Range(q) \cup {Retraction(t) : t \in S}
  BY <1>9 DEF T
<1> QED BY <1>7, <1>10, <1>11, <1>13, <1>14, <1>15

\* The turns that have a line in the open chunk.
Open(c) == {t \in Turns : c[t] # {}}

\* How many they are, when the line of one turn changes.
LEMMA OpenLines ==
  ASSUME NEW c \in [Turns -> SUBSET Sentences]
  PROVE  /\ Cardinality(Open(c)) \in Nat
         /\ (\A t \in Turns : c[t] = {}) => Cardinality(Open(c)) = 0
         /\ \A t \in Turns : \A s \in SUBSET Sentences :
              Cardinality(Open([c EXCEPT ![t] = s])) =
                IF c[t] = {} /\ s # {} THEN Cardinality(Open(c)) + 1
                ELSE IF c[t] # {} /\ s = {} THEN Cardinality(Open(c)) - 1
                ELSE Cardinality(Open(c))
<1>1. IsFiniteSet(Open(c)) /\ Cardinality(Open(c)) \in Nat
  <2>1. Open(c) \in SUBSET Turns
    BY DEF Open
  <2>2. IsFiniteSet(Open(c))
    BY <2>1, TranscriptAssumption, FS_Subset
  <2> QED BY <2>2, FS_CardinalityType
<1>2. (\A t \in Turns : c[t] = {}) => Cardinality(Open(c)) = 0
  <2>1. (\A t \in Turns : c[t] = {}) => Open(c) = {}
    BY DEF Open
  <2> QED BY <2>1, FS_EmptySet
<1>3. ASSUME NEW t \in Turns, NEW s \in SUBSET Sentences
      PROVE  Cardinality(Open([c EXCEPT ![t] = s])) =
                IF c[t] = {} /\ s # {} THEN Cardinality(Open(c)) + 1
                ELSE IF c[t] # {} /\ s = {} THEN Cardinality(Open(c)) - 1
                ELSE Cardinality(Open(c))
  <2> DEFINE d == [c EXCEPT ![t] = s]
  <2>1. \A u \in Turns : d[u] = IF u = t THEN s ELSE c[u]
    OBVIOUS
  <2> HIDE DEF d
  <2>2. Open(d) = IF s # {} THEN Open(c) \cup {t} ELSE Open(c) \ {t}
    BY <2>1 DEF Open
  <2>3. t \in Open(c) <=> c[t] # {}
    BY DEF Open
  <2>4. Cardinality(Open(c) \cup {t}) = IF t \in Open(c) THEN Cardinality(Open(c))
        ELSE Cardinality(Open(c)) + 1
    BY <1>1, FS_AddElement
  <2>5. Cardinality(Open(c) \ {t}) = IF t \in Open(c) THEN Cardinality(Open(c)) - 1
        ELSE Cardinality(Open(c))
    BY <1>1, FS_RemoveElement
  <2> QED BY <2>2, <2>3, <2>4, <2>5 DEF d
<1> QED BY <1>1, <1>2, <1>3

\* The open chunk goes on with these lines, or closes over them.
ChunkHolds(lines) ==
  /\ cLine' \in [Turns -> SUBSET Sentences] /\ chunked' \in [Turns -> SUBSET Sentences]
  /\ count' \in 0..MaxUtterances /\ window' \in {"none", "running", "elapsed"}
  /\ \/ \A u \in Turns : cLine'[u] = lines[u] /\ chunked'[u] = chunked[u]
     \/ \A u \in Turns : cLine'[u] = {} /\ chunked'[u] = chunked[u] \cup lines[u]
  /\ CountIsEntries'

\* What a chunk that closes holds is closed, and nothing is left to count.
LEMMA ChunkCloses ==
  ASSUME TypeOK, NEW lines \in [Turns -> SUBSET Sentences], CloseChunk(lines),
         human' \in Nat
  PROVE  ChunkHolds(lines)
<1>1. /\ chunked' = [t \in Turns |-> chunked[t] \cup lines[t]]
      /\ cLine' = [t \in Turns |-> {}] /\ count' = 0 /\ window' = "none"
  BY DEF CloseChunk
<1>2. cLine' \in [Turns -> SUBSET Sentences] /\ chunked' \in [Turns -> SUBSET Sentences]
  BY <1>1 DEF TypeOK
<1>3. \A t \in Turns : cLine'[t] = {}
  BY <1>1
<1>4. Cardinality(Open(cLine')) = 0
  BY <1>2, <1>3, OpenLines
<1>5. CountIsEntries'
  <2>1. Cardinality({t \in Turns : cLine'[t] # {}}) = 0
    BY <1>4 DEF Open
  <2>2. \A n \in Nat : 0 <= 0 /\ 0 <= 0 + n
    OBVIOUS
  <2>3. 0 <= 0 /\ 0 <= 0 + human'
    BY <2>2
  <2> QED BY <1>1, <2>1, <2>3 DEF CountIsEntries
<1>6. count' \in 0..MaxUtterances
  BY <1>1, TranscriptAssumption
<1> QED BY <1>1, <1>2, <1>5, <1>6 DEF ChunkHolds

\* One more utterance: the chunk it fills, or that was waiting for it, closes.
LEMMA ChunkTakes ==
  ASSUME TypeOK, CountIsEntries, NEW lines \in [Turns -> SUBSET Sentences], Append1(lines),
         human' \in Nat,
         Cardinality(Open(lines)) <= count + 1,
           count + 1 <= Cardinality(Open(lines)) + human'
  PROVE  ChunkHolds(lines)
<1>1. CASE CloseChunk(lines)
  BY <1>1, ChunkCloses
<1>2. CASE /\ ~(count + 1 >= MaxUtterances \/ (count + 1 >= 2 /\ window = "elapsed"))
           /\ cLine' = lines /\ count' = count + 1 /\ UNCHANGED chunked
           /\ window' = IF window = "none" THEN "running" ELSE window
  <2>1. MaxUtterances \in Nat /\ count \in 0..MaxUtterances /\ window \in {"none",
        "running", "elapsed"}
        /\ chunked \in [Turns -> SUBSET Sentences]
    BY TranscriptAssumption DEF TypeOK
  <2>2. count' \in 0..MaxUtterances /\ window' \in {"none", "running", "elapsed"}
    BY <1>2, <2>1
  <2>3. window' = "elapsed" => count' < 2
    BY <1>2, <2>1
  <2>4. CountIsEntries'
    BY <1>2, <2>3 DEF CountIsEntries, Open
  <2> QED BY <1>2, <2>1, <2>2, <2>4 DEF ChunkHolds
<1> QED BY <1>1, <1>2 DEF Append1

\* The open chunk is left as it is.
LEMMA ChunkStays ==
  ASSUME TypeOK, CountIsEntries, UNCHANGED <<cLine, count, window, chunked>>,
         human' = human \/ (human' = human + 1 /\ human \in Nat)
  PROVE  ChunkHolds(cLine)
<1>1. Cardinality(Open(cLine)) \in Nat
  BY OpenLines DEF TypeOK
<1>2. CountIsEntries'
  <2>1. human \in Nat /\ count \in 0..MaxUtterances /\ MaxUtterances \in Nat
    BY TranscriptAssumption DEF TypeOK
  <2> QED BY <1>1, <2>1 DEF CountIsEntries, Open
<1> QED BY <1>2 DEF ChunkHolds, TypeOK

\* The lines of all turns but those in this set keep their place in the queue.
LinesKeep(S) == \A u \in Turns \ S :
  /\ Upsert(u) \in Range(queue') => Upsert(u) \in Range(queue)
  /\ Retraction(u) \in Range(queue') <=> Retraction(u) \in Range(queue)

\* The queue's own part of the invariant, typed.
QueueFits ==
  /\ queue' \in Seq(Ops) /\ Len(queue') <= QueueCap
  /\ RetractionsLast(queue') /\ BarrierLast(queue')

\* An UPSERT enters the queue, unless it is full.
LEMMA PersistHolds ==
  ASSUME RecordSound, Folding, NEW id \in Lines, Persist(id), id \in Turns => ~ended[id]
  PROVE  /\ QueueFits /\ NoBarrier(queue') /\ LinesKeep({id})
         /\ \A t \in Turns : Retraction(t) \in Range(queue')
              <=> Retraction(t) \in Range(queue)
<1>1. /\ queue \in Seq(Ops) /\ Len(queue) <= QueueCap /\ RetractionsLast(queue)
      /\ BarrierLast(queue) /\ NoBarrier(queue)
  BY DEF RecordSound, TypeOK, QueueSound, Folding
<1>2. \A t \in Turns : Retraction(t) \in Range(queue) => ended[t]
  BY DEF RecordSound, TurnSound, Settled
<1>3. CASE queue' = queue
  BY <1>1, <1>3 DEF QueueFits, LinesKeep
<1>4. CASE Room(1) /\ queue' = Append(queue, Upsert(id))
  <2> DEFINE x == Upsert(id)
  <2>1. x \in Ops /\ x.op = "upsert" /\ x.id = id
    BY DEF Ops, Upsert
  <2>2. \A t \in Turns : x # Retraction(t) /\ (x = Upsert(t) => t = id)
    BY <2>1 DEF Retraction, Upsert
  <2>3. \A t \in Turns : x = Upsert(t) => Retraction(t) \notin Range(queue)
    BY <1>2, <2>2
  <2>4. queue' = Append(queue, x) /\ x.op # "barrier"
    BY <1>4, <2>1
  <2> HIDE DEF x
  <2>5. /\ queue' \in Seq(Ops) /\ Len(queue') = Len(queue) + 1
             /\ Range(queue') = Range(queue) \cup {x}
        /\ RetractionsLast(queue') /\ NoBarrier(queue') /\ BarrierLast(queue')
    BY <1>1, <2>1, <2>3, <2>4, QueueAppends
  <2>6. Len(queue) + 1 <= QueueCap
    BY <1>4 DEF Room
  <2> QED BY <2>2, <2>5, <2>6 DEF QueueFits, LinesKeep
<1> QED BY <1>3, <1>4 DEF Persist, Upsert

\* The queue is left as it is.
LEMMA QueueStays ==
  ASSUME RecordSound, UNCHANGED queue
  PROVE  QueueFits /\ LinesKeep({}) /\ (NoBarrier(queue) => NoBarrier(queue'))
BY DEF RecordSound, TypeOK, QueueSound, QueueFits, LinesKeep

\* A publisher, and what its event may change of the session's end.
FoldsOne == /\ phase' = phase /\ counted' = counted
            /\ mid' \subseteq mid /\ mid' \subseteq Publishers
            /\ seen' \in BOOLEAN /\ (seen => seen') /\ (~seen /\ seen' => phase = "live")

LEMMA Published ==
  ASSUME TypeOK, NEW p \in Publishers, Publishes(p)
  PROVE  FoldsOne /\ phase # "flushed" /\ p \in mid
         /\ (~seen' => phase # "live" /\ p \notin mid')
BY DEF Publishes, TypeOK, FoldsOne

\* An event that is none of this turn's leaves it alone, but for the chunk its line may be in.
Rests(u) ==
  /\ said'[u] = said[u] /\ mouth'[u] = mouth[u] /\ over'[u] = over[u]
       /\ heard'[u] = heard[u]
  /\ line'[u] = line[u] /\ ended'[u] = ended[u] /\ pending'[u] = pending[u]
  /\ deliveredN'[u] = deliveredN[u] /\ (u \in unconfirmed' <=> u \in unconfirmed)
  /\ cEnded'[u] = cEnded[u] /\ cPending'[u] = cPending[u]
       /\ lastCommitted'[u] = lastCommitted[u]
  /\ \/ cLine'[u] = cLine[u] /\ chunked'[u] = chunked[u]
     \/ cLine'[u] = {} /\ chunked'[u] = chunked[u] \cup cLine[u]

LEMMA RestsSound ==
  ASSUME RecordSound, FoldsOne, NEW u \in Turns, Rests(u), rows' = rows, undone' = undone,
         Upsert(u) \in Range(queue') => Upsert(u) \in Range(queue),
         Retraction(u) \in Range(queue') <=> Retraction(u) \in Range(queue)
  PROVE  TurnSound(u)'
<1> USE DEF RecordSound, FoldsOne, Rests
<1>1. Delivered(u)'
  BY DEF TurnSound, Delivered
<1>2. Agree(u)'
  BY DEF TurnSound, Agree, Folding
<1>3. Settled(u)'
  BY DEF TurnSound, Settled, Folding
<1>4. Unseen(u)'
  BY DEF TurnSound, Unseen
<1>5. Known(u)'
  <2>1. TurnSound(u)
    OBVIOUS
  <2> HIDE DEF RecordSound
  <2>2. heard'[u] \cup cLine'[u] \cup chunked'[u] = heard[u] \cup cLine[u] \cup chunked[u]
    OBVIOUS
  <2>3. CASE seen
    BY <2>1, <2>2, <2>3 DEF TurnSound, Known
  <2>4. CASE ~seen
    BY <2>1, <2>2, <2>4 DEF TurnSound, Known, Unseen
  <2> QED BY <2>3, <2>4
<1> QED BY <1>1, <1>2, <1>3, <1>4, <1>5 DEF TurnSound

\* So does one that is of no turn, and a step between two events.
LEMMA AllRest ==
  ASSUME RecordSound, FoldsOne, TypeOK', CountIsEntries', QueueFits, LinesKeep({}),
         NoBarrier(queue) => NoBarrier(queue'), Folding \/ queue' = queue,
         rows' = rows, undone' = undone, \A u \in Turns : Rests(u)
  PROVE  RecordSound'
<1>1. \A u \in Turns : TurnSound(u)'
  BY RestsSound DEF LinesKeep
<1>2. QueueSound' /\ CountAuthoritative'
  BY DEF RecordSound, QueueSound, QueueFits, CountAuthoritative, FoldsOne, Folding
<1> QED BY <1>1, <1>2 DEF RecordSound

\* An event of one turn keeps the invariant if it does so for this turn.
LEMMA OneFolds ==
  ASSUME RecordSound, FoldsOne, TypeOK', CountIsEntries', NEW t \in Turns,
         QueueFits, LinesKeep({t}), NoBarrier(queue) => NoBarrier(queue'), Folding
           \/ queue' = queue,
         rows' = rows, undone' = undone, \A u \in Turns \ {t} : Rests(u), TurnSound(t)'
  PROVE  RecordSound'
<1>1. \A u \in Turns \ {t} : TurnSound(u)'
  BY RestsSound DEF LinesKeep
<1>2. QueueSound' /\ CountAuthoritative'
  BY DEF RecordSound, QueueSound, QueueFits, CountAuthoritative, FoldsOne, Folding
<1> QED BY <1>1, <1>2 DEF RecordSound

USE TranscriptAssumption

\* A human utterance.
LEMMA HumanKeeps == ASSUME RecordSound, Human PROVE RecordSound'
<1>1. TypeOK /\ CountIsEntries
  BY DEF RecordSound
<1>2. /\ UNCHANGED <<said, mouth, over, heard, line, ended, pending, deliveredN,
                     unconfirmed, rows,
                    undone, cEnded, cPending, lastCommitted>>
      /\ human' = human + 1 /\ human \in Nat /\ human' \in 0..MaxHuman
           /\ human' \in Utterances
      /\ human' \in Nat
  BY <1>1 DEF Human, relay, TypeOK, Utterances
<1>3. FoldsOne
  <2>1. "lane" \in Publishers
    BY DEF Publishers
  <2> QED BY <1>1, <2>1, Published DEF Human
<1>4. human' \in Lines /\ human' \notin Turns
  BY <1>2 DEF Lines, Utterances
<1>5. /\ QueueFits /\ LinesKeep({}) /\ (NoBarrier(queue) => NoBarrier(queue'))
      /\ (Folding \/ queue' = queue)
  <2>1. CASE RelayFolds /\ Persist(human')
    <3>1. Folding
      BY <2>1 DEF RelayFolds, Folding
    <3>2. QueueFits /\ NoBarrier(queue') /\ LinesKeep({human'})
      BY <1>4, <2>1, <3>1, PersistHolds
    <3> QED BY <1>4, <3>1, <3>2 DEF LinesKeep
  <2>2. CASE UNCHANGED queue
    BY <2>2, QueueStays
  <2> QED BY <2>1, <2>2 DEF Human
<1>6. ChunkHolds(cLine)
  <2>1. cLine \in [Turns -> SUBSET Sentences] /\ count \in Nat
    BY <1>1 DEF TypeOK
  <2>2. CASE Append1(cLine)
    <3>1. Cardinality(Open(cLine)) <= count /\ count <= Cardinality(Open(cLine)) + human
      BY <1>1 DEF CountIsEntries, Open
    <3>2. Cardinality(Open(cLine)) <= count + 1
          /\ count + 1 <= Cardinality(Open(cLine)) + human'
      BY <1>2, <2>1, <3>1, OpenLines
    <3> QED BY <1>1, <1>2, <2>1, <2>2, <3>2, ChunkTakes
  <2>3. CASE UNCHANGED <<cLine, count, window, chunked>>
    BY <1>1, <1>2, <2>3, ChunkStays
  <2> QED BY <2>2, <2>3 DEF Human
<1>7. TypeOK'
  BY <1>1, <1>2, <1>3, <1>5, <1>6 DEF TypeOK, ChunkHolds, QueueFits, FoldsOne
<1>8. \A u \in Turns : Rests(u)
  BY <1>2, <1>6 DEF ChunkHolds, Rests
<1> QED BY <1>2, <1>3, <1>5, <1>6, <1>7, <1>8, AllRest DEF ChunkHolds

\* The chunk's timer.
LEMMA WindowElapsesKeeps == ASSUME RecordSound, WindowElapses PROVE RecordSound'
<1>1. TypeOK /\ CountIsEntries
  BY DEF RecordSound
<1>2. UNCHANGED <<said, mouth, over, human, heard, line, ended, pending, deliveredN,
                  unconfirmed, queue,
                 rows, undone, cEnded, cPending, lastCommitted, phase, seen, mid, counted>>
  BY DEF WindowElapses, speech, relay, store, end
<1>3. FoldsOne
  BY <1>1, <1>2 DEF FoldsOne, TypeOK
<1>4. QueueFits /\ LinesKeep({}) /\ (NoBarrier(queue) => NoBarrier(queue'))
  BY <1>2, QueueStays
<1>5. ChunkHolds(cLine)
  <2>1. cLine \in [Turns -> SUBSET Sentences] /\ human' \in Nat
    BY <1>1, <1>2 DEF TypeOK
  <2>2. CASE count >= 2 /\ CloseChunk(cLine)
    BY <1>1, <2>1, <2>2, ChunkCloses
  <2>3. CASE ~(count >= 2) /\ window' = "elapsed" /\ UNCHANGED <<cLine, count, chunked>>
    <3>1. count \in 0..MaxUtterances /\ chunked \in [Turns -> SUBSET Sentences]
      BY <1>1 DEF TypeOK
    <3>2. CountIsEntries'
      BY <1>1, <1>2, <2>3, <3>1 DEF CountIsEntries
    <3> QED BY <2>1, <2>3, <3>1, <3>2 DEF ChunkHolds
  <2> QED BY <2>2, <2>3 DEF WindowElapses
<1>6. TypeOK'
  BY <1>1, <1>2, <1>5 DEF TypeOK, ChunkHolds
<1>7. \A u \in Turns : Rests(u)
  BY <1>2, <1>5 DEF ChunkHolds, Rests
<1> QED BY <1>2, <1>3, <1>4, <1>5, <1>6, <1>7, AllRest DEF ChunkHolds

\* The writer writes one item, or fails to.
LEMMA WriteKeeps == ASSUME RecordSound, Write PROVE RecordSound'
<1> DEFINE item == Head(queue)
<1>1. TypeOK /\ QueueSound /\ CountIsEntries
  BY DEF RecordSound
<1>2. /\ queue \in Seq(Ops) /\ queue # <<>> /\ RetractionsLast(queue)
           /\ Len(queue) <= QueueCap
      /\ BarrierLast(queue) /\ queue' = Tail(queue) /\ item.op # "barrier"
  BY <1>1 DEF Write, TypeOK, QueueSound
<1>3. /\ item \in Ops /\ queue' \in Seq(Ops) /\ Len(queue') = Len(queue) - 1
      /\ Range(queue) = Range(queue') \cup {item}
      /\ RetractionsLast(queue') /\ BarrierLast(queue') /\ (NoBarrier(queue)
             => NoBarrier(queue'))
      /\ \A t \in Turns : item = Retraction(t) => Upsert(t) \notin Range(queue')
  BY <1>2, QueueTakes
<1>4. /\ item.op \in {"upsert", "delete"} /\ item.id \in Lines /\ (item.op = "delete"
             => item.id \in Turns)
      /\ item = [op |-> item.op, id |-> item.id]
  BY <1>2, <1>3 DEF Ops, Lines
<1>5. counted = NoCount /\ rows \subseteq Lines /\ undone \subseteq Turns
  BY <1>1, <1>2 DEF QueueSound, TypeOK
<1>6. item.op = "upsert" => item = Upsert(item.id)
  BY <1>4 DEF Upsert
<1>7. \A t \in Turns : item = Retraction(t) => item.op = "delete" /\ item.id = t
  BY DEF Retraction
<1> HIDE DEF item
<1>8. \/ /\ rows' = IF item.op = "upsert" THEN rows \cup {item.id} ELSE rows \ {item.id}
         /\ undone' = undone
      \/ /\ rows' = rows
         /\ undone' = IF item.op = "delete" THEN undone \cup {item.id} ELSE undone
  BY DEF Write, item
<1>9. /\ rows' \subseteq Lines /\ undone' \subseteq Turns /\ \A t \in Turns : t \in undone
           => t \in undone'
      /\ \A t \in Turns : t \in rows' => t \in rows \/ Upsert(t) \in Range(queue)
      /\ \A t \in Turns : Retraction(t) \in Range(queue') => Retraction(t) \in Range(queue)
      /\ \A t \in Turns : Upsert(t) \in Range(queue') => Upsert(t) \in Range(queue)
  BY <1>3, <1>4, <1>5, <1>6, <1>8
<1>10. \A t \in Turns : Retraction(t) \in Range(queue)
       /\ Retraction(t) \notin Range(queue') =>
         t \in undone' \/ (t \notin rows' /\ Upsert(t) \notin Range(queue'))
  BY <1>3, <1>7, <1>8
<1>11. Len(queue') <= QueueCap
  BY <1>2, <1>3, LenProperties
<1>12. UNCHANGED <<said, mouth, over, human, heard, line, ended, pending, deliveredN,
                   unconfirmed,
                   cEnded, cPending, cLine, lastCommitted, count, window, chunked, phase,
                     seen, mid, counted>>
  BY DEF Write, speech, relay, chunker, end
<1>13. TypeOK' /\ CountIsEntries'
  BY <1>1, <1>3, <1>9, <1>11, <1>12 DEF TypeOK, CountIsEntries
<1>14. QueueSound' /\ CountAuthoritative'
  BY <1>1, <1>3, <1>5, <1>12 DEF QueueSound, CountAuthoritative
<1>15. ASSUME NEW t \in Turns PROVE TurnSound(t)'
  <2>1. TurnSound(t)
    BY DEF RecordSound
  <2>2. Settled(t)'
    BY <1>9, <1>10, <1>12, <2>1 DEF TurnSound, Settled, Folding
  <2>3. Delivered(t)' /\ Agree(t)' /\ Unseen(t)' /\ Known(t)'
    BY <1>12, <2>1 DEF TurnSound, Delivered, Agree, Unseen, Known, Folding
  <2> QED BY <2>2, <2>3 DEF TurnSound
<1> QED BY <1>13, <1>14, <1>15 DEF RecordSound

\* A sentence is announced.
LEMMA DispatchKeeps == ASSUME RecordSound, NEW t \in Turns, Dispatch(t) PROVE RecordSound'
<1>1. TypeOK /\ CountIsEntries /\ TurnSound(t)
  BY DEF RecordSound
<1>2. FoldsOne /\ phase # "flushed" /\ t \in mid /\ (~seen' => phase # "live"
      /\ t \notin mid')
  BY <1>1, Published DEF Dispatch, Publishers
<1>3. /\ UNCHANGED <<over, human, heard, ended, deliveredN, rows, undone, cEnded, cLine,
                     lastCommitted, count, window, chunked>>
      /\ mouth[t] = "none" /\ said[t] < MaxSentences /\ said[t] \in Nat
           /\ said'[t] = said[t] + 1
      /\ mouth'[t] = "dispatched"
      /\ said' \in [Turns -> 0..MaxSentences] /\ mouth' \in [Turns -> {"none",
             "dispatched", "audible"}]
      /\ \A u \in Turns \ {t} : said'[u] = said[u] /\ mouth'[u] = mouth[u]
  BY <1>1 DEF Dispatch, TypeOK
<1>4. /\ QueueFits /\ LinesKeep({t}) /\ (NoBarrier(queue) => NoBarrier(queue'))
      /\ (Folding \/ queue' = queue)
      /\ line' \in [Turns -> BOOLEAN] /\ pending' \in [Turns -> BOOLEAN]
           /\ unconfirmed' \subseteq Turns
      /\ \A u \in Turns \ {t} :
           line'[u] = line[u] /\ pending'[u] = pending[u] /\ (u \in unconfirmed'
                 <=> u \in unconfirmed)
      /\ Retraction(t) \in Range(queue') <=> Retraction(t) \in Range(queue)
      /\ \/ /\ seen' /\ Folding /\ ~ended[t] /\ line'[t] /\ pending'[t]
            /\ (t \in unconfirmed' <=> t \in unconfirmed \/ deliveredN[t] = 0)
         \/ /\ ~(seen' /\ Folding /\ ~ended[t]) /\ line'[t] = line[t]
                 /\ pending'[t] = pending[t]
            /\ unconfirmed' = unconfirmed /\ queue' = queue
  <2>1. line \in [Turns -> BOOLEAN] /\ pending \in [Turns -> BOOLEAN]
        /\ unconfirmed \subseteq Turns
    BY <1>1 DEF TypeOK
  <2>2. CASE RelayFolds /\ ~ended[t]
    <3>1. /\ Folding /\ seen' /\ Persist(t)
          /\ line' = [line EXCEPT ![t] = TRUE] /\ pending' = [pending EXCEPT ![t] = TRUE]
          /\ unconfirmed' = IF deliveredN[t] = 0 THEN unconfirmed \cup {t} ELSE unconfirmed
      BY <2>2 DEF Dispatch, RelayFolds, Folding
    <3>2. t \in Lines
      BY DEF Lines
    <3>3. /\ QueueFits /\ NoBarrier(queue') /\ LinesKeep({t})
          /\ \A u \in Turns : Retraction(u) \in Range(queue')
               <=> Retraction(u) \in Range(queue)
      BY <2>2, <3>1, <3>2, PersistHolds
    <3>4. /\ line' \in [Turns -> BOOLEAN] /\ pending' \in [Turns -> BOOLEAN] /\ line'[t]
               /\ pending'[t]
          /\ \A u \in Turns \ {t} : line'[u] = line[u] /\ pending'[u] = pending[u]
      BY <2>1, <3>1
    <3> QED BY <2>1, <2>2, <3>1, <3>3, <3>4
  <2>3. CASE ~(RelayFolds /\ ~ended[t])
    <3>1. UNCHANGED <<line, pending, unconfirmed, queue>> /\ ~(seen' /\ Folding
          /\ ~ended[t])
      BY <1>2, <2>3 DEF Dispatch, RelayFolds, Folding, FoldsOne
    <3>2. QueueFits /\ LinesKeep({}) /\ (NoBarrier(queue) => NoBarrier(queue'))
      BY <3>1, QueueStays
    <3> QED BY <2>1, <3>1, <3>2 DEF LinesKeep
  <2> QED BY <2>2, <2>3
<1>5. /\ cPending' \in [Turns -> 0..MaxSentences]
      /\ \A u \in Turns \ {t} : cPending'[u] = cPending[u]
      /\ cPending'[t] = IF seen' /\ ~cEnded[t] THEN said[t] + 1 ELSE cPending[t]
  <2>1. cPending \in [Turns -> 0..MaxSentences] /\ said'[t] \in 0..MaxSentences
    BY <1>1, <1>3 DEF TypeOK
  <2>2. ChunkerFolds <=> seen'
    BY <1>2 DEF ChunkerFolds, FoldsOne
  <2> QED BY <1>3, <2>1, <2>2 DEF Dispatch, CBuffer
<1>6. TypeOK'
  BY <1>1, <1>2, <1>3, <1>4, <1>5 DEF TypeOK, QueueFits, FoldsOne
<1>7. CountIsEntries'
  BY <1>1, <1>3 DEF CountIsEntries
<1>8. \A u \in Turns \ {t} : Rests(u)
  BY <1>3, <1>4, <1>5 DEF Rests
<1>9. TurnSound(t)'
  <2>1. /\ heard[t] \subseteq Nat /\ cLine[t] \subseteq Nat /\ chunked[t] \subseteq Nat
        /\ deliveredN[t] \in Nat /\ line[t] \in BOOLEAN /\ pending[t] \in BOOLEAN
    BY <1>1 DEF TypeOK, Sentences
  <2>2. Delivered(t)'
    BY <1>1, <1>2, <1>3 DEF TurnSound, Delivered, FoldsOne
  <2>3. Unseen(t)'
    BY <1>1, <1>2, <1>3, <1>4, <1>5 DEF TurnSound, Unseen, FoldsOne
  <2>4. Settled(t)'
    BY <1>1, <1>2, <1>3, <1>4 DEF TurnSound, Settled, Folding, FoldsOne
  <2>5. Known(t)'
    BY <1>1, <1>2, <1>3, <1>4, <1>5, <2>1 DEF TurnSound, Known, Unseen, FoldsOne
  <2>6. Agree(t)'
    BY <1>1, <1>2, <1>3, <1>4, <1>5, <2>1 DEF TurnSound, Agree, Known, Unseen, FoldsOne,
           Folding
  <2> QED BY <2>2, <2>3, <2>4, <2>5, <2>6 DEF TurnSound
<1> QED BY <1>2, <1>3, <1>4, <1>6, <1>7, <1>8, <1>9, OneFolds

\* The sentence is played out, or its synthesis does not start.
LEMMA SentenceOverKeeps == ASSUME RecordSound, NEW t \in Turns, SentenceOver(t)
  PROVE RecordSound'
<1>1. TypeOK /\ CountIsEntries /\ TurnSound(t)
  BY DEF RecordSound
<1>2. /\ UNCHANGED <<said, over, human, heard, line, ended, pending, deliveredN,
                     unconfirmed, queue,
                     rows, undone, cEnded, cPending, cLine, lastCommitted, count, window,
                       chunked,
                     phase, seen, mid, counted>>
      /\ mouth' \in [Turns -> {"none", "dispatched", "audible"}] /\ mouth'[t] = "none"
      /\ \A u \in Turns \ {t} : mouth'[u] = mouth[u]
  BY <1>1 DEF SentenceOver, relay, store, chunker, end, TypeOK
<1>3. FoldsOne
  BY <1>1, <1>2 DEF FoldsOne, TypeOK
<1>4. QueueFits /\ LinesKeep({}) /\ (NoBarrier(queue) => NoBarrier(queue'))
  BY <1>2, QueueStays
<1>5. TypeOK' /\ CountIsEntries'
  BY <1>1, <1>2 DEF TypeOK, CountIsEntries
<1>6. \A u \in Turns \ {t} : Rests(u)
  BY <1>2 DEF Rests
<1>7. TurnSound(t)'
  <2>1. Delivered(t)' /\ Unseen(t)'
    BY <1>1, <1>2 DEF TurnSound, Delivered, Unseen
  <2>2. Settled(t)' /\ Agree(t)'
    BY <1>1, <1>2 DEF TurnSound, Settled, Agree, Folding
  <2>3. Known(t)'
    BY <1>1, <1>2 DEF TurnSound, Known
  <2> QED BY <2>1, <2>2, <2>3 DEF TurnSound
<1> QED BY <1>2, <1>3, <1>4, <1>5, <1>6, <1>7, OneFolds DEF LinesKeep

\* What the room heard is a finite set.
LEMMA HeardCounts ==
  ASSUME NEW S \in SUBSET Sentences, NEW n \in Sentences
  PROVE  /\ Cardinality(S) \in Nat
         /\ (n \notin S => Cardinality(S \cup {n}) = Cardinality(S) + 1)
         /\ (n \in S => Cardinality(S \ {n}) = Cardinality(S) - 1)
<1>1. IsFiniteSet(S)
  <2>1. IsFiniteSet(Sentences)
    BY FS_Interval, TranscriptAssumption DEF Sentences
  <2> QED BY <2>1, FS_Subset
<1> QED BY <1>1, FS_CardinalityType, FS_AddElement, FS_RemoveElement

\* A sentence is heard.
LEMMA FirstAudioKeeps == ASSUME RecordSound, NEW t \in Turns, FirstAudio(t)
  PROVE RecordSound'
<1>1. TypeOK /\ CountIsEntries /\ TurnSound(t)
  BY DEF RecordSound
<1>2. FoldsOne /\ phase # "flushed" /\ t \in mid /\ (~seen' => phase # "live"
      /\ t \notin mid')
  BY <1>1, Published DEF FirstAudio, Publishers
<1>3. /\ UNCHANGED <<said, over, human, line, ended, queue, rows, undone, cEnded>>
      /\ mouth[t] = "dispatched" /\ mouth'[t] = "audible"
      /\ mouth' \in [Turns -> {"none", "dispatched", "audible"}]
      /\ \A u \in Turns \ {t} : mouth'[u] = mouth[u]
  BY <1>1 DEF FirstAudio, TypeOK, store
<1>4. /\ heard' \in [Turns -> SUBSET Sentences]
           /\ \A u \in Turns \ {t} : heard'[u] = heard[u]
      /\ heard'[t] = IF over[t] THEN heard[t] ELSE heard[t] \cup {said[t]}
      /\ said[t] \in Sentences /\ said[t] > 0
      /\ said[t] \notin heard[t] \cup cLine[t] \cup chunked[t]
  <2>1. said[t] \in Sentences /\ said[t] > 0
        /\ said[t] \notin heard[t] \cup cLine[t] \cup chunked[t]
    BY <1>1, <1>3 DEF TypeOK, Sentences, TurnSound, Known
  <2>2. heard \in [Turns -> SUBSET Sentences] /\ heard' = IF over[t] THEN heard
        ELSE [heard EXCEPT ![t] = @ \cup {said[t]}]
    BY <1>1 DEF TypeOK, FirstAudio
  <2> QED BY <2>1, <2>2
<1>5. /\ pending' \in [Turns -> BOOLEAN] /\ deliveredN' \in [Turns -> 0..MaxSentences]
      /\ unconfirmed' \subseteq Turns
      /\ \A u \in Turns \ {t} : pending'[u] = pending[u] /\ deliveredN'[u] = deliveredN[u]
                                /\ (u \in unconfirmed' <=> u \in unconfirmed)
      /\ \/ /\ seen' /\ Folding /\ pending[t] /\ ~pending'[t]
                 /\ deliveredN'[t] = deliveredN[t] + 1
            /\ t \notin unconfirmed'
         \/ /\ ~(seen' /\ Folding /\ pending[t])
            /\ pending'[t] = pending[t] /\ deliveredN'[t] = deliveredN[t]
                 /\ unconfirmed' = unconfirmed
  <2>1. /\ pending \in [Turns -> BOOLEAN] /\ deliveredN \in [Turns -> 0..MaxSentences]
        /\ unconfirmed \subseteq Turns
    BY <1>1 DEF TypeOK
  <2>2. pending[t] => deliveredN[t] + 1 \in 0..MaxSentences
    BY <1>1, <1>4 DEF TypeOK, TurnSound, Known, Sentences
  <2>3. RelayFolds <=> seen' /\ Folding
    BY <1>2 DEF RelayFolds, Folding, FoldsOne
  <2>4. CASE RelayFolds /\ pending[t]
    <3>1. /\ pending' = [pending EXCEPT ![t] = FALSE]
               /\ deliveredN' = [deliveredN EXCEPT ![t] = @ + 1]
          /\ unconfirmed' = unconfirmed \ {t}
      BY <2>4 DEF FirstAudio
    <3> QED BY <2>1, <2>2, <2>3, <2>4, <3>1
  <2>5. CASE ~(RelayFolds /\ pending[t])
    <3>1. UNCHANGED <<pending, deliveredN, unconfirmed>>
      BY <2>5 DEF FirstAudio
    <3> QED BY <2>1, <2>3, <2>5, <3>1
  <2> QED BY <2>4, <2>5
<1> DEFINE lines == [cLine EXCEPT ![t] = @ \cup {cPending[t]}]
           takes == seen' /\ cPending[t] # 0
<1>6. /\ cPending[t] \in {0, said[t]} /\ cLine \in [Turns -> SUBSET Sentences]
      /\ chunked \in [Turns -> SUBSET Sentences] /\ human' \in Nat
      /\ (ChunkerFolds <=> seen') /\ (cPending[t] # 0 => cPending[t] \in Sentences)
  BY <1>1, <1>2, <1>3, <1>4 DEF TypeOK, TurnSound, Known, ChunkerFolds, FoldsOne
<1>7. /\ cPending' \in [Turns -> 0..MaxSentences]
           /\ lastCommitted' \in [Turns -> 0..MaxSentences]
      /\ \A u \in Turns \ {t} : cPending'[u] = cPending[u]
           /\ lastCommitted'[u] = lastCommitted[u]
      /\ cPending'[t] = IF takes THEN 0 ELSE cPending[t]
      /\ lastCommitted'[t] = IF takes THEN said[t] ELSE lastCommitted[t]
  <2>1. cPending \in [Turns -> 0..MaxSentences]
        /\ lastCommitted \in [Turns -> 0..MaxSentences]
    BY <1>1 DEF TypeOK
  <2>2. CASE takes
    <3>1. Commit(t)
      BY <1>6, <2>2 DEF FirstAudio
    <3>2. /\ cPending' = [cPending EXCEPT ![t] = 0]
               /\ lastCommitted' = [lastCommitted EXCEPT ![t] = cPending[t]]
          /\ cPending[t] = said[t] /\ 0 \in 0..MaxSentences
      BY <1>6, <2>2, <3>1, TranscriptAssumption DEF Commit
    <3> QED BY <2>1, <2>2, <3>2
  <2>3. CASE ~takes
    BY <1>6, <2>1, <2>3 DEF FirstAudio
  <2> QED BY <2>2, <2>3
<1>8. IF takes THEN ChunkHolds(lines) ELSE ChunkHolds(cLine)
  <2>1. CASE takes
    <3>1. Commit(t)
      BY <1>6, <2>1 DEF FirstAudio
    <3>2. IF cLine[t] = {} THEN Append1(lines) ELSE cLine' = lines /\ UNCHANGED <<count,
                                                                                  window, chunked>>
      BY <3>1 DEF Commit
    <3>3. lines \in [Turns -> SUBSET Sentences]
          /\ cLine[t] \cup {cPending[t]} \in SUBSET Sentences
      BY <1>6, <2>1
    <3>4. Cardinality(Open(lines)) = IF cLine[t] = {} THEN Cardinality(Open(cLine)) + 1
          ELSE Cardinality(Open(cLine))
      <4> DEFINE s == cLine[t] \cup {cPending[t]}
      <4>1. s \in SUBSET Sentences /\ s # {} /\ lines = [cLine EXCEPT ![t] = s]
        <5>1. cPending[t] \in s
          OBVIOUS
        <5>2. lines = [cLine EXCEPT ![t] = s]
          OBVIOUS
        <5> HIDE DEF lines
        <5> QED BY <3>3, <5>1, <5>2
      <4> HIDE DEF s, lines
      <4>2. Cardinality(Open([cLine EXCEPT ![t] = s])) =
              IF cLine[t] = {} THEN Cardinality(Open(cLine)) + 1
                ELSE Cardinality(Open(cLine))
        <5>1. \A x \in SUBSET Sentences :
                Cardinality(Open([cLine EXCEPT ![t] = x])) =
                  IF cLine[t] = {} /\ x # {} THEN Cardinality(Open(cLine)) + 1
                  ELSE IF cLine[t] # {} /\ x = {} THEN Cardinality(Open(cLine)) - 1
                  ELSE Cardinality(Open(cLine))
          BY <1>6, OpenLines
        <5> QED BY <4>1, <5>1
      <4> QED BY <4>1, <4>2
    <3>5. Cardinality(Open(cLine)) <= count /\ count <= Cardinality(Open(cLine)) + human
      BY <1>1 DEF CountIsEntries, Open
    <3>6. Cardinality(Open(cLine)) \in Nat /\ count \in Nat /\ human \in Nat
          /\ human' = human
      BY <1>1, <1>3, <1>6, OpenLines DEF TypeOK
    <3> HIDE DEF lines
    <3>7. CASE cLine[t] = {}
      <4>1. Cardinality(Open(lines)) <= count + 1
            /\ count + 1 <= Cardinality(Open(lines)) + human'
        BY <3>4, <3>5, <3>6, <3>7
      <4> QED BY <1>1, <1>6, <2>1, <3>2, <3>3, <3>7, <4>1, ChunkTakes
    <3>8. CASE cLine[t] # {}
      <4>1. cLine' = lines /\ UNCHANGED <<count, window, chunked>>
        BY <3>2, <3>8
      <4>2. CountIsEntries'
        BY <1>1, <3>4, <3>5, <3>6, <3>8, <4>1 DEF CountIsEntries, Open
      <4> QED BY <1>1, <1>6, <2>1, <3>3, <4>1, <4>2 DEF ChunkHolds, TypeOK
    <3> QED BY <2>1, <3>7, <3>8
  <2>2. CASE ~takes
    <3>1. UNCHANGED <<cLine, count, window, chunked>>
      BY <1>6, <2>2 DEF FirstAudio
    <3> QED BY <1>1, <1>3, <2>2, <3>1, ChunkStays
  <2> QED BY <2>1, <2>2
<1>9. /\ CountIsEntries' /\ cLine' \in [Turns -> SUBSET Sentences]
           /\ chunked' \in [Turns -> SUBSET Sentences]
      /\ count' \in 0..MaxUtterances /\ window' \in {"none", "running", "elapsed"}
      /\ \A u \in Turns \ {t} : \/ cLine'[u] = cLine[u] /\ chunked'[u] = chunked[u]
                                \/ cLine'[u] = {} /\ chunked'[u] = chunked[u] \cup cLine[u]
      /\ \E l \in SUBSET Sentences :
           /\ l = IF takes THEN cLine[t] \cup {said[t]} ELSE cLine[t]
           /\ \/ cLine'[t] = l /\ chunked'[t] = chunked[t]
              \/ cLine'[t] = {} /\ chunked'[t] = chunked[t] \cup l
  <2>1. CASE takes
    <3>1. /\ \A u \in Turns \ {t} : lines[u] = cLine[u]
          /\ lines[t] = cLine[t] \cup {said[t]} /\ lines[t] \in SUBSET Sentences
      BY <1>6, <2>1
    <3> HIDE DEF lines
    <3> QED BY <1>8, <2>1, <3>1 DEF ChunkHolds
  <2>2. CASE ~takes
    BY <1>6, <1>8, <2>2 DEF ChunkHolds
  <2> QED BY <2>1, <2>2
<1>10. QueueFits /\ LinesKeep({t}) /\ (NoBarrier(queue) => NoBarrier(queue'))
  BY <1>3, QueueStays DEF LinesKeep
<1>11. TypeOK'
  BY <1>1, <1>2, <1>3, <1>4, <1>5, <1>7, <1>9, <1>10 DEF TypeOK, QueueFits, FoldsOne
<1>12. \A u \in Turns \ {t} : Rests(u)
  BY <1>3, <1>4, <1>5, <1>7, <1>9 DEF Rests
<1> PICK l \in SUBSET Sentences :
           /\ l = IF takes THEN cLine[t] \cup {said[t]} ELSE cLine[t]
           /\ \/ cLine'[t] = l /\ chunked'[t] = chunked[t]
              \/ cLine'[t] = {} /\ chunked'[t] = chunked[t] \cup l
  BY <1>9
<1>13. TurnSound(t)'
  <2>1. /\ deliveredN[t] \in Nat /\ line[t] \in BOOLEAN /\ pending[t] \in BOOLEAN
             /\ over[t] \in BOOLEAN
        /\ heard[t] \in SUBSET Sentences /\ said[t] \in Nat /\ seen /\ seen'
    BY <1>1, <1>2, <1>3 DEF TypeOK, TurnSound, Unseen, FoldsOne
  <2>2. takes <=> ~over[t]
    BY <1>1, <1>3, <1>4, <2>1 DEF TurnSound, Known
  <2> HIDE DEF takes
  <2>3. Delivered(t)'
    BY <1>1, <1>2, <1>4, <2>2 DEF TurnSound, Delivered, FoldsOne
  <2>4. Unseen(t)'
    BY <2>1 DEF Unseen
  <2>5. Settled(t)'
    BY <1>1, <1>2, <1>3, <1>5, <2>1 DEF TurnSound, Settled, FoldsOne, Folding
  <2>6. Known(t)'
    BY <1>1, <1>3, <1>4, <1>5, <1>7, <2>1, <2>2 DEF TurnSound, Known
  <2>7. Agree(t)'
    <3>1. ~over[t] => Cardinality(heard'[t]) = Cardinality(heard[t]) + 1
      BY <1>4, <2>1, HeardCounts
    <3>2. CASE Folding /\ ~over[t]
      BY <1>1, <1>3, <1>4, <1>5, <1>7, <2>1, <2>2, <3>1, <3>2 DEF TurnSound, Known, Agree
    <3> QED BY <1>2, <1>3, <3>2 DEF Agree, Folding, FoldsOne
  <2> QED BY <2>3, <2>4, <2>5, <2>6, <2>7 DEF TurnSound
<1> QED BY <1>2, <1>3, <1>9, <1>10, <1>11, <1>12, <1>13, OneFolds

\* The sentence dies before its first audio or after it.
LEMMA StreamFailedKeeps == ASSUME RecordSound, NEW t \in Turns, StreamFailed(t)
  PROVE RecordSound'
<1>1. TypeOK /\ CountIsEntries /\ TurnSound(t)
  BY DEF RecordSound
<1>2. FoldsOne /\ phase # "flushed" /\ t \in mid /\ seen /\ seen' /\ (ChunkerFolds
      <=> TRUE) /\ (RelayFolds <=> Folding)
  <2>1. FoldsOne /\ phase # "flushed" /\ t \in mid /\ (~seen' => phase # "live"
        /\ t \notin mid')
    BY <1>1, Published DEF StreamFailed, Publishers
  <2>2. seen
    BY <1>1, <2>1 DEF TurnSound, Unseen, StreamFailed
  <2> QED BY <2>1, <2>2 DEF FoldsOne, ChunkerFolds, RelayFolds, Folding
<1>3. /\ UNCHANGED <<said, over, human, line, ended, queue, rows, undone, cEnded, window,
                     chunked>>
      /\ mouth[t] \in {"dispatched", "audible"} /\ mouth'[t] = "none"
      /\ mouth' \in [Turns -> {"none", "dispatched", "audible"}]
      /\ \A u \in Turns \ {t} : mouth'[u] = mouth[u]
  BY <1>1 DEF StreamFailed, TypeOK, store
<1>4. /\ heard' \in [Turns -> SUBSET Sentences]
           /\ \A u \in Turns \ {t} : heard'[u] = heard[u]
      /\ heard'[t] = IF over[t] THEN heard[t] ELSE heard[t] \ {said[t]}
      /\ said[t] \in Sentences /\ said[t] > 0
  <2>1. said[t] \in Sentences /\ said[t] > 0
    BY <1>1, <1>3 DEF TypeOK, Sentences, TurnSound, Known
  <2>2. heard \in [Turns -> SUBSET Sentences] /\ heard' = IF over[t] THEN heard
        ELSE [heard EXCEPT ![t] = @ \ {said[t]}]
    BY <1>1 DEF TypeOK, StreamFailed
  <2> QED BY <2>1, <2>2
<1>5. /\ pending' \in [Turns -> BOOLEAN] /\ deliveredN' \in [Turns -> 0..MaxSentences]
      /\ unconfirmed' \subseteq Turns
      /\ \A u \in Turns \ {t} : pending'[u] = pending[u] /\ deliveredN'[u] = deliveredN[u]
                                /\ (u \in unconfirmed' <=> u \in unconfirmed)
      /\ \/ /\ Folding /\ ~ended[t] /\ ~pending'[t]
            /\ deliveredN'[t] = IF ~pending[t] /\ deliveredN[t] > 0 THEN deliveredN[t] - 1
                 ELSE deliveredN[t]
            /\ t \in unconfirmed' <=> t \in unconfirmed \/ (~pending[t]
                   /\ deliveredN'[t] = 0 /\ line[t])
         \/ /\ ~(Folding /\ ~ended[t])
            /\ pending'[t] = pending[t] /\ deliveredN'[t] = deliveredN[t]
                 /\ unconfirmed' = unconfirmed
  <2>1. /\ pending \in [Turns -> BOOLEAN] /\ deliveredN \in [Turns -> 0..MaxSentences]
        /\ unconfirmed \subseteq Turns
    BY <1>1 DEF TypeOK
  <2>2. CASE Folding /\ ~ended[t]
    <3>1. Uncount(t)
      BY <1>2, <2>2 DEF StreamFailed, FoldFailure
    <3>2. /\ pending' \in [Turns -> BOOLEAN] /\ ~pending'[t]
          /\ \A u \in Turns \ {t} : pending'[u] = pending[u]
      BY <2>1, <3>1 DEF Uncount
    <3>3. deliveredN[t] \in 0..MaxSentences /\ (deliveredN[t] > 0
                                                => deliveredN[t] - 1 \in 0..MaxSentences)
      BY <2>1, TranscriptAssumption
    <3>4. /\ deliveredN' \in [Turns -> 0..MaxSentences]
          /\ \A u \in Turns \ {t} : deliveredN'[u] = deliveredN[u]
          /\ deliveredN'[t] = IF ~pending[t] /\ deliveredN[t] > 0 THEN deliveredN[t] - 1
               ELSE deliveredN[t]
      <4>1. CASE ~pending[t] /\ deliveredN[t] > 0
        BY <2>1, <3>1, <3>3, <4>1 DEF Uncount
      <4>2. CASE ~(~pending[t] /\ deliveredN[t] > 0)
        BY <2>1, <3>1, <4>2 DEF Uncount
      <4> QED BY <4>1, <4>2
    <3>5. unconfirmed' = IF ~pending[t] /\ deliveredN'[t] = 0 /\ line[t]
                         THEN unconfirmed \cup {t} ELSE unconfirmed
      BY <3>1 DEF Uncount
    <3> QED BY <2>1, <2>2, <3>2, <3>4, <3>5
  <2>3. CASE ~(Folding /\ ~ended[t])
    <3>1. UNCHANGED <<pending, deliveredN, unconfirmed>>
      BY <1>2, <2>3 DEF StreamFailed, FoldFailure
    <3> QED BY <2>1, <2>3, <3>1
  <2> QED BY <2>2, <2>3
<1> DEFINE goes == ~cEnded[t] /\ cPending[t] = 0 /\ lastCommitted[t] \in cLine[t]
           s == cLine[t] \ {lastCommitted[t]}
<1>6. /\ cPending' \in [Turns -> 0..MaxSentences]
           /\ lastCommitted' \in [Turns -> 0..MaxSentences]
      /\ \A u \in Turns \ {t} : cPending'[u] = cPending[u]
           /\ lastCommitted'[u] = lastCommitted[u]
      /\ cPending'[t] = IF cEnded[t] THEN cPending[t] ELSE 0
  <2>1. /\ cPending \in [Turns -> 0..MaxSentences]
             /\ lastCommitted \in [Turns -> 0..MaxSentences]
        /\ 0 \in 0..MaxSentences
    BY <1>1, TranscriptAssumption DEF TypeOK
  <2>2. CASE cEnded[t]
    <3>1. UNCHANGED <<cPending, lastCommitted>>
      BY <1>2, <2>2 DEF StreamFailed, FoldFailure
    <3> QED BY <2>1, <2>2, <3>1
  <2>3. CASE ~cEnded[t] /\ cPending[t] # 0
    <3>1. cPending' = [cPending EXCEPT ![t] = 0] /\ lastCommitted' = lastCommitted
      BY <1>2, <2>3 DEF StreamFailed, FoldFailure
    <3> QED BY <2>1, <2>3, <3>1
  <2>4. CASE ~cEnded[t] /\ cPending[t] = 0
    <3>1. lastCommitted' = [lastCommitted EXCEPT ![t] = 0] /\ cPending' = cPending
      BY <1>2, <2>4 DEF StreamFailed, FoldFailure
    <3> QED BY <2>1, <2>4, <3>1
  <2> QED BY <2>2, <2>3, <2>4
<1>7. /\ cLine' = IF goes THEN [cLine EXCEPT ![t] = s] ELSE cLine
      /\ count' = IF goes /\ s = {} THEN count - 1 ELSE count
  <2>1. CASE goes
    <3>1. RetractCommitted(t)
      BY <1>2, <2>1 DEF StreamFailed, FoldFailure
    <3>2. cLine[t] = {lastCommitted[t]} <=> s = {}
      BY <2>1
    <3> QED BY <2>1, <3>1, <3>2 DEF RetractCommitted
  <2>2. CASE ~goes
    <3>1. UNCHANGED <<cLine, count>>
      BY <1>2, <2>2 DEF StreamFailed, FoldFailure
    <3> QED BY <2>2, <3>1
  <2> QED BY <2>1, <2>2
<1>8. /\ cLine \in [Turns -> SUBSET Sentences] /\ s \in SUBSET Sentences
      /\ cLine' \in [Turns -> SUBSET Sentences]
           /\ \A u \in Turns \ {t} : cLine'[u] = cLine[u]
      /\ cLine'[t] = IF goes THEN s ELSE cLine[t]
  <2>1. cLine \in [Turns -> SUBSET Sentences] /\ s \in SUBSET Sentences
    BY <1>1 DEF TypeOK
  <2> HIDE DEF goes, s
  <2> QED BY <1>7, <2>1
<1>9. CountIsEntries' /\ count' \in 0..MaxUtterances
  <2>1. \A x \in SUBSET Sentences :
          Cardinality(Open([cLine EXCEPT ![t] = x])) =
            IF cLine[t] = {} /\ x # {} THEN Cardinality(Open(cLine)) + 1
            ELSE IF cLine[t] # {} /\ x = {} THEN Cardinality(Open(cLine)) - 1
            ELSE Cardinality(Open(cLine))
    BY <1>8, OpenLines
  <2>2. Cardinality(Open(cLine)) <= count /\ count <= Cardinality(Open(cLine)) + human
        /\ (window = "elapsed" => count < 2)
    BY <1>1 DEF CountIsEntries, Open
  <2>3. /\ Cardinality(Open(cLine)) \in Nat /\ count \in 0..MaxUtterances
             /\ MaxUtterances \in Nat
        /\ human \in Nat
    BY <1>1, <1>8, OpenLines, TranscriptAssumption DEF TypeOK
  <2>4. goes => cLine[t] # {}
    OBVIOUS
  <2> HIDE DEF goes, s
  <2>5. CASE goes
    <3>1. Cardinality(Open(cLine')) = IF s = {} THEN Cardinality(Open(cLine)) - 1
          ELSE Cardinality(Open(cLine))
      BY <1>7, <1>8, <2>1, <2>4, <2>5
    <3>2. Cardinality(Open(cLine')) \in Nat
      BY <1>8, OpenLines
    <3>3. count' = IF s = {} THEN count - 1 ELSE count
      BY <1>7, <2>5
    <3>4. /\ Cardinality(Open(cLine')) <= count'
               /\ count' <= Cardinality(Open(cLine')) + human
          /\ count' \in 0..MaxUtterances /\ (window = "elapsed" => count' < 2)
      BY <2>2, <2>3, <3>1, <3>2, <3>3
    <3> QED BY <1>3, <3>4 DEF CountIsEntries, Open
  <2>6. CASE ~goes
    BY <1>1, <1>3, <1>7, <2>3, <2>6 DEF CountIsEntries
  <2> QED BY <2>5, <2>6
<1>10. QueueFits /\ LinesKeep({t}) /\ (NoBarrier(queue) => NoBarrier(queue'))
  BY <1>3, QueueStays DEF LinesKeep
<1>11. TypeOK'
  BY <1>1, <1>2, <1>3, <1>4, <1>5, <1>6, <1>8, <1>9, <1>10 DEF TypeOK, QueueFits, FoldsOne
<1>12. \A u \in Turns \ {t} : Rests(u)
  BY <1>3, <1>4, <1>5, <1>6, <1>8 DEF Rests
<1>13. TurnSound(t)'
  <2>1. /\ deliveredN[t] \in Nat /\ line[t] \in BOOLEAN /\ pending[t] \in BOOLEAN
             /\ over[t] \in BOOLEAN
        /\ heard[t] \in SUBSET Sentences /\ said[t] \in Nat
    BY <1>1 DEF TypeOK
  <2>2. cEnded[t] <=> over[t]
    BY <1>1, <1>2 DEF TurnSound, Known
  <2>3. /\ mouth[t] = "dispatched" /\ ~over[t] => ~goes /\ said[t] \notin heard[t]
        /\ mouth[t] = "audible" /\ ~over[t] => cPending[t] = 0
             /\ lastCommitted[t] = said[t] /\ said[t] \in heard[t]
        /\ over[t] => ~goes
    BY <1>1, <1>2, <1>4, <2>2 DEF TurnSound, Known
  <2>4. mouth[t] = "audible" /\ ~over[t] => cLine'[t] = cLine[t] \ {said[t]}
    BY <1>8, <2>2, <2>3
  <2>5. ~(mouth[t] = "audible" /\ ~over[t]) => cLine'[t] = cLine[t] /\ heard'[t] = heard[t]
    BY <1>3, <1>4, <1>8, <2>3
  <2>6. mouth[t] = "audible" /\ ~over[t] => heard'[t] = heard[t] \ {said[t]}
    BY <1>4
  <2> HIDE DEF goes, s
  <2>7. Delivered(t)'
    BY <1>1, <1>2, <1>3, <2>4, <2>5, <2>6 DEF TurnSound, Delivered, FoldsOne
  <2>8. Unseen(t)'
    BY <1>2 DEF Unseen
  <2>9. Settled(t)'
    BY <1>1, <1>2, <1>3, <1>5, <2>1 DEF TurnSound, Settled, Known, FoldsOne, Folding
  <2>10. Known(t)'
    BY <1>1, <1>2, <1>3, <1>4, <1>5, <1>6, <2>1, <2>2, <2>4, <2>5, <2>6 DEF TurnSound, Known
  <2>11. Agree(t)'
    <3>1. mouth[t] = "audible" /\ ~over[t]
          => Cardinality(heard'[t]) = Cardinality(heard[t]) - 1
      BY <1>4, <2>1, <2>3, <2>6, HeardCounts
    <3>2. Cardinality(heard[t]) \in Nat /\ Cardinality(heard'[t]) \in Nat
      BY <1>4, <2>1, HeardCounts
    <3>3. CASE Folding /\ ~over[t]
      BY <1>1, <1>2, <1>3, <1>5, <1>6, <2>1, <2>2, <2>3, <2>5, <3>1, <3>2, <3>3
           DEF TurnSound, Known, Agree
    <3> QED BY <1>2, <1>3, <3>3 DEF Agree, Folding, FoldsOne
  <2> QED BY <2>7, <2>8, <2>9, <2>10, <2>11 DEF TurnSound
<1> QED BY <1>2, <1>3, <1>9, <1>10, <1>11, <1>12, <1>13, OneFolds

\* The turn is over.
LEMMA TurnEndedKeeps ==
  ASSUME RecordSound, NEW t \in Turns, NEW p \in Publishers, TurnEnded(t, p)
  PROVE  RecordSound'
<1>1. TypeOK /\ CountIsEntries /\ QueueSound /\ TurnSound(t)
  BY DEF RecordSound
<1>2. FoldsOne /\ phase # "flushed" /\ (~seen' => phase # "live") /\ (ChunkerFolds
      <=> seen')
      /\ (RelayFolds <=> seen' /\ Folding)
  <2>1. FoldsOne /\ phase # "flushed" /\ (~seen' => phase # "live")
    BY <1>1, Published DEF TurnEnded
  <2> QED BY <2>1 DEF FoldsOne, ChunkerFolds, RelayFolds, Folding
<1>3. /\ UNCHANGED <<said, mouth, human, heard, line, pending, deliveredN, rows, undone,
                     cLine,
                     lastCommitted, count, window, chunked>>
      /\ over' \in [Turns -> BOOLEAN] /\ over'[t]
           /\ \A u \in Turns \ {t} : over'[u] = over[u]
  BY <1>1 DEF TurnEnded, TypeOK
<1>4. /\ ended' \in [Turns -> BOOLEAN] /\ \A u \in Turns \ {t} : ended'[u] = ended[u]
      /\ ended'[t] <=> ended[t] \/ (seen' /\ Folding)
  <2>1. ended' = IF RelayFolds THEN [ended EXCEPT ![t] = TRUE] ELSE ended
    BY DEF TurnEnded
  <2> QED BY <1>1, <1>2, <2>1 DEF TypeOK
<1>5. /\ cEnded' \in [Turns -> BOOLEAN] /\ \A u \in Turns \ {t} : cEnded'[u] = cEnded[u]
      /\ cEnded'[t] <=> cEnded[t] \/ seen'
  <2>1. cEnded' = IF ChunkerFolds THEN [cEnded EXCEPT ![t] = TRUE] ELSE cEnded
    BY DEF TurnEnded
  <2> QED BY <1>1, <1>2, <2>1 DEF TypeOK
<1>6. /\ cPending' \in [Turns -> 0..MaxSentences]
           /\ \A u \in Turns \ {t} : cPending'[u] = cPending[u]
      /\ cPending'[t] = IF seen' THEN 0 ELSE cPending[t]
  <2>1. cPending' = IF ChunkerFolds THEN [cPending EXCEPT ![t] = 0] ELSE cPending
    BY DEF TurnEnded
  <2>2. cPending \in [Turns -> 0..MaxSentences] /\ 0 \in 0..MaxSentences
    BY <1>1, TranscriptAssumption DEF TypeOK
  <2> QED BY <1>2, <2>1, <2>2
<1>7. /\ QueueFits /\ LinesKeep({t}) /\ (NoBarrier(queue) => NoBarrier(queue'))
      /\ (Folding \/ queue' = queue) /\ unconfirmed' \subseteq Turns
      /\ \A u \in Turns \ {t} : u \in unconfirmed' <=> u \in unconfirmed
      /\ Upsert(t) \in Range(queue') => Upsert(t) \in Range(queue)
      /\ \/ unconfirmed' = unconfirmed /\ queue' = queue
         \/ /\ seen' /\ Folding /\ t \notin unconfirmed' /\ Retraction(t) \in Range(queue')
  <2>1. CASE RelayFolds /\ deliveredN[t] = 0 /\ t \in unconfirmed /\ Room(1)
    <3> DEFINE x == Retraction(t)
    <3>1. queue' = Append(queue, x) /\ unconfirmed' = unconfirmed \ {t}
          /\ Len(queue) + 1 <= QueueCap
      BY <2>1 DEF TurnEnded, Retraction, Room
    <3>2. /\ queue \in Seq(Ops) /\ RetractionsLast(queue) /\ NoBarrier(queue)
               /\ unconfirmed \subseteq Turns
      BY <1>1, <1>2, <2>1 DEF TypeOK, QueueSound, Folding
    <3>3. x \in Ops /\ x.op # "barrier" /\ \A u \in Turns : x # Upsert(u)
          /\ (x = Retraction(u) => u = t)
      BY DEF Ops, Retraction, Upsert
    <3> HIDE DEF x
    <3>4. /\ queue' \in Seq(Ops) /\ Len(queue') = Len(queue) + 1
               /\ Range(queue') = Range(queue) \cup {x}
          /\ RetractionsLast(queue') /\ NoBarrier(queue') /\ BarrierLast(queue')
      BY <3>1, <3>2, <3>3, QueueAppends
    <3>5. Retraction(t) \in Range(queue')
      BY <3>4 DEF x
    <3> QED BY <1>2, <2>1, <3>1, <3>2, <3>3, <3>4, <3>5 DEF QueueFits, LinesKeep
  <2>2. CASE UNCHANGED <<queue, unconfirmed>>
    <3>1. QueueFits /\ LinesKeep({}) /\ (NoBarrier(queue) => NoBarrier(queue'))
      BY <2>2, QueueStays
    <3> QED BY <1>1, <2>2, <3>1 DEF LinesKeep, TypeOK
  <2> QED BY <2>1, <2>2 DEF TurnEnded
<1>8. TypeOK'
  BY <1>1, <1>2, <1>3, <1>4, <1>5, <1>6, <1>7 DEF TypeOK, QueueFits, FoldsOne
<1>9. CountIsEntries'
  BY <1>1, <1>3 DEF CountIsEntries
<1>10. \A u \in Turns \ {t} : Rests(u)
  BY <1>3, <1>4, <1>5, <1>6, <1>7 DEF Rests
<1>11. TurnSound(t)'
  <2>1. Delivered(t)' /\ Agree(t)'
    BY <1>1, <1>2, <1>3 DEF TurnSound, Delivered, Agree, FoldsOne
  <2>2. Settled(t)'
    BY <1>1, <1>2, <1>3, <1>4, <1>7 DEF TurnSound, Settled, Folding, FoldsOne
  <2>3. Unseen(t)'
    BY <1>1, <1>2, <1>3, <1>4, <1>5, <1>6 DEF TurnSound, Unseen, FoldsOne
  <2>4. Known(t)'
    BY <1>1, <1>2, <1>3, <1>4, <1>5, <1>6 DEF TurnSound, Known, FoldsOne
  <2> QED BY <2>1, <2>2, <2>3, <2>4 DEF TurnSound
<1> QED BY <1>2, <1>3, <1>7, <1>8, <1>9, <1>10, <1>11, OneFolds

\* The loop has ended.
LEMMA LoopEndsKeeps == ASSUME RecordSound, LoopEnds PROVE RecordSound'
<1>1. TypeOK /\ CountIsEntries /\ QueueSound /\ CountAuthoritative
  BY DEF RecordSound
<1>2. /\ UNCHANGED <<said, mouth, over, human, heard, line, ended, pending, deliveredN,
                     unconfirmed,
                     queue, rows, undone, cEnded, cPending, cLine, lastCommitted, count,
                       window, chunked,
                     seen, counted>>
      /\ phase = "live" /\ phase' = "ended" /\ mid' \subseteq Publishers
  BY DEF LoopEnds, Goto, speech, relay, store, chunker
<1>3. TypeOK' /\ CountIsEntries' /\ QueueSound' /\ CountAuthoritative'
  <2>1. TypeOK' /\ CountIsEntries'
    BY <1>1, <1>2 DEF TypeOK, CountIsEntries, Phases
  <2> QED BY <1>1, <1>2, <2>1 DEF QueueSound, CountAuthoritative
<1>4. ASSUME NEW t \in Turns PROVE TurnSound(t)'
  <2>1. TurnSound(t)
    BY DEF RecordSound
  <2>2. Delivered(t)' /\ Agree(t)' /\ Settled(t)'
    BY <1>2, <2>1 DEF TurnSound, Delivered, Agree, Settled, Folding
  <2>3. Unseen(t)' /\ Known(t)'
    BY <1>2, <2>1 DEF TurnSound, Unseen, Known
  <2> QED BY <2>2, <2>3 DEF TurnSound
<1> QED BY <1>3, <1>4 DEF RecordSound

\* The relay closes: what it has not confirmed is taken back or given up.
LEMMA RelayClosesKeeps == ASSUME RecordSound, RelayCloses PROVE RecordSound'
<1>1. TypeOK /\ CountIsEntries /\ QueueSound /\ CountAuthoritative
  BY DEF RecordSound
<1>2. /\ UNCHANGED <<said, mouth, over, human, heard, line, ended, pending, deliveredN,
                     rows,
                     cEnded, cPending, cLine, lastCommitted, count, window, chunked, seen,
                       mid, counted>>
      /\ phase = "ended" /\ phase' = "closed" /\ unconfirmed' = {}
  BY DEF RelayCloses, Goto, speech, chunker
<1> PICK S \in SUBSET unconfirmed :
      /\ Room(Cardinality(S))
      /\ queue' = queue \o SetToSeq({[op |-> "delete", id |-> t] : t \in S})
      /\ undone' = undone \cup (unconfirmed \ S)
  BY DEF RelayCloses
<1>3. S \in SUBSET Turns /\ Cardinality(S) \in Nat /\ undone' \subseteq Turns
  <2>1. S \in SUBSET Turns /\ undone' \subseteq Turns
    BY <1>1 DEF TypeOK
  <2> QED BY <2>1, TranscriptAssumption, FS_Subset, FS_CardinalityType
<1>4. /\ queue \in Seq(Ops) /\ RetractionsLast(queue) /\ NoBarrier(queue)
      /\ Len(queue) + Cardinality(S) <= QueueCap
  BY <1>1, <1>2 DEF TypeOK, QueueSound, Room
<1>5. /\ queue' \in Seq(Ops) /\ Len(queue') <= Len(queue) + Cardinality(S)
      /\ Range(queue') = Range(queue) \cup {Retraction(t) : t \in S}
      /\ RetractionsLast(queue') /\ NoBarrier(queue')
  BY <1>3, <1>4, QueueRetracts
<1>6. Len(queue') <= QueueCap
  BY <1>3, <1>4, <1>5, LenProperties
<1>7. BarrierLast(queue')
  BY <1>5 DEF NoBarrier, BarrierLast
<1>8. TypeOK' /\ CountIsEntries' /\ QueueSound' /\ CountAuthoritative'
  <2>1. TypeOK' /\ CountIsEntries'
    BY <1>1, <1>2, <1>3, <1>5, <1>6 DEF TypeOK, CountIsEntries, Phases
  <2> QED BY <1>1, <1>2, <1>5, <1>7, <2>1 DEF QueueSound, CountAuthoritative
<1>9. ASSUME NEW t \in Turns PROVE TurnSound(t)'
  <2>1. TurnSound(t)
    BY DEF RecordSound
  <2>2. Delivered(t)' /\ Agree(t)'
    BY <1>2, <2>1 DEF TurnSound, Delivered, Agree, Folding
  <2>3. Upsert(t) \in Range(queue') => Upsert(t) \in Range(queue)
    BY <1>5 DEF Upsert, Retraction
  <2>4. (Retraction(t) \in Range(queue) => Retraction(t) \in Range(queue'))
        /\ (t \in unconfirmed => t \in undone' \/ Retraction(t) \in Range(queue'))
        /\ (t \in undone => t \in undone')
    BY <1>5
  <2>5. Settled(t)'
    BY <1>2, <2>1, <2>3, <2>4 DEF TurnSound, Settled, Folding
  <2>6. Unseen(t)' /\ Known(t)'
    BY <1>2, <2>1 DEF TurnSound, Unseen, Known
  <2> QED BY <2>2, <2>5, <2>6 DEF TurnSound
<1> QED BY <1>8, <1>9 DEF RecordSound

\* After the relay has closed a step that leaves the speech and both records alone, and no
\* retraction of the queue behind, keeps what the turns promise.
LEMMA ClosedKeep ==
  ASSUME RecordSound, ~Folding, phase' \notin {"live", "ended"}, NEW t \in Turns,
         UNCHANGED <<said, mouth, over, heard, line, ended, pending, deliveredN,
                     unconfirmed, rows, undone,
                     cEnded, cPending, cLine, lastCommitted, chunked, seen, mid>>,
         phase' = "flushed" <=> phase = "flushed",
         Upsert(t) \in Range(queue') => Upsert(t) \in Range(queue),
         Retraction(t) \in Range(queue) => Retraction(t) \in Range(queue')
  PROVE  TurnSound(t)'
<1>1. TurnSound(t)
  BY DEF RecordSound
<1>2. Delivered(t)' /\ Agree(t)'
  BY <1>1 DEF TurnSound, Delivered, Agree, Folding
<1>3. Settled(t)'
  BY <1>1 DEF TurnSound, Settled, Folding
<1>4. Unseen(t)' /\ Known(t)'
  BY <1>1 DEF TurnSound, Unseen, Known
<1> QED BY <1>2, <1>3, <1>4 DEF TurnSound

\* Finalize sends its barrier.
LEMMA FlushBeginsKeeps == ASSUME RecordSound, FlushBegins PROVE RecordSound'
<1>1. TypeOK /\ CountIsEntries /\ QueueSound /\ CountAuthoritative
  BY DEF RecordSound
<1>2. /\ UNCHANGED <<said, mouth, over, human, heard, line, ended, pending, deliveredN,
                     unconfirmed, rows,
                     undone, cEnded, cPending, cLine, lastCommitted, count, window,
                       chunked, seen, mid,
                     counted>>
      /\ phase = "closed" /\ phase' = "flushing" /\ Len(queue) + 1 <= QueueCap
  BY DEF FlushBegins, Goto, speech, relay, chunker, Room
<1> DEFINE x == [op |-> "barrier"]
<1>3. queue' = Append(queue, x)
  BY DEF FlushBegins
<1>4. queue \in Seq(Ops) /\ RetractionsLast(queue) /\ NoBarrier(queue)
  BY <1>1, <1>2 DEF TypeOK, QueueSound
<1>5. x \in Ops /\ \A u \in Turns : x # Upsert(u) /\ x # Retraction(u)
  BY DEF Ops, Upsert, Retraction
<1> HIDE DEF x
<1>6. /\ queue' \in Seq(Ops) /\ Len(queue') = Len(queue) + 1
           /\ Range(queue') = Range(queue) \cup {x}
      /\ RetractionsLast(queue') /\ BarrierLast(queue')
  BY <1>3, <1>4, <1>5, QueueAppends
<1>7. TypeOK' /\ CountIsEntries' /\ QueueSound' /\ CountAuthoritative'
  <2>1. TypeOK' /\ CountIsEntries'
    BY <1>1, <1>2, <1>6 DEF TypeOK, CountIsEntries, Phases
  <2> QED BY <1>1, <1>2, <1>6, <2>1 DEF QueueSound, CountAuthoritative
<1>8. \A t \in Turns : TurnSound(t)'
  BY <1>2, <1>5, <1>6, ClosedKeep DEF Folding
<1> QED BY <1>7, <1>8 DEF RecordSound

\* The writer reaches it.
LEMMA BarrierKeeps == ASSUME RecordSound, Barrier PROVE RecordSound'
<1>1. TypeOK /\ CountIsEntries /\ QueueSound /\ CountAuthoritative
  BY DEF RecordSound
<1>2. /\ UNCHANGED <<said, mouth, over, human, heard, line, ended, pending, deliveredN,
                     unconfirmed, rows,
                     undone, cEnded, cPending, cLine, lastCommitted, count, window,
                       chunked, seen, mid>>
      /\ queue # <<>> /\ Head(queue).op = "barrier" /\ queue' = Tail(queue)
  BY DEF Barrier, speech, relay, chunker
<1>3. counted = NoCount /\ queue \in Seq(Ops) /\ RetractionsLast(queue)
      /\ BarrierLast(queue)
  BY <1>1, <1>2 DEF QueueSound, TypeOK
<1>4. /\ Range(queue) = Range(queue') \cup {Head(queue)} /\ queue' = <<>>
           /\ Head(queue) \in Ops
      /\ RetractionsLast(queue') /\ BarrierLast(queue')
  BY <1>2, <1>3, QueueTakes
<1>5. phase \in {"flushing", "finalized", "flushed"}
  <2>1. Head(queue) = queue[1] /\ 1 \in DOMAIN queue
    BY <1>2, <1>3, HeadTailProperties
  <2>2. ~NoBarrier(queue)
    BY <1>2, <2>1 DEF NoBarrier
  <2> QED BY <1>1, <2>2 DEF QueueSound
<1>6. \/ phase = "flushing" /\ phase' = "finalized" /\ counted' \in {Cardinality(rows),
             NoCount}
      \/ phase # "flushing" /\ phase' = phase /\ counted' = NoCount
  BY <1>3 DEF Barrier
<1>7. TypeOK' /\ CountIsEntries' /\ QueueSound' /\ CountAuthoritative'
  <2>1. Cardinality(rows) \in 0..Cardinality(Lines)
    <3>1. IsFiniteSet(Turns) /\ IsFiniteSet(Utterances)
      BY TranscriptAssumption, FS_Interval DEF Utterances
    <3>2. IsFiniteSet(Lines) /\ rows \subseteq Lines
      BY <1>1, <3>1, FS_Union DEF Lines, TypeOK
    <3>3. Cardinality(rows) \in Nat /\ Cardinality(Lines) \in Nat
          /\ Cardinality(rows) <= Cardinality(Lines)
      BY <3>2, FS_Subset, FS_CardinalityType
    <3> QED BY <3>3
  <2>2. queue' \in Seq(Ops) /\ Len(queue') <= QueueCap
    BY <1>4, TranscriptAssumption
  <2>3. TypeOK' /\ CountIsEntries'
    BY <1>1, <1>2, <1>5, <1>6, <2>1, <2>2 DEF TypeOK, CountIsEntries, Phases
  <2>4. NoBarrier(queue')
    BY <1>4 DEF NoBarrier
  <2>5. QueueSound'
    BY <1>4, <1>5, <1>6, <2>4 DEF QueueSound
  <2> QED BY <1>2, <1>6, <2>3, <2>5 DEF CountAuthoritative
<1>8. ASSUME NEW t \in Turns PROVE TurnSound(t)'
  <2>1. Head(queue) # Retraction(t)
    BY <1>2 DEF Retraction
  <2> QED BY <1>2, <1>4, <1>5, <1>6, <2>1, ClosedKeep DEF Folding
<1> QED BY <1>7, <1>8 DEF RecordSound

\* Finalize waits no longer.
LEMMA FlushTimesOutKeeps == ASSUME RecordSound, FlushTimesOut PROVE RecordSound'
<1>1. TypeOK /\ CountIsEntries /\ QueueSound /\ CountAuthoritative
  BY DEF RecordSound
<1>2. /\ UNCHANGED <<said, mouth, over, human, heard, line, ended, pending, deliveredN,
                     unconfirmed, queue,
                     rows, undone, cEnded, cPending, cLine, lastCommitted, count, window,
                       chunked, seen,
                     mid, counted>>
      /\ phase \in {"closed", "flushing"} /\ phase' = "finalized"
  BY DEF FlushTimesOut, Goto, speech, relay, chunker, store
<1>3. TypeOK' /\ CountIsEntries' /\ QueueSound' /\ CountAuthoritative'
  <2>1. TypeOK' /\ CountIsEntries'
    BY <1>1, <1>2 DEF TypeOK, CountIsEntries, Phases
  <2> QED BY <1>1, <1>2, <2>1 DEF QueueSound, CountAuthoritative
<1>4. \A t \in Turns : TurnSound(t)'
  BY <1>2, ClosedKeep DEF Folding
<1> QED BY <1>3, <1>4 DEF RecordSound

\* FlushSession closes the open chunk.
LEMMA ChunkerFlushesKeeps == ASSUME RecordSound, ChunkerFlushes PROVE RecordSound'
<1>1. TypeOK /\ CountIsEntries /\ QueueSound /\ CountAuthoritative
  BY DEF RecordSound
<1>2. /\ UNCHANGED <<said, mouth, over, human, heard, line, ended, pending, deliveredN,
                     unconfirmed, queue,
                     rows, undone, cEnded, cPending, lastCommitted, seen, mid, counted>>
      /\ phase = "finalized" /\ phase' = "flushed" /\ CloseChunk(cLine)
  BY DEF ChunkerFlushes, Goto, speech, relay, store
<1>3. ChunkHolds(cLine)
  <2>1. cLine \in [Turns -> SUBSET Sentences] /\ human' \in Nat
    BY <1>1, <1>2 DEF TypeOK
  <2> QED BY <1>1, <1>2, <2>1, ChunkCloses
<1>4. TypeOK' /\ CountIsEntries' /\ QueueSound' /\ CountAuthoritative'
  <2>1. TypeOK' /\ CountIsEntries'
    BY <1>1, <1>2, <1>3 DEF TypeOK, ChunkHolds, Phases
  <2> QED BY <1>1, <1>2, <2>1 DEF QueueSound, CountAuthoritative
<1>5. ASSUME NEW t \in Turns PROVE TurnSound(t)'
  <2>1. TurnSound(t)
    BY DEF RecordSound
  <2>2. \/ cLine'[t] = cLine[t] /\ chunked'[t] = chunked[t]
        \/ cLine'[t] = {} /\ chunked'[t] = chunked[t] \cup cLine[t]
    BY <1>3 DEF ChunkHolds
  <2>3. Delivered(t)' /\ Agree(t)' /\ Settled(t)'
    BY <1>2, <2>1, <2>2 DEF TurnSound, Delivered, Agree, Settled, Folding
  <2>4. Unseen(t)'
    BY <1>2, <2>1, <2>2 DEF TurnSound, Unseen
  <2>5. Known(t)'
    <3>1. heard'[t] \cup cLine'[t] \cup chunked'[t] = heard[t] \cup cLine[t] \cup chunked[t]
      BY <1>2, <2>2
    <3> QED BY <1>2, <2>1, <3>1 DEF TurnSound, Known
  <2> QED BY <2>3, <2>4, <2>5 DEF TurnSound
<1> QED BY <1>4, <1>5 DEF RecordSound

\* Every step of the speakers, the projections, the writer and runLoop keeps the invariant.
LEMMA RecordStep == RecordSound /\ [Next]_vars => RecordSound'
<1> SUFFICES ASSUME RecordSound, [Next]_vars PROVE RecordSound'
  OBVIOUS
<1>1. CASE Human
  BY <1>1, HumanKeeps
<1>2. CASE Write
  BY <1>2, WriteKeeps
<1>3. CASE WindowElapses
  BY <1>3, WindowElapsesKeeps
<1>4. ASSUME NEW t \in Turns,
             \/ Dispatch(t) \/ FirstAudio(t) \/ StreamFailed(t) \/ SentenceOver(t)
             \/ TurnEnded(t, t) \/ TurnEnded(t, "floor")
      PROVE  RecordSound'
  <2>1. t \in Publishers /\ "floor" \in Publishers
    BY DEF Publishers
  <2> QED BY <1>4, <2>1, DispatchKeeps, FirstAudioKeeps, StreamFailedKeeps,
               SentenceOverKeeps, TurnEndedKeeps
<1>5. CASE LoopEnds
  BY <1>5, LoopEndsKeeps
<1>6. CASE RelayCloses
  BY <1>6, RelayClosesKeeps
<1>7. CASE FlushBegins
  BY <1>7, FlushBeginsKeeps
<1>8. CASE Barrier
  BY <1>8, BarrierKeeps
<1>9. CASE FlushTimesOut
  BY <1>9, FlushTimesOutKeeps
<1>10. CASE ChunkerFlushes
  BY <1>10, ChunkerFlushesKeeps
<1>11. CASE UNCHANGED vars
  <2>1. UNCHANGED <<said, mouth, over, human, heard, line, ended, pending, deliveredN,
                    unconfirmed,
                    queue, rows, undone, cEnded, cPending, cLine, lastCommitted, count,
                      window, chunked,
                    phase, seen, mid, counted>>
    BY <1>11 DEF vars
  <2>2. TypeOK' /\ CountIsEntries' /\ QueueSound' /\ CountAuthoritative'
    BY <2>1 DEF RecordSound, TypeOK, CountIsEntries, QueueSound, CountAuthoritative
  <2>3. ASSUME NEW t \in Turns PROVE TurnSound(t)'
    <3>1. TurnSound(t)
      BY DEF RecordSound
    <3> QED BY <2>1, <3>1 DEF TurnSound, Delivered, Agree, Settled, Unseen, Known, Folding
  <2> QED BY <2>2, <2>3 DEF RecordSound
<1> QED BY <1>1, <1>2, <1>3, <1>4, <1>5, <1>6, <1>7, <1>8, <1>9, <1>10, <1>11 DEF Next

\* A session begins so.
LEMMA RecordStarts == Init => RecordSound
<1> SUFFICES ASSUME Init PROVE RecordSound
  OBVIOUS
<1>1. cLine \in [Turns -> SUBSET Sentences] /\ \A t \in Turns : cLine[t] = {}
  BY DEF Init
<1>2. Cardinality(Open(cLine)) = 0
  BY <1>1, OpenLines
<1>3. CountIsEntries
  BY <1>2 DEF Init, CountIsEntries, Open
<1>4. TypeOK
  <2>1. <<>> \in Seq(Ops) /\ Len(<<>>) = 0
    OBVIOUS
  <2>2. 0 <= QueueCap /\ "live" \in Phases /\ 0 \in 0..MaxSentences /\ 0 \in 0..MaxHuman
        /\ 0 \in 0..MaxUtterances
    BY TranscriptAssumption DEF Phases
  <2> QED BY <2>1, <2>2 DEF Init, TypeOK
<1>5. /\ QueueSound /\ CountAuthoritative /\ Range(queue) = {}
  BY DEF Init, QueueSound, CountAuthoritative, RetractionsLast, BarrierLast, NoBarrier,
         Range
<1>6. ASSUME NEW t \in Turns PROVE TurnSound(t)
  <2>1. Cardinality({}) = 0
    BY FS_EmptySet
  <2>2. Delivered(t) /\ Agree(t)
    BY <2>1 DEF Init, Delivered, Agree
  <2>3. Settled(t)
    BY <1>5 DEF Init, Settled, Folding
  <2>4. Unseen(t)
    BY DEF Init, Unseen
  <2>5. Known(t)
    BY DEF Init, Known
  <2> QED BY <2>2, <2>3, <2>4, <2>5 DEF TurnSound
<1> QED BY <1>3, <1>4, <1>5, <1>6 DEF RecordSound

\* The invariant of the records holds in every state of every session.
THEOREM RecordKept == Spec => []RecordSound
<1> QED BY RecordStarts, RecordStep, PTL DEF Spec

\* Once the lines are counted the queue is empty and the relay is closed, so a line of which
\* nothing was delivered is one that was given up.
LEMMA CountedSettled == RecordSound => RecordInv
<1> SUFFICES ASSUME RecordSound PROVE RecordInv
  OBVIOUS
<1>1. NoUnheardLine
  <2> SUFFICES ASSUME counted # NoCount, NEW t \in Turns, t \in rows
               PROVE  deliveredN[t] > 0 \/ t \in undone
    BY DEF NoUnheardLine
  <2>1. queue = <<>> /\ ~Folding
    BY DEF RecordSound, QueueSound, Folding
  <2>2. Range(queue) = {} /\ deliveredN[t] \in Nat
    BY <2>1 DEF Range, RecordSound, TypeOK
  <2> QED BY <2>1, <2>2 DEF RecordSound, TurnSound, Settled
<1>2. DeliveredOnce /\ RecordsAgree
  BY DEF RecordSound, TurnSound, Delivered, Agree, Folding, DeliveredOnce, RecordsAgree
<1> QED BY <1>1, <1>2 DEF RecordSound, RecordInv, TranscriptInv

\* The chunks hold what the room heard, each sentence once; the two records agree on it; the
\* lines counted at the end are the lines that stay, none of them unheard (relay.go,
\* chunker.go, persist.go).
THEOREM RecordSafe == Spec => []RecordInv
<1> QED BY CountedSettled, RecordKept, PTL

HIDE TranscriptAssumption
-------------------------------------------------------------------------------
(*************************************************************************)
(* The Knowledge Graph. KnowledgeInv is not inductive: GraphSound adds   *)
(* that row ids come from one counter and belong to one Node, that an    *)
(* editor's copy, however old, holds rows that were once a Node's, and   *)
(* that a listed text is its Node's for as long as the time of its last  *)
(* write is.                                                             *)
(*************************************************************************)

\* The rows of a list are different ones, older than any that will be inserted, and each comes
\* from a GM or from a proposal that was approved.
Distinct(list) == \A k, l \in DOMAIN list : list[k].id = list[l].id => k = l

Below(list, top) == \A k \in DOMAIN list : list[k].id < top

Applied(list, status) == \A k \in DOMAIN list :
  list[k].fact # Authored => status[list[k].fact] = "approved"

ListSound(list) == Distinct(list) /\ Below(list, nextRow) /\ Applied(list, proposal)

\* So are those of a Node, which has its rows to itself, and of an editor's copy.
AspectsSound ==
  /\ \A n \in Nodes : ListSound(aspects[n])
  /\ \A n, m \in Nodes : \A k \in DOMAIN aspects[n], l \in DOMAIN aspects[m] :
       aspects[n][k].id = aspects[m][l].id => n = m

CopiesSound == \A e \in Editors : open[e] # Nothing => ListSound(open[e].known)

\* A listed text is that of its Node as long as the time of its last write is.
BatchSound ==
  /\ \A n \in Nodes : written[n] <= now
  /\ \A w \in Embedders : \A n \in DOMAIN batch[w] :
       /\ batch[w][n].written \in Nat /\ batch[w][n].written <= now
       /\ n \in Exists /\ written[n] = batch[w][n].written => batch[w][n].text = TextOf(n)

\* KnowledgeInv, and what stale copies and listed texts still have to do with the rows.
GraphSound ==
  KnowledgeTypeOK /\ VectorFresh /\ NothingLost /\ AspectsSound /\ CopiesSound /\ BatchSound

\* Positions have different places, one to each up to their number.
LEMMA RankPlaces ==
  ASSUME NEW n \in Nat, NEW S \in SUBSET (1..n)
  PROVE  /\ IsFiniteSet(S) /\ Cardinality(S) \in Nat
         /\ \A k \in S : Rank(S, k) \in 1..Cardinality(S)
         /\ \A k, l \in S : Rank(S, k) = Rank(S, l) => k = l
         /\ \A i \in 1..Cardinality(S) : \E k \in S : Rank(S, k) = i
<1> DEFINE c == Cardinality(S)
           upto(k) == {m \in S : m <= k}
           f == [k \in S |-> Rank(S, k)]
<1>1. IsFiniteSet(S) /\ c \in Nat /\ S \subseteq Nat
  <2>1. IsFiniteSet(1..n)
    BY FS_Interval
  <2>2. IsFiniteSet(S)
    BY <2>1, FS_Subset
  <2> QED BY <2>2, FS_CardinalityType
<1>2. ASSUME NEW k \in S
      PROVE  /\ IsFiniteSet(upto(k)) /\ Cardinality(upto(k)) \in Nat
             /\ Cardinality(upto(k)) <= c /\ Cardinality(upto(k)) # 0
  <2>1. upto(k) \in SUBSET S /\ k \in upto(k)
    BY <1>1
  <2> HIDE DEF upto
  <2>2. IsFiniteSet(upto(k)) /\ Cardinality(upto(k)) <= c
    BY <1>1, <2>1, FS_Subset
  <2>3. Cardinality(upto(k)) # 0
    BY <2>1, <2>2, FS_EmptySet
  <2> QED BY <2>2, <2>3, FS_CardinalityType
<1>3. ASSUME NEW k \in S PROVE Rank(S, k) \in 1..c
  <2>1. Rank(S, k) = Cardinality(upto(k))
    BY DEF Rank
  <2> HIDE DEF upto, c
  <2> QED BY <1>1, <1>2, <2>1
<1>4. ASSUME NEW k \in S, NEW l \in S, k < l PROVE Rank(S, k) # Rank(S, l)
  <2>1. upto(k) \in SUBSET upto(l) /\ upto(k) # upto(l)
    <3>1. k \in Nat /\ l \in Nat /\ \A m \in S : m \in Nat
      BY <1>1
    <3>2. \A m \in S : m <= k => m <= l
      BY <1>4, <3>1
    <3>3. l \in upto(l) /\ l \notin upto(k)
      BY <1>4, <3>1
    <3> QED BY <3>2, <3>3
  <2>2. IsFiniteSet(upto(l)) /\ Cardinality(upto(k)) \in Nat /\ Cardinality(upto(l)) \in Nat
    BY <1>2
  <2>3. Rank(S, k) = Cardinality(upto(k)) /\ Rank(S, l) = Cardinality(upto(l))
    BY DEF Rank
  <2> HIDE DEF upto
  <2>4. Cardinality(upto(k)) < Cardinality(upto(l))
    BY <2>1, <2>2, FS_Subset
  <2> QED BY <2>2, <2>3, <2>4
<1>5. \A k, l \in S : Rank(S, k) = Rank(S, l) => k = l
  <2>1. \A k, l \in S : k < l \/ l < k \/ k = l
    BY <1>1
  <2> QED BY <1>4, <2>1
<1>6. f \in Injection(S, 1..c)
  BY <1>3, <1>5 DEF Injection, IsInjective
<1>7. IsFiniteSet(1..c) /\ Cardinality(1..c) = c
  BY <1>1, FS_Interval
<1> HIDE DEF f, c
<1>8. f \in Surjection(S, 1..c)
  BY <1>1, <1>6, <1>7, FS_Injection DEF c
<1>9. \A i \in 1..c : \E k \in S : Rank(S, k) = i
  BY <1>8 DEF Surjection, f
<1> QED BY <1>1, <1>3, <1>5, <1>9 DEF c

\* The rows that are kept are rows of the list, in different places if they were so.
LEMMA KeptRows ==
  ASSUME NEW R, NEW list \in Seq(R), NEW ids
  PROVE  /\ Kept(list, ids) \in Seq(R) /\ Len(Kept(list, ids)) \in Nat
         /\ DOMAIN Kept(list, ids) = 1..Len(Kept(list, ids))
         /\ \A i \in DOMAIN Kept(list, ids) : \E k \in DOMAIN list :
              Kept(list, ids)[i] = list[k] /\ list[k].id \in ids
         /\ \A k \in DOMAIN list : list[k].id \in ids =>
              \E i \in DOMAIN Kept(list, ids) : Kept(list, ids)[i] = list[k]
         /\ Distinct(list) => Distinct(Kept(list, ids))
<1> DEFINE at == {k \in DOMAIN list : list[k].id \in ids}
           c == Cardinality(at)
           pos == [i \in 1..c |-> CHOOSE k \in at : Rank(at, k) = i]
           r == Kept(list, ids)
<1>1. Len(list) \in Nat /\ DOMAIN list = 1..Len(list)
      /\ \A k \in DOMAIN list : list[k] \in R
  OBVIOUS
<1>2. at \in SUBSET (1..Len(list))
  BY <1>1
<1> HIDE DEF at
<1>3. /\ c \in Nat /\ \A k \in at : Rank(at, k) \in 1..c
      /\ \A k, l \in at : Rank(at, k) = Rank(at, l) => k = l
      /\ \A i \in 1..c : \E k \in at : Rank(at, k) = i
  BY <1>1, <1>2, RankPlaces
<1>4. \A i \in 1..c : pos[i] \in at /\ Rank(at, pos[i]) = i
  BY <1>3
<1>5. r = [i \in 1..c |-> list[pos[i]]]
  BY DEF Kept, at
<1> HIDE DEF pos, r, c
<1>6. \A i \in 1..c : pos[i] \in DOMAIN list /\ list[pos[i]].id \in ids
      /\ list[pos[i]] \in R
  BY <1>1, <1>4 DEF at
<1>7. r \in Seq(R) /\ Len(r) = c /\ DOMAIN r = 1..c
  BY <1>3, <1>5, <1>6
<1>8. \A i \in DOMAIN r : \E k \in DOMAIN list : r[i] = list[k] /\ list[k].id \in ids
  BY <1>5, <1>6, <1>7
<1>9. ASSUME NEW k \in DOMAIN list, list[k].id \in ids
      PROVE  \E i \in DOMAIN r : r[i] = list[k]
  <2>1. k \in at
    BY <1>9 DEF at
  <2>2. Rank(at, k) \in 1..c /\ pos[Rank(at, k)] = k
    BY <1>3, <1>4, <2>1
  <2> QED BY <1>5, <1>7, <2>2
<1>10. ASSUME Distinct(list) PROVE Distinct(r)
  <2> SUFFICES ASSUME NEW i \in 1..c, NEW j \in 1..c, r[i].id = r[j].id PROVE i = j
    BY <1>7 DEF Distinct
  <2>1. pos[i] = pos[j]
    BY <1>5, <1>6, <1>10 DEF Distinct
  <2> QED BY <1>4, <2>1
<1> QED BY <1>3, <1>7, <1>8, <1>9, <1>10 DEF r

\* A list behind another.
LEMMA JoinedRows ==
  ASSUME NEW S, NEW a \in Seq(S), NEW b \in Seq(S)
  PROVE  /\ a \o b \in Seq(S) /\ Len(a \o b) \in Nat /\ DOMAIN (a \o b) = 1..Len(a \o b)
         /\ \A i \in DOMAIN a : i \in DOMAIN (a \o b) /\ (a \o b)[i] = a[i]
         /\ \A j \in DOMAIN b : Len(a) + j \in DOMAIN (a \o b)
              /\ (a \o b)[Len(a) + j] = b[j]
         /\ \A i \in DOMAIN (a \o b) : \/ i \in DOMAIN a /\ (a \o b)[i] = a[i]
                                       \/ \E j \in DOMAIN b : i = Len(a) + j
                                            /\ (a \o b)[i] = b[j]
<1> DEFINE c == a \o b
<1>1. /\ Len(a) \in Nat /\ DOMAIN a = 1..Len(a) /\ Len(b) \in Nat /\ DOMAIN b = 1..Len(b)
  BY LenProperties
<1>2. /\ c \in Seq(S) /\ Len(c) = Len(a) + Len(b)
      /\ \A i \in 1..(Len(a) + Len(b)) : c[i] = IF i <= Len(a) THEN a[i] ELSE b[i - Len(a)]
  BY ConcatProperties
<1> HIDE DEF c
<1>3. DOMAIN c = 1..(Len(a) + Len(b))
  BY <1>2, LenProperties
<1>4. \A i \in 1..Len(a) : i \in 1..(Len(a) + Len(b)) /\ i <= Len(a)
  BY <1>1
<1>5. \A j \in 1..Len(b) : /\ Len(a) + j \in 1..(Len(a) + Len(b)) /\ ~(Len(a) + j <= Len(a))
                           /\ (Len(a) + j) - Len(a) = j
  BY <1>1
<1>6. \A i \in 1..(Len(a) + Len(b)) : \/ i <= Len(a) /\ i \in 1..Len(a)
                                      \/ /\ ~(i <= Len(a)) /\ i - Len(a) \in 1..Len(b)
                                         /\ i = Len(a) + (i - Len(a))
  BY <1>1
<1>7. \A i \in DOMAIN a : i \in DOMAIN c /\ c[i] = a[i]
  BY <1>1, <1>2, <1>3, <1>4
<1>8. \A j \in DOMAIN b : Len(a) + j \in DOMAIN c /\ c[Len(a) + j] = b[j]
  BY <1>1, <1>2, <1>3, <1>5
<1>9. ASSUME NEW i \in DOMAIN c
      PROVE  \/ i \in DOMAIN a /\ c[i] = a[i]
             \/ \E j \in DOMAIN b : i = Len(a) + j /\ c[i] = b[j]
  <2>1. CASE i <= Len(a) /\ i \in 1..Len(a)
    BY <1>1, <1>2, <1>3, <2>1
  <2>2. CASE ~(i <= Len(a)) /\ i - Len(a) \in 1..Len(b) /\ i = Len(a) + (i - Len(a))
    BY <1>1, <1>2, <1>3, <2>2
  <2> QED BY <1>3, <1>6, <2>1, <2>2
<1>10. Len(c) \in Nat /\ DOMAIN c = 1..Len(c)
  BY <1>2, LenProperties
<1> QED BY <1>2, <1>7, <1>8, <1>9, <1>10 DEF c

\* What a list draft of an editor can hold: rows it knows, and one that has no id yet.
LEMMA DraftRows ==
  ASSUME NEW known \in Seq(AspectRows), Distinct(known), NEW draft \in Drafts(known)
  PROVE  /\ Len(draft) \in Nat /\ DOMAIN draft = 1..Len(draft)
         /\ \A k \in DOMAIN draft :
              /\ draft[k] = [id |-> draft[k].id, fact |-> draft[k].fact]
              /\ \/ draft[k].id = 0 /\ draft[k].fact = Authored
                 \/ \E l \in DOMAIN known : draft[k] = known[l]
         /\ Distinct(draft)
<1> PICK keep \in SUBSET Ids(known), new \in {<<>>, <<[id |-> 0, fact |-> Authored]>>} :
           draft = Kept(known, keep) \o new
  BY DEF Drafts
<1> DEFINE r == Kept(known, keep)
           R == [id : Nat, fact : Facts]
<1>1. /\ r \in Seq(AspectRows) /\ Len(r) \in Nat /\ DOMAIN r = 1..Len(r)
      /\ \A i \in DOMAIN r : \E k \in DOMAIN known : r[i] = known[k]
      /\ Distinct(r)
  BY KeptRows
<1> HIDE DEF r
<1>2. \A i \in DOMAIN r : r[i] \in AspectRows /\ r[i].id # 0 /\ r[i] = [id |-> r[i].id,
      fact |-> r[i].fact]
  <2>1. \A i \in DOMAIN r : r[i] \in AspectRows
    BY <1>1
  <2> QED BY <2>1 DEF AspectRows
<1>3. draft = r \o new
  BY DEF r
<1>4. CASE new = <<>>
  <2>1. draft = r
    BY <1>1, <1>3, <1>4
  <2> QED BY <1>1, <1>2, <2>1
<1>5. CASE new = <<[id |-> 0, fact |-> Authored]>>
  <2> DEFINE x == [id |-> 0, fact |-> Authored]
  <2>1. r \in Seq(R)
    <3>1. AspectRows \subseteq R
      BY DEF AspectRows
    <3> HIDE DEF R
    <3> QED BY <1>1, <3>1, SeqMonotonic
  <2>2. x \in R
    BY DEF Facts
  <2>3. new = <<x>>
    BY <1>5
  <2>4. x.id = 0 /\ x.fact = Authored /\ x = [id |-> x.id, fact |-> x.fact]
    OBVIOUS
  <2> HIDE DEF x, R
  <2>5. <<x>> \in Seq(R) /\ DOMAIN <<x>> = 1..1 /\ <<x>>[1] = x
    BY <2>2
  <2>6. /\ Len(r \o <<x>>) \in Nat /\ DOMAIN (r \o <<x>>) = 1..Len(r \o <<x>>)
        /\ \A i \in DOMAIN (r \o <<x>>) :
             \/ i \in DOMAIN r /\ (r \o <<x>>)[i] = r[i]
             \/ \E j \in DOMAIN <<x>> : i = Len(r) + j /\ (r \o <<x>>)[i] = <<x>>[j]
    BY <2>1, <2>5, JoinedRows
  <2>7. /\ Len(draft) \in Nat /\ DOMAIN draft = 1..Len(draft)
        /\ \A i \in DOMAIN draft : (i \in DOMAIN r /\ draft[i] = r[i]) \/ (i = Len(r) + 1
               /\ draft[i] = x)
    BY <1>3, <2>3, <2>5, <2>6
  <2>8. Distinct(draft)
    <3>1. \A i \in DOMAIN r : r[i].id # x.id
      BY <1>2, <2>4
    <3>2. \A i, j \in DOMAIN r : r[i].id = r[j].id => i = j
      BY <1>1 DEF Distinct
    <3> SUFFICES ASSUME NEW i \in DOMAIN draft, NEW j \in DOMAIN draft,
      draft[i].id = draft[j].id PROVE i = j
      BY DEF Distinct
    <3>3. CASE i \in DOMAIN r /\ draft[i] = r[i]
      BY <2>7, <3>1, <3>2, <3>3
    <3>4. CASE i = Len(r) + 1 /\ draft[i] = x
      BY <2>7, <3>1, <3>4
    <3> QED BY <2>7, <3>3, <3>4
  <2>9. \A k \in DOMAIN draft :
          /\ draft[k] = [id |-> draft[k].id, fact |-> draft[k].fact]
          /\ \/ draft[k].id = 0 /\ draft[k].fact = Authored
             \/ \E l \in DOMAIN known : draft[k] = known[l]
    BY <1>1, <1>2, <2>4, <2>7
  <2> QED BY <2>7, <2>8, <2>9
<1> QED BY <1>4, <1>5

\* The lists of a save, as Save makes them.
SaveMakes(known, before, draft, sent, survivors, after, inserted) ==
  /\ sent = Ids(draft) \cap Ids(before)
  /\ survivors = Kept(before, Ids(before) \ (sent \cup Removes(known, before, sent)))
  /\ after = Numbered(draft, Ids(before)) \o survivors
  /\ inserted = {k \in DOMAIN draft : draft[k].id \notin Ids(before)}

\* What a save writes: rows under the Node's own ids or under fresh ones, all of them different,
\* and every row of the Node but those the editor knew.
LEMMA SavedRows ==
  ASSUME KnowledgeTypeOK, NEW known \in Seq(AspectRows), NEW before \in Seq(AspectRows),
         ListSound(known), ListSound(before), NEW draft \in Drafts(known),
         NEW survivors, NEW after, NEW inserted, NEW sent,
         SaveMakes(known, before, draft, sent, survivors, after, inserted)
  PROVE  /\ Cardinality(inserted) \in Nat
         /\ nextRow + Cardinality(inserted) <= MaxRows + 1 => after \in Seq(AspectRows)
         /\ Distinct(after) /\ Applied(after, proposal) /\ Below(after,
                nextRow + Cardinality(inserted))
         /\ \A k \in DOMAIN after : after[k].id \in Ids(before) \/ after[k].id >= nextRow
         /\ Ids(before) \ Ids(after) \subseteq Ids(known)
<1> DEFINE top == nextRow + Cardinality(inserted)
           r == Numbered(draft, Ids(before))
           R == [id : Nat, fact : Facts]
<1>1. /\ Len(draft) \in Nat /\ DOMAIN draft = 1..Len(draft) /\ Distinct(draft)
      /\ \A k \in DOMAIN draft :
           /\ draft[k] = [id |-> draft[k].id, fact |-> draft[k].fact]
           /\ \/ draft[k].id = 0 /\ draft[k].fact = Authored
              \/ \E l \in DOMAIN known : draft[k] = known[l]
  BY DraftRows DEF ListSound
<1>2. nextRow \in Nat /\ nextRow > 0 /\ MaxRows \in Nat
  BY KnowledgeAssumption DEF KnowledgeTypeOK
<1>3. /\ \A k \in DOMAIN known : known[k].id \in 1..MaxRows /\ known[k].id < nextRow
           /\ known[k].fact \in Facts
      /\ \A k \in DOMAIN before : before[k].id \in 1..MaxRows /\ before[k].id < nextRow
           /\ before[k].fact \in Facts
  <2>1. /\ \A k \in DOMAIN known : known[k] \in AspectRows
        /\ \A k \in DOMAIN before : before[k] \in AspectRows
    OBVIOUS
  <2> QED BY <2>1 DEF AspectRows, ListSound, Below
<1>4. /\ \A k \in DOMAIN draft : draft[k].id \in Nat /\ draft[k].fact \in Facts
      /\ \A k \in DOMAIN draft :
           draft[k].fact # Authored => proposal[draft[k].fact] = "approved"
  BY <1>1, <1>3 DEF Facts, ListSound, Applied
<1> DEFINE fresh == {k \in DOMAIN draft : draft[k].id \notin Ids(before)}
<1>0. /\ \A k \in DOMAIN draft : k \in inserted <=> draft[k].id \notin Ids(before)
      /\ inserted \in SUBSET DOMAIN draft /\ inserted = fresh
  BY DEF SaveMakes
<1>5. /\ Cardinality(inserted) \in Nat
      /\ \A k \in inserted : Rank(inserted, k) \in 1..Cardinality(inserted)
      /\ \A k, l \in inserted : Rank(inserted, k) = Rank(inserted, l) => k = l
  <2>1. inserted \in SUBSET (1..Len(draft)) /\ Len(draft) \in Nat
    BY <1>1, <1>0
  <2> HIDE DEF fresh
  <2> QED BY <2>1, RankPlaces
<1>6. /\ r = [k \in DOMAIN draft |-> IF k \in inserted
              THEN [draft[k] EXCEPT !.id = nextRow + Rank(inserted, k) - 1]
                                                    ELSE draft[k]]
  BY <1>0 DEF Numbered
<1>7. /\ DOMAIN r = 1..Len(draft)
      /\ \A k \in DOMAIN draft :
           /\ r[k].fact = draft[k].fact /\ r[k].id \in Nat /\ r[k].id > 0
                /\ r[k] = [id |-> r[k].id, fact |-> r[k].fact]
           /\ r[k].id = IF k \in inserted THEN nextRow + Rank(inserted, k) - 1
                ELSE draft[k].id
  <2>1. ASSUME NEW k \in DOMAIN draft, k \in inserted
        PROVE  /\ r[k] = [id |-> nextRow + Rank(inserted, k) - 1, fact |-> draft[k].fact]
               /\ nextRow + Rank(inserted, k) - 1 \in Nat /\ nextRow + Rank(inserted,
                      k) - 1 > 0
    <3>1. r[k] = [draft[k] EXCEPT !.id = nextRow + Rank(inserted, k) - 1]
      BY <1>6, <2>1
    <3>2. draft[k] = [id |-> draft[k].id, fact |-> draft[k].fact]
      BY <1>1
    <3> HIDE DEF r
    <3>3. r[k] = [id |-> nextRow + Rank(inserted, k) - 1, fact |-> draft[k].fact]
      BY <3>1, <3>2
    <3> QED BY <1>2, <1>5, <2>1, <3>3
  <2>2. ASSUME NEW k \in DOMAIN draft, k \notin inserted
        PROVE  r[k] = draft[k] /\ draft[k].id \in Ids(before) /\ draft[k].id > 0
               /\ draft[k].id \in Nat
    <3>1. r[k] = draft[k] /\ draft[k].id \in Ids(before)
      BY <1>6, <1>0, <2>2
    <3> QED BY <1>3, <3>1 DEF Ids
  <2>3. DOMAIN r = 1..Len(draft)
    BY <1>1, <1>6
  <2> HIDE DEF r
  <2> QED BY <1>1, <2>1, <2>2, <2>3
<1> HIDE DEF r
<1> DEFINE ids == Ids(before) \ (sent \cup Removes(known, before, sent))
<1>8. /\ survivors \in Seq(AspectRows) /\ Len(survivors) \in Nat
           /\ DOMAIN survivors = 1..Len(survivors)
      /\ \A i \in DOMAIN survivors : \E k \in DOMAIN before :
           survivors[i] = before[k] /\ before[k].id \in ids
      /\ \A k \in DOMAIN before : before[k].id \in ids
           => \E i \in DOMAIN survivors : survivors[i] = before[k]
      /\ Distinct(survivors)
  <2>1. survivors = Kept(before, ids) /\ Distinct(before)
    BY DEF ListSound, SaveMakes
  <2> HIDE DEF ids
  <2> QED BY <2>1, KeptRows
<1>9. r \in Seq(R) /\ Len(r) = Len(draft)
  <2>1. \A k \in 1..Len(draft) : r[k] \in R
    BY <1>1, <1>4, <1>7
  <2> HIDE DEF R
  <2>2. r \in [1..Len(draft) -> R]
    BY <1>1, <1>6, <1>7, <2>1
  <2> QED BY <1>1, <2>2
<1>10. after = r \o survivors /\ survivors \in Seq(R)
  <2>1. AspectRows \subseteq R
    BY DEF AspectRows
  <2>2. after = r \o survivors
    BY DEF SaveMakes, r
  <2> HIDE DEF R
  <2> QED BY <1>8, <2>1, <2>2, SeqMonotonic
<1> HIDE DEF R, ids, fresh
<1>11. /\ after \in Seq(R) /\ Len(after) \in Nat /\ DOMAIN after = 1..Len(after)
       /\ \A i \in DOMAIN r : i \in DOMAIN after /\ after[i] = r[i]
       /\ \A j \in DOMAIN survivors : Len(r) + j \in DOMAIN after
            /\ after[Len(r) + j] = survivors[j]
       /\ \A i \in DOMAIN after : \/ i \in DOMAIN r /\ after[i] = r[i]
                                  \/ \E j \in DOMAIN survivors : i = Len(r) + j
                                       /\ after[i] = survivors[j]
  BY <1>9, <1>10, JoinedRows
<1>12. /\ \A i \in DOMAIN draft : i \in DOMAIN after /\ after[i] = r[i]
       /\ \A j \in DOMAIN survivors : Len(draft) + j \in DOMAIN after
            /\ after[Len(draft) + j] = survivors[j]
       /\ \A i \in DOMAIN after : \/ i \in DOMAIN draft /\ after[i] = r[i]
                                  \/ \E j \in DOMAIN survivors : i = Len(draft) + j
                                       /\ after[i] = survivors[j]
  BY <1>1, <1>7, <1>9, <1>11
<1> HIDE DEF top
<1>13. /\ \A k \in inserted : r[k].id >= nextRow /\ r[k].id < top /\ k \in DOMAIN draft
       /\ \A k \in DOMAIN draft \ inserted : r[k].id = draft[k].id
            /\ r[k].id \in Ids(before) /\ r[k].id \in sent
       /\ \A i \in Ids(before) : i \in Nat /\ i < nextRow
       /\ \A i \in DOMAIN survivors : survivors[i].id \in Ids(before)
            /\ survivors[i].id \notin sent
  <2>1. \A k \in inserted : r[k].id >= nextRow /\ r[k].id < top /\ k \in DOMAIN draft
    <3> TAKE k \in inserted
    <3>1. k \in DOMAIN draft /\ r[k].id = nextRow + Rank(inserted, k) - 1 /\ Rank(inserted,
          k) \in 1..Cardinality(inserted)
      BY <1>5, <1>7, <1>0
    <3> QED BY <1>2, <1>5, <3>1 DEF top
  <2>2. \A k \in DOMAIN draft \ inserted : r[k].id = draft[k].id /\ r[k].id \in Ids(before)
        /\ r[k].id \in sent
    <3> TAKE k \in DOMAIN draft \ inserted
    <3>1. r[k].id = draft[k].id /\ draft[k].id \in Ids(before)
      BY <1>7, <1>0
    <3>2. draft[k].id \in Ids(draft)
      BY DEF Ids
    <3> QED BY <3>1, <3>2 DEF SaveMakes
  <2>3. \A i \in Ids(before) : i \in Nat /\ i < nextRow
    BY <1>3 DEF Ids
  <2>4. \A i \in DOMAIN survivors : survivors[i].id \in Ids(before)
        /\ survivors[i].id \notin sent
    BY <1>8 DEF ids
  <2> QED BY <2>1, <2>2, <2>3, <2>4
<1>14. \A k, l \in DOMAIN draft : r[k].id = r[l].id => k = l
  <2> SUFFICES ASSUME NEW k \in DOMAIN draft, NEW l \in DOMAIN draft, r[k].id = r[l].id
    PROVE k = l
    OBVIOUS
  <2>1. CASE k \in inserted /\ l \in inserted
    <3>1. nextRow + Rank(inserted, k) - 1 = nextRow + Rank(inserted, l) - 1
      BY <1>7, <2>1
    <3>2. Rank(inserted, k) \in Nat /\ Rank(inserted, l) \in Nat
      BY <1>5, <2>1
    <3>3. Rank(inserted, k) = Rank(inserted, l)
      BY <1>2, <3>1, <3>2
    <3> QED BY <1>5, <2>1, <3>3
  <2>2. CASE k \notin inserted /\ l \notin inserted
    BY <1>1, <1>13, <2>2 DEF Distinct
  <2>3. CASE ~(k \in inserted <=> l \in inserted)
    <3>1. \A i \in Ids(before) : ~(i >= nextRow)
      BY <1>2, <1>13
    <3> QED BY <1>13, <2>3, <3>1
  <2> QED BY <2>1, <2>2, <2>3
<1>15. \A k \in DOMAIN draft, l \in DOMAIN survivors : r[k].id # survivors[l].id
  <2>1. \A i \in Ids(before) : ~(i >= nextRow)
    BY <1>2, <1>13
  <2> QED BY <1>13, <2>1
<1>16. Distinct(after)
  <2> SUFFICES ASSUME NEW k \in DOMAIN after, NEW l \in DOMAIN after,
    after[k].id = after[l].id PROVE k = l
    BY DEF Distinct
  <2>1. CASE k \in DOMAIN draft /\ l \in DOMAIN draft /\ after[k] = r[k] /\ after[l] = r[l]
    BY <1>14, <2>1
  <2>2. ASSUME NEW i \in DOMAIN survivors, NEW j \in DOMAIN survivors,
               k = Len(draft) + i /\ after[k] = survivors[i], l = Len(draft) + j
                 /\ after[l] = survivors[j]
        PROVE  k = l
    <3>1. i = j
      BY <1>8, <2>2 DEF Distinct
    <3> QED BY <2>2, <3>1
  <2> QED BY <1>12, <1>15, <2>1, <2>2
<1>17. Below(after, top)
  <2>1. \A i \in Ids(before) : i < top
    BY <1>2, <1>5, <1>13 DEF top
  <2> QED BY <1>12, <1>13, <2>1 DEF Below
<1>18. Applied(after, proposal)
  <2>1. \A k \in DOMAIN survivors : survivors[k].fact # Authored
        => proposal[survivors[k].fact] = "approved"
    BY <1>8 DEF ListSound, Applied
  <2>2. \A k \in DOMAIN draft : r[k].fact # Authored => proposal[r[k].fact] = "approved"
    BY <1>4, <1>7
  <2> QED BY <1>12, <2>1, <2>2 DEF Applied
<1>19. \A k \in DOMAIN after : after[k].id \in Ids(before) \/ after[k].id >= nextRow
  BY <1>12, <1>13
<1>20. Ids(before) \ Ids(after) \subseteq Ids(known)
  <2> SUFFICES ASSUME NEW k \in DOMAIN before, before[k].id \notin Ids(after)
               PROVE  before[k].id \in Ids(known)
    BY DEF Ids
  <2>1. before[k].id \in Ids(before)
    BY DEF Ids
  <2>2. before[k].id \notin sent
    <3> SUFFICES ASSUME NEW i \in DOMAIN draft, draft[i].id = before[k].id PROVE FALSE
      BY DEF Ids, SaveMakes
    <3>1. i \notin inserted
      BY <1>0, <2>1
    <3>2. r[i].id = before[k].id /\ i \in DOMAIN after /\ after[i] = r[i]
      BY <1>12, <1>13, <3>1
    <3> QED BY <3>2 DEF Ids
  <2>3. before[k].id \notin ids
    BY <1>8, <1>12 DEF Ids
  <2> QED BY <2>1, <2>2, <2>3 DEF ids, Removes
<1>21. ASSUME top <= MaxRows + 1 PROVE after \in Seq(AspectRows)
  <2>1. \A i \in DOMAIN after : after[i] \in AspectRows
    <3>1. \A i \in DOMAIN survivors : survivors[i] \in AspectRows
      BY <1>8
    <3>2. \A i \in DOMAIN draft : r[i] \in AspectRows
      <4>1. \A i \in DOMAIN draft : r[i].id \in 1..MaxRows
        <5>1. \A i \in Ids(before) : i \in 1..MaxRows
          BY <1>3 DEF Ids
        <5>2. \A i \in inserted : r[i].id \in 1..MaxRows
          <6> TAKE i \in inserted
          <6>1. r[i].id \in Nat /\ r[i].id > 0 /\ r[i].id < top
            BY <1>7, <1>13
          <6>2. top \in Nat
            BY <1>2, <1>5 DEF top
          <6> QED BY <1>2, <1>21, <6>1, <6>2
        <5> QED BY <1>13, <5>1, <5>2
      <4>2. \A i \in DOMAIN draft : r[i].fact \in Facts /\ r[i] = [id |-> r[i].id,
            fact |-> r[i].fact]
        BY <1>4, <1>7
      <4>3. \A a \in 1..MaxRows, b \in Facts : [id |-> a, fact |-> b] \in AspectRows
        BY DEF AspectRows
      <4> QED BY <4>1, <4>2, <4>3
    <3> QED BY <1>12, <3>1, <3>2
  <2>2. after \in [1..Len(after) -> AspectRows]
    <3>1. after \in [1..Len(after) -> R]
      BY <1>11, LenProperties
    <3> QED BY <2>1, <3>1
  <2> QED BY <1>11, <2>2
<1> QED BY <1>5, <1>16, <1>17, <1>18, <1>19, <1>20, <1>21 DEF top

\* Rows stay what they are while row ids grow and no approval is taken back.
LEMMA ListStays ==
  ASSUME KnowledgeTypeOK, NEW list \in Seq(AspectRows), ListSound(list),
         nextRow' \in Nat, nextRow <= nextRow',
         \A p \in Proposals : proposal[p] = "approved" => proposal'[p] = "approved"
  PROVE  Distinct(list) /\ Below(list, nextRow') /\ Applied(list, proposal')
<1>1. \A k \in DOMAIN list : list[k].id \in Nat /\ list[k].fact \in Facts
  <2>1. \A k \in DOMAIN list : list[k] \in AspectRows
    OBVIOUS
  <2> QED BY <2>1 DEF AspectRows
<1>2. nextRow \in Nat
  BY KnowledgeAssumption DEF KnowledgeTypeOK
<1>3. Below(list, nextRow')
  BY <1>1, <1>2 DEF ListSound, Below
<1>4. Applied(list, proposal')
  BY <1>1 DEF ListSound, Applied, Facts
<1> QED BY <1>3, <1>4 DEF ListSound

\* A transaction that writes one Node: it keeps its rows or gets new ones, and its vector is
\* of its new text or gone.
NodeWritten(n) ==
  /\ \A m \in Nodes \ {n} : /\ name'[m] = name[m] /\ aspects'[m] = aspects[m]
                            /\ written'[m] = written[m] /\ vector'[m] = vector[m]
  /\ now <= now' /\ written'[n] <= now'
  /\ name'[n] # Nothing => written'[n] > now
  /\ name'[n] # Nothing /\ vector'[n] # Nothing => vector'[n] = Text(name'[n], aspects'[n])
  /\ nextRow <= nextRow'
  /\ \A p \in Proposals : proposal[p] = "approved" => proposal'[p] = "approved"
  /\ Distinct(aspects'[n]) /\ Below(aspects'[n], nextRow') /\ Applied(aspects'[n],
         proposal')
  /\ \A k \in DOMAIN aspects'[n] :
       aspects'[n][k].id \in Ids(aspects[n]) \/ aspects'[n][k].id >= nextRow
  /\ \A e \in Editors : open'[e] # Nothing =>
       \/ open[e] # Nothing /\ open'[e].known = open[e].known
       \/ open'[e].known = aspects'[n]
  /\ batch' = batch /\ lost' = {}

\* Such a transaction keeps everything that hangs on the other rows, and no listed text of the
\* Node is written over its new one.
LEMMA NodeWrittenKeeps ==
  ASSUME GraphSound, KnowledgeTypeOK', NEW n \in Nodes, NodeWritten(n)
  PROVE  GraphSound'
<1>1. KnowledgeTypeOK /\ AspectsSound /\ CopiesSound /\ BatchSound /\ VectorFresh
  BY DEF GraphSound
<1>2. nextRow \in Nat /\ nextRow' \in Nat /\ now \in Nat /\ now' \in Nat
      /\ nextRow <= nextRow' /\ now <= now'
  BY <1>1, KnowledgeAssumption DEF KnowledgeTypeOK, NodeWritten
<1>3. \A list \in Seq(AspectRows) : ListSound(list) =>
        Distinct(list) /\ Below(list, nextRow') /\ Applied(list, proposal')
  BY <1>1, <1>2, ListStays DEF NodeWritten
<1>4. ASSUME NEW m \in Nodes
      PROVE  Distinct(aspects'[m]) /\ Below(aspects'[m], nextRow') /\ Applied(aspects'[m],
            proposal')
  <2>1. CASE m = n
    BY <2>1 DEF NodeWritten
  <2>2. CASE m # n
    <3>1. aspects'[m] = aspects[m] /\ aspects[m] \in Seq(AspectRows)
          /\ ListSound(aspects[m])
      BY <1>1, <2>2 DEF NodeWritten, KnowledgeTypeOK, AspectsSound
    <3> QED BY <1>3, <3>1
  <2> QED BY <2>1, <2>2
<1>5. ASSUME NEW m \in Nodes \ {n}, NEW k \in DOMAIN aspects'[n],
      NEW l \in DOMAIN aspects'[m]
      PROVE  aspects'[n][k].id # aspects'[m][l].id
  <2>1. aspects'[m] = aspects[m] /\ l \in DOMAIN aspects[m]
    BY <1>5 DEF NodeWritten
  <2>2. aspects[m][l].id \in Nat /\ aspects[m][l].id < nextRow
    <3>1. aspects[m][l] \in AspectRows
      BY <1>1, <2>1 DEF KnowledgeTypeOK
    <3> QED BY <1>1, <2>1, <3>1 DEF AspectRows, AspectsSound, ListSound, Below
  <2>3. CASE aspects'[n][k].id \in Ids(aspects[n])
    BY <1>1, <2>1, <2>3 DEF Ids, AspectsSound
  <2>4. CASE aspects'[n][k].id >= nextRow
    BY <1>2, <2>1, <2>2, <2>4
  <2> QED BY <2>3, <2>4 DEF NodeWritten
<1>6. AspectsSound'
  <2>1. ASSUME NEW m \in Nodes, NEW o \in Nodes, m # o,
               NEW k \in DOMAIN aspects'[m], NEW l \in DOMAIN aspects'[o]
        PROVE  aspects'[m][k].id # aspects'[o][l].id
    <3>1. CASE m = n
      BY <1>5, <2>1, <3>1
    <3>2. CASE o = n
      BY <1>5, <2>1, <3>2
    <3>3. CASE m # n /\ o # n
      <4>1. aspects'[m] = aspects[m] /\ aspects'[o] = aspects[o]
        BY <3>3 DEF NodeWritten
      <4> QED BY <1>1, <2>1, <4>1 DEF AspectsSound
    <3> QED BY <3>1, <3>2, <3>3
  <2> QED BY <1>4, <2>1 DEF AspectsSound, ListSound
<1>7. CopiesSound'
  <2> SUFFICES ASSUME NEW e \in Editors, open'[e] # Nothing PROVE ListSound(open[e].known)'
    BY DEF CopiesSound
  <2>1. CASE open[e] # Nothing /\ open'[e].known = open[e].known
    <3>1. open[e].known \in Seq(AspectRows) /\ ListSound(open[e].known)
      BY <1>1, <2>1 DEF KnowledgeTypeOK, Copies, CopiesSound
    <3> QED BY <1>3, <2>1, <3>1 DEF ListSound
  <2>2. CASE open'[e].known = aspects'[n]
    BY <1>4, <2>2 DEF ListSound
  <2> QED BY <2>1, <2>2 DEF NodeWritten
<1>8. ASSUME NEW m \in Nodes, m # n
      PROVE  (m \in Exists)' = (m \in Exists) /\ TextOf(m)' = TextOf(m)
  BY <1>8 DEF NodeWritten, Exists, TextOf
<1>9. BatchSound'
  <2>1. \A m \in Nodes : written[m] \in Nat /\ written[m] <= now
    BY <1>1 DEF KnowledgeTypeOK, BatchSound
  <2>2. \A m \in Nodes : written'[m] <= now'
    <3> TAKE m \in Nodes
    <3>1. CASE m = n
      BY <3>1 DEF NodeWritten
    <3>2. CASE m # n
      <4>1. written'[m] = written[m]
        BY <3>2 DEF NodeWritten
      <4> QED BY <1>2, <2>1, <4>1
    <3> QED BY <3>1, <3>2
  <2>3. ASSUME NEW w \in Embedders, NEW m \in DOMAIN batch'[w]
        PROVE  /\ batch'[w][m].written \in Nat /\ batch'[w][m].written <= now'
               /\ (m \in Exists)' /\ written'[m] = batch'[w][m].written
                    => batch'[w][m].text = TextOf(m)'
    <3>1. batch' = batch /\ m \in Nodes
      BY <1>1, <2>3 DEF NodeWritten, KnowledgeTypeOK
    <3>2. /\ batch[w][m].written \in Nat /\ batch[w][m].written <= now
          /\ m \in Exists /\ written[m] = batch[w][m].written
               => batch[w][m].text = TextOf(m)
      BY <1>1, <2>3, <3>1 DEF BatchSound
    <3>3. CASE m = n
      <4>1. (m \in Exists)' => written'[m] \in Nat /\ written'[m] > now
        BY <3>1, <3>3 DEF NodeWritten, Exists, KnowledgeTypeOK
      <4> QED BY <1>2, <3>1, <3>2, <4>1
    <3>4. CASE m # n
      <4>1. written'[m] = written[m]
        BY <3>1, <3>4 DEF NodeWritten
      <4> QED BY <1>2, <1>8, <3>1, <3>2, <3>4, <4>1
    <3> QED BY <3>3, <3>4
  <2> QED BY <2>2, <2>3 DEF BatchSound
<1>10. VectorFresh'
  <2> SUFFICES ASSUME NEW m \in Nodes, (m \in Exists)', vector'[m] # Nothing
    PROVE vector'[m] = TextOf(m)'
    BY DEF VectorFresh, Exists
  <2>1. CASE m = n
    BY <2>1 DEF NodeWritten, Exists, TextOf
  <2>2. CASE m # n
    BY <1>1, <1>8, <2>2 DEF NodeWritten, VectorFresh
  <2> QED BY <2>1, <2>2
<1>11. NothingLost'
  BY DEF NodeWritten, NothingLost
<1> QED BY <1>6, <1>7, <1>9, <1>10, <1>11 DEF GraphSound

\* A new Node.
LEMMA CreateNodeKeeps ==
  ASSUME GraphSound, NEW n \in Nodes, NEW x \in Names, NEW list \in Seq(AspectRows),
         CreateNode(n, x, list),
         Len(list) <= MaxAspects, Distinct(list),
         \A k \in DOMAIN list : list[k].id >= nextRow /\ list[k].id < nextRow + Len(list),
         Applied(list, proposal'), UNCHANGED <<open, batch, embedPc, embedFails, lost>>,
         proposal' \in [Proposals -> {"pending", "claimed", "approved", "rejected"}],
         anchor' \in [Proposals -> Nodes \cup {Nothing}],
         \A p \in Proposals : proposal[p] = "approved" => proposal'[p] = "approved"
  PROVE  GraphSound'
<1>1. KnowledgeTypeOK /\ NothingLost
  BY DEF GraphSound
<1>2. /\ nextRow \in Nat /\ nextRow >= 1 /\ now \in Nat /\ Len(list) \in Nat
           /\ MaxRows \in Nat /\ MaxWrites \in Nat
      /\ now < MaxWrites /\ now' = now + 1 /\ nextRow' = nextRow + Len(list)
           /\ nextRow' <= MaxRows + 1
  BY <1>1, KnowledgeAssumption DEF KnowledgeTypeOK, CreateNode, Stamp
<1>3. /\ now' \in 0..MaxWrites /\ nextRow' \in 1..MaxRows + 1 /\ now <= now'
           /\ nextRow <= nextRow' /\ now' > now
  BY <1>2
<1>4. /\ name' = [name EXCEPT ![n] = x] /\ aspects' = [aspects EXCEPT ![n] = list]
      /\ written' = [written EXCEPT ![n] = now'] /\ vector' = [vector EXCEPT ![n] = Nothing]
  BY <1>2 DEF CreateNode, Stamp, Reset
<1>5. KnowledgeTypeOK'
  BY <1>1, <1>3, <1>4 DEF KnowledgeTypeOK
<1>6. /\ name'[n] = x /\ aspects'[n] = list /\ written'[n] = now' /\ vector'[n] = Nothing
      /\ \A m \in Nodes \ {n} : /\ name'[m] = name[m] /\ aspects'[m] = aspects[m]
                                /\ written'[m] = written[m] /\ vector'[m] = vector[m]
  BY <1>1, <1>4 DEF KnowledgeTypeOK
<1>7. Below(list, nextRow')
  BY <1>2 DEF Below
<1>8. NodeWritten(n)
  BY <1>1, <1>3, <1>6, <1>7 DEF NodeWritten, NothingLost
<1> QED BY <1>5, <1>8, NodeWrittenKeeps

\* The GM's own.
LEMMA CreateNodeWithAspectsKeeps ==
  ASSUME GraphSound, NEW n \in Nodes, NEW x \in Names, CreateNodeWithAspects(n, x)
  PROVE  GraphSound'
<1> DEFINE row == [id |-> nextRow, fact |-> Authored]
<1>1. KnowledgeTypeOK /\ UNCHANGED <<proposal, anchor, open, batch, embedPc, embedFails,
                                     lost>>
  BY DEF GraphSound, CreateNodeWithAspects
<1>2. /\ nextRow \in Nat /\ nextRow >= 1 /\ MaxAspects \in Nat /\ MaxAspects # 0
           /\ MaxRows \in Nat
      /\ proposal \in [Proposals -> {"pending", "claimed", "approved", "rejected"}]
      /\ anchor \in [Proposals -> Nodes \cup {Nothing}]
  BY <1>1, KnowledgeAssumption DEF KnowledgeTypeOK
<1> PICK list \in {<<>>, <<row>>} : CreateNode(n, x, list)
  BY DEF CreateNodeWithAspects
<1>3. CASE list = <<>>
  <2>1. Len(list) = 0 /\ DOMAIN list = {}
    BY <1>3
  <2>2. list \in Seq(AspectRows)
    BY <1>3
  <2>3. /\ Distinct(list) /\ Applied(list, proposal') /\ Len(list) <= MaxAspects
        /\ \A k \in DOMAIN list : list[k].id >= nextRow /\ list[k].id < nextRow + Len(list)
    BY <1>2, <2>1 DEF Distinct, Applied
  <2> HIDE DEF row
  <2> QED BY <1>1, <1>2, <2>2, <2>3, CreateNodeKeeps
<1>4. CASE list = <<row>>
  <2>1. nextRow + Len(list) <= MaxRows + 1
    BY DEF CreateNode
  <2>2. Len(list) = 1 /\ DOMAIN list = 1..1 /\ list[1] = row
    BY <1>4
  <2>3. row \in AspectRows
    BY <1>2, <2>1, <2>2 DEF AspectRows, Facts
  <2>4. list \in Seq(AspectRows)
    <3> HIDE DEF row
    <3> QED BY <1>4, <2>3
  <2>5. \A k \in DOMAIN list : k = 1 /\ list[k].id = nextRow /\ list[k].fact = Authored
    BY <2>2
  <2>6. /\ Distinct(list) /\ Applied(list, proposal') /\ Len(list) <= MaxAspects
        /\ \A k \in DOMAIN list : list[k].id >= nextRow /\ list[k].id < nextRow + Len(list)
    BY <1>2, <2>2, <2>5 DEF Distinct, Applied
  <2> HIDE DEF row
  <2> QED BY <1>1, <1>2, <2>4, <2>6, CreateNodeKeeps
<1> QED BY <1>3, <1>4

\* A proposed Node.
LEMMA ApplyNodeKeeps ==
  ASSUME GraphSound, NEW p \in Proposals, ApplyNode(p)
  PROVE  GraphSound'
<1>1. KnowledgeTypeOK /\ UNCHANGED <<open, batch, embedPc, embedFails, lost>>
  BY DEF GraphSound, ApplyNode
<1>2. /\ proposal' \in [Proposals -> {"pending", "claimed", "approved", "rejected"}]
      /\ anchor' \in [Proposals -> Nodes \cup {Nothing}]
      /\ \A q \in Proposals : proposal[q] = "approved" => proposal'[q] = "approved"
  BY <1>1 DEF KnowledgeTypeOK, ApplyNode, Close
<1> PICK n \in Nodes : CreateNode(n, Subject[p], <<>>)
  BY DEF ApplyNode
<1> DEFINE list == <<>>
<1>3. list \in Seq(AspectRows) /\ Len(list) = 0 /\ DOMAIN list = {}
  OBVIOUS
<1>4. CreateNode(n, Subject[p], list) /\ Subject[p] \in Names
  BY KnowledgeAssumption
<1> HIDE DEF list
<1>5. /\ Distinct(list) /\ Applied(list, proposal') /\ Len(list) <= MaxAspects
      /\ \A k \in DOMAIN list : list[k].id >= nextRow /\ list[k].id < nextRow + Len(list)
  BY <1>3, KnowledgeAssumption DEF Distinct, Applied
<1> QED BY <1>1, <1>2, <1>3, <1>4, <1>5, CreateNodeKeeps

\* A Node goes, with its Aspects.
LEMMA DeleteNodeKeeps == ASSUME GraphSound, NEW n \in Nodes, DeleteNode(n) PROVE GraphSound'
<1>1. KnowledgeTypeOK /\ NothingLost /\ UNCHANGED <<now, nextRow, proposal, anchor, open,
                                                    batch, embedPc, embedFails, lost>>
  BY DEF GraphSound, DeleteNode
<1>2. /\ name' = [name EXCEPT ![n] = Nothing] /\ aspects' = [aspects EXCEPT ![n] = <<>>]
      /\ written' = [written EXCEPT ![n] = 0] /\ vector' = [vector EXCEPT ![n] = Nothing]
  BY DEF DeleteNode, Reset
<1>3. /\ <<>> \in Seq(AspectRows) /\ Len(<<>>) = 0 /\ DOMAIN <<>> = {}
      /\ 0 <= MaxAspects /\ 0 \in 0..MaxWrites /\ now \in Nat /\ nextRow \in Nat /\ 0 <= now
  BY <1>1, KnowledgeAssumption DEF KnowledgeTypeOK
<1>4. KnowledgeTypeOK'
  BY <1>1, <1>2, <1>3 DEF KnowledgeTypeOK
<1>5. /\ name'[n] = Nothing /\ aspects'[n] = <<>> /\ written'[n] = 0
      /\ \A m \in Nodes \ {n} : /\ name'[m] = name[m] /\ aspects'[m] = aspects[m]
                                /\ written'[m] = written[m] /\ vector'[m] = vector[m]
  BY <1>1, <1>2 DEF KnowledgeTypeOK
<1>6. Distinct(aspects'[n]) /\ Below(aspects'[n], nextRow') /\ Applied(aspects'[n],
      proposal')
  BY <1>3, <1>5 DEF Distinct, Below, Applied
<1>7. NodeWritten(n)
  BY <1>1, <1>3, <1>5, <1>6 DEF NodeWritten, NothingLost
<1> QED BY <1>4, <1>7, NodeWrittenKeeps

\* A write that leaves the Aspects alone: of the name, or of no part of the text.
LEMMA SameAspectsKeep ==
  ASSUME GraphSound, NEW n \in Nodes, NEW x \in Names, n \in Exists, Stamp(n),
         name' = [name EXCEPT ![n] = x],
         (x = name[n] /\ UNCHANGED vector) \/ Reset(n),
         UNCHANGED <<aspects, nextRow, proposal, anchor, open, batch, embedPc, embedFails,
                     lost>>
  PROVE  GraphSound'
<1>1. KnowledgeTypeOK /\ NothingLost /\ VectorFresh /\ ListSound(aspects[n])
  BY DEF GraphSound, AspectsSound
<1>2. /\ now \in Nat /\ nextRow \in Nat /\ MaxWrites \in Nat /\ now < MaxWrites
           /\ now' = now + 1
      /\ written' = [written EXCEPT ![n] = now']
  BY <1>1, KnowledgeAssumption DEF KnowledgeTypeOK, Stamp
<1>3. now' \in 0..MaxWrites /\ now <= now' /\ now' > now /\ now' <= now'
      /\ nextRow <= nextRow
  BY <1>2
<1>4. DOMAIN vector' = Nodes /\ \A m \in Nodes \ {n} : vector'[m] = vector[m]
  BY <1>1 DEF KnowledgeTypeOK, Reset
<1>5. KnowledgeTypeOK'
  BY <1>1, <1>2, <1>3, <1>4 DEF KnowledgeTypeOK
<1>6. /\ name'[n] = x /\ written'[n] = now'
      /\ \A m \in Nodes \ {n} : /\ name'[m] = name[m] /\ aspects'[m] = aspects[m]
                                /\ written'[m] = written[m] /\ vector'[m] = vector[m]
  BY <1>1, <1>2, <1>4 DEF KnowledgeTypeOK
<1>7. vector'[n] # Nothing => vector'[n] = Text(name'[n], aspects'[n])
  <2>1. CASE x = name[n] /\ UNCHANGED vector
    BY <1>1, <1>6, <2>1 DEF VectorFresh, TextOf
  <2>2. CASE Reset(n)
    BY <1>1, <2>2 DEF Reset, KnowledgeTypeOK
  <2> QED BY <2>1, <2>2
<1>8. \A k \in DOMAIN aspects[n] : aspects[n][k].id \in Ids(aspects[n])
  BY DEF Ids
<1>9. NodeWritten(n)
  BY <1>1, <1>3, <1>6, <1>7, <1>8 DEF NodeWritten, NothingLost, ListSound
<1> QED BY <1>5, <1>9, NodeWrittenKeeps

\* Its Agent's new name.
LEMMA RenameAgentNodeKeeps ==
  ASSUME GraphSound, NEW n \in Nodes, NEW x \in Names, RenameAgentNode(n, x)
  PROVE  GraphSound'
BY SameAspectsKeep DEF RenameAgentNode

\* Its Agent or its portrait.
LEMMA TouchNodeKeeps == ASSUME GraphSound, NEW n \in Nodes, TouchNode(n) PROVE GraphSound'
<1>1. /\ n \in Exists /\ Stamp(n)
      /\ UNCHANGED <<name, aspects, vector, nextRow, proposal, anchor, open, batch,
                     embedPc, embedFails, lost>>
  BY DEF TouchNode
<1>2. name[n] \in Names /\ name' = [name EXCEPT ![n] = name[n]]
  BY <1>1 DEF Exists, GraphSound, KnowledgeTypeOK
<1> QED BY <1>1, <1>2, SameAspectsKeep

\* An approved fact is one more row.
LEMMA ApplyFactKeeps == ASSUME GraphSound, NEW p \in Proposals, ApplyFact(p)
  PROVE GraphSound'
<1> DEFINE n == anchor[p]
           list == aspects[n]
           row == [id |-> nextRow, fact |-> p]
           more == Append(list, row)
<1>1. /\ KnowledgeTypeOK /\ NothingLost /\ AspectsSound
      /\ UNCHANGED <<name, open, batch, embedPc, embedFails, lost>>
  BY DEF GraphSound, ApplyFact
<1>2. n \in Nodes /\ name[n] # Nothing /\ list \in Seq(AspectRows)
      /\ Len(list) < MaxAspects /\ ListSound(list)
  BY <1>1 DEF ApplyFact, HasRoom, Exists, KnowledgeTypeOK, AspectsSound
<1>3. /\ now \in Nat /\ nextRow \in Nat /\ nextRow >= 1 /\ MaxWrites \in Nat
           /\ MaxRows \in Nat /\ MaxAspects \in Nat
      /\ now < MaxWrites /\ now' = now + 1 /\ nextRow <= MaxRows /\ nextRow' = nextRow + 1
  BY <1>1, KnowledgeAssumption DEF KnowledgeTypeOK, ApplyFact, Stamp
<1>4. /\ aspects' = [aspects EXCEPT ![n] = more] /\ written' = [written EXCEPT ![n] = now']
      /\ vector' = [vector EXCEPT ![n] = Nothing]
      /\ proposal' = [proposal EXCEPT ![p] = "approved"]
           /\ anchor' = [anchor EXCEPT ![p] = Nothing]
  BY <1>3 DEF ApplyFact, Stamp, Reset, Close
<1>5. /\ now' \in 0..MaxWrites /\ nextRow' \in 1..MaxRows + 1 /\ now <= now'
           /\ now' <= now' /\ nextRow <= nextRow' /\ now' > now
  BY <1>3
<1>6. row \in AspectRows /\ row.id = nextRow /\ row.fact = p
  BY <1>3 DEF AspectRows, Facts
<1> HIDE DEF row
<1>7. /\ more \in Seq(AspectRows) /\ Len(more) = Len(list) + 1 /\ Len(list) \in Nat
      /\ DOMAIN list = 1..Len(list) /\ DOMAIN more = 1..(Len(list) + 1)
      /\ \A k \in 1..Len(list) : more[k] = list[k]
      /\ more[Len(list) + 1] = row
  BY <1>2, <1>6, AppendProperties, LenProperties
<1>8. /\ proposal' \in [Proposals -> {"pending", "claimed", "approved", "rejected"}]
      /\ anchor' \in [Proposals -> Nodes \cup {Nothing}] /\ proposal'[p] = "approved"
      /\ \A q \in Proposals : proposal[q] = "approved" => proposal'[q] = "approved"
  BY <1>1, <1>4 DEF KnowledgeTypeOK
<1> HIDE DEF more
<1>9. Len(more) <= MaxAspects
  BY <1>2, <1>3, <1>7
<1>10. KnowledgeTypeOK'
  <2>1. /\ aspects' \in [Nodes -> Seq(AspectRows)]
             /\ \A m \in Nodes : Len(aspects'[m]) <= MaxAspects
    BY <1>1, <1>2, <1>4, <1>7, <1>9 DEF KnowledgeTypeOK
  <2> HIDE DEF n, list
  <2>2. written' \in [Nodes -> 0..MaxWrites] /\ DOMAIN vector' = Nodes
    BY <1>1, <1>4, <1>5 DEF KnowledgeTypeOK
  <2> QED BY <1>1, <1>5, <1>8, <2>1, <2>2 DEF KnowledgeTypeOK
<1>11. /\ aspects'[n] = more /\ written'[n] = now' /\ vector'[n] = Nothing
       /\ \A m \in Nodes \ {n} : /\ name'[m] = name[m] /\ aspects'[m] = aspects[m]
                                 /\ written'[m] = written[m] /\ vector'[m] = vector[m]
  BY <1>1, <1>2, <1>4 DEF KnowledgeTypeOK
<1> HIDE DEF list
<1>12. \A k \in 1..Len(list) : list[k].id \in Nat /\ list[k].id < nextRow
       /\ list[k].id \in Ids(list) /\ list[k].fact \in Facts
  <2> TAKE k \in 1..Len(list)
  <2>1. list[k] \in AspectRows /\ k \in DOMAIN list
    BY <1>2, <1>7
  <2>2. list[k].id \in Nat /\ list[k].fact \in Facts
    BY <2>1 DEF AspectRows
  <2>3. list[k].id < nextRow /\ list[k].id \in Ids(list)
    BY <1>2, <2>1 DEF Ids, ListSound, Below
  <2> QED BY <2>2, <2>3
<1>13. \A k \in DOMAIN more : (k \in 1..Len(list) /\ more[k] = list[k])
       \/ (k = Len(list) + 1 /\ more[k] = row)
  <2> TAKE k \in DOMAIN more
  <2>1. k \in 1..Len(list) \/ k = Len(list) + 1
    BY <1>7
  <2>2. CASE k \in 1..Len(list)
    BY <1>7, <2>2
  <2>3. CASE k = Len(list) + 1
    BY <1>7, <2>3
  <2> QED BY <2>1, <2>2, <2>3
<1>14. Distinct(more)
  <2>1. \A k, l \in 1..Len(list) : list[k].id = list[l].id => k = l
    BY <1>2, <1>7 DEF ListSound, Distinct
  <2>2. \A k \in 1..Len(list) : list[k].id # nextRow
    BY <1>3, <1>12
  <2> QED BY <1>6, <1>13, <2>1, <2>2 DEF Distinct
<1>15. Below(more, nextRow')
  <2>1. \A k \in 1..Len(list) : list[k].id < nextRow'
    BY <1>3, <1>12
  <2>2. nextRow < nextRow'
    BY <1>3
  <2> QED BY <1>6, <1>13, <2>1, <2>2 DEF Below
<1>16. Applied(more, proposal')
  <2>1. \A k \in 1..Len(list) : list[k].fact # Authored
        => proposal'[list[k].fact] = "approved"
    BY <1>2, <1>7, <1>8, <1>12 DEF ListSound, Applied, Facts
  <2> QED BY <1>6, <1>8, <1>13, <2>1 DEF Applied
<1>17. \A k \in DOMAIN more : more[k].id \in Ids(list) \/ more[k].id >= nextRow
  BY <1>3, <1>6, <1>12, <1>13
<1> HIDE DEF n
<1>18. NodeWritten(n)
  <2>1. NothingLost' /\ \A e \in Editors : open'[e] # Nothing => open[e] # Nothing
        /\ open'[e].known = open[e].known
    BY <1>1 DEF NothingLost
  <2> QED BY <1>1, <1>5, <1>8, <1>11, <1>14, <1>15, <1>16, <1>17, <2>1 DEF NodeWritten,
                 NothingLost, list
<1> QED BY <1>2, <1>10, <1>18, NodeWrittenKeeps

\* Only proposals move: no row, copy or listed text is touched.
LEMMA ProposalsMoveKeep ==
  ASSUME GraphSound, UNCHANGED <<nodeVars, open, batch, embedPc, embedFails, lost>>,
         proposal' \in [Proposals -> {"pending", "claimed", "approved", "rejected"}],
         anchor' \in [Proposals -> Nodes \cup {Nothing}],
         \A q \in Proposals : proposal[q] = "approved" => proposal'[q] = "approved"
  PROVE  GraphSound'
<1>1. KnowledgeTypeOK /\ AspectsSound /\ CopiesSound /\ BatchSound /\ VectorFresh
      /\ NothingLost
  BY DEF GraphSound
<1>2. UNCHANGED <<name, aspects, written, now, vector, nextRow, open, batch, embedPc,
                  embedFails, lost>>
  BY DEF nodeVars
<1>3. nextRow' \in Nat /\ nextRow <= nextRow'
  BY <1>1, <1>2, KnowledgeAssumption DEF KnowledgeTypeOK
<1>4. KnowledgeTypeOK'
  BY <1>1, <1>2 DEF KnowledgeTypeOK
<1>5. ASSUME NEW list \in Seq(AspectRows), ListSound(list)
      PROVE  Distinct(list) /\ Below(list, nextRow') /\ Applied(list, proposal')
  BY <1>1, <1>3, <1>5, ListStays
<1>6. AspectsSound'
  <2>1. \A n \in Nodes : aspects[n] \in Seq(AspectRows) /\ ListSound(aspects[n])
    BY <1>1 DEF AspectsSound, KnowledgeTypeOK
  <2>2. \A n \in Nodes : Distinct(aspects'[n]) /\ Below(aspects'[n], nextRow')
        /\ Applied(aspects'[n], proposal')
    BY <1>2, <1>5, <2>1
  <2>3. \A n, m \in Nodes : \A k \in DOMAIN aspects'[n], l \in DOMAIN aspects'[m] :
          aspects'[n][k].id = aspects'[m][l].id => n = m
    BY <1>1, <1>2 DEF AspectsSound
  <2> QED BY <2>2, <2>3 DEF AspectsSound, ListSound
<1>7. CopiesSound'
  <2>1. \A e \in Editors : open[e] # Nothing => open[e].known \in Seq(AspectRows)
        /\ ListSound(open[e].known)
    BY <1>1 DEF KnowledgeTypeOK, Copies, CopiesSound
  <2>2. \A e \in Editors : open'[e] # Nothing =>
          Distinct(open'[e].known) /\ Below(open'[e].known, nextRow')
            /\ Applied(open'[e].known, proposal')
    BY <1>2, <1>5, <2>1
  <2> QED BY <2>2 DEF CopiesSound, ListSound
<1>8. BatchSound' /\ VectorFresh' /\ NothingLost'
  BY <1>1, <1>2 DEF BatchSound, VectorFresh, NothingLost, Exists, TextOf
<1> QED BY <1>4, <1>6, <1>7, <1>8 DEF GraphSound

\* The claim of an approval.
LEMMA ClaimProposalKeeps ==
  ASSUME GraphSound, NEW p \in Proposals, ClaimProposal(p)
  PROVE  GraphSound'
<1>1. KnowledgeTypeOK
  BY DEF GraphSound
<1>2. proposal[p] # "approved" /\ proposal' = [proposal EXCEPT ![p] = "claimed"]
  BY DEF ClaimProposal
<1>3. anchor' \in [Proposals -> Nodes \cup {Nothing}]
  BY <1>1 DEF ClaimProposal, KnowledgeTypeOK
<1>4. /\ proposal' \in [Proposals -> {"pending", "claimed", "approved", "rejected"}]
      /\ \A q \in Proposals : proposal[q] = "approved" => proposal'[q] = "approved"
  BY <1>1, <1>2 DEF KnowledgeTypeOK
<1>5. UNCHANGED <<nodeVars, open, batch, embedPc, embedFails, lost>>
  BY DEF ClaimProposal
<1> QED BY <1>3, <1>4, <1>5, ProposalsMoveKeep

\* Its end without a row, and a rejection.
LEMMA CloseKeeps ==
  ASSUME GraphSound, NEW p \in Proposals, Rollback(p) \/ RejectKnowledgeProposal(p)
  PROVE  GraphSound'
<1>1. KnowledgeTypeOK
  BY DEF GraphSound
<1>2. proposal[p] # "approved" /\ \E s \in {"pending", "rejected"} : Close(p, s)
  BY DEF Rollback, RejectKnowledgeProposal
<1>3. /\ proposal' \in [Proposals -> {"pending", "claimed", "approved", "rejected"}]
      /\ \A q \in Proposals : proposal[q] = "approved" => proposal'[q] = "approved"
      /\ anchor' \in [Proposals -> Nodes \cup {Nothing}]
  BY <1>1, <1>2 DEF KnowledgeTypeOK, Close
<1>4. UNCHANGED <<nodeVars, open, batch, embedPc, embedFails, lost>>
  BY DEF Rollback, RejectKnowledgeProposal
<1> QED BY <1>3, <1>4, ProposalsMoveKeep

\* An editor's copy is a Node's rows of that moment.
LEMMA LoadKeeps ==
  ASSUME GraphSound, NEW e \in Editors, NEW n \in Nodes, Load(e, n)
  PROVE  GraphSound'
<1>1. KnowledgeTypeOK /\ AspectsSound /\ CopiesSound /\ BatchSound /\ VectorFresh
      /\ NothingLost
  BY DEF GraphSound
<1>2. /\ UNCHANGED <<name, aspects, written, now, vector, nextRow, proposal, anchor, batch,
                     embedPc, embedFails, lost>>
      /\ open' = [open EXCEPT ![e] = [node |-> n, known |-> aspects[n]]]
  BY DEF Load, nodeVars
<1>3. aspects[n] \in Seq(AspectRows) /\ ListSound(aspects[n])
  BY <1>1 DEF KnowledgeTypeOK, AspectsSound
<1>4. open' \in [Editors -> Copies \cup {Nothing}]
  <2>1. [node |-> n, known |-> aspects[n]] \in Copies
    BY <1>3 DEF Copies
  <2> QED BY <1>1, <1>2, <2>1 DEF KnowledgeTypeOK
<1>5. KnowledgeTypeOK'
  BY <1>1, <1>2, <1>4 DEF KnowledgeTypeOK
<1>6. CopiesSound'
  <2>1. ASSUME NEW d \in Editors, open'[d] # Nothing PROVE ListSound(open'[d].known)
    <3>1. CASE d = e
      <4>1. open'[d].known = aspects[n]
        BY <1>1, <1>2, <3>1 DEF KnowledgeTypeOK
      <4> QED BY <1>3, <4>1
    <3>2. CASE d # e
      <4>1. open'[d] = open[d]
        BY <1>1, <1>2, <3>2 DEF KnowledgeTypeOK
      <4> QED BY <1>1, <2>1, <4>1 DEF CopiesSound
    <3> QED BY <3>1, <3>2
  <2> QED BY <1>2, <2>1 DEF CopiesSound, ListSound
<1>7. AspectsSound' /\ BatchSound' /\ VectorFresh' /\ NothingLost'
  BY <1>1, <1>2 DEF AspectsSound, ListSound, BatchSound, VectorFresh, NothingLost, Exists,
         TextOf
<1> QED BY <1>5, <1>6, <1>7 DEF GraphSound

\* A save replaces the rows its editor knew.
LEMMA SaveKeeps ==
  ASSUME GraphSound, NEW e \in Editors, NEW x \in Names, Save(e, x)
  PROVE  GraphSound'
<1> DEFINE n == open[e].node
           known == open[e].known
           before == aspects[n]
<1>1. KnowledgeTypeOK /\ NothingLost /\ AspectsSound /\ CopiesSound /\ VectorFresh
  BY DEF GraphSound
<1>2. open[e] # Nothing /\ n \in Exists /\ UNCHANGED <<proposal, anchor, batch, embedPc,
                                                       embedFails>>
  BY DEF Save
<1>3. open[e] \in Copies /\ n \in Nodes /\ known \in Seq(AspectRows) /\ ListSound(known)
  BY <1>1, <1>2 DEF KnowledgeTypeOK, Copies, CopiesSound
<1>4. before \in Seq(AspectRows) /\ ListSound(before)
  BY <1>1, <1>3 DEF KnowledgeTypeOK, AspectsSound
<1>5. PICK draft \in Drafts(known) :
        LET sent == Ids(draft) \cap Ids(before)
            removed == Removes(known, before, sent)
            survivors == Kept(before, Ids(before) \ (sent \cup removed))
            after == Numbered(draft, Ids(before)) \o survivors
            inserted == {k \in DOMAIN draft : draft[k].id \notin Ids(before)}
        IN /\ Len(after) <= MaxAspects /\ nextRow + Cardinality(inserted) <= MaxRows + 1
           /\ Stamp(n) /\ nextRow' = nextRow + Cardinality(inserted)
           /\ name' = [name EXCEPT ![n] = x] /\ aspects' = [aspects EXCEPT ![n] = after]
           /\ IF Text(x, after) = TextOf(n) THEN UNCHANGED vector ELSE Reset(n)
           /\ lost' = lost \cup ((Ids(before) \ Ids(after)) \ Ids(known))
           /\ open' \in {open, [open EXCEPT ![e].known = after]}
  BY DEF Save
<1> DEFINE sent == Ids(draft) \cap Ids(before)
           survivors == Kept(before, Ids(before) \ (sent \cup Removes(known, before, sent)))
           after == Numbered(draft, Ids(before)) \o survivors
           inserted == {k \in DOMAIN draft : draft[k].id \notin Ids(before)}
<1>6. SaveMakes(known, before, draft, sent, survivors, after, inserted)
  BY DEF SaveMakes
<1>7. /\ Len(after) <= MaxAspects /\ nextRow + Cardinality(inserted) <= MaxRows + 1
      /\ Stamp(n) /\ nextRow' = nextRow + Cardinality(inserted)
      /\ name' = [name EXCEPT ![n] = x] /\ aspects' = [aspects EXCEPT ![n] = after]
      /\ IF Text(x, after) = TextOf(n) THEN UNCHANGED vector ELSE Reset(n)
      /\ lost' = lost \cup ((Ids(before) \ Ids(after)) \ Ids(known))
      /\ open' \in {open, [open EXCEPT ![e].known = after]}
  BY <1>5
<1> HIDE DEF sent, survivors, after, inserted, n, known, before
<1>8. /\ Cardinality(inserted) \in Nat
      /\ after \in Seq(AspectRows)
      /\ Distinct(after) /\ Applied(after, proposal) /\ Below(after,
             nextRow + Cardinality(inserted))
      /\ \A k \in DOMAIN after : after[k].id \in Ids(before) \/ after[k].id >= nextRow
      /\ Ids(before) \ Ids(after) \subseteq Ids(known)
  BY <1>1, <1>3, <1>4, <1>6, <1>7, SavedRows
<1>9. /\ now \in Nat /\ nextRow \in Nat /\ nextRow >= 1 /\ MaxWrites \in Nat
           /\ MaxRows \in Nat
      /\ now < MaxWrites /\ now' = now + 1 /\ nextRow' = nextRow + Cardinality(inserted)
           /\ nextRow' <= MaxRows + 1
      /\ written' = [written EXCEPT ![n] = now']
  BY <1>1, <1>7, KnowledgeAssumption DEF KnowledgeTypeOK, Stamp
<1>10. /\ now' \in 0..MaxWrites /\ nextRow' \in 1..MaxRows + 1 /\ now <= now'
            /\ now' <= now' /\ now' > now
       /\ nextRow <= nextRow'
  BY <1>8, <1>9
<1>11. DOMAIN vector' = Nodes /\ \A m \in Nodes \ {n} : vector'[m] = vector[m]
  BY <1>1, <1>7 DEF KnowledgeTypeOK, Reset
<1>12. open' \in [Editors -> Copies \cup {Nothing}]
  <2>1. \A c \in Copies, l \in Seq(AspectRows) : [c EXCEPT !.known = l] \in Copies
    BY DEF Copies
  <2>2. open \in [Editors -> Copies \cup {Nothing}]
    BY <1>1 DEF KnowledgeTypeOK
  <2> QED BY <1>3, <1>7, <1>8, <2>1, <2>2
<1>13. KnowledgeTypeOK'
  <2>1. aspects' \in [Nodes -> Seq(AspectRows)]
        /\ \A m \in Nodes : Len(aspects'[m]) <= MaxAspects
    BY <1>1, <1>3, <1>7, <1>8 DEF KnowledgeTypeOK
  <2>2. name' \in [Nodes -> Names \cup {Nothing}] /\ written' \in [Nodes -> 0..MaxWrites]
    BY <1>1, <1>3, <1>7, <1>9, <1>10 DEF KnowledgeTypeOK
  <2> QED BY <1>1, <1>2, <1>10, <1>11, <1>12, <2>1, <2>2 DEF KnowledgeTypeOK
<1>14. /\ name'[n] = x /\ aspects'[n] = after /\ written'[n] = now'
       /\ \A m \in Nodes \ {n} : /\ name'[m] = name[m] /\ aspects'[m] = aspects[m]
                                 /\ written'[m] = written[m] /\ vector'[m] = vector[m]
  BY <1>1, <1>3, <1>7, <1>9, <1>11 DEF KnowledgeTypeOK
<1>15. vector'[n] # Nothing => vector'[n] = Text(name'[n], aspects'[n])
  <2>1. CASE Text(x, after) = TextOf(n)
    BY <1>1, <1>2, <1>7, <1>14, <2>1 DEF VectorFresh, n
  <2>2. CASE Text(x, after) # TextOf(n)
    BY <1>1, <1>3, <1>7, <2>2 DEF Reset, KnowledgeTypeOK
  <2> QED BY <2>1, <2>2
<1>16. ASSUME NEW d \in Editors, open'[d] # Nothing
       PROVE  (open[d] # Nothing /\ open'[d].known = open[d].known)
              \/ open'[d].known = after
  <2>1. CASE open' = open
    BY <1>16, <2>1
  <2>2. CASE open' = [open EXCEPT ![e].known = after]
    <3>1. CASE d = e
      <4>1. open'[e] = [open[e] EXCEPT !.known = after]
        BY <1>1, <2>2 DEF KnowledgeTypeOK
      <4>2. open'[e].known = after
        BY <1>3, <4>1 DEF Copies
      <4> QED BY <3>1, <4>2
    <3>2. CASE d # e
      BY <1>1, <1>16, <2>2, <3>2 DEF KnowledgeTypeOK
    <3> QED BY <3>1, <3>2
  <2> QED BY <1>7, <2>1, <2>2
<1>17. batch' = batch /\ lost' = {}
  BY <1>1, <1>2, <1>7, <1>8 DEF NothingLost
<1>18. NodeWritten(n)
  <2>1. /\ Distinct(aspects'[n]) /\ Below(aspects'[n], nextRow') /\ Applied(aspects'[n],
               proposal')
        /\ \A k \in DOMAIN aspects'[n] : aspects'[n][k].id \in Ids(aspects[n])
             \/ aspects'[n][k].id >= nextRow
    BY <1>2, <1>8, <1>9, <1>14 DEF before
  <2>2. \A p \in Proposals : proposal[p] = "approved" => proposal'[p] = "approved"
    BY <1>2
  <2>3. \A d \in Editors : open'[d] # Nothing =>
          \/ open[d] # Nothing /\ open'[d].known = open[d].known
          \/ open'[d].known = aspects'[n]
    BY <1>14, <1>16
  <2> QED BY <1>10, <1>14, <1>15, <1>17, <2>1, <2>2, <2>3 DEF NodeWritten
<1> QED BY <1>3, <1>13, <1>18, NodeWrittenKeeps

\* What an embedder lists are the texts of that moment.
LEMMA ListUnembeddedNodesKeeps ==
  ASSUME GraphSound, NEW w \in Embedders, ListUnembeddedNodes(w)
  PROVE  GraphSound'
<1> DEFINE listed == [n \in Unembedded |-> [text |-> TextOf(n), written |-> written[n]]]
<1>1. KnowledgeTypeOK /\ AspectsSound /\ CopiesSound /\ BatchSound /\ VectorFresh
      /\ NothingLost
  BY DEF GraphSound
<1>2. /\ UNCHANGED <<name, aspects, written, now, vector, nextRow, proposal, anchor, open,
                     embedFails, lost>>
      /\ batch' = [batch EXCEPT ![w] = listed]
           /\ embedPc' = [embedPc EXCEPT ![w] = "writing"]
  BY DEF ListUnembeddedNodes, EmbedGoes, nodeVars
<1>3. \A n \in Unembedded : n \in Nodes
  BY DEF Unembedded, Exists
<1>4. \A n \in Nodes : written[n] \in Nat /\ written[n] <= now
  BY <1>1 DEF KnowledgeTypeOK, BatchSound
<1>5. /\ DOMAIN listed = Unembedded
      /\ \A n \in Unembedded : listed[n].text = TextOf(n) /\ listed[n].written = written[n]
  OBVIOUS
<1> HIDE DEF listed
<1>6. KnowledgeTypeOK'
  <2>1. DOMAIN batch' = Embedders /\ \A v \in Embedders : DOMAIN batch'[v] \subseteq Nodes
    BY <1>1, <1>2, <1>3, <1>5 DEF KnowledgeTypeOK
  <2>2. embedPc' \in [Embedders -> {"sleeping", "writing"}]
    BY <1>1, <1>2 DEF KnowledgeTypeOK
  <2> QED BY <1>1, <1>2, <2>1, <2>2 DEF KnowledgeTypeOK
<1>7. BatchSound'
  <2>1. ASSUME NEW v \in Embedders, NEW n \in DOMAIN batch'[v]
        PROVE  /\ batch'[v][n].written \in Nat /\ batch'[v][n].written <= now
               /\ n \in Exists /\ written[n] = batch'[v][n].written
                    => batch'[v][n].text = TextOf(n)
    <3>1. CASE v = w
      <4>1. batch'[v] = listed
        BY <1>1, <1>2, <3>1 DEF KnowledgeTypeOK
      <4> QED BY <1>3, <1>4, <1>5, <2>1, <4>1
    <3>2. CASE v # w
      <4>1. batch'[v] = batch[v]
        BY <1>1, <1>2, <3>2 DEF KnowledgeTypeOK
      <4> QED BY <1>1, <2>1, <4>1 DEF BatchSound
    <3> QED BY <3>1, <3>2
  <2> QED BY <1>2, <1>4, <2>1 DEF BatchSound, Exists, TextOf
<1>8. AspectsSound' /\ CopiesSound' /\ VectorFresh' /\ NothingLost'
  BY <1>1, <1>2 DEF AspectsSound, CopiesSound, ListSound, VectorFresh, NothingLost, Exists,
         TextOf
<1> QED BY <1>6, <1>7, <1>8 DEF GraphSound

\* A text is written to the row it was listed from, if that is still the row of then.
LEMMA SetNodeEmbeddingKeeps ==
  ASSUME GraphSound, NEW w \in Embedders, SetNodeEmbedding(w)
  PROVE  GraphSound'
<1>1. KnowledgeTypeOK /\ AspectsSound /\ CopiesSound /\ BatchSound /\ VectorFresh
      /\ NothingLost
  BY DEF GraphSound
<1>2. PICK n \in DOMAIN batch[w] :
        /\ IF Matches(w, n) THEN vector' = [vector EXCEPT ![n] = batch[w][n].text]
             ELSE UNCHANGED vector
        /\ batch' = [batch EXCEPT ![w] = [m \in DOMAIN @ \ {n} |-> @[m]]]
        /\ EmbedGoes(w, IF DOMAIN batch[w] = {n} THEN "sleeping" ELSE "writing")
  BY DEF SetNodeEmbedding
<1>3. UNCHANGED <<name, aspects, written, now, nextRow, proposal, anchor, open, embedFails,
                  lost>>
  BY DEF SetNodeEmbedding
<1> DEFINE rest == [m \in DOMAIN batch[w] \ {n} |-> batch[w][m]]
<1>4. /\ batch' = [batch EXCEPT ![w] = rest] /\ DOMAIN rest = DOMAIN batch[w] \ {n}
      /\ \A m \in DOMAIN rest : rest[m] = batch[w][m] /\ m \in DOMAIN batch[w]
  BY <1>2
<1> HIDE DEF rest
<1>5. KnowledgeTypeOK'
  <2>1. DOMAIN batch' = Embedders /\ \A v \in Embedders : DOMAIN batch'[v] \subseteq Nodes
    BY <1>1, <1>4 DEF KnowledgeTypeOK
  <2>2. embedPc' \in [Embedders -> {"sleeping", "writing"}]
    BY <1>1, <1>2 DEF KnowledgeTypeOK, EmbedGoes
  <2>3. DOMAIN vector' = Nodes
    BY <1>1, <1>2 DEF KnowledgeTypeOK
  <2> QED BY <1>1, <1>3, <2>1, <2>2, <2>3 DEF KnowledgeTypeOK
<1>6. BatchSound'
  <2>1. ASSUME NEW v \in Embedders, NEW m \in DOMAIN batch'[v]
        PROVE  batch'[v][m] = batch[v][m] /\ m \in DOMAIN batch[v]
    BY <1>1, <1>4, <2>1 DEF KnowledgeTypeOK
  <2> QED BY <1>1, <1>3, <2>1 DEF BatchSound, Exists, TextOf
<1>7. VectorFresh'
  <2>1. CASE Matches(w, n)
    <3>1. vector' = [vector EXCEPT ![n] = batch[w][n].text] /\ n \in Nodes
      BY <1>1, <1>2, <2>1 DEF KnowledgeTypeOK
    <3>2. batch[w][n].text = TextOf(n)
      BY <1>1, <1>2, <2>1 DEF BatchSound, Matches
    <3>3. \A m \in Exists : m \in Nodes /\ (vector'[m] # Nothing => vector'[m] = TextOf(m))
      BY <1>1, <3>1, <3>2 DEF VectorFresh, Exists, KnowledgeTypeOK
    <3> QED BY <1>3, <3>3 DEF VectorFresh, Exists, TextOf
  <2>2. CASE ~Matches(w, n)
    BY <1>1, <1>2, <1>3, <2>2 DEF VectorFresh, Exists, TextOf
  <2> QED BY <2>1, <2>2
<1>8. AspectsSound' /\ CopiesSound' /\ NothingLost'
  BY <1>1, <1>3 DEF AspectsSound, CopiesSound, ListSound, NothingLost
<1> QED BY <1>5, <1>6, <1>7, <1>8 DEF GraphSound

\* Nothing is written.
LEMMA AbandonKeeps == ASSUME GraphSound, NEW w \in Embedders, Abandon(w) PROVE GraphSound'
<1>1. KnowledgeTypeOK /\ AspectsSound /\ CopiesSound /\ BatchSound /\ VectorFresh
      /\ NothingLost
  BY DEF GraphSound
<1>2. /\ UNCHANGED <<name, aspects, written, now, vector, nextRow, proposal, anchor, open,
                     lost>>
      /\ batch' = [batch EXCEPT ![w] = <<>>]
           /\ embedPc' = [embedPc EXCEPT ![w] = "sleeping"]
      /\ embedFails < MaxEmbedFails /\ embedFails' = embedFails + 1
  BY DEF Abandon, EmbedGoes, nodeVars
<1>3. DOMAIN <<>> = {}
  OBVIOUS
<1>4. /\ embedFails' \in 0..MaxEmbedFails /\ embedPc' \in [Embedders -> {"sleeping",
             "writing"}]
      /\ DOMAIN batch' = Embedders
  BY <1>1, <1>2, KnowledgeAssumption DEF KnowledgeTypeOK
<1>5. \A v \in Embedders : DOMAIN batch'[v] = {} \/ batch'[v] = batch[v]
  BY <1>1, <1>2, <1>3 DEF KnowledgeTypeOK
<1>6. KnowledgeTypeOK'
  BY <1>1, <1>2, <1>4, <1>5 DEF KnowledgeTypeOK
<1>7. BatchSound'
  <2>1. ASSUME NEW v \in Embedders, NEW n \in DOMAIN batch'[v]
        PROVE  batch'[v] = batch[v] /\ n \in DOMAIN batch[v]
    BY <1>5, <2>1
  <2> QED BY <1>1, <1>2, <2>1 DEF BatchSound, Exists, TextOf
<1>8. AspectsSound' /\ CopiesSound' /\ VectorFresh' /\ NothingLost'
  BY <1>1, <1>2 DEF AspectsSound, CopiesSound, ListSound, VectorFresh, NothingLost, Exists,
         TextOf
<1> QED BY <1>6, <1>7, <1>8 DEF GraphSound

-----------------------------------------------------------------------------
(* The invariants *)

\* Nothing is there at first.
LEMMA GraphStarts == ASSUME KnowledgeInit PROVE GraphSound
<1>1. DOMAIN <<>> = {} /\ <<>> \in Seq(AspectRows) /\ Len(<<>>) = 0
  OBVIOUS
<1>2. /\ MaxAspects \in Nat /\ MaxRows \in Nat /\ MaxWrites \in Nat /\ MaxEmbedFails \in Nat
      /\ 0 <= MaxAspects /\ 0 \in 0..MaxWrites /\ 1 \in 1..MaxRows + 1
           /\ 0 \in 0..MaxEmbedFails
  BY KnowledgeAssumption
<1>3. KnowledgeTypeOK
  BY <1>1, <1>2 DEF KnowledgeInit, KnowledgeTypeOK
<1>4. \A n \in Nodes : DOMAIN aspects[n] = {} /\ name[n] = Nothing /\ written[n] = 0
  BY <1>1 DEF KnowledgeInit
<1>5. AspectsSound
  BY <1>4 DEF AspectsSound, ListSound, Distinct, Below, Applied
<1>6. CopiesSound /\ VectorFresh /\ NothingLost
  BY <1>4 DEF KnowledgeInit, CopiesSound, VectorFresh, NothingLost, Exists
<1>7. BatchSound
  <2>1. now = 0 /\ \A w \in Embedders : DOMAIN batch[w] = {}
    BY <1>1 DEF KnowledgeInit
  <2> QED BY <1>4, <2>1 DEF BatchSound
<1> QED BY <1>3, <1>5, <1>6, <1>7 DEF GraphSound

\* Every step keeps the graph sound, and so does none.
LEMMA GraphStep == ASSUME GraphSound, [KnowledgeNext]_knowledgeVars PROVE GraphSound'
<1>1. ASSUME NEW n \in Nodes, DeleteNode(n) PROVE GraphSound'
  BY <1>1, DeleteNodeKeeps
<1>2. ASSUME NEW n \in Nodes, TouchNode(n) PROVE GraphSound'
  BY <1>2, TouchNodeKeeps
<1>3. ASSUME NEW n \in Nodes, NEW x \in Names, RenameAgentNode(n, x) PROVE GraphSound'
  BY <1>3, RenameAgentNodeKeeps
<1>4. ASSUME NEW n \in Nodes, NEW x \in Names, CreateNodeWithAspects(n, x) PROVE GraphSound'
  BY <1>4, CreateNodeWithAspectsKeeps
<1>5. ASSUME NEW e \in Editors, NEW n \in Nodes, Load(e, n) PROVE GraphSound'
  BY <1>5, LoadKeeps
<1>6. ASSUME NEW e \in Editors, NEW x \in Names, Save(e, x) PROVE GraphSound'
  BY <1>6, SaveKeeps
<1>7. ASSUME NEW p \in Proposals, ClaimProposal(p) PROVE GraphSound'
  BY <1>7, ClaimProposalKeeps
<1>8. ASSUME NEW p \in Proposals, ApplyFact(p) PROVE GraphSound'
  BY <1>8, ApplyFactKeeps
<1>9. ASSUME NEW p \in Proposals, ApplyNode(p) PROVE GraphSound'
  BY <1>9, ApplyNodeKeeps
<1>10. ASSUME NEW p \in Proposals, Rollback(p) \/ RejectKnowledgeProposal(p)
       PROVE GraphSound'
  BY <1>10, CloseKeeps
<1>11. ASSUME NEW w \in Embedders, ListUnembeddedNodes(w) PROVE GraphSound'
  BY <1>11, ListUnembeddedNodesKeeps
<1>12. ASSUME NEW w \in Embedders, SetNodeEmbedding(w) PROVE GraphSound'
  BY <1>12, SetNodeEmbeddingKeeps
<1>13. ASSUME NEW w \in Embedders, Abandon(w) PROVE GraphSound'
  BY <1>13, AbandonKeeps
<1>14. ASSUME UNCHANGED knowledgeVars PROVE GraphSound'
  BY <1>14 DEF knowledgeVars, nodeVars, GraphSound, KnowledgeTypeOK, AspectsSound,
         CopiesSound, ListSound,
               BatchSound, VectorFresh, NothingLost, Exists, TextOf
<1> QED BY <1>1, <1>2, <1>3, <1>4, <1>5, <1>6, <1>7, <1>8, <1>9, <1>10, <1>11, <1>12,
             <1>13, <1>14
        DEF KnowledgeNext, EmbedStep

\* Rows, stale copies, listed texts and vectors fit each other in every reachable state
\* (GraphSound), for any number of Nodes, editors, embedders and proposals.
THEOREM GraphKept == KnowledgeSpec => []GraphSound
<1>1. KnowledgeInit => GraphSound
  BY GraphStarts
<1>2. GraphSound /\ [KnowledgeNext]_knowledgeVars => GraphSound'
  BY GraphStep
<1> QED BY <1>1, <1>2, PTL DEF KnowledgeSpec

\* So no embedding is of an older text than its Node's, no save takes out a row its editor has
\* not seen, and no approval is applied twice or without being one (KnowledgeInv).
THEOREM KnowledgeSafe == KnowledgeSpec => []KnowledgeInv
<1>1. GraphSound => KnowledgeInv
  <2> SUFFICES ASSUME GraphSound PROVE KnowledgeInv
    OBVIOUS
  <2>1. KnowledgeTypeOK /\ AspectsSound /\ VectorFresh /\ NothingLost
    BY DEF GraphSound
  <2>2. AppliedOnce
    BY <2>1 DEF AspectsSound, AppliedOnce, ListSound, Distinct, Applied
  <2> QED BY <2>1, <2>2 DEF KnowledgeInv
<1> QED BY <1>1, GraphKept, PTL

HIDE KnowledgeAssumption
===============================================================================
