--------------------------- MODULE ChatTurnProofs ---------------------------
(***************************************************************************)
(* Theorems about ChatTurn: its types, the single done of a turn, the      *)
(* answer it carries, the order of questions and answers, and the busy     *)
(* marker, for any number of turns, events and capacities.                 *)
(***************************************************************************)
EXTENDS ChatTurn, TLAPS

(* What a step does to a turn's start handler, and to its relay. *)
HandlerMoves ==
  {<<"none", "checked">>, <<"none", "sync">>, <<"checked", "appended">>,
   <<"checked", "failed">>, <<"appended", "created">>, <<"created", "marked">>,
   <<"marked", "returned">>}
RelayMoves ==
  {<<"setup", "loop">>, <<"setup", "publish">>, <<"loop", "publish">>,
   <<"loop", "append">>, <<"loop", "clear">>, <<"publish", "loop">>,
   <<"publish", "append">>, <<"publish", "clear">>, <<"append", "clear">>,
   <<"clear", "load">>, <<"load", "finish">>, <<"finish", "closing">>,
   <<"closing", "done">>}

HandlerMove(t) ==
  \/ hs'[t] = hs[t]
  \/ <<hs[t], hs'[t]>> \in HandlerMoves
  \/ hs'[t] = "lost" /\ relay'[t] \in {"off", "lost"} /\ crashed'

RelayMove(t) ==
  \/ relay'[t] = relay[t]
  \/ <<relay[t], relay'[t]>> \in RelayMoves
  \/ relay[t] = "off" /\ relay'[t] = "setup" /\ hs'[t] = "returned"
  \/ relay[t] # "off" /\ relay'[t] = "lost" /\ hs'[t] = "lost" /\ crashed'

Phases == /\ hs \in [Turns -> HandlerPhases]
          /\ relay \in [Turns -> RelayPhases]

(* A relay that runs or has ended was started by a handler that returned. *)
PhaseInv ==
  \A t \in Turns :
    /\ relay[t] \in Live \cup {"done"} => hs[t] = "returned"
    /\ relay[t] = "lost" => hs[t] = "lost"

LEMMA HandlerStep ==
  ASSUME Phases, [Next]_vars
  PROVE  hs' \in [Turns -> HandlerPhases] /\ \A t \in Turns : HandlerMove(t)
<1> USE DEF Phases, HandlerPhases, HandlerMove, HandlerMoves
<1>1. ASSUME NEW u \in Turns, StartCheck(u) \/ Start(u) \/ SyncStart(u)
      PROVE  hs' \in [Turns -> HandlerPhases] /\ \A t \in Turns : HandlerMove(t)
  <2>1. \E p \in HandlerPhases : hs' = [hs EXCEPT ![u] = p] /\ <<hs[u], p>> \in HandlerMoves
    BY <1>1 DEF StartCheck, Start, StartAppend, StartCreate, StartMark, StartSpawn, SyncStart
  <2> QED
    BY <2>1
<1>2. ASSUME Crash
      PROVE  hs' \in [Turns -> HandlerPhases] /\ \A t \in Turns : HandlerMove(t)
  BY <1>2 DEF Crash, RelayPhases
<1>3. ASSUME UNCHANGED hs
      PROVE  hs' \in [Turns -> HandlerPhases] /\ \A t \in Turns : HandlerMove(t)
  BY <1>3
<1>4. ASSUME NEW u \in Turns, Relay(u) PROVE UNCHANGED hs
  BY <1>4 DEF Relay, RunTurn, RelayCancelled, RelayClosed, RelayDone, RelaySwallow,
     RelayForward, RelaySend, RelaySent, FinishAppend, FinishClear, FinishLoad,
     FinishJournal, RelayExit
<1>5. ASSUME NEW u \in Turns, \/ AgentSend(u) \/ AgentClose(u) \/ Cancel(u)
                              \/ Attach(u) \/ Read(u) \/ Detach(u)
      PROVE UNCHANGED hs
  BY <1>5 DEF AgentSend, AgentClose, Cancel, Attach, Read, Detach
<1>6. ASSUME Elapse \/ DeleteSession PROVE UNCHANGED hs
  BY <1>6 DEF Elapse, DeleteSession
<1>7. ASSUME UNCHANGED vars PROVE UNCHANGED hs
  BY <1>7 DEF vars
<1> QED
  BY <1>1, <1>2, <1>3, <1>4, <1>5, <1>6, <1>7 DEF Next

LEMMA RelayStep ==
  ASSUME Phases, PhaseInv, [Next]_vars
  PROVE  relay' \in [Turns -> RelayPhases] /\ \A t \in Turns : RelayMove(t)
<1> USE DEF Phases, RelayPhases, RelayMove, RelayMoves
<1>1. ASSUME NEW u \in Turns, Relay(u)
      PROVE  relay' \in [Turns -> RelayPhases] /\ \A t \in Turns : RelayMove(t)
  <2>1. \/ UNCHANGED relay
        \/ \E p \in RelayPhases :
             relay' = [relay EXCEPT ![u] = p] /\ <<relay[u], p>> \in RelayMoves
    BY <1>1 DEF Relay, RunTurn, RelayCancelled, RelayClosed, RelayDone, RelaySwallow,
     RelayForward, RelaySend, RelaySent, FinishAppend, FinishClear, FinishLoad,
     FinishJournal, RelayExit, GoFinish
  <2> QED
    BY <2>1
<1>2. ASSUME NEW u \in Turns, StartSpawn(u)
      PROVE  relay' \in [Turns -> RelayPhases] /\ \A t \in Turns : RelayMove(t)
  <2>1. hs[u] = "marked" /\ hs'[u] = "returned"
    BY <1>2 DEF StartSpawn
  <2>2. relay[u] = "off"
    BY <2>1 DEF PhaseInv, Live
  <2> QED
    BY <1>2, <2>1, <2>2 DEF StartSpawn
<1>3. ASSUME Crash
      PROVE  relay' \in [Turns -> RelayPhases] /\ \A t \in Turns : RelayMove(t)
  <2>1. \A t \in Turns : relay[t] # "off" => hs[t] \in {"returned", "lost"}
    BY DEF PhaseInv, Live
  <2> QED
    BY <1>3, <2>1 DEF Crash
<1>4. ASSUME UNCHANGED relay
      PROVE  relay' \in [Turns -> RelayPhases] /\ \A t \in Turns : RelayMove(t)
  BY <1>4
<1>5. ASSUME NEW u \in Turns, \/ StartCheck(u) \/ StartAppend(u) \/ StartCreate(u)
                              \/ StartMark(u) \/ SyncStart(u) \/ AgentSend(u)
                              \/ AgentClose(u) \/ Cancel(u) \/ Attach(u) \/ Read(u)
                              \/ Detach(u)
      PROVE UNCHANGED relay
  BY <1>5 DEF StartCheck, StartAppend, StartCreate, StartMark, SyncStart, AgentSend,
     AgentClose, Cancel, Attach, Read, Detach
<1>6. ASSUME Elapse \/ DeleteSession PROVE UNCHANGED relay
  BY <1>6 DEF Elapse, DeleteSession
<1>7. ASSUME UNCHANGED vars PROVE UNCHANGED relay
  BY <1>7 DEF vars
<1> QED
  BY <1>1, <1>2, <1>3, <1>4, <1>5, <1>6, <1>7 DEF Next, Start

LEMMA PhaseStep ==
  ASSUME Phases, PhaseInv, [Next]_vars
  PROVE  Phases' /\ PhaseInv'
<1>1. Phases'
  BY HandlerStep, RelayStep DEF Phases
<1>2. ASSUME NEW t \in Turns
      PROVE  /\ relay'[t] \in Live \cup {"done"} => hs'[t] = "returned"
             /\ relay'[t] = "lost" => hs'[t] = "lost"
  <2>1. HandlerMove(t) /\ RelayMove(t)
    BY HandlerStep, RelayStep
  <2>2. /\ relay[t] \in Live \cup {"done"} => hs[t] = "returned"
        /\ relay[t] = "lost" => hs[t] = "lost"
    BY DEF PhaseInv
  <2>3. relay'[t] \in RelayPhases
    BY <1>1 DEF Phases
  <2> QED
    BY <2>1, <2>2, <2>3
    DEF HandlerMove, RelayMove, HandlerMoves, RelayMoves, Live, RelayPhases
<1> QED
  BY <1>1, <1>2 DEF PhaseInv

-----------------------------------------------------------------------------
(* Types *)

Statuses == {"", "partial", "interrupted"}

RowTypes ==
  /\ exists \in BOOLEAN /\ stale \in BOOLEAN /\ crashed \in BOOLEAN
  /\ busy \in 0..MaxTurns /\ streamOf \in 0..MaxTurns /\ cancels \subseteq Turns
  /\ ctxDone \in [Turns -> BOOLEAN]

LEMMA RowTypeStep ==
  ASSUME RowTypes, [Next]_vars PROVE RowTypes'
<1>a. 0 \in 0..MaxTurns /\ \A t \in Turns : t \in 0..MaxTurns
  BY ChatAssumption DEF Turns
<1> USE <1>a DEF RowTypes
<1>1. ASSUME NEW u \in Turns, StartCheck(u) \/ Start(u) \/ SyncStart(u) PROVE RowTypes'
  BY <1>1 DEF StartCheck, Start, StartAppend, StartCreate, StartMark, StartSpawn, SyncStart,
     row, maps
<1>2. ASSUME NEW u \in Turns, Relay(u) PROVE RowTypes'
  BY <1>2 DEF Relay, RunTurn, RelayCancelled, RelayClosed, RelayDone, RelaySwallow,
     RelayForward, RelaySend, RelaySent, FinishAppend, FinishClear, FinishLoad,
     FinishJournal, RelayExit, row, maps
<1>3. ASSUME NEW u \in Turns, \/ AgentSend(u) \/ AgentClose(u) \/ Cancel(u)
                              \/ Attach(u) \/ Read(u) \/ Detach(u)
      PROVE RowTypes'
  BY <1>3 DEF AgentSend, AgentClose, Cancel, Attach, Read, Detach, row, maps
<1>4. ASSUME Elapse \/ DeleteSession \/ Crash PROVE RowTypes'
  BY <1>4 DEF Elapse, DeleteSession, Crash, row, maps
<1>5. ASSUME UNCHANGED vars PROVE RowTypes'
  BY <1>5 DEF vars, row, maps
<1> QED
  BY <1>1, <1>2, <1>3, <1>4, <1>5 DEF Next

(* The agent's events: what was relayed and what is on its way is at most *)
(* what was sent.                                                         *)
AgentTypes ==
  /\ agent \in [Turns -> {"idle", "running", "closed"}]
  /\ sent \in [Turns -> 0..MaxEvents] /\ text \in [Turns -> 0..MaxEvents]
  /\ status \in [Turns -> Statuses]
  /\ ev \in [Turns -> Seq(Kinds)]
  /\ \A t \in Turns : Len(ev[t]) <= EvCap /\ text[t] + Len(ev[t]) <= sent[t]

LEMMA EvTail ==
  ASSUME NEW s \in Seq(Kinds), s # <<>>
  PROVE  /\ Tail(s) \in Seq(Kinds) /\ Head(s) \in Kinds
         /\ Len(Tail(s)) = Len(s) - 1 /\ Len(s) \in Nat \ {0}
OBVIOUS

LEMMA EvAppend ==
  ASSUME NEW s \in Seq(Kinds), NEW k \in Kinds
  PROVE  /\ Append(s, k) \in Seq(Kinds)
         /\ Len(Append(s, k)) = Len(s) + 1 /\ Len(s) \in Nat
OBVIOUS

LEMMA AgentTypeStep ==
  ASSUME AgentTypes, [Next]_vars PROVE AgentTypes'
<1>a. ev \in [Turns -> Seq(Kinds)]
  BY DEF AgentTypes
<1>b. \A t \in Turns : Len(ev[t]) \in Nat
  BY ONLY <1>a
<1>c. MaxEvents \in Nat /\ EvCap \in Nat
  BY ChatAssumption
<1>d. /\ sent \in [Turns -> 0..MaxEvents] /\ text \in [Turns -> 0..MaxEvents]
      /\ \A t \in Turns : Len(ev[t]) <= EvCap /\ text[t] + Len(ev[t]) <= sent[t]
  BY DEF AgentTypes
<1> USE DEF AgentTypes, Statuses
<1>1. ASSUME NEW u \in Turns, StartCheck(u) \/ Start(u) \/ SyncStart(u) PROVE AgentTypes'
  BY <1>1 DEF StartCheck, Start, StartAppend, StartCreate, StartMark, StartSpawn, SyncStart,
     upstream
<1>2. ASSUME NEW u \in Turns, Relay(u) PROVE AgentTypes'
  <2>1. CASE UNCHANGED ev /\ UNCHANGED text /\ UNCHANGED sent
    BY <1>2, <2>1 DEF Relay, RunTurn, RelayCancelled, RelayClosed, RelayDone, RelaySwallow,
     RelayForward, RelaySend, RelaySent, FinishAppend, FinishClear, FinishLoad,
     FinishJournal, RelayExit, GoFinish, upstream
  <2>2. CASE RelayDone(u) \/ RelaySwallow(u) \/ RelayForward(u)
    <3>1. /\ ev[u] # <<>> /\ ev' = [ev EXCEPT ![u] = Tail(@)]
          /\ text' = text \/ text' = [text EXCEPT ![u] = @ + 1]
          /\ UNCHANGED <<sent, agent>>
          /\ status' \in [Turns -> Statuses]
      BY <2>2 DEF RelayDone, RelaySwallow, RelayForward, GoFinish
    <3>2. /\ Tail(ev[u]) \in Seq(Kinds)
          /\ Len(Tail(ev[u])) = Len(ev[u]) - 1 /\ Len(ev[u]) \in Nat \ {0}
      BY <1>a, <3>1, EvTail
    <3>3. ev' \in [Turns -> Seq(Kinds)]
      BY ONLY <1>a, <3>1, <3>2
    <3>4. \A t \in Turns : ev'[t] = IF t = u THEN Tail(ev[u]) ELSE ev[t]
      BY ONLY <1>a, <3>1
    <3>6. Len(ev'[u]) = Len(ev[u]) - 1 /\ \A t \in Turns \ {u} : ev'[t] = ev[t]
      <4>1. ev'[u] = Tail(ev[u])
        BY ONLY <3>4, u \in Turns
      <4> QED
        BY ONLY <4>1, <3>2, <3>4
    <3>7. sent[u] \in Nat /\ text[u] \in Nat /\ Len(ev[u]) <= EvCap
          /\ text[u] + Len(ev[u]) <= sent[u] /\ Len(ev[u]) \in Nat
      BY ONLY <1>b, <1>c, <1>d, u \in Turns
    <3>5. text' \in [Turns -> 0..MaxEvents]
          /\ \A t \in Turns : Len(ev'[t]) <= EvCap /\ text'[t] + Len(ev'[t]) <= sent[t]
      <4>1. text[u] + Len(ev[u]) <= sent[u] /\ sent[u] <= MaxEvents /\ text[u] \in Nat
        BY ONLY <1>c, <1>d, u \in Turns
      <4>2. text[u] + 1 \in 0..MaxEvents
        BY ONLY <1>c, <1>d, <3>2, <4>1, u \in Turns
      <4>3. CASE text' = text
        <5>1. Len(ev'[u]) <= EvCap /\ text[u] + Len(ev'[u]) <= sent[u]
          BY ONLY <1>c, <3>6, <3>7
        <5> QED
          BY ONLY <1>d, <3>6, <4>3, <5>1
      <4>4. CASE text' = [text EXCEPT ![u] = @ + 1]
        <5>1. \A t \in Turns : text'[t] = IF t = u THEN text[u] + 1 ELSE text[t]
          BY ONLY <1>d, <4>4
        <5>2. Len(ev'[u]) <= EvCap /\ text'[u] + Len(ev'[u]) <= sent[u]
          <6>1. text'[u] = text[u] + 1
            BY ONLY <5>1, u \in Turns
          <6> QED
            BY ONLY <1>c, <3>6, <3>7, <6>1
        <5>3. text' \in [Turns -> 0..MaxEvents]
          BY ONLY <1>d, <4>2, <4>4
        <5> QED
          BY ONLY <1>d, <3>6, <5>1, <5>2, <5>3
      <4> QED
        BY <3>1, <4>3, <4>4
    <3> QED
      BY <3>1, <3>3, <3>5
  <2> QED
    BY <1>2, <2>1, <2>2 DEF Relay, RunTurn, RelayCancelled, RelayClosed, RelaySend, RelaySent,
      FinishAppend, FinishClear, FinishLoad, FinishJournal, RelayExit, upstream
<1>3. ASSUME NEW u \in Turns, AgentSend(u) PROVE AgentTypes'
  <2>1. PICK k \in Kinds : ev' = [ev EXCEPT ![u] = Append(@, k)]
    BY <1>3 DEF AgentSend
  <2>2. Append(ev[u], k) \in Seq(Kinds) /\ Len(Append(ev[u], k)) = Len(ev[u]) + 1
    BY <1>a, EvAppend
  <2>3. ev' \in [Turns -> Seq(Kinds)]
    BY ONLY <1>a, <2>1, <2>2
  <2>4. \A t \in Turns : ev'[t] = IF t = u THEN Append(ev[u], k) ELSE ev[t]
    BY ONLY <1>a, <2>1
  <2>5. sent' \in [Turns -> 0..MaxEvents]
    BY ONLY <1>3, <1>c, <1>d DEF AgentSend
  <2>6. \A t \in Turns : Len(ev'[t]) <= EvCap /\ text[t] + Len(ev'[t]) <= sent'[t]
    BY ONLY <1>3, <1>b, <1>c, <1>d, <2>2, <2>4 DEF AgentSend
  <2> QED
    BY <1>3, <2>3, <2>5, <2>6 DEF AgentSend
<1>4. ASSUME NEW u \in Turns, AgentClose(u) \/ Cancel(u) \/ Attach(u) \/ Read(u) \/ Detach(u)
      PROVE AgentTypes'
  BY <1>4 DEF AgentClose, Cancel, Attach, Read, Detach, upstream
<1>5. ASSUME Elapse \/ DeleteSession PROVE AgentTypes'
  BY <1>5 DEF Elapse, DeleteSession, upstream
<1>6. ASSUME Crash PROVE AgentTypes'
  <2>1. <<>> \in Seq(Kinds) /\ Len(<<>>) = 0
    BY ONLY TRUE
  <2> QED
    <3>1. ev' = [t \in Turns |-> <<>>] /\ UNCHANGED <<sent, text, status>>
      BY <1>6 DEF Crash
    <3>2. agent' \in [Turns -> {"idle", "running", "closed"}]
      BY <1>6 DEF Crash
    <3>3. \A t \in Turns : Len(ev'[t]) <= EvCap /\ text'[t] + Len(ev'[t]) <= sent'[t]
      BY ONLY <3>1, <2>1, <1>b, <1>c, <1>d
    <3> QED
      BY <2>1, <3>1, <3>2, <3>3
<1>7. ASSUME UNCHANGED vars PROVE AgentTypes'
  BY <1>7 DEF vars, upstream
<1> QED
  BY <1>1, <1>2, <1>3, <1>4, <1>5, <1>6, <1>7 DEF Next

JournalTypes ==
  /\ log \in [Turns -> Seq(Kinds \cup {"stream_end"})]
  /\ reader \in [Turns -> {"none", "reading", "gone", "eof"}]
  /\ queue \in [Turns -> 0..ChanCap] /\ owed \in [Turns -> 0..2]

NoFinish == \A t \in Turns : ~(relay[t] = "finish" /\ relay'[t] = "closing")

(* What a step writes to the journals. *)
LEMMA LogStep ==
  ASSUME Phases, [Next]_vars
  PROVE  \/ UNCHANGED log /\ NoFinish
         \/ \E u \in Turns, k \in {"token", "other", "error"} :
              /\ log' = [log EXCEPT ![u] = @ \o <<k>>]
              /\ relay[u] \in {"setup", "loop"} /\ relay' = [relay EXCEPT ![u] = "publish"]
         \/ \E u \in Turns :
              /\ log' = [log EXCEPT ![u] = @ \o <<"done", "stream_end">>]
              /\ relay[u] = "finish" /\ relay' = [relay EXCEPT ![u] = "closing"]
<1>1. ASSUME NEW u \in Turns, RunTurn(u) \/ RelayForward(u)
      PROVE  \/ UNCHANGED log /\ NoFinish
             \/ \E k \in {"token", "other", "error"} :
                  /\ log' = [log EXCEPT ![u] = @ \o <<k>>]
                  /\ relay[u] \in {"setup", "loop"} /\ relay' = [relay EXCEPT ![u] = "publish"]
  BY <1>1 DEF RunTurn, RelayForward, Journaled, journal, Phases, NoFinish
<1>2. ASSUME NEW u \in Turns, FinishJournal(u)
      PROVE  /\ log' = [log EXCEPT ![u] = @ \o <<"done", "stream_end">>]
             /\ relay[u] = "finish" /\ relay' = [relay EXCEPT ![u] = "closing"]
  BY <1>2 DEF FinishJournal, Journaled, Phases
<1>3. ASSUME NEW u \in Turns,
             \/ RelayCancelled(u) \/ RelayClosed(u) \/ RelayDone(u) \/ RelaySwallow(u)
             \/ RelaySend(u) \/ RelaySent(u) \/ FinishAppend(u) \/ FinishClear(u)
             \/ FinishLoad(u) \/ RelayExit(u)
      PROVE  UNCHANGED log /\ NoFinish
  BY <1>3 DEF RelayCancelled, RelayClosed, RelayDone, RelaySwallow, RelaySend, RelaySent,
     FinishAppend, FinishClear, FinishLoad, RelayExit, journal, GoFinish, Phases, NoFinish
<1>4. ASSUME NEW u \in Turns, StartCheck(u) \/ Start(u) \/ SyncStart(u)
      PROVE  UNCHANGED log /\ NoFinish
  BY <1>4 DEF StartCheck, Start, StartAppend, StartCreate, StartMark, StartSpawn, SyncStart,
     journal, Phases, NoFinish
<1>5. ASSUME NEW u \in Turns, \/ AgentSend(u) \/ AgentClose(u) \/ Cancel(u)
                              \/ Attach(u) \/ Read(u) \/ Detach(u)
      PROVE  UNCHANGED log /\ NoFinish
  BY <1>5 DEF AgentSend, AgentClose, Cancel, Attach, Read, Detach, journal, NoFinish
<1>6. ASSUME Elapse \/ DeleteSession \/ Crash \/ UNCHANGED vars
      PROVE  UNCHANGED log /\ NoFinish
  BY <1>6 DEF Elapse, DeleteSession, Crash, vars, journal, NoFinish
<1> QED
  BY <1>1, <1>2, <1>3, <1>4, <1>5, <1>6 DEF Next, Relay

LEMMA LogAppend ==
  ASSUME NEW s \in Seq(Kinds \cup {"stream_end"}),
         NEW k \in {"token", "other", "error"}
  PROVE  /\ s \o <<k>> \in Seq(Kinds \cup {"stream_end"})
         /\ Len(s \o <<k>>) = Len(s) + 1 /\ Len(s) \in Nat
         /\ \A i \in 1..Len(s) : (s \o <<k>>)[i] = s[i]
         /\ (s \o <<k>>)[Len(s) + 1] = k
<1>1. <<k>> \in Seq(Kinds \cup {"stream_end"})
  BY DEF Kinds
<1> QED
  BY <1>1

LEMMA LogFinish ==
  ASSUME NEW s \in Seq(Kinds \cup {"stream_end"})
  PROVE  /\ s \o <<"done", "stream_end">> \in Seq(Kinds \cup {"stream_end"})
         /\ Len(s \o <<"done", "stream_end">>) = Len(s) + 2 /\ Len(s) \in Nat
         /\ \A i \in 1..Len(s) : (s \o <<"done", "stream_end">>)[i] = s[i]
         /\ (s \o <<"done", "stream_end">>)[Len(s) + 1] = "done"
         /\ (s \o <<"done", "stream_end">>)[Len(s) + 2] = "stream_end"
<1>1. <<"done", "stream_end">> \in Seq(Kinds \cup {"stream_end"})
  BY DEF Kinds
<1> QED
  BY <1>1

ReaderTypes ==
  /\ reader \in [Turns -> {"none", "reading", "gone", "eof"}]
  /\ queue \in [Turns -> 0..ChanCap] /\ owed \in [Turns -> 0..2]

LEMMA JournalTypeStep ==
  ASSUME Phases, JournalTypes, [Next]_vars PROVE JournalTypes'
<1>a. ChanCap \in Nat
  BY ChatAssumption
<1>b. log \in [Turns -> Seq(Kinds \cup {"stream_end"})] /\ ReaderTypes
  BY DEF JournalTypes, ReaderTypes
<1>1. log' \in [Turns -> Seq(Kinds \cup {"stream_end"})]
  <2>1. ASSUME NEW u \in Turns, NEW k \in {"token", "other", "error"},
               log' = [log EXCEPT ![u] = @ \o <<k>>]
        PROVE  log' \in [Turns -> Seq(Kinds \cup {"stream_end"})]
    BY <1>b, <2>1, LogAppend
  <2>2. ASSUME NEW u \in Turns, log' = [log EXCEPT ![u] = @ \o <<"done", "stream_end">>]
        PROVE  log' \in [Turns -> Seq(Kinds \cup {"stream_end"})]
    BY <1>b, <2>2, LogFinish
  <2> QED
    BY <1>b, <2>1, <2>2, LogStep
<1>2. ReaderTypes'
  <2> USE <1>a, <1>b DEF ReaderTypes
  <2>1. ASSUME NEW u \in Turns, RunTurn(u) \/ RelayForward(u) \/ FinishJournal(u)
        PROVE  ReaderTypes'
    <3>1. \/ UNCHANGED <<reader, queue, owed>>
          \/ \E n \in 0..2 : owed' = [owed EXCEPT ![u] = n] /\ UNCHANGED <<reader, queue>>
      BY <2>1 DEF RunTurn, RelayForward, FinishJournal, Journaled, journal
    <3> QED
      BY <3>1
  <2>2. ASSUME NEW u \in Turns, RelaySend(u)
        PROVE  ReaderTypes'
    BY <2>2 DEF RelaySend
  <2>3. ASSUME NEW u \in Turns,
             \/ RelayCancelled(u) \/ RelayClosed(u) \/ RelayDone(u) \/ RelaySwallow(u)
             \/ RelaySent(u) \/ FinishAppend(u) \/ FinishClear(u)
             \/ FinishLoad(u) \/ RelayExit(u)
        PROVE  UNCHANGED <<reader, queue, owed>>
    BY <2>3 DEF RelayCancelled, RelayClosed, RelayDone, RelaySwallow, RelaySent,
       FinishAppend, FinishClear, FinishLoad, RelayExit, journal
  <2>4. ASSUME NEW u \in Turns, StartCheck(u) \/ Start(u) \/ SyncStart(u)
        PROVE  UNCHANGED <<reader, queue, owed>>
    BY <2>4 DEF StartCheck, Start, StartAppend, StartCreate, StartMark, StartSpawn,
       SyncStart, journal
  <2>5. ASSUME NEW u \in Turns, AgentSend(u) \/ AgentClose(u) \/ Cancel(u)
        PROVE  UNCHANGED <<reader, queue, owed>>
    BY <2>5 DEF AgentSend, AgentClose, Cancel, journal
  <2>6. ASSUME NEW u \in Turns, Attach(u) \/ Detach(u)
        PROVE  ReaderTypes'
    BY <2>6 DEF Attach, Detach
  <2>7. ASSUME NEW u \in Turns, Read(u)
        PROVE  ReaderTypes'
    BY <2>7 DEF Read
  <2>8. ASSUME Elapse \/ DeleteSession \/ UNCHANGED vars
        PROVE  UNCHANGED <<reader, queue, owed>>
    BY <2>8 DEF Elapse, DeleteSession, vars, journal
  <2>9. ASSUME Crash PROVE ReaderTypes'
    BY <2>9 DEF Crash
  <2>10. ASSUME UNCHANGED <<reader, queue, owed>> PROVE ReaderTypes'
    BY <2>10
  <2> QED
    BY <2>1, <2>2, <2>3, <2>4, <2>5, <2>6, <2>7, <2>8, <2>9, <2>10 DEF Next, Relay
<1> QED
  BY <1>1, <1>2 DEF JournalTypes, ReaderTypes

-----------------------------------------------------------------------------
(* One done *)

DoneInv ==
  \A t \in Turns :
    /\ \A k \in 1..Len(log[t]) : log[t][k] = "done" => k = Len(log[t]) - 1
    /\ relay[t] \in {"closing", "done"} => \E k \in 1..Len(log[t]) : log[t][k] = "done"
    /\ relay[t] \notin {"closing", "done", "lost"} =>
         \A k \in 1..Len(log[t]) : log[t][k] # "done"

LEMMA DoneStep ==
  ASSUME Phases, PhaseInv, JournalTypes, DoneInv, [Next]_vars
  PROVE  DoneInv'
<1> DEFINE Good(l, at) ==
      /\ \A k \in 1..Len(l) : l[k] = "done" => k = Len(l) - 1
      /\ at \in {"closing", "done"} => \E k \in 1..Len(l) : l[k] = "done"
      /\ at \notin {"closing", "done", "lost"} => \A k \in 1..Len(l) : l[k] # "done"
<1>1. \A t \in Turns : Good(log[t], relay[t])
  BY DEF DoneInv
<1>2. \A t \in Turns : RelayMove(t)
  BY RelayStep
<1>3. /\ log \in [Turns -> Seq(Kinds \cup {"stream_end"})]
      /\ relay \in [Turns -> RelayPhases]
  BY DEF JournalTypes, Phases
<1>4. ASSUME NEW t \in Turns, log'[t] = log[t],
             ~(relay[t] = "finish" /\ relay'[t] = "closing")
      PROVE  Good(log'[t], relay'[t])
  <2>1. \/ relay'[t] = relay[t] \/ relay'[t] = "lost"
        \/ relay[t] = "closing" /\ relay'[t] = "done"
        \/ {relay[t], relay'[t]} \cap {"closing", "done", "lost"} = {}
    BY <1>2, <1>4 DEF RelayMove, RelayMoves
  <2>2. Good(log[t], relay[t])
    BY <1>1
  <2>3. Good(log[t], relay'[t])
    BY ONLY <2>1, <2>2
  <2> QED
    BY ONLY <2>3, <1>4
<1>5. ASSUME NEW u \in Turns, NEW k \in {"token", "other", "error"},
             log' = [log EXCEPT ![u] = @ \o <<k>>], relay[u] \in {"setup", "loop"},
             relay' = [relay EXCEPT ![u] = "publish"]
      PROVE  \A t \in Turns : Good(log'[t], relay'[t])
  <2>1. \A i \in 1..Len(log'[u]) : log'[u][i] # "done"
    <3>1. log'[u] = log[u] \o <<k>>
      BY <1>3, <1>5
    <3>2. \A i \in 1..Len(log[u]) : log[u][i] # "done"
      BY <1>1, <1>5
    <3>3. log[u] \in Seq(Kinds \cup {"stream_end"})
      BY <1>3
    <3> QED
      BY ONLY <3>1, <3>2, <3>3, LogAppend, k \in {"token", "other", "error"}
  <2>2. relay'[u] = "publish"
    BY <1>3, <1>5
  <2>3. ASSUME NEW t \in Turns \ {u} PROVE Good(log'[t], relay'[t])
    BY <1>1, <1>3, <1>5
  <2> QED
    BY <2>1, <2>2, <2>3
<1>6. ASSUME NEW u \in Turns, relay[u] = "finish",
             log' = [log EXCEPT ![u] = @ \o <<"done", "stream_end">>],
             relay' = [relay EXCEPT ![u] = "closing"]
      PROVE  \A t \in Turns : Good(log'[t], relay'[t])
  <2>1. /\ \A i \in 1..Len(log'[u]) : log'[u][i] = "done" => i = Len(log'[u]) - 1
        /\ \E i \in 1..Len(log'[u]) : log'[u][i] = "done"
    <3>1. log'[u] = log[u] \o <<"done", "stream_end">>
      BY <1>3, <1>6
    <3>2. \A i \in 1..Len(log[u]) : log[u][i] # "done"
      BY <1>1, <1>6
    <3>3. log[u] \in Seq(Kinds \cup {"stream_end"})
      BY <1>3
    <3> QED
      <4>1. PICK n \in Nat : n = Len(log[u])
        BY ONLY <3>3
      <4>2. /\ Len(log'[u]) = n + 2 /\ log'[u][n + 1] = "done"
            /\ log'[u][n + 2] = "stream_end"
            /\ \A i \in 1..n : log'[u][i] # "done"
        BY ONLY <3>1, <3>2, <3>3, <4>1, LogFinish
      <4> QED
        BY ONLY <4>2
  <2>2. relay'[u] = "closing"
    BY <1>3, <1>6
  <2>3. ASSUME NEW t \in Turns \ {u} PROVE Good(log'[t], relay'[t])
    BY <1>1, <1>3, <1>6
  <2> QED
    BY <2>1, <2>2, <2>3
<1>7. \A t \in Turns : Good(log'[t], relay'[t])
  <2>1. CASE UNCHANGED log /\ NoFinish
    BY <1>4, <2>1 DEF NoFinish
  <2> QED
    BY <1>5, <1>6, <2>1, LogStep
<1> QED
  BY <1>7 DEF DoneInv

-----------------------------------------------------------------------------
(* The transcript *)

Msg == [role: {"user"}, turn: Turns]
         \cup [role: {"assistant"}, turn: Turns, text: Nat, status: Statuses]

In(m, s) == \E k \in 1..Len(s) : s[k] = m

TextTypes == text \in [Turns -> Nat] /\ status \in [Turns -> Statuses]
MsgTypes == msgs \in Seq(Msg) /\ payload \in [Turns -> Seq(Msg)]

Settled  == {"clear", "load", "finish", "closing", "done"}
Informed == {"finish", "closing", "done"}
Asked    == {"appended", "created", "marked", "returned", "sync"}

(* A step that leaves the messages alone is at none of the three statements *)
(* that store or read them.                                                *)
Stores(t) == \/ hs[t] \in {"none", "checked"} /\ hs'[t] \in {"sync", "appended"}
             \/ relay[t] = "append" /\ relay'[t] = "clear"

(* What a step does to the transcript. *)
LEMMA MsgStep ==
  ASSUME Phases, [Next]_vars
  PROVE  \/ /\ UNCHANGED <<msgs, exists>>
            /\ exists => \A t \in Turns : ~Stores(t)
         \/ \E u \in Turns, p \in {"sync", "appended"} :
              /\ exists /\ exists' /\ msgs' = Append(msgs, User(u))
              /\ hs[u] \in {"none", "checked"} /\ hs' = [hs EXCEPT ![u] = p]
              /\ UNCHANGED relay
         \/ \E u \in Turns :
              /\ exists /\ exists' /\ msgs' = Append(msgs, Assistant(u))
              /\ relay[u] = "append" /\ relay' = [relay EXCEPT ![u] = "clear"]
              /\ UNCHANGED hs
         \/ ~exists' /\ msgs' = <<>> /\ UNCHANGED <<hs, relay>>
<1> DEFINE Quiet == UNCHANGED <<msgs, exists>> /\ (exists => \A t \in Turns : ~Stores(t))
<1> USE DEF Phases, Stores
<1>1. ASSUME NEW u \in Turns, StartAppend(u) \/ SyncStart(u)
      PROVE  \/ Quiet
             \/ \E p \in {"sync", "appended"} :
                  /\ exists /\ exists' /\ msgs' = Append(msgs, User(u))
                  /\ hs[u] \in {"none", "checked"} /\ hs' = [hs EXCEPT ![u] = p]
                  /\ UNCHANGED relay
  BY <1>1 DEF StartAppend, SyncStart
<1>2. ASSUME NEW u \in Turns, FinishAppend(u)
      PROVE  \/ Quiet
             \/ /\ exists /\ exists' /\ msgs' = Append(msgs, Assistant(u))
                /\ relay[u] = "append" /\ relay' = [relay EXCEPT ![u] = "clear"]
                /\ UNCHANGED hs
  BY <1>2 DEF FinishAppend
<1>3. ASSUME NEW u \in Turns,
             \/ RunTurn(u) \/ RelayForward(u) \/ FinishJournal(u)
             \/ RelayCancelled(u) \/ RelayClosed(u) \/ RelayDone(u) \/ RelaySwallow(u)
             \/ RelaySend(u) \/ RelaySent(u) \/ FinishClear(u)
             \/ FinishLoad(u) \/ RelayExit(u)
      PROVE  Quiet
  BY <1>3 DEF RelayCancelled, RelayClosed, RelayDone, RelaySwallow, RelaySend, RelaySent,
     FinishClear, FinishLoad, RelayExit, RunTurn, RelayForward, FinishJournal, GoFinish, row
<1>4. ASSUME NEW u \in Turns, \/ StartCheck(u) \/ StartCreate(u) \/ StartMark(u)
                              \/ StartSpawn(u)
      PROVE  Quiet
  BY <1>4 DEF StartCheck, StartCreate, StartMark, StartSpawn, row
<1>5. ASSUME NEW u \in Turns, \/ AgentSend(u) \/ AgentClose(u) \/ Cancel(u)
                              \/ Attach(u) \/ Read(u) \/ Detach(u)
      PROVE  Quiet
  BY <1>5 DEF AgentSend, AgentClose, Cancel, Attach, Read, Detach, row
<1>6. ASSUME Elapse \/ Crash \/ UNCHANGED vars PROVE Quiet
  BY <1>6 DEF Elapse, Crash, vars, row
<1>7. ASSUME DeleteSession PROVE ~exists' /\ msgs' = <<>> /\ UNCHANGED <<hs, relay>>
  BY <1>7 DEF DeleteSession
<1> QED
  BY <1>1, <1>2, <1>3, <1>4, <1>5, <1>6, <1>7 DEF Next, Relay, Start

(* What a step does to the answer of a turn. *)
LEMMA TextStep ==
  ASSUME Phases, TextTypes, [Next]_vars, NEW t \in Turns
  PROVE  /\ relay[t] \in {"append"} \cup Settled =>
              text'[t] = text[t] /\ status'[t] = status[t]
         /\ relay[t] \in {"loop", "publish"} /\ relay'[t] = "clear" => text'[t] = 0
<1> DEFINE Goal ==
      /\ relay[t] \in {"append"} \cup Settled =>
           text'[t] = text[t] /\ status'[t] = status[t]
      /\ relay[t] \in {"loop", "publish"} /\ relay'[t] = "clear" => text'[t] = 0
<1> USE DEF Phases, TextTypes, Settled
<1>1. ASSUME NEW u \in Turns, Relay(u)
      PROVE  Goal
  <2>1. \A v \in Turns \ {u} :
          text'[v] = text[v] /\ status'[v] = status[v] /\ relay'[v] = relay[v]
    <3>1. CASE RelayCancelled(u) \/ RelayClosed(u) \/ RelayDone(u) \/ RelaySent(u)
      BY <3>1 DEF RelayCancelled, RelayClosed, RelayDone, RelaySent, GoFinish
    <3>2. CASE RunTurn(u) \/ RelayForward(u)
      BY <3>2 DEF RunTurn, RelayForward
    <3>3. CASE \/ RelaySwallow(u) \/ RelaySend(u) \/ FinishAppend(u) \/ FinishClear(u)
               \/ FinishLoad(u) \/ RelayExit(u) \/ FinishJournal(u)
      BY <3>3 DEF RelaySwallow, RelaySend, FinishAppend, FinishClear, FinishLoad, RelayExit,
         FinishJournal
    <3> QED
      BY <1>1, <3>1, <3>2, <3>3 DEF Relay
  <2>2. /\ relay[u] \in {"append"} \cup Settled =>
             text'[u] = text[u] /\ status'[u] = status[u]
        /\ relay[u] \in {"loop", "publish"} /\ relay'[u] = "clear" => text'[u] = 0
    <3>1. CASE RelayCancelled(u) \/ RelayClosed(u) \/ RelayDone(u) \/ RelaySent(u)
      <4>1. relay[u] \in {"loop", "publish"} /\ text' = text
        BY <3>1 DEF RelayCancelled, RelayClosed, RelayDone, RelaySent
      <4>2. relay'[u] \in {"loop", IF text[u] > 0 THEN "append" ELSE "clear"}
        BY <3>1 DEF RelayCancelled, RelayClosed, RelayDone, RelaySent, GoFinish
      <4> QED
        BY <4>1, <4>2
    <3>2. CASE RunTurn(u) \/ RelayForward(u)
      BY <3>2 DEF RunTurn, RelayForward
    <3>3. CASE \/ RelaySwallow(u) \/ RelaySend(u) \/ FinishAppend(u) \/ FinishClear(u)
               \/ FinishLoad(u) \/ RelayExit(u) \/ FinishJournal(u)
      BY <3>3 DEF RelaySwallow, RelaySend, FinishAppend, FinishClear, FinishLoad, RelayExit,
         FinishJournal
    <3> QED
      BY <1>1, <3>1, <3>2, <3>3 DEF Relay
  <2> QED
    BY <2>1, <2>2
<1>2. ASSUME NEW u \in Turns, StartCheck(u) \/ Start(u) \/ SyncStart(u) PROVE Goal
  BY <1>2 DEF StartCheck, Start, StartAppend, StartCreate, StartMark, StartSpawn, SyncStart
<1>3. ASSUME NEW u \in Turns, \/ AgentSend(u) \/ AgentClose(u) \/ Cancel(u)
                              \/ Attach(u) \/ Read(u) \/ Detach(u)
      PROVE  Goal
  BY <1>3 DEF AgentSend, AgentClose, Cancel, Attach, Read, Detach
<1>4. ASSUME Elapse \/ DeleteSession \/ Crash \/ UNCHANGED vars PROVE Goal
  BY <1>4 DEF Elapse, DeleteSession, Crash, vars
<1> QED
  BY <1>1, <1>2, <1>3, <1>4 DEF Next

(* What a step does to the payload of done. *)
LEMMA PayloadStep ==
  ASSUME Phases, MsgTypes, [Next]_vars
  PROVE  \/ UNCHANGED payload /\ \A t \in Turns : ~(relay[t] = "load" /\ relay'[t] = "finish")
         \/ \E u \in Turns :
              /\ relay[u] = "load" /\ relay' = [relay EXCEPT ![u] = "finish"]
              /\ payload' = [payload EXCEPT ![u] = msgs]
<1> DEFINE Quiet == /\ UNCHANGED payload
                    /\ \A t \in Turns : ~(relay[t] = "load" /\ relay'[t] = "finish")
<1> USE DEF Phases
<1>1. ASSUME NEW u \in Turns, FinishLoad(u)
      PROVE  /\ relay[u] = "load" /\ relay' = [relay EXCEPT ![u] = "finish"]
             /\ payload' = [payload EXCEPT ![u] = msgs]
  BY <1>1 DEF FinishLoad
<1>2. ASSUME NEW u \in Turns,
             \/ RunTurn(u) \/ RelayForward(u) \/ FinishJournal(u)
             \/ RelayCancelled(u) \/ RelayClosed(u) \/ RelayDone(u) \/ RelaySwallow(u)
             \/ RelaySend(u) \/ RelaySent(u) \/ FinishClear(u)
             \/ FinishAppend(u) \/ RelayExit(u)
      PROVE  Quiet
  BY <1>2 DEF RelayCancelled, RelayClosed, RelayDone, RelaySwallow, RelaySend, RelaySent,
     FinishClear, FinishAppend, RelayExit, RunTurn, RelayForward, FinishJournal, GoFinish,
     Journaled, journal
<1>3. ASSUME NEW u \in Turns, StartCheck(u) \/ Start(u) \/ SyncStart(u) PROVE Quiet
  BY <1>3 DEF StartCheck, Start, StartAppend, StartCreate, StartMark, StartSpawn, SyncStart,
     journal
<1>4. ASSUME NEW u \in Turns, \/ AgentSend(u) \/ AgentClose(u) \/ Cancel(u)
                              \/ Attach(u) \/ Read(u) \/ Detach(u)
      PROVE  Quiet
  BY <1>4 DEF AgentSend, AgentClose, Cancel, Attach, Read, Detach, journal
<1>5. ASSUME Elapse \/ DeleteSession \/ Crash \/ UNCHANGED vars PROVE Quiet
  BY <1>5 DEF Elapse, DeleteSession, Crash, vars, journal
<1> QED
  BY <1>1, <1>2, <1>3, <1>4, <1>5 DEF Next, Relay

(* What a step does to the busy marker. *)
LEMMA BusyStep ==
  ASSUME Phases, [Next]_vars
  PROVE  /\ crashed => crashed'
         /\ \/ busy' = 0
            \/ busy' \in Turns /\ exists /\ hs[busy'] = "created" /\ hs'[busy'] = "marked"
               /\ UNCHANGED <<msgs, exists>>
            \/ /\ busy' = busy /\ (exists => exists' \/ busy = 0)
               /\ \A t \in Turns : ~(relay[t] = "clear" /\ relay'[t] = "load")
               /\ \A t \in Turns : hs[t] = "marked" /\ hs'[t] = "returned" => relay'[t] = "setup"
<1> DEFINE Still ==
      /\ crashed => crashed'
      /\ busy' = busy /\ (exists => exists' \/ busy = 0)
      /\ \A t \in Turns : ~(relay[t] = "clear" /\ relay'[t] = "load")
      /\ \A t \in Turns : hs[t] = "marked" /\ hs'[t] = "returned" => relay'[t] = "setup"
<1> USE DEF Phases
<1>1. ASSUME NEW u \in Turns, FinishClear(u) PROVE (crashed => crashed') /\ busy' = 0
  BY <1>1 DEF FinishClear
<1>2. ASSUME NEW u \in Turns, StartMark(u)
      PROVE  \/ Still
             \/ /\ crashed => crashed'
                /\ busy' = u /\ exists /\ hs[u] = "created" /\ hs'[u] = "marked"
                /\ UNCHANGED <<msgs, exists>>
  BY <1>2 DEF StartMark
<1>3. ASSUME NEW u \in Turns,
             \/ RunTurn(u) \/ RelayForward(u) \/ FinishJournal(u)
             \/ RelayCancelled(u) \/ RelayClosed(u) \/ RelayDone(u) \/ RelaySwallow(u)
             \/ RelaySend(u) \/ RelaySent(u) \/ FinishLoad(u)
             \/ FinishAppend(u) \/ RelayExit(u)
      PROVE  Still
  <2>1. UNCHANGED <<busy, exists, crashed, hs>>
    BY <1>3 DEF RelayCancelled, RelayClosed, RelayDone, RelaySwallow, RelaySend, RelaySent,
       FinishLoad, FinishAppend, RelayExit, RunTurn, RelayForward, FinishJournal, row
  <2>2. \/ UNCHANGED relay
        \/ \E p \in RelayPhases : relay' = [relay EXCEPT ![u] = p] /\ <<relay[u], p>> # <<"clear", "load">>
    BY <1>3 DEF RelayCancelled, RelayClosed, RelayDone, RelaySwallow, RelaySend, RelaySent,
       FinishLoad, FinishAppend, RelayExit, RunTurn, RelayForward, FinishJournal, GoFinish,
       RelayPhases
  <2>3. \A t \in Turns : ~(relay[t] = "clear" /\ relay'[t] = "load")
    BY <2>2
  <2> QED
    BY <2>1, <2>3
<1>4. ASSUME NEW u \in Turns, \/ StartCheck(u) \/ StartAppend(u) \/ StartCreate(u)
                              \/ StartSpawn(u) \/ SyncStart(u)
      PROVE  Still
  BY <1>4 DEF StartCheck, StartAppend, StartCreate, StartSpawn, SyncStart, row
<1>5. ASSUME NEW u \in Turns, \/ AgentSend(u) \/ AgentClose(u) \/ Cancel(u)
                              \/ Attach(u) \/ Read(u) \/ Detach(u)
      PROVE  Still
  BY <1>5 DEF AgentSend, AgentClose, Cancel, Attach, Read, Detach, row
<1>6. ASSUME DeleteSession PROVE (crashed => crashed') /\ busy' = 0
  BY <1>6 DEF DeleteSession
<1>7. ASSUME Elapse \/ Crash \/ UNCHANGED vars PROVE Still
  BY <1>7 DEF Elapse, Crash, vars, row
<1> QED
  BY <1>1, <1>2, <1>3, <1>4, <1>5, <1>6, <1>7 DEF Next, Relay, Start

LEMMA Growth ==
  ASSUME NEW s \in Seq(Msg), NEW m \in Msg
  PROVE  /\ Append(s, m) \in Seq(Msg)
         /\ Len(s) \in Nat /\ Len(Append(s, m)) = Len(s) + 1
         /\ \A k \in 1..Len(s) : Append(s, m)[k] = s[k]
         /\ Append(s, m)[Len(s) + 1] = m
OBVIOUS

LEMMA GrowthIn ==
  ASSUME NEW s \in Seq(Msg), NEW m \in Msg
  PROVE  In(m, Append(s, m)) /\ \A x : In(x, s) => In(x, Append(s, m))
<1>1. /\ Len(s) \in Nat /\ Len(Append(s, m)) = Len(s) + 1
      /\ \A k \in 1..Len(s) : Append(s, m)[k] = s[k]
      /\ Append(s, m)[Len(s) + 1] = m
  BY Growth
<1>2. Len(s) + 1 \in 1..Len(Append(s, m)) /\ 1..Len(s) \subseteq 1..Len(Append(s, m))
  BY ONLY <1>1
<1> QED
  BY ONLY <1>1, <1>2 DEF In

LEMMA MessageIn ==
  ASSUME TextTypes, NEW t \in Turns
  PROVE  User(t) \in Msg /\ Assistant(t) \in Msg
BY DEF TextTypes, User, Assistant, Msg

LEMMA MsgTypesStep ==
  ASSUME Phases, TextTypes, MsgTypes, [Next]_vars
  PROVE  MsgTypes'
<1>1. msgs \in Seq(Msg) /\ payload \in [Turns -> Seq(Msg)]
  BY DEF MsgTypes
<1>2. msgs' \in Seq(Msg)
  <2>1. \A t \in Turns : Append(msgs, User(t)) \in Seq(Msg) /\ Append(msgs, Assistant(t)) \in Seq(Msg)
    BY <1>1, MessageIn, Growth
  <2>2. <<>> \in Seq(Msg)
    OBVIOUS
  <2> QED
    BY <1>1, <2>1, <2>2, MsgStep
<1>3. payload' \in [Turns -> Seq(Msg)]
  BY <1>1, PayloadStep
<1> QED
  BY <1>2, <1>3 DEF MsgTypes

(* What is stored tells where its turn is: the question of a turn whose      *)
(* handler passed AppendMessage is there, and no question or answer is ahead *)
(* of the statement that stores it.                                          *)
StoreInv ==
  /\ exists => \A t \in Turns : hs[t] \in Asked => In(User(t), msgs)
  /\ \A k \in 1..Len(msgs) :
       /\ msgs[k].role = "user" => hs[msgs[k].turn] \notin {"none", "checked", "failed"}
       /\ msgs[k].role = "assistant" => relay[msgs[k].turn] \in Settled \cup {"lost"}
  /\ AnswerFollowsQuestion

LEMMA StoreStep ==
  ASSUME Phases, PhaseInv, TextTypes, MsgTypes, StoreInv, [Next]_vars
  PROVE  StoreInv'
<1> DEFINE Placed(m) ==
      /\ m.role = "user" => hs[m.turn] \notin {"none", "checked", "failed"}
      /\ m.role = "assistant" => relay[m.turn] \in Settled \cup {"lost"}
<1> DEFINE PlacedNext(m) ==
      /\ m.role = "user" => hs'[m.turn] \notin {"none", "checked", "failed"}
      /\ m.role = "assistant" => relay'[m.turn] \in Settled \cup {"lost"}
<1> DEFINE Ordered(s) ==
      \A k \in 1..Len(s) :
        /\ s[k].role = "assistant" => \E j \in 1..(k - 1) : s[j] = User(s[k].turn)
        /\ \A j \in 1..Len(s) :
             s[j].role = s[k].role /\ s[j].turn = s[k].turn => j = k
<1>1. /\ msgs \in Seq(Msg)
      /\ \A k \in 1..Len(msgs) : msgs[k] \in Msg /\ Placed(msgs[k])
      /\ Ordered(msgs)
  BY DEF MsgTypes, StoreInv, AnswerFollowsQuestion
<1>2. \A t \in Turns : HandlerMove(t) /\ RelayMove(t)
  BY HandlerStep, RelayStep
<1>3. \A m \in Msg : Placed(m) => PlacedNext(m)
  <2>1. \A m \in Msg : m.turn \in Turns
    BY DEF Msg
  <2>2. ASSUME NEW t \in Turns
        PROVE  /\ hs[t] \notin {"none", "checked", "failed"} =>
                    hs'[t] \notin {"none", "checked", "failed"}
               /\ relay[t] \in Settled \cup {"lost"} => relay'[t] \in Settled \cup {"lost"}
    BY <1>2 DEF HandlerMove, RelayMove, HandlerMoves, RelayMoves, Settled
  <2> QED
    BY <2>1, <2>2
<1>4. ASSUME UNCHANGED <<msgs, exists>>, exists => \A t \in Turns : ~Stores(t)
      PROVE  StoreInv'
  <2>1. ASSUME exists, NEW t \in Turns, hs'[t] \in Asked PROVE hs[t] \in Asked
    BY <1>2, <1>4, <2>1 DEF Stores, HandlerMove, HandlerMoves, Asked
  <2>2. exists' => \A t \in Turns : hs'[t] \in Asked => In(User(t), msgs')
    BY <1>4, <2>1 DEF StoreInv
  <2>3. \A k \in 1..Len(msgs') : PlacedNext(msgs'[k])
    BY <1>1, <1>3, <1>4
  <2>4. Ordered(msgs')
    BY <1>1, <1>4
  <2> QED
    BY <2>2, <2>3, <2>4 DEF StoreInv, AnswerFollowsQuestion, In, User
<1>5. ASSUME NEW m \in Msg, msgs' = Append(msgs, m), PlacedNext(m),
             m.role = "assistant" => In(User(m.turn), msgs),
             \A k \in 1..Len(msgs) :
               ~(msgs[k].role = m.role /\ msgs[k].turn = m.turn)
      PROVE  Ordered(msgs') /\ \A k \in 1..Len(msgs') : PlacedNext(msgs'[k])
  <2> DEFINE n == Len(msgs)
  <2>1. /\ n \in Nat /\ Len(msgs') = n + 1
        /\ \A k \in 1..n : msgs'[k] = msgs[k]
        /\ msgs'[n + 1] = m
    BY <1>1, <1>5, Growth
  <2>2. \A k \in 1..Len(msgs') : k \in 1..n \/ k = n + 1
    BY <2>1
  <2>3. \A k \in 1..Len(msgs') : PlacedNext(msgs'[k])
    BY <1>1, <1>3, <1>5, <2>1, <2>2
  <2>4. ASSUME NEW k \in 1..Len(msgs'), msgs'[k].role = "assistant"
        PROVE  \E j \in 1..(k - 1) : msgs'[j] = User(msgs'[k].turn)
    <3> HIDE DEF n
    <3>1. CASE k \in 1..n
      <4>1. PICK j \in 1..(k - 1) : msgs[j] = User(msgs[k].turn)
        BY <1>1, <2>1, <2>4, <3>1 DEF n
      <4> QED
        BY <2>1, <3>1, <4>1
    <3>2. CASE k = n + 1
      <4>1. PICK j \in 1..n : msgs[j] = User(m.turn)
        BY <1>5, <2>1, <2>4, <3>2 DEF In, n
      <4>2. j \in 1..(k - 1)
        BY <2>1, <3>2, <4>1
      <4> QED
        BY <2>1, <3>2, <4>1, <4>2
    <3> QED
      BY <2>2, <3>1, <3>2
  <2>5. ASSUME NEW k \in 1..Len(msgs'), NEW j \in 1..Len(msgs'),
               msgs'[j].role = msgs'[k].role, msgs'[j].turn = msgs'[k].turn
        PROVE  j = k
    <3>1. CASE k \in 1..n /\ j \in 1..n
      BY <1>1, <2>1, <2>5, <3>1
    <3>2. CASE k = n + 1 /\ j \in 1..n
      BY <1>5, <2>1, <2>5, <3>2
    <3>3. CASE k \in 1..n /\ j = n + 1
      BY <1>5, <2>1, <2>5, <3>3
    <3> QED
      BY <2>2, <3>1, <3>2, <3>3
  <2> QED
    BY <2>3, <2>4, <2>5
<1>6. ASSUME NEW u \in Turns, NEW p \in {"sync", "appended"}, exists,
             msgs' = Append(msgs, User(u)),
             hs[u] \in {"none", "checked"}, hs' = [hs EXCEPT ![u] = p]
      PROVE  StoreInv'
  <2>1. /\ User(u) \in Msg /\ User(u).role = "user" /\ User(u).turn = u
        /\ hs' = [hs EXCEPT ![u] = p] /\ hs \in [Turns -> HandlerPhases]
    BY <1>6, MessageIn DEF Phases, User
  <2>2. \A k \in 1..Len(msgs) : ~(msgs[k].role = "user" /\ msgs[k].turn = u)
    BY <1>1, <1>6
  <2>3. PlacedNext(User(u))
    BY <1>6, <2>1
  <2>4. Ordered(msgs') /\ \A k \in 1..Len(msgs') : PlacedNext(msgs'[k])
    <3> HIDE DEF Ordered, PlacedNext
    <3> QED
      BY <1>5, <1>6, <2>1, <2>2, <2>3
  <2>5. ASSUME NEW t \in Turns, hs'[t] \in Asked PROVE In(User(t), msgs')
    <3>1. CASE t = u
      BY <1>1, <1>6, <2>1, <3>1, GrowthIn
    <3>2. CASE t # u
      <4>1. In(User(t), msgs)
        BY <1>6, <2>1, <2>5, <3>2 DEF StoreInv
      <4> QED
        BY <1>1, <1>6, <2>1, <4>1, GrowthIn
    <3> QED
      BY <3>1, <3>2
  <2> QED
    BY <2>4, <2>5 DEF StoreInv, AnswerFollowsQuestion, In, User
<1>7. ASSUME NEW u \in Turns, exists, msgs' = Append(msgs, Assistant(u)),
             relay[u] = "append", relay' = [relay EXCEPT ![u] = "clear"], UNCHANGED hs
      PROVE  StoreInv'
  <2>1. /\ Assistant(u) \in Msg /\ Assistant(u).role = "assistant" /\ Assistant(u).turn = u
        /\ relay'[u] = "clear"
    BY <1>7, MessageIn DEF Phases, Assistant
  <2>2. \A k \in 1..Len(msgs) : ~(msgs[k].role = "assistant" /\ msgs[k].turn = u)
    BY <1>1, <1>7 DEF Settled
  <2>3. PlacedNext(Assistant(u))
    BY <2>1 DEF Settled
  <2>4. In(User(u), msgs)
    <3>1. hs[u] = "returned"
      BY <1>7 DEF PhaseInv, Live, RelayPhases
    <3> QED
      BY <1>7, <3>1 DEF StoreInv, Asked
  <2>5. Ordered(msgs') /\ \A k \in 1..Len(msgs') : PlacedNext(msgs'[k])
    <3> HIDE DEF Ordered, PlacedNext
    <3> QED
      BY <1>5, <1>7, <2>1, <2>2, <2>3, <2>4
  <2>6. ASSUME NEW t \in Turns, hs'[t] \in Asked PROVE In(User(t), msgs')
    <3>1. In(User(t), msgs)
      BY <1>7, <2>6 DEF StoreInv
    <3> QED
      BY <1>1, <1>7, <2>1, <3>1, GrowthIn
  <2> QED
    BY <2>5, <2>6 DEF StoreInv, AnswerFollowsQuestion, In, User
<1>8. ASSUME ~exists', msgs' = <<>> PROVE StoreInv'
  BY <1>8 DEF StoreInv, AnswerFollowsQuestion
<1> QED
  BY <1>4, <1>6, <1>7, <1>8, MsgStep

(* A turn that is past AppendMessage has its answer in the row, and past     *)
(* GetSession in the payload.                                                *)
AnswerInv ==
  \A t \in Turns :
    exists /\ text[t] > 0 =>
      /\ relay[t] \in Settled => In(Assistant(t), msgs)
      /\ relay[t] \in Informed => In(Assistant(t), payload[t])

LEMMA AnswerStep ==
  ASSUME Phases, PhaseInv, TextTypes, MsgTypes, AnswerInv, [Next]_vars
  PROVE  AnswerInv'
<1>1. SUFFICES ASSUME NEW t \in Turns, exists', text'[t] > 0
      PROVE  /\ relay'[t] \in Settled => In(Assistant(t)', msgs')
             /\ relay'[t] \in Informed => In(Assistant(t)', payload'[t])
  BY DEF AnswerInv, In, Assistant
<1>2. RelayMove(t)
  BY RelayStep
<1>3. exists
  BY <1>1, MsgStep
<1>4. /\ msgs \in Seq(Msg)
      /\ \A u \in Turns : User(u) \in Msg /\ Assistant(u) \in Msg
  BY MessageIn DEF MsgTypes
<1>5. \A x : In(x, msgs) => In(x, msgs')
  <2>1. ASSUME NEW m \in Msg, msgs' = Append(msgs, m), NEW x, In(x, msgs)
        PROVE  In(x, msgs')
    BY <1>4, <2>1, GrowthIn
  <2>2. ASSUME UNCHANGED msgs, NEW x, In(x, msgs)
        PROVE  In(x, msgs')
    BY <2>2
  <2> QED
    BY <1>1, <1>4, <2>1, <2>2, MsgStep
<1>6. relay[t] \in {"append"} \cup Settled =>
        Assistant(t)' = Assistant(t) /\ text[t] > 0
  BY <1>1, TextStep DEF Assistant
<1>7. \/ relay'[t] \notin Settled
      \/ relay[t] \in Settled
      \/ relay[t] = "append" /\ relay'[t] = "clear"
  <2>1. ~(relay[t] \in {"loop", "publish"} /\ relay'[t] = "clear")
    BY <1>1, TextStep
  <2> QED
    BY <1>2, <2>1 DEF RelayMove, RelayMoves, Settled
<1>8. relay'[t] \in Settled => In(Assistant(t)', msgs')
  <2>1. CASE relay[t] \in Settled
    BY <1>1, <1>3, <1>5, <1>6, <2>1 DEF AnswerInv
  <2>2. CASE relay[t] = "append" /\ relay'[t] = "clear"
    <3>1. PICK u \in Turns : /\ msgs' = Append(msgs, Assistant(u))
                             /\ relay[u] = "append" /\ relay' = [relay EXCEPT ![u] = "clear"]
      <4>1. Stores(t)
        BY <2>2 DEF Stores
      <4> QED
        BY <1>1, <1>3, <2>2, <4>1, MsgStep
    <3>2. u = t
      BY <2>2, <3>1 DEF Phases
    <3> QED
      BY <1>4, <1>6, <2>2, <3>1, <3>2, GrowthIn
  <2> QED
    BY <1>7, <2>1, <2>2
<1>9. relay'[t] \in Informed => In(Assistant(t)', payload'[t])
  <2>1. \/ relay'[t] \notin Informed
        \/ relay[t] \in Informed
        \/ relay[t] = "load" /\ relay'[t] = "finish"
    BY <1>2 DEF RelayMove, RelayMoves, Informed
  <2>2. CASE relay[t] \in Informed
    <3>1. In(Assistant(t)', payload[t])
      BY <1>1, <1>3, <1>6, <2>2 DEF AnswerInv, Informed, Settled
    <3>2. payload'[t] = payload[t]
      BY <2>2, PayloadStep DEF MsgTypes, Informed
    <3> QED
      BY <3>1, <3>2
  <2>3. CASE relay[t] = "load" /\ relay'[t] = "finish"
    <3>1. In(Assistant(t)', msgs)
      BY <1>1, <1>3, <1>6, <2>3 DEF AnswerInv, Settled
    <3>2. payload'[t] = msgs
      <4>1. PICK u \in Turns : /\ relay[u] = "load" /\ relay' = [relay EXCEPT ![u] = "finish"]
                               /\ payload' = [payload EXCEPT ![u] = msgs]
        BY <2>3, PayloadStep
      <4>2. u = t
        BY <2>3, <4>1 DEF Phases
      <4> QED
        BY <4>1, <4>2 DEF MsgTypes
    <3> QED
      BY <3>1, <3>2
  <2> QED
    BY <2>1, <2>2, <2>3
<1> QED
  BY <1>8, <1>9

-----------------------------------------------------------------------------
(* The busy marker *)

BusyInv ==
  /\ ~exists => busy = 0
  /\ BusyHasOwner
  /\ BusyHasQuestion

LEMMA BusyInvStep ==
  ASSUME Phases, PhaseInv, TextTypes, MsgTypes, RowTypes, StoreInv, BusyInv, [Next]_vars
  PROVE  BusyInv'
<1>1. CASE busy' = 0
  BY <1>1 DEF BusyInv, BusyHasOwner, BusyHasQuestion
<1>2. CASE /\ busy' \in Turns /\ exists /\ hs[busy'] = "created" /\ hs'[busy'] = "marked"
           /\ UNCHANGED <<msgs, exists>>
  <2>1. In(User(busy'), msgs)
    BY <1>2 DEF StoreInv, Asked
  <2> QED
    BY <1>2, <2>1 DEF BusyInv, BusyHasOwner, BusyHasQuestion, In, User
<1>3. CASE /\ busy' = busy /\ (exists => exists' \/ busy = 0)
           /\ \A t \in Turns : ~(relay[t] = "clear" /\ relay'[t] = "load")
           /\ \A t \in Turns : hs[t] = "marked" /\ hs'[t] = "returned" => relay'[t] = "setup"
  <2>1. SUFFICES ASSUME busy # 0, exists, exists'
        PROVE  BusyInv'
    BY <1>1, <1>3 DEF BusyInv
  <2>2. busy \in Turns
    BY <2>1, ChatAssumption DEF RowTypes, Turns
  <2>3. HandlerMove(busy) /\ RelayMove(busy) /\ (crashed => crashed')
    BY <2>2, HandlerStep, RelayStep, BusyStep
  <2>4. BusyHasOwner'
    BY <1>3, <2>1, <2>2, <2>3
    DEF BusyInv, BusyHasOwner, HandlerMove, RelayMove, HandlerMoves, RelayMoves
  <2>5. In(User(busy), msgs')
    <3>1. In(User(busy), msgs)
      BY <2>1 DEF BusyInv, BusyHasQuestion, In
    <3>2. /\ msgs \in Seq(Msg)
          /\ \A u \in Turns : User(u) \in Msg /\ Assistant(u) \in Msg
      BY MessageIn DEF MsgTypes
    <3>3. \/ UNCHANGED msgs
          \/ \E m \in Msg : msgs' = Append(msgs, m)
      BY <2>1, <3>2, MsgStep
    <3> QED
      BY <3>1, <3>2, <3>3, GrowthIn
  <2> QED
    BY <1>3, <2>1, <2>4, <2>5 DEF BusyInv, BusyHasQuestion, In, User
<1> QED
  BY <1>1, <1>2, <1>3, BusyStep

-----------------------------------------------------------------------------
(* The theorems *)

TurnInv ==
  /\ Phases /\ PhaseInv /\ RowTypes /\ AgentTypes /\ JournalTypes /\ DoneInv
  /\ MsgTypes /\ StoreInv /\ AnswerInv /\ BusyInv

LEMMA TextInTypes ==
  ASSUME AgentTypes PROVE TextTypes
BY ChatAssumption DEF AgentTypes, TextTypes

LEMMA TurnInit ==
  ASSUME Init PROVE TurnInv
<1> USE DEF Init
<1>a. /\ 0 \in 0..MaxTurns /\ 0 \in 0..MaxEvents /\ 0 \in 0..ChanCap /\ 0 \in 0..2
      /\ EvCap \in Nat
  BY ONLY ChatAssumption
<1>b. /\ <<>> \in Seq(Kinds) /\ <<>> \in Seq(Kinds \cup {"stream_end"}) /\ <<>> \in Seq(Msg)
      /\ Len(<<>>) = 0 /\ 1..0 = {}
  BY ONLY TRUE
<1>c. \A t \in Turns : /\ text[t] = 0 /\ sent[t] = 0 /\ ev[t] = <<>> /\ log[t] = <<>>
                       /\ payload[t] = <<>> /\ hs[t] = "none" /\ relay[t] = "off"
  OBVIOUS
<1>1. Phases /\ PhaseInv
  BY DEF Phases, PhaseInv, HandlerPhases, RelayPhases, Live
<1>2. RowTypes
  BY <1>a DEF RowTypes
<1>3. AgentTypes
  <2>1. /\ agent \in [Turns -> {"idle", "running", "closed"}]
        /\ sent \in [Turns -> 0..MaxEvents] /\ text \in [Turns -> 0..MaxEvents]
        /\ status \in [Turns -> Statuses]
    BY <1>a DEF Statuses
  <2>2. ev \in [Turns -> Seq(Kinds)]
    BY <1>b
  <2>3. \A t \in Turns : Len(ev[t]) <= EvCap /\ text[t] + Len(ev[t]) <= sent[t]
    BY ONLY <1>a, <1>b, <1>c
  <2> QED
    BY <2>1, <2>2, <2>3 DEF AgentTypes
<1>4. JournalTypes
  BY <1>a, <1>b DEF JournalTypes
<1>5. DoneInv
  BY <1>b, <1>c DEF DoneInv
<1>6. MsgTypes /\ StoreInv
  BY <1>b, <1>c DEF MsgTypes, StoreInv, Asked, AnswerFollowsQuestion
<1>7. AnswerInv /\ BusyInv
  BY <1>c DEF AnswerInv, BusyInv, BusyHasOwner, BusyHasQuestion, Settled, Informed
<1> QED
  BY <1>1, <1>2, <1>3, <1>4, <1>5, <1>6, <1>7 DEF TurnInv

LEMMA TurnStep ==
  ASSUME TurnInv, [Next]_vars PROVE TurnInv'
<1>1. TextTypes
  BY TextInTypes DEF TurnInv
<1>2. Phases' /\ PhaseInv' /\ RowTypes' /\ AgentTypes' /\ JournalTypes' /\ DoneInv'
  BY PhaseStep, RowTypeStep, AgentTypeStep, JournalTypeStep, DoneStep DEF TurnInv
<1>3. MsgTypes' /\ StoreInv' /\ AnswerInv' /\ BusyInv'
  BY <1>1, MsgTypesStep, StoreStep, AnswerStep, BusyInvStep DEF TurnInv
<1> QED
  BY <1>2, <1>3 DEF TurnInv

(* The inductive invariant of the turn (chat.go:66-214). *)
THEOREM TurnInvariant == Spec => []TurnInv
<1>1. Init => TurnInv
  BY TurnInit
<1>2. TurnInv /\ [Next]_vars => TurnInv'
  BY TurnStep
<1> QED
  BY <1>1, <1>2, PTL DEF Spec

(* Every variable keeps its type, and the channels their capacities *)
(* (chat.go:66-211).                                                *)
THEOREM TurnTypes == Spec => []TypeOK
<1>1. TurnInv => TypeOK
  BY DEF TurnInv, Phases, RowTypes, AgentTypes, JournalTypes, Statuses, TypeOK
<1> QED
  BY <1>1, TurnInvariant, PTL

(* However the cancellation, the agent's done and its error race, a turn *)
(* journals one done (chat.go:176-180).                                  *)
THEOREM TurnCompletesOnce == Spec => []OneCompletion
<1>1. TurnInv => OneCompletion
  BY DEF TurnInv, DoneInv, OneCompletion
<1> QED
  BY <1>1, TurnInvariant, PTL

(* Once done is journaled the answer is in the row and in the payload *)
(* (chat.go:200-214).                                                 *)
THEOREM TurnAnswerStored == Spec => []DoneCarriesAnswer
<1>1. TurnInv => DoneCarriesAnswer
  BY DEF TurnInv, AnswerInv, DoneCarriesAnswer, In, Settled, Informed
<1> QED
  BY <1>1, TurnInvariant, PTL

(* Question first, answer after it, each at most once (chat.go:146, 205). *)
THEOREM TurnsStayInOrder == Spec => []AnswerFollowsQuestion
<1>1. TurnInv => AnswerFollowsQuestion
  BY DEF TurnInv, StoreInv
<1> QED
  BY <1>1, TurnInvariant, PTL

(* The busy marker names a turn that will clear it, unless the server has  *)
(* crashed (chat.go:158, 207-211).                                         *)
THEOREM BusyMarkerIsOwned == Spec => []BusyHasOwner
<1>1. TurnInv => BusyHasOwner
  BY DEF TurnInv, BusyInv
<1> QED
  BY <1>1, TurnInvariant, PTL

(* A busy marker, crash or not, names a turn whose question is in the row  *)
(* (chat.go:145-158).                                                      *)
THEOREM BusyMarkerHasQuestion == Spec => []BusyHasQuestion
<1>1. TurnInv => BusyHasQuestion
  BY DEF TurnInv, BusyInv
<1> QED
  BY <1>1, TurnInvariant, PTL
=============================================================================
