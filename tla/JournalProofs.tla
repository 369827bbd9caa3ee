---------------------------- MODULE JournalProofs ----------------------------
(***************************************************************************)
(* Proofs about Journal, for every channel capacity, retention, number of  *)
(* connections and number of events: types, order and end of the streams,  *)
(* and that Journal implements EventStream.                                *)
(***************************************************************************)
EXTENDS Journal, TLAPS

(* The retained events are the last ones, numbered without a hole. *)
EventsInv ==
  /\ Len(events) <= seq
  /\ seq > 0 => Len(events) > 0
  /\ \A k \in 1..Len(events) : events[k] = seq - Len(events) + k

(* What the delivery loop holds are the last events of the journal. *)
BatchInv ==
  /\ Len(batch) <= seq
  /\ Len(frames) <= seq
  /\ \A k \in 1..Len(batch) : batch[k] = seq - Len(batch) + k
  /\ \A k \in 1..Len(frames) : frames[k] = seq - Len(frames) + k
  /\ cur \notin pending
  /\ cur = 0 => frames = <<>>

(* Where connection i stands with respect to the journal. *)
ConnInv(i) ==
  /\ i >= nextID => /\ st[i] = "new" /\ ch[i] = <<>> /\ i \notin subs
                    /\ i # cur /\ i \notin pending /\ ~closed[i]
  /\ pos[i] <= seq
  /\ closed[i] => terminal /\ i # cur /\ i \notin pending
  /\ terminal /\ i \in subs /\ ~closed[i] => i = cur \/ i \in pending
  /\ st[i] = "live" => i \in subs /\ replay[i] = {}
  /\ st[i] = "replay" /\ i \notin subs =>
       terminal /\ i # cur /\ i \notin pending /\ ch[i] = <<>>
  /\ st[i] = "eof" => terminal /\ pos[i] = seq
  /\ st[i] \in Reading => ChannelExact(i) /\ ReplayExact(i)

IInv == TypeOK /\ EventsInv /\ BatchInv /\ \A i \in ConnIds : ConnInv(i)

-----------------------------------------------------------------------------
(* Trimming keeps the last elements, at least one, at most Retain. *)
LEMMA TrimFacts ==
  ASSUME NEW s \in Seq(Nat)
  PROVE  /\ Trim(s) \in Seq(Nat)
         /\ Len(Trim(s)) <= Len(s)
         /\ Len(s) > 0 => Len(Trim(s)) > 0
         /\ Retain > 0 => Len(Trim(s)) <= Retain
         /\ \A k \in 1..Len(Trim(s)) : Trim(s)[k] = s[Len(s) - Len(Trim(s)) + k]
<1>1. CASE Retain > 0 /\ Len(s) > Retain
  <2>1. Trim(s) = SubSeq(s, Len(s) - Retain + 1, Len(s))
    BY <1>1 DEF Trim
  <2>2. Retain \in Nat /\ Len(s) \in Nat
    BY JournalAssumption DEF JournalAssumption
  <2>3. /\ Len(s) - Retain + 1 \in 1..Len(s)
        /\ Len(Trim(s)) = Retain
        /\ Trim(s) \in Seq(Nat)
    BY <1>1, <2>1, <2>2
  <2> QED
    BY <1>1, <2>1, <2>2, <2>3
<1>2. CASE ~(Retain > 0 /\ Len(s) > Retain)
  <2>1. Trim(s) = s
    BY <1>2 DEF Trim
  <2>2. Retain \in Nat /\ Len(s) \in Nat
    BY JournalAssumption DEF JournalAssumption
  <2>3. \A k \in 1..Len(s) : Len(s) - Len(s) + k = k
    BY <2>2
  <2> QED
    BY <1>2, <2>1, <2>2, <2>3
<1> QED
  BY <1>1, <1>2

(* The initial state satisfies the invariant. *)
LEMMA InitIInv == Init => IInv
<1> SUFFICES ASSUME Init PROVE IInv
  OBVIOUS
<1> USE JournalAssumption DEF JournalAssumption, Init
<1>1. TypeOK
  <2>1. 1 \in 1..(MaxConns + 1) /\ <<>> \in Seq(Nat)
    OBVIOUS
  <2>2. \A i \in ConnIds : Len(ch[i]) <= ChanCap
    OBVIOUS
  <2>3. /\ ch \in [ConnIds -> Seq(Nat)] /\ closed \in [ConnIds -> BOOLEAN]
        /\ st \in [ConnIds -> Phases] /\ replay \in [ConnIds -> SUBSET Nat]
        /\ pos \in [ConnIds -> Nat]
    BY <2>1 DEF Phases
  <2>4. Len(events) <= 0 /\ events \in Seq(Nat)
    BY <2>1
  <2>5. Retain > 0 => Len(events) <= Retain
    BY <2>4
  <2>6. /\ subs \subseteq ConnIds /\ pending \subseteq ConnIds
        /\ cur \in ConnIds \cup {0} /\ terminal \in BOOLEAN
        /\ seq \in Nat
    OBVIOUS
  <2> QED
    BY <2>1, <2>2, <2>3, <2>4, <2>5, <2>6, Zenon DEF TypeOK
<1>2. EventsInv /\ BatchInv
  BY DEF EventsInv, BatchInv
<1>3. ASSUME NEW i \in ConnIds PROVE ConnInv(i)
  BY DEF ConnInv, ConnIds, Reading
<1> QED
  BY <1>1, <1>2, <1>3 DEF IInv

-----------------------------------------------------------------------------
(* Publish and Finish: the journal grows by n events, handed to the        *)
(* delivery loop for every registered channel.                             *)
LEMMA GrowIInv ==
  ASSUME IInv, NEW n \in {1, 2}, Idle, ~terminal,
         seq' = seq + n,
         NEW more \in Seq(Nat), Len(more) = n,
         \A k \in 1..n : more[k] = seq + k,
         NEW longer \in Seq(Nat), Len(longer) = Len(events) + n,
         \A k \in 1..Len(events) : longer[k] = events[k],
         \A k \in 1..n : longer[Len(events) + k] = seq + k,
         events' = Trim(longer),
         batch' = more,
         pending' = subs,
         terminal' \in BOOLEAN,
         UNCHANGED <<subs, nextID, cur, frames, conns>>
  PROVE  IInv'
<1> USE DEF IInv, conns
<1>0. /\ n \in Nat /\ seq \in Nat /\ seq' \in Nat
      /\ events \in Seq(Nat) /\ Len(events) \in Nat /\ Len(longer) \in Nat
      /\ Len(longer) > 0
  BY DEF TypeOK
<1>1. /\ events' \in Seq(Nat)
      /\ Len(events') <= Len(longer)
      /\ Len(events') > 0
      /\ Retain > 0 => Len(events') <= Retain
      /\ \A k \in 1..Len(events') :
           events'[k] = longer[Len(longer) - Len(events') + k]
      /\ Len(events') \in Nat
  <2>1. /\ Trim(longer) \in Seq(Nat)
        /\ Len(Trim(longer)) <= Len(longer)
        /\ Len(longer) > 0 => Len(Trim(longer)) > 0
        /\ Retain > 0 => Len(Trim(longer)) <= Retain
        /\ \A k \in 1..Len(Trim(longer)) :
             Trim(longer)[k] = longer[Len(longer) - Len(Trim(longer)) + k]
    BY TrimFacts, Zenon
  <2>2. events' = Trim(longer)
    OBVIOUS
  <2>3. Len(events') \in Nat
    BY <2>1, <2>2
  <2> QED
    BY <1>0, <2>1, <2>2, <2>3, Zenon
<1>2. TypeOK'
  BY <1>0, <1>1 DEF TypeOK
<1>3. EventsInv'
  <2>1. ASSUME NEW k \in 1..Len(longer) PROVE longer[k] = seq + n - Len(longer) + k
    <3>1. CASE k <= Len(events)
      BY <1>0, <3>1 DEF EventsInv
    <3>2. CASE k > Len(events)
      <4>1. k - Len(events) \in 1..n /\ k = Len(events) + (k - Len(events))
        BY <1>0, <3>2
      <4>2. longer[k] = seq + (k - Len(events))
        BY <4>1
      <4> QED
        BY <1>0, <4>2
    <3> QED
      BY <1>0, <3>1, <3>2
  <2>2. ASSUME NEW k \in 1..Len(events')
        PROVE  events'[k] = seq' - Len(events') + k
    <3>1. Len(longer) - Len(events') + k \in 1..Len(longer)
      BY <1>0, <1>1
    <3>2. longer[Len(longer) - Len(events') + k]
            = seq + n - Len(longer) + (Len(longer) - Len(events') + k)
      BY <2>1, <3>1, Zenon
    <3>3. events'[k] = longer[Len(longer) - Len(events') + k]
      BY <1>1, Zenon
    <3>4. seq + n - Len(longer) + (Len(longer) - Len(events') + k)
            = seq' - Len(events') + k
      BY <1>0, <1>1
    <3> QED
      BY <3>2, <3>3, <3>4, Zenon
  <2> QED
    BY <1>0, <1>1, <2>2 DEF EventsInv
<1>4. BatchInv'
  <2>1. batch' = more /\ pending' = subs /\ cur' = 0 /\ frames' = <<>>
    BY DEF Idle, BatchInv
  <2>2. 0 \notin subs
    BY DEF TypeOK, ConnIds
  <2>3. Len(more) <= seq' /\ Len(<<>>) <= seq' /\ \A k \in 1..Len(<<>>) : FALSE
    BY <1>0
  <2>4. \A k \in 1..Len(more) : more[k] = seq' - Len(more) + k
    BY <1>0
  <2> QED
    BY <2>1, <2>2, <2>3, <2>4 DEF BatchInv
<1>5. ASSUME NEW i \in ConnIds PROVE ConnInv(i)'
  <2> USE DEF TypeOK
  <2>1. InFlight(i) = <<>>
    BY DEF InFlight, Idle, ConnIds
  <2>2. InFlight(i)' = IF i \in subs THEN more ELSE <<>>
    BY DEF InFlight, Idle, ConnIds
  <2>3. ~closed[i] /\ st[i] # "eof"
    BY DEF ConnInv
  <2>4. CASE st[i] \in Reading
    <3>1. i \in subs
      BY <2>4 DEF ConnInv, Reading
    <3>2. InFlight(i)' = more /\ Ahead(i)' = Ahead(i) + n /\ Ahead(i) = Len(ch[i])
      BY <2>1, <2>2, <3>1 DEF Ahead
    <3>3. ChannelExact(i)'
      <4>1. ChannelExact(i)
        BY <2>4 DEF ConnInv
      <4>2. ASSUME NEW k \in 1..Len(ch[i])
            PROVE  ch[i][k] = seq' - Ahead(i)' + k
        <5>1. ch[i][k] = seq - Ahead(i) + k
          BY <4>1, Zenon DEF ChannelExact
        <5>2. Ahead(i) \in Nat
          BY <3>2
        <5> QED
          BY <1>0, <3>2, <5>1, <5>2
      <4>3. ASSUME NEW k \in 1..Len(more)
            PROVE  more[k] = seq' - Len(more) + k
        BY <1>0
      <4> QED
        BY <3>2, <4>2, <4>3 DEF ChannelExact
    <3>4. ReplayExact(i)'
      <4>1. ReplayExact(i)
        BY <2>4 DEF ConnInv
      <4>2. seq' - Ahead(i)' = seq - Ahead(i)
        BY <3>2
      <4>3. ASSUME NEW e \in (pos[i] + 1)..(seq - Ahead(i)), e \notin Retained
            PROVE  e \notin Retained'
        <5>1. SUFFICES ASSUME NEW k \in 1..Len(events'), e = events'[k]
                       PROVE  FALSE
          BY DEF Retained
        <5>2. e = seq + n - Len(events') + k
          <6>1. events'[k] = seq' - Len(events') + k
            BY <1>3, Zenon DEF EventsInv
          <6> QED
            BY <5>1, <6>1
        <5>3. e <= seq
          BY <3>2
        <5> DEFINE j == e - (seq - Len(events))
        <5>5. j \in 1..Len(events) /\ events[j] = e
          <6>1. j \in 1..Len(events)
            <7>1. Len(events') <= Len(events) + n /\ Len(events') \in Nat
              BY <1>1
            <7>2. k \in Nat /\ k >= 1
              BY <7>1
            <7>3. e \in Int /\ e >= seq + n - (Len(events) + n) + 1
              BY <1>0, <5>2, <7>1, <7>2
            <7>4. e - (seq - Len(events)) \in Int
                    /\ e - (seq - Len(events)) >= 1
                    /\ e - (seq - Len(events)) <= Len(events)
              BY <1>0, <5>3, <7>3
            <7> QED
              BY <1>0, <7>4
          <6>2. events[j] = seq - Len(events) + j
            BY <6>1, Zenon DEF EventsInv
          <6> QED
            BY <1>0, <6>1, <6>2
        <5> QED
          BY <4>3, <5>5 DEF Retained
      <4> QED
        BY <4>1, <4>2, <4>3 DEF ReplayExact
    <3> QED
      BY <2>3, <2>4, <3>1, <3>3, <3>4, SMTT(30) DEF ConnInv, Reading
  <2>5. CASE st[i] \notin Reading
    BY <2>3, <2>5, SMTT(30) DEF ConnInv, Reading
  <2> QED
    BY <2>4, <2>5
<1> QED
  BY <1>2, <1>3, <1>4, <1>5

LEMMA PublishIInv == IInv /\ Publish => IInv'
<1> SUFFICES ASSUME IInv, Publish PROVE IInv'
  OBVIOUS
<1>1. seq \in Nat /\ events \in Seq(Nat) /\ terminal \in BOOLEAN
  BY DEF IInv, TypeOK
<1> DEFINE longer == Append(events, seq + 1)
<1>2. /\ longer \in Seq(Nat)
      /\ Len(longer) = Len(events) + 1
      /\ \A k \in 1..Len(events) : longer[k] = events[k]
      /\ \A k \in 1..1 : longer[Len(events) + k] = seq + k
  BY <1>1
<1>3. /\ <<seq + 1>> \in Seq(Nat) /\ Len(<<seq + 1>>) = 1
      /\ \A k \in 1..1 : <<seq + 1>>[k] = seq + k
  BY <1>1
<1> HIDE DEF longer
<1>4. /\ Idle /\ ~terminal /\ seq' = seq + 1 /\ events' = Trim(longer)
      /\ batch' = <<seq + 1>> /\ pending' = subs /\ terminal' \in BOOLEAN
      /\ UNCHANGED <<subs, nextID, cur, frames, conns>>
  BY <1>1 DEF Publish, longer
<1> QED
  BY <1>2, <1>3, <1>4, GrowIInv

LEMMA FinishIInv == IInv /\ Finish => IInv'
<1> SUFFICES ASSUME IInv, Finish PROVE IInv'
  OBVIOUS
<1>1. seq \in Nat /\ events \in Seq(Nat) /\ terminal \in BOOLEAN
  BY DEF IInv, TypeOK
<1> DEFINE longer == Append(Append(events, seq + 1), seq + 2)
<1>2. /\ longer \in Seq(Nat)
      /\ Len(longer) = Len(events) + 2
      /\ \A k \in 1..Len(events) : longer[k] = events[k]
      /\ \A k \in 1..2 : longer[Len(events) + k] = seq + k
  BY <1>1
<1>3. /\ <<seq + 1, seq + 2>> \in Seq(Nat) /\ Len(<<seq + 1, seq + 2>>) = 2
      /\ \A k \in 1..2 : <<seq + 1, seq + 2>>[k] = seq + k
  BY <1>1
<1> HIDE DEF longer
<1>4. /\ Idle /\ ~terminal /\ seq' = seq + 2 /\ events' = Trim(longer)
      /\ batch' = <<seq + 1, seq + 2>> /\ pending' = subs
      /\ terminal' \in BOOLEAN
      /\ UNCHANGED <<subs, nextID, cur, frames, conns>>
  BY <1>1 DEF Finish, longer
<1> QED
  BY <1>2, <1>3, <1>4, GrowIInv

-----------------------------------------------------------------------------
(* A step that leaves alone what connection i depends on keeps its part.   *)
LEMMA ConnFrame ==
  ASSUME NEW i \in ConnIds, ConnInv(i),
         UNCHANGED <<hub, ch[i], closed[i], st[i], replay[i], pos[i]>>,
         InFlight(i)' = InFlight(i),
         i \in subs' <=> i \in subs,
         (i = cur' \/ i \in pending') <=> (i = cur \/ i \in pending),
         i >= nextID' => i >= nextID
  PROVE  ConnInv(i)'
<1>1. /\ seq' = seq /\ events' = events /\ terminal' = terminal
      /\ ch'[i] = ch[i] /\ closed'[i] = closed[i] /\ st'[i] = st[i]
      /\ replay'[i] = replay[i] /\ pos'[i] = pos[i]
  BY DEF hub
<1>2. Ahead(i)' = Ahead(i) /\ Retained' = Retained
  BY <1>1 DEF Ahead, Retained
<1>3. ChannelExact(i)' = ChannelExact(i)
  BY <1>1, <1>2 DEF ChannelExact
<1>4. ReplayExact(i)' = ReplayExact(i)
  BY <1>1, <1>2 DEF ReplayExact
<1> QED
  BY <1>1, <1>3, <1>4 DEF ConnInv

LEMMA TakeSubIInv == \A i \in ConnIds : IInv /\ TakeSub(i) => IInv'
<1> SUFFICES ASSUME NEW i \in ConnIds, IInv, TakeSub(i) PROVE IInv'
  OBVIOUS
<1> USE DEF IInv, TakeSub
<1>1. TypeOK'
  BY DEF TypeOK, hub, conns
<1>2. EventsInv' /\ BatchInv'
  BY DEF TypeOK, EventsInv, BatchInv, hub, ConnIds
<1>3. ASSUME NEW k \in ConnIds PROVE ConnInv(k)'
  <2>1. InFlight(k)' = InFlight(k)
    BY DEF InFlight, ConnIds
  <2>2. (k = cur' \/ k \in pending') <=> (k = cur \/ k \in pending)
    BY DEF ConnIds
  <2> QED
    BY <2>1, <2>2, ConnFrame DEF conns
<1> QED
  BY <1>1, <1>2, <1>3

LEMMA SendIInv == IInv /\ Send => IInv'
<1> SUFFICES ASSUME IInv, Send PROVE IInv'
  OBVIOUS
<1> USE DEF IInv, Send, TypeOK
<1>1. /\ cur \in ConnIds /\ frames \in Seq(Nat) /\ frames # <<>>
      /\ ch[cur] \in Seq(Nat) /\ Head(frames) \in Nat
      /\ Len(frames) \in Nat /\ Len(frames) > 0
      /\ Len(ch[cur]) \in Nat
      /\ frames' = Tail(frames) /\ Len(frames') = Len(frames) - 1
      /\ ch'[cur] = Append(ch[cur], Head(frames))
      /\ Len(ch'[cur]) = Len(ch[cur]) + 1
      /\ \A k \in ConnIds : k # cur => ch'[k] = ch[k]
      /\ seq \in Nat /\ seq' = seq /\ events' = events
  BY DEF hub
<1>2. TypeOK'
  <2>1. ch' \in [ConnIds -> Seq(Nat)]
    BY <1>1
  <2>2. \A k \in ConnIds : Len(ch'[k]) <= ChanCap
    BY <1>1, JournalAssumption DEF JournalAssumption
  <2> QED
    BY <1>1, <2>1, <2>2 DEF hub
<1>3. \A k \in 1..Len(frames) : frames[k] = seq - Len(frames) + k
  BY DEF BatchInv
<1>4. \A k \in 1..Len(frames') : frames'[k] = seq - Len(frames') + k
  <2> SUFFICES ASSUME NEW k \in 1..Len(frames')
               PROVE  frames'[k] = seq - Len(frames') + k
    OBVIOUS
  <2>1. k + 1 \in 1..Len(frames) /\ frames'[k] = frames[k + 1]
    BY <1>1
  <2> QED
    BY <1>1, <1>3, <2>1
<1>5. EventsInv' /\ BatchInv'
  <2>1. EventsInv'
    BY <1>1 DEF EventsInv, hub
  <2>2. Len(frames') <= seq
    BY <1>1 DEF BatchInv
  <2> QED
    BY <1>1, <1>4, <2>1, <2>2 DEF BatchInv, hub, ConnIds
<1>6. ASSUME NEW i \in ConnIds PROVE ConnInv(i)'
  <2>1. CASE i # cur
    <3>1. InFlight(i)' = InFlight(i)
      BY <2>1 DEF InFlight
    <3> QED
      BY <1>1, <2>1, <3>1, ConnFrame DEF hub
  <2>2. CASE i = cur
    <3>1. InFlight(i) = frames /\ InFlight(i)' = frames'
      BY <2>2 DEF InFlight
    <3>2. Ahead(i)' = Ahead(i) /\ Ahead(i) = Len(ch[i]) + Len(frames)
      BY <1>1, <2>2, <3>1 DEF Ahead
    <3>3. ASSUME st[i] \in Reading PROVE ChannelExact(i)'
      <4>1. \A k \in 1..Len(ch[i]) : ch[i][k] = seq - Ahead(i) + k
        BY <3>3 DEF ConnInv, ChannelExact
      <4>2. ASSUME NEW k \in 1..Len(ch'[i]) PROVE ch'[i][k] = seq - Ahead(i) + k
        <5>1. CASE k \in 1..Len(ch[i])
          BY <1>1, <2>2, <4>1, <5>1, SMTT(30)
        <5>2. CASE k = Len(ch[i]) + 1
          <6>1. ch'[i][k] = frames[1]
            BY <1>1, <2>2, <5>2
          <6>2. frames[1] = seq - Len(frames) + 1
            BY <1>1, <1>3
          <6> QED
            BY <1>1, <2>2, <3>2, <5>2, <6>1, <6>2
        <5>3. Len(ch[i]) \in Nat /\ k \in 1..(Len(ch[i]) + 1)
          BY <1>1, <2>2
        <5>4. k \in 1..Len(ch[i]) \/ k = Len(ch[i]) + 1
          BY <5>3
        <5> QED
          BY <5>1, <5>2, <5>4
      <4> QED
        BY <1>1, <1>4, <3>1, <3>2, <4>2 DEF ChannelExact
    <3>4. ASSUME st[i] \in Reading PROVE ReplayExact(i)'
      <4>1. Retained' = Retained /\ replay' = replay /\ pos' = pos
        BY <1>1 DEF Retained
      <4>2. ReplayExact(i)' = ReplayExact(i)
        BY <1>1, <3>2, <4>1 DEF ReplayExact
      <4> QED
        BY <3>4, <4>2 DEF ConnInv
    <3>5. ~closed[i] /\ st'[i] = st[i] /\ subs' = subs /\ nextID' = nextID
      BY <2>2 DEF ConnInv
    <3>6. st[i] # "replay" \/ i \in subs
      BY <2>2 DEF ConnInv
    <3> QED
      BY <2>2, <3>3, <3>4, <3>5, <3>6 DEF ConnInv, hub
  <2> QED
    BY <2>1, <2>2
<1> QED
  BY <1>2, <1>5, <1>6

LEMMA SendDoneIInv == IInv /\ SendDone => IInv'
<1> SUFFICES ASSUME IInv, SendDone PROVE IInv'
  OBVIOUS
<1> USE DEF IInv, SendDone, TypeOK
<1>1. TypeOK'
  BY DEF hub
<1>2. EventsInv' /\ BatchInv'
  BY DEF EventsInv, BatchInv, hub, ConnIds
<1>3. ASSUME NEW i \in ConnIds PROVE ConnInv(i)'
  <2>1. cur \notin pending /\ cur \in ConnIds /\ frames = <<>>
    BY DEF BatchInv
  <2>2. InFlight(i)' = InFlight(i)
    BY <2>1 DEF InFlight, ConnIds
  <2>3. CASE i # cur
    <3>1. i # cur'
      BY DEF ConnIds
    <3>2. (i = cur' \/ i \in pending') <=> (i = cur \/ i \in pending)
      BY <2>3, <3>1
    <3> QED
      BY <2>2, <2>3, <3>2, ConnFrame DEF hub
  <2>4. CASE i = cur
    <3>1. /\ seq' = seq /\ events' = events /\ terminal' = terminal
          /\ ch' = ch /\ st' = st /\ replay' = replay /\ pos' = pos
          /\ subs' = subs /\ nextID' = nextID
          /\ closed'[i] = terminal
          /\ i # cur' /\ i \notin pending'
      BY <2>1, <2>4 DEF hub, ConnIds
    <3>2. Ahead(i)' = Ahead(i) /\ Retained' = Retained
      BY <2>2, <3>1 DEF Ahead, Retained
    <3>3. ChannelExact(i)' = ChannelExact(i) /\ ReplayExact(i)' = ReplayExact(i)
      BY <2>2, <3>1, <3>2 DEF ChannelExact, ReplayExact
    <3>4. i < nextID
      BY <2>4 DEF ConnInv, ConnIds
    <3> QED
      BY <2>4, <3>1, <3>3, <3>4 DEF ConnInv, ConnIds
  <2> QED
    BY <2>3, <2>4
<1> QED
  BY <1>1, <1>2, <1>3

-----------------------------------------------------------------------------
LEMMA EmptyRange ==
  ASSUME NEW a \in Int, NEW b \in Int, a..b = {} PROVE b < a
<1>1. ~(b < a) => a \in a..b
  OBVIOUS
<1> QED
  BY <1>1

(* What the per-connection steps leave alone suffices for everything that  *)
(* is not about connection i itself.                                       *)
LEMMA OneConnIInv ==
  ASSUME IInv, NEW i \in ConnIds,
         TypeOK',
         UNCHANGED <<hub, publisher>>,
         \A k \in ConnIds \ {i} :
           /\ ch'[k] = ch[k] /\ closed'[k] = closed[k] /\ st'[k] = st[k]
           /\ replay'[k] = replay[k] /\ pos'[k] = pos[k]
           /\ k \in subs' <=> k \in subs
           /\ k >= nextID' => k >= nextID,
         ConnInv(i)'
  PROVE  IInv'
<1> USE DEF IInv
<1>1. EventsInv' /\ BatchInv'
  BY DEF EventsInv, BatchInv, hub, publisher
<1>2. ASSUME NEW k \in ConnIds \ {i} PROVE ConnInv(k)'
  <2>1. InFlight(k)' = InFlight(k)
    BY DEF InFlight, publisher
  <2> QED
    BY <2>1, ConnFrame DEF publisher
<1> QED
  BY <1>1, <1>2

LEMMA RegisterIInv ==
  ASSUME IInv, NEW i \in ConnIds, NEW after \in 0..seq,
         NEW phase \in {"replay", "probe"}, Register(i, after, phase)
  PROVE  IInv'
<1> USE DEF IInv, Register, TypeOK
<1>1. Retained \subseteq Nat
  BY DEF Retained
<1>2. TypeOK'
  <2>1. nextID' \in 1..(MaxConns + 1)
    BY JournalAssumption DEF JournalAssumption, ConnIds
  <2>2. replay' \in [ConnIds -> SUBSET Nat]
    BY <1>1
  <2>3. st' \in [ConnIds -> Phases] /\ pos' \in [ConnIds -> Nat]
    BY DEF Phases, Reading
  <2> QED
    BY <2>1, <2>2, <2>3 DEF hub, publisher
<1>3. /\ ch[i] = <<>> /\ i \notin subs /\ i # cur /\ i \notin pending /\ ~closed[i]
      /\ i + 1 > nextID
  BY DEF ConnInv, ConnIds
<1>4. /\ st'[i] = phase /\ pos'[i] = after
      /\ replay'[i] = {e \in Retained : e > after}
      /\ ch' = ch /\ closed' = closed /\ nextID' = i + 1
      /\ seq' = seq /\ events' = events /\ terminal' = terminal
      /\ cur' = cur /\ pending' = pending /\ i \in ConnIds /\ i \in Nat
      /\ i \in subs' <=> ~terminal
  BY <1>3 DEF hub, publisher, ConnIds
<1>5. InFlight(i)' = <<>> /\ Ahead(i)' = 0
  BY <1>3, <1>4 DEF InFlight, Ahead
<1>6. ChannelExact(i)'
  BY <1>3, <1>4, <1>5 DEF ChannelExact
<1>7. ReplayExact(i)'
  <2>1. Retained' = Retained
    BY <1>4 DEF Retained
  <2>2. \A e \in Retained : e \in Nat /\ e <= seq
    <3> SUFFICES ASSUME NEW k \in 1..Len(events)
                 PROVE  events[k] \in Nat /\ events[k] <= seq
      BY DEF Retained
    <3>1. events[k] = seq - Len(events) + k
      BY Zenon DEF EventsInv
    <3> QED
      BY <3>1
  <2>4. \A e, f \in 1..seq : f \in Retained /\ f < e => e \in Retained
    <3> SUFFICES ASSUME NEW e \in 1..seq, NEW k \in 1..Len(events), events[k] < e
                 PROVE  e \in Retained
      BY DEF Retained
    <3>1. events[k] = seq - Len(events) + k
      BY Zenon DEF EventsInv
    <3>2. e - (seq - Len(events)) \in 1..Len(events)
      BY <3>1
    <3>3. events[e - (seq - Len(events))]
            = seq - Len(events) + (e - (seq - Len(events)))
      BY <3>2, Zenon DEF EventsInv
    <3> QED
      BY <3>2, <3>3, SMTT(30) DEF Retained
  <2>5. seq > 0 => seq \in Retained
    <3> SUFFICES ASSUME seq > 0 PROVE seq \in Retained
      OBVIOUS
    <3>1. Len(events) \in 1..Len(events)
      BY DEF EventsInv
    <3>2. events[Len(events)] = seq - Len(events) + Len(events)
      BY <3>1, Zenon DEF EventsInv
    <3> QED
      BY <3>1, <3>2 DEF Retained
  <2>6. replay'[i] = {e \in Retained : e > after} /\ pos'[i] = after
    BY <1>4
  <2>7. replay'[i] \subseteq (after + 1)..seq
    BY <2>2, <2>6
  <2>8. (after + 1)..seq # {} => seq \in replay'[i]
    BY <2>5, <2>6
  <2>9. ASSUME NEW e \in (after + 1)..seq, e \notin replay'[i]
        PROVE  e \notin Retained /\ \A f \in replay'[i] : e < f
    <3>1. e \notin Retained
      BY <2>6, <2>9
    <3>2. ASSUME NEW f \in replay'[i] PROVE e < f
      <4>1. f \in Retained /\ f \in (after + 1)..seq
        BY <2>6, <2>7, <3>2
      <4>2. f \in 1..seq /\ e \in 1..seq
        BY <4>1
      <4>3. ~(f < e) /\ f # e
        BY <2>4, <3>1, <4>1, <4>2
      <4> QED
        BY <4>2, <4>3
    <3> QED
      BY <3>1, <3>2
  <2> QED
    BY <1>4, <1>5, <2>1, <2>6, <2>7, <2>8, <2>9 DEF ReplayExact
<1>8. ConnInv(i)'
  BY <1>3, <1>4, <1>6, <1>7 DEF ConnInv, Reading
<1>9. ASSUME NEW k \in ConnIds \ {i}
      PROVE  /\ ch'[k] = ch[k] /\ closed'[k] = closed[k] /\ st'[k] = st[k]
             /\ replay'[k] = replay[k] /\ pos'[k] = pos[k]
             /\ k \in subs' <=> k \in subs
             /\ k >= nextID' => k >= nextID
  BY <1>4 DEF ConnIds
<1>10. UNCHANGED <<hub, publisher>>
  OBVIOUS
<1> QED
  BY <1>2, <1>8, <1>9, <1>10, OneConnIInv

LEMMA WriteReplayIInv == \A i \in ConnIds : IInv /\ WriteReplay(i) => IInv'
<1> SUFFICES ASSUME NEW i \in ConnIds, IInv, WriteReplay(i) PROVE IInv'
  OBVIOUS
<1> USE DEF IInv, WriteReplay, TypeOK
<1>1. PICK e \in replay[i] : /\ \A f \in replay[i] : e <= f
                             /\ replay' = [replay EXCEPT ![i] = @ \ {e}]
                             /\ pos' = [pos EXCEPT ![i] = e]
  OBVIOUS
<1>2. TypeOK'
  BY <1>1 DEF hub, publisher
<1>3. /\ seq' = seq /\ events' = events /\ terminal' = terminal
      /\ ch' = ch /\ closed' = closed /\ st' = st /\ subs' = subs
      /\ nextID' = nextID /\ cur' = cur /\ pending' = pending
      /\ replay'[i] = replay[i] \ {e} /\ pos'[i] = e
      /\ st[i] = "replay"
  BY <1>1 DEF hub, publisher
<1>4. ChannelExact(i) /\ ReplayExact(i)
  BY DEF ConnInv, Reading
<1>5. Ahead(i)' = Ahead(i) /\ Retained' = Retained /\ InFlight(i)' = InFlight(i)
  BY DEF Ahead, Retained, InFlight, hub, publisher
<1>6. ChannelExact(i)'
  BY <1>3, <1>4, <1>5 DEF ChannelExact
<1>7. Ahead(i) \in Nat
  BY DEF Ahead, InFlight
<1>8. ReplayExact(i)'
  <2> DEFINE top == seq - Ahead(i)
  <2>1. /\ replay[i] \subseteq (pos[i] + 1)..top
        /\ (pos[i] + 1)..top # {} => top \in replay[i]
        /\ \A d \in (pos[i] + 1)..top :
             d \in replay[i] \/ (d \notin Retained /\ \A f \in replay[i] : d < f)
    BY <1>4 DEF ReplayExact
  <2>2. e \in (pos[i] + 1)..top /\ e <= top /\ pos[i] \in Nat /\ top \in Int
    BY <1>7, <2>1
  <2>3. \A f \in replay[i] \ {e} : f \in (e + 1)..top
    BY <1>1, <2>1, <2>2
  <2>4. ASSUME NEW d \in (e + 1)..top
        PROVE  \/ d \in replay[i] \ {e}
               \/ d \notin Retained /\ \A f \in replay[i] \ {e} : d < f
    <3>1. d \in (pos[i] + 1)..top /\ d # e
      BY <2>2
    <3> QED
      BY <2>1, <3>1
  <2>5. (e + 1)..top # {} => top \in replay[i] \ {e}
    BY <2>1, <2>2
  <2> HIDE DEF top
  <2>6. /\ e <= top
        /\ replay[i] \ {e} \subseteq (e + 1)..top
        /\ (e + 1)..top # {} => top \in replay[i] \ {e}
        /\ \A d \in (e + 1)..top :
             \/ d \in replay[i] \ {e}
             \/ d \notin Retained /\ \A f \in replay[i] \ {e} : d < f
    BY <2>2, <2>3, <2>4, <2>5
  <2> QED
    BY <1>3, <1>5, <2>6 DEF ReplayExact, top
<1>9. pos'[i] <= seq
  <2>1. e \in (pos[i] + 1)..(seq - Ahead(i))
    BY <1>4 DEF ReplayExact
  <2> QED
    BY <1>3, <1>7, <2>1
<1>10. ConnInv(i)'
  BY <1>3, <1>6, <1>8, <1>9 DEF ConnInv, Reading
<1>11. \A k \in ConnIds \ {i} :
         /\ ch'[k] = ch[k] /\ closed'[k] = closed[k] /\ st'[k] = st[k]
         /\ replay'[k] = replay[k] /\ pos'[k] = pos[k]
         /\ k \in subs' <=> k \in subs
         /\ k >= nextID' => k >= nextID
  <2>1. \A k \in ConnIds \ {i} : replay'[k] = replay[k] /\ pos'[k] = pos[k]
    BY <1>1
  <2> QED
    BY <1>3, <2>1
<1>12. UNCHANGED <<hub, publisher>> /\ IInv
  OBVIOUS
<1> QED
  BY ONLY i \in ConnIds, <1>2, <1>10, <1>11, <1>12, OneConnIInv

LEMMA GoLiveIInv == \A i \in ConnIds : IInv /\ GoLive(i) => IInv'
<1> SUFFICES ASSUME NEW i \in ConnIds, IInv, GoLive(i) PROVE IInv'
  OBVIOUS
<1> USE DEF IInv, GoLive, TypeOK
<1>1. TypeOK'
  BY DEF hub, publisher, Phases, Reading
<1>2. /\ UNCHANGED <<hub, ch, closed, replay, pos, subs, nextID, publisher>>
      /\ st[i] = "replay" /\ replay[i] = {}
      /\ st'[i] = IF i \in subs THEN "live" ELSE "eof"
  OBVIOUS
<1>3. ChannelExact(i) /\ ReplayExact(i)
  BY DEF ConnInv, Reading
<1>4. Ahead(i)' = Ahead(i) /\ Retained' = Retained /\ InFlight(i)' = InFlight(i)
  BY DEF Ahead, Retained, InFlight, hub, publisher
<1>5. ChannelExact(i)' /\ ReplayExact(i)'
  BY <1>2, <1>3, <1>4 DEF ChannelExact, ReplayExact, hub
<1>6. pos[i] = seq - Ahead(i)
  <2>1. Ahead(i) \in Nat
    BY DEF Ahead, InFlight
  <2>2. /\ pos[i] <= seq - Ahead(i)
        /\ (pos[i] + 1)..(seq - Ahead(i)) = {}
    BY <1>2, <1>3 DEF ReplayExact
  <2>3. pos[i] \in Nat /\ pos[i] + 1 \in Int /\ seq - Ahead(i) \in Int
    BY <2>1
  <2>4. seq - Ahead(i) < pos[i] + 1
    BY <2>2, <2>3, EmptyRange, Zenon
  <2> QED
    BY <2>2, <2>3, <2>4
<1>7. CASE i \in subs
  <2>1. /\ seq' = seq /\ terminal' = terminal /\ closed' = closed /\ ch' = ch
        /\ subs' = subs /\ replay' = replay /\ pos' = pos /\ nextID' = nextID
        /\ cur' = cur /\ pending' = pending /\ st'[i] = "live"
    BY <1>2, <1>7 DEF hub, publisher
  <2>2. ConnInv(i)'
    BY <1>2, <1>5, <1>7, <2>1 DEF ConnInv
  <2> QED
    BY <1>1, <1>2, <2>2, OneConnIInv
<1>8. CASE i \notin subs
  <2>1. terminal /\ i # cur /\ i \notin pending /\ ch[i] = <<>>
    BY <1>2, <1>8 DEF ConnInv
  <2>2. Ahead(i) = 0
    BY <2>1 DEF Ahead, InFlight
  <2>3. pos[i] = seq
    BY <1>6, <2>2
  <2>4. ConnInv(i)'
    BY <1>2, <1>8, <2>1, <2>3 DEF ConnInv, Reading, hub, publisher
  <2> QED
    BY <1>1, <1>2, <2>4, OneConnIInv
<1> QED
  BY <1>7, <1>8

LEMMA WriteLiveIInv == \A i \in ConnIds : IInv /\ WriteLive(i) => IInv'
<1> SUFFICES ASSUME NEW i \in ConnIds, IInv, WriteLive(i) PROVE IInv'
  OBVIOUS
<1> USE DEF IInv, WriteLive, TypeOK
<1>1. /\ ch[i] \in Seq(Nat) /\ ch[i] # <<>> /\ Head(ch[i]) \in Nat
      /\ Len(ch[i]) \in Nat /\ Len(ch[i]) > 0 /\ ch'[i] = Tail(ch[i])
      /\ Len(ch'[i]) = Len(ch[i]) - 1 /\ Tail(ch[i]) \in Seq(Nat)
      /\ pos'[i] = ch[i][1]
  OBVIOUS
<1>2. TypeOK'
  <2>1. ch' \in [ConnIds -> Seq(Nat)] /\ pos' \in [ConnIds -> Nat]
    BY <1>1
  <2>2. \A k \in ConnIds : Len(ch'[k]) <= ChanCap
    BY <1>1, JournalAssumption DEF JournalAssumption
  <2> QED
    BY <2>1, <2>2 DEF hub, publisher
<1>3. /\ seq' = seq /\ events' = events /\ terminal' = terminal
      /\ closed' = closed /\ st' = st /\ subs' = subs /\ replay' = replay
      /\ nextID' = nextID /\ cur' = cur /\ pending' = pending
      /\ st[i] = "live" /\ i \in subs /\ replay[i] = {}
  BY DEF ConnInv, hub, publisher
<1>4. InFlight(i)' = InFlight(i) /\ InFlight(i) \in Seq(Nat) /\ Retained' = Retained
  BY DEF InFlight, Retained, hub, publisher
<1>5. Ahead(i) \in Nat /\ Ahead(i)' = Ahead(i) - 1
  BY <1>1, <1>4 DEF Ahead
<1>6. ChannelExact(i) /\ ReplayExact(i)
  BY <1>3 DEF ConnInv, Reading
<1>7. \A k \in 1..Len(ch[i]) : ch[i][k] = seq - Ahead(i) + k
  BY <1>6, Zenon DEF ChannelExact
<1>8. ChannelExact(i)'
  <2>1. ASSUME NEW k \in 1..Len(ch'[i])
        PROVE  ch'[i][k] = seq' - Ahead(i)' + k
    <3>1. k + 1 \in 1..Len(ch[i]) /\ ch'[i][k] = ch[i][k + 1]
      BY <1>1
    <3>2. ch[i][k + 1] = seq - Ahead(i) + (k + 1)
      BY <1>7, <3>1, Zenon
    <3> QED
      BY <1>3, <1>5, <3>1, <3>2
  <2> QED
    BY <1>3, <1>4, <1>6, <2>1 DEF ChannelExact
<1>9. pos'[i] = seq - Ahead(i) + 1
  BY <1>1, <1>7
<1>10. pos'[i] = seq' - Ahead(i)'
  BY <1>3, <1>5, <1>9
<1>11. ReplayExact(i)'
  <2>1. (pos'[i] + 1)..(seq' - Ahead(i)') = {}
    BY <1>3, <1>5, <1>10
  <2> QED
    <3>1. replay'[i] = {}
      BY <1>3
    <3>2. pos'[i] <= seq' - Ahead(i)'
      <4>1. seq' \in Nat /\ Ahead(i)' \in Int
        BY <1>2, <1>5
      <4> QED
        BY <1>10, <4>1
    <3> QED
      BY <2>1, <3>1, <3>2 DEF ReplayExact
<1>12. pos'[i] <= seq'
  <2>1. Ahead(i) >= 1
    BY <1>1, <1>4 DEF Ahead
  <2> QED
    BY <1>3, <1>5, <1>9, <2>1
<1>13. ConnInv(i)'
  BY <1>3, <1>8, <1>11, <1>12 DEF ConnInv, Reading
<1> QED
  BY <1>2, <1>3, <1>13, OneConnIInv

(* Steps that end a connection owe nothing more to its client.             *)
LEMMA EndIInv ==
  \A i \in ConnIds : IInv /\ (Eof(i) \/ Disconnect(i) \/ Cancel(i)) => IInv'
<1> SUFFICES ASSUME NEW i \in ConnIds, IInv, Eof(i) \/ Disconnect(i) \/ Cancel(i)
             PROVE  IInv'
  OBVIOUS
<1> USE DEF IInv, TypeOK
<1>1. CASE Eof(i)
  <2> USE DEF Eof
  <2>1. TypeOK'
    BY <1>1 DEF hub, publisher, Phases
  <2>2. /\ st[i] = "live" /\ ch[i] = <<>> /\ closed[i] /\ replay[i] = {}
        /\ terminal /\ i # cur /\ i \notin pending
    BY <1>1 DEF ConnInv
  <2>3. Ahead(i) = 0
    BY <2>2 DEF Ahead, InFlight
  <2>4. ReplayExact(i)
    BY <2>2 DEF ConnInv, Reading
  <2>5. pos[i] = seq
    <3>1. pos[i] <= seq /\ (pos[i] + 1)..seq = {}
      BY <2>2, <2>3, <2>4 DEF ReplayExact
    <3>2. pos[i] \in Nat /\ pos[i] + 1 \in Int /\ seq \in Int
      OBVIOUS
    <3>3. seq < pos[i] + 1
      BY <3>1, <3>2, EmptyRange, Zenon
    <3> QED
      BY <3>1, <3>2, <3>3
  <2>6. ConnInv(i)'
    BY <1>1, <2>2, <2>5 DEF ConnInv, Reading, hub, publisher
  <2> QED
    BY <1>1, <2>1, <2>6, OneConnIInv
<1>2. CASE Leave(i)
  <2>1. TypeOK'
    BY <1>2 DEF Leave, hub, publisher, Phases
  <2>2. ConnInv(i)'
    BY <1>2 DEF Leave, ConnInv, Reading, hub, publisher
  <2> QED
    BY <1>2, <2>1, <2>2, OneConnIInv DEF Leave
<1>3. CASE WriteFails(i)
  <2>1. ch' \in [ConnIds -> Seq(Nat)] /\ \A k \in ConnIds : Len(ch'[k]) <= ChanCap
    <3>1. CASE UNCHANGED ch
      BY <3>1
    <3>2. CASE ch[i] # <<>> /\ ch' = [ch EXCEPT ![i] = Tail(@)]
      <4>1. Tail(ch[i]) \in Seq(Nat) /\ Len(Tail(ch[i])) <= ChanCap
        BY <3>2, JournalAssumption DEF JournalAssumption
      <4> QED
        BY <3>2, <4>1
    <3> QED
      BY <1>3, <3>1, <3>2 DEF WriteFails
  <2>2. TypeOK'
    BY <1>3, <2>1 DEF WriteFails, hub, publisher, Phases
  <2>3. ConnInv(i)'
    BY <1>3 DEF WriteFails, ConnInv, Reading, hub, publisher
  <2>4. \A k \in ConnIds \ {i} : ch'[k] = ch[k]
    BY <1>3 DEF WriteFails
  <2> QED
    BY <1>3, <2>2, <2>3, <2>4, OneConnIInv DEF WriteFails
<1>4. CASE Cancel(i)
  <2>1. TypeOK'
    BY <1>4 DEF Cancel, hub, publisher, Phases
  <2>2. ConnInv(i)'
    BY <1>4 DEF Cancel, ConnInv, Reading, hub, publisher
  <2> QED
    BY <1>4, <2>1, <2>2, OneConnIInv DEF Cancel
<1> QED
  BY <1>1, <1>2, <1>3, <1>4 DEF Disconnect

-----------------------------------------------------------------------------
(* The invariant is inductive. *)
LEMMA NextIInv == IInv /\ [Next]_vars => IInv'
<1> SUFFICES ASSUME IInv, [Next]_vars PROVE IInv'
  OBVIOUS
<1>1. CASE Publish
  BY <1>1, PublishIInv
<1>2. CASE Finish
  BY <1>2, FinishIInv
<1>3. CASE Deliver
  BY <1>3, TakeSubIInv, SendIInv, SendDoneIInv DEF Deliver
<1>4. CASE \E i \in ConnIds : Open(i)
  <2>1. PICK i \in ConnIds : Subscribe(i) \/ Probe(i)
    BY <1>4 DEF Open
  <2>2. CASE Subscribe(i)
    <3>1. PICK after \in {0} \cup {pos[j] : j \in 1..(nextID - 1)} :
            Register(i, after, "replay")
      BY <2>2 DEF Subscribe
    <3>2. after \in 0..seq
      <4>1. \A j \in 1..(nextID - 1) : j \in ConnIds
        BY JournalAssumption DEF JournalAssumption, ConnIds, IInv, TypeOK
      <4> QED
        BY <4>1 DEF IInv, TypeOK, ConnInv
    <3> QED
      BY <3>1, <3>2, RegisterIInv
  <2>3. CASE Probe(i)
    <3>1. 0 \in 0..seq
      BY DEF IInv, TypeOK
    <3> QED
      BY <2>3, <3>1, RegisterIInv DEF Probe
  <2> QED
    BY <2>1, <2>2, <2>3
<1>5. CASE \E i \in ConnIds : Write(i)
  BY <1>5, WriteReplayIInv, GoLiveIInv, WriteLiveIInv, EndIInv DEF Write
<1>6. CASE \E i \in ConnIds : Disconnect(i) \/ Cancel(i)
  BY <1>6, EndIInv
<1>7. CASE UNCHANGED vars
  <2>1. UNCHANGED <<hub, subs, nextID, publisher, conns>>
    BY <1>7 DEF vars
  <2>2. TypeOK' /\ EventsInv' /\ BatchInv'
    BY <2>1 DEF IInv, TypeOK, EventsInv, BatchInv, hub, publisher, conns
  <2>3. ASSUME NEW i \in ConnIds PROVE ConnInv(i)'
    <3>1. InFlight(i)' = InFlight(i)
      BY <2>1 DEF InFlight, publisher
    <3> QED
      BY <2>1, <3>1, ConnFrame DEF IInv, publisher, conns
  <2> QED
    BY <2>2, <2>3 DEF IInv
<1> QED
  BY <1>1, <1>2, <1>3, <1>4, <1>5, <1>6, <1>7 DEF Next

(* Every behaviour of the journal satisfies the inductive invariant. *)
THEOREM Invariance == Spec => []IInv
BY InitIInv, NextIInv, PTL DEF Spec

(* Types, the channel capacity and the retention bound, for any number of  *)
(* connections and events (journal.go:46-48, 108).                         *)
THEOREM TypeCorrect == Spec => []TypeOK
<1>1. IInv => TypeOK
  BY DEF IInv
<1> QED
  BY <1>1, Invariance, PTL

(* Replay, channel and delivery loop together always owe a connected reader *)
(* exactly the events after its cursor (journal.go:49-56, 80-91, 95-119).   *)
THEOREM ExactDelivery == Spec => []NoGapNoDuplicate
<1>1. IInv => NoGapNoDuplicate
  BY DEF IInv, ConnInv, NoGapNoDuplicate
<1> QED
  BY <1>1, Invariance, PTL

(* A response that ends by itself has carried the whole journal. *)
THEOREM CompleteResponses == Spec => []EofIsComplete
<1>1. IInv => EofIsComplete
  BY DEF IInv, ConnInv, EofIsComplete
<1> QED
  BY <1>1, Invariance, PTL

(* The relay never panics on a closed channel. *)
THEOREM NoPanic == Spec => []NoUseOfClosed
<1>1. IInv => NoUseOfClosed
  BY DEF IInv, ConnInv, NoUseOfClosed
<1> QED
  BY <1>1, Invariance, PTL

-----------------------------------------------------------------------------
OrderedStep ==
  \A i \in ConnIds : st[i] \in Reading /\ pos'[i] # pos[i] =>
    /\ pos'[i] > pos[i]
    /\ \A e \in (pos[i] + 1)..(pos'[i] - 1) : e \notin Retained

LEMMA StepIsOrdered == IInv /\ [Next]_vars => OrderedStep
<1> SUFFICES ASSUME IInv, [Next]_vars,
                    NEW i \in ConnIds, st[i] \in Reading, pos'[i] # pos[i]
             PROVE  /\ pos'[i] > pos[i]
                    /\ \A e \in (pos[i] + 1)..(pos'[i] - 1) : e \notin Retained
  BY DEF OrderedStep
<1> USE DEF IInv, TypeOK
<1>0. ChannelExact(i) /\ ReplayExact(i) /\ Ahead(i) \in Nat /\ pos[i] \in Nat
  BY DEF ConnInv, Ahead, InFlight
<1>1. ASSUME NEW k \in ConnIds, Open(k) PROVE FALSE
  <2>1. PICK after, phase : Register(k, after, phase)
    BY <1>1 DEF Open, Subscribe, Probe
  <2> QED
    BY <2>1 DEF Register, Reading
<1>2. CASE WriteReplay(i)
  <2>1. PICK e \in replay[i] : (\A f \in replay[i] : e <= f) /\ pos'[i] = e
    BY <1>2 DEF WriteReplay
  <2>2. replay[i] \subseteq (pos[i] + 1)..(seq - Ahead(i))
    BY <1>0 DEF ReplayExact
  <2>3. e \in (pos[i] + 1)..(seq - Ahead(i))
    BY <2>2
  <2>4. e > pos[i] /\ e \in Int
    BY <1>0, <2>3
  <2>5. ASSUME NEW d \in (pos[i] + 1)..(e - 1) PROVE d \notin Retained
    <3>1. d \in (pos[i] + 1)..(seq - Ahead(i)) /\ ~(e <= d)
      BY <1>0, <2>3
    <3>2. d \notin replay[i]
      BY <2>1, <3>1
    <3> QED
      BY <1>0, <3>1, <3>2 DEF ReplayExact
  <2> QED
    BY <2>1, <2>4, <2>5
<1>3. CASE WriteLive(i)
  <2>1. ch[i] # <<>> /\ ch[i] \in Seq(Nat) /\ pos'[i] = ch[i][1] /\ replay[i] = {}
    BY <1>3 DEF WriteLive, ConnInv
  <2>2. 1 \in 1..Len(ch[i])
    BY <2>1
  <2>3. ch[i][1] = seq - Ahead(i) + 1
    BY <1>0, <2>2, Zenon DEF ChannelExact
  <2>4. pos[i] <= seq - Ahead(i) /\ (pos[i] + 1)..(seq - Ahead(i)) = {}
    BY <1>0, <2>1 DEF ReplayExact
  <2>5. pos[i] + 1 \in Int /\ seq - Ahead(i) \in Int
    BY <1>0
  <2>6. seq - Ahead(i) < pos[i] + 1
    BY <2>4, <2>5, EmptyRange, Zenon
  <2>7. pos'[i] = pos[i] + 1
    BY <1>0, <2>1, <2>3, <2>4, <2>5, <2>6
  <2> QED
    BY <1>0, <2>7
<1>4. ASSUME NEW k \in ConnIds, k # i, WriteReplay(k) \/ WriteLive(k) PROVE FALSE
  BY <1>4 DEF WriteReplay, WriteLive
<1>5. ASSUME NEW k \in ConnIds,
             GoLive(k) \/ Eof(k) \/ Disconnect(k) \/ Cancel(k)
      PROVE  FALSE
  BY <1>5 DEF GoLive, Eof, Disconnect, Leave, WriteFails, Cancel
<1>6. ASSUME Publish \/ Finish \/ Deliver PROVE FALSE
  BY <1>6 DEF Publish, Finish, Deliver, TakeSub, Send, SendDone, conns
<1>7. ASSUME UNCHANGED vars PROVE FALSE
  BY <1>7 DEF vars, conns
<1> QED
  BY <1>1, <1>2, <1>3, <1>4, <1>5, <1>6, <1>7 DEF Next, Write

(* No step delivers an event out of order, twice, or past a retained one   *)
(* (journal.go:46-48, 98-103; journal_writer.go:30-48).                    *)
THEOREM OrderedDelivery == Spec => DeliversInOrder
<1>1. IInv /\ [Next]_vars => [OrderedStep]_vars
  BY StepIsOrdered
<1> QED
  BY <1>1, Invariance, PTL DEF Spec, DeliversInOrder, OrderedStep

-----------------------------------------------------------------------------
(* The refinement: every step of the hub and of its connections is a step of *)
(* the promised stream, or changes nothing of it.                            *)

Standing(i) == IF Reader(i) = "open" THEN Cursor(i) ELSE 0
Phase   == [i \in ConnIds |-> Reader(i)]
Cursors == [i \in ConnIds |-> Standing(i)]
Floor == seq - Len(events)

(* A connection of which neither phase nor position nor replay changes     *)
(* stands where it stood.                                                  *)
LEMMA StillStands ==
  ASSUME NEW i \in ConnIds, st'[i] = st[i], replay'[i] = replay[i], pos'[i] = pos[i]
  PROVE  Reader(i)' = Reader(i) /\ Standing(i)' = Standing(i)
<1>1. Reader(i)' = Reader(i)
  BY DEF Reader
<1>2. Cursor(i)' = Cursor(i)
  BY DEF Cursor
<1> QED
  BY <1>1, <1>2 DEF Standing

Least(S) == CHOOSE e \in S : \A f \in S : e <= f

LEMMA LeastOf ==
  ASSUME NEW S \in SUBSET Nat, NEW m \in S, \A f \in S : m <= f
  PROVE  Least(S) = m
<1>1. \A x \in S : (\A f \in S : x <= f) => x = m
  OBVIOUS
<1> QED
  BY <1>1 DEF Least

(* The cursor of a reader, by its replay. *)
LEMMA CursorIs ==
  ASSUME NEW i \in ConnIds
  PROVE  /\ Cursor(i) = IF replay[i] = {} THEN pos[i] ELSE Least(replay[i]) - 1
         /\ Cursor(i)' = IF replay'[i] = {} THEN pos'[i] ELSE Least(replay'[i]) - 1
BY DEF Cursor, Least

LEMMA CursorAt ==
  ASSUME IInv, NEW i \in ConnIds, NEW m \in replay[i], \A f \in replay[i] : m <= f
  PROVE  Cursor(i) = m - 1
<1>1. replay[i] \in SUBSET Nat
  BY DEF IInv, TypeOK
<1>2. Least(replay[i]) = m
  BY <1>1, LeastOf
<1> QED
  BY <1>2, CursorIs

(* A step of one connection. *)
LEMMA OneReader ==
  ASSUME NEW i \in ConnIds,
         \A j \in ConnIds \ {i} : /\ st'[j] = st[j] /\ replay'[j] = replay[j]
                                  /\ pos'[j] = pos[j]
  PROVE  /\ Phase' = [Phase EXCEPT ![i] = Reader(i)']
         /\ Cursors' = [Cursors EXCEPT ![i] = Standing(i)']
<1>1. \A j \in ConnIds \ {i} : Reader(j)' = Reader(j) /\ Standing(j)' = Standing(j)
  BY StillStands
<1>2. Phase' = [j \in ConnIds |-> Reader(j)'] /\ Cursors' = [j \in ConnIds |-> Standing(j)']
  BY DEF Phase, Cursors
<1> QED
  BY <1>1, <1>2 DEF Phase, Cursors

-----------------------------------------------------------------------------
(* The initial states. *)
LEMMA StreamInit == Init => Stream!Init
<1> SUFFICES ASSUME Init PROVE Stream!Init
  OBVIOUS
<1>1. seq - Len(events) = 0
  <2>1. Len(<<>>) = 0
    BY ONLY TRUE
  <2>2. seq = 0 /\ events = <<>>
    BY DEF Init
  <2>3. Len(events) = 0
    BY <2>1, <2>2, Zenon
  <2>4. seq = 0
    BY <2>2
  <2> QED
    BY ONLY <2>3, <2>4
<1>2. \A i \in ConnIds : Reader(i) = "none"
  BY DEF Init, Reader, Reading
<1> QED
  BY <1>1, <1>2 DEF Stream!Init, Init

(* What no reader sees. *)
Unseen == UNCHANGED <<seq, terminal, events, st, replay, pos>>

LEMMA StreamStutter == Unseen => UNCHANGED Stream!vars
<1> SUFFICES ASSUME Unseen PROVE UNCHANGED Stream!vars
  OBVIOUS
<1>1. \A i \in ConnIds : Reader(i)' = Reader(i) /\ Standing(i)' = Standing(i)
  BY StillStands DEF Unseen
<1>2. seq' - Len(events') = seq - Len(events)
  BY DEF Unseen
<1> QED
  BY <1>1, <1>2 DEF Stream!vars, Unseen, Standing

-----------------------------------------------------------------------------
(* The steps of the hub *)

LEMMA StreamGrows ==
  ASSUME IInv, IInv', NEW n \in {1, 2}, ~terminal, seq' = seq + n,
         Len(events') <= Len(events) + n,
         UNCHANGED <<st, replay, pos>>
  PROVE  Stream!Grow(n)
<1>1. seq \in Nat /\ Len(events) \in Nat /\ Len(events') \in Nat
  BY DEF IInv, TypeOK
<1>2. seq' - Len(events') \in (seq - Len(events))..(seq + n)
  BY <1>1
<1>3. \A i \in ConnIds : Reader(i)' = Reader(i) /\ Standing(i)' = Standing(i)
  BY StillStands
<1> QED
  BY <1>2, <1>3 DEF Stream!Grow, Standing

LEMMA StreamPublish == IInv /\ IInv' /\ Publish => Stream!Next
<1> SUFFICES ASSUME IInv, IInv', Publish PROVE Stream!Next
  OBVIOUS
<1>1. events \in Seq(Nat) /\ seq + 1 \in Nat
  BY DEF IInv, TypeOK
<1>2. Append(events, seq + 1) \in Seq(Nat) /\ Len(Append(events, seq + 1)) = Len(events) + 1
  BY <1>1
<1>3. Len(events') <= Len(events) + 1
  BY <1>2, TrimFacts DEF Publish
<1>4. Stream!Grow(1)
  BY <1>3, StreamGrows DEF Publish, conns
<1> QED
  BY <1>4 DEF Publish, Stream!Next, Stream!Append1

LEMMA StreamFinish == IInv /\ IInv' /\ Finish => Stream!Next
<1> SUFFICES ASSUME IInv, IInv', Finish PROVE Stream!Next
  OBVIOUS
<1>1. events \in Seq(Nat) /\ seq + 1 \in Nat /\ seq + 2 \in Nat
  BY DEF IInv, TypeOK
<1> DEFINE longer == Append(Append(events, seq + 1), seq + 2)
<1>2. longer \in Seq(Nat) /\ Len(longer) = Len(events) + 2
  BY <1>1
<1>3. Len(events') <= Len(events) + 2
  BY <1>2, TrimFacts DEF Finish
<1>4. Stream!Grow(2)
  BY <1>3, StreamGrows DEF Finish, conns
<1> QED
  BY <1>4 DEF Finish, Stream!Next, Stream!End

LEMMA HubRefines ==
  IInv /\ IInv' /\ (Publish \/ Finish \/ Deliver \/ UNCHANGED vars)
    => [Stream!Next]_(Stream!vars)
<1>1. ASSUME Deliver PROVE Unseen
  BY <1>1 DEF Deliver, Send, SendDone, TakeSub, Unseen, hub, conns
<1>2. ASSUME UNCHANGED vars PROVE Unseen
  BY <1>2 DEF vars, Unseen, hub, conns
<1> QED
  BY <1>1, <1>2, StreamPublish, StreamFinish, StreamStutter

-----------------------------------------------------------------------------
(* The steps of a connection *)

(* A replay and the channel behind it start right after the cursor, at the  *)
(* first retained event that is due.                                        *)
LEMMA StreamJoin ==
  ASSUME IInv, IInv', NEW i \in ConnIds, Subscribe(i)
  PROVE  Stream!Join(i)
<1>1. PICK after \in {0} \cup {pos[j] : j \in 1..(nextID - 1)} : Register(i, after, "replay")
  BY DEF Subscribe
<1>2. after \in 0..seq
  <2>1. \A j \in 1..(nextID - 1) : j \in ConnIds
    BY JournalAssumption DEF IInv, TypeOK, ConnIds
  <2>2. \A j \in ConnIds : pos[j] \in 0..seq
    BY DEF IInv, TypeOK, ConnInv
  <2>3. seq \in Nat
    BY DEF IInv, TypeOK
  <2>4. CASE after = 0
    BY <2>3, <2>4
  <2>5. CASE \E j \in 1..(nextID - 1) : after = pos[j]
    BY <2>1, <2>2, <2>5
  <2> QED
    BY <1>1, <2>4, <2>5
<1>3. /\ st[i] = "new" /\ st' = [st EXCEPT ![i] = "replay"]
      /\ pos' = [pos EXCEPT ![i] = after]
      /\ replay' = [replay EXCEPT ![i] = {e \in Retained : e > after}]
      /\ UNCHANGED <<seq, events, terminal>>
  BY <1>1 DEF Register, hub
<1>4. /\ st'[i] = "replay" /\ pos'[i] = after /\ replay'[i] = {e \in Retained : e > after}
      /\ \A j \in ConnIds \ {i} : st'[j] = st[j] /\ replay'[j] = replay[j] /\ pos'[j] = pos[j]
  BY <1>3 DEF IInv, TypeOK
<1>5. Reader(i) = "none" /\ Reader(i)' = "open"
  BY <1>3, <1>4 DEF Reader, Reading
<1>6. /\ seq \in Nat /\ Len(events) \in Nat /\ Len(events) <= seq
      /\ \A e : e \in Retained <=> e \in (seq - Len(events) + 1)..seq
  <2>1. seq \in Nat /\ Len(events) \in Nat /\ Len(events) <= seq
    BY DEF IInv, TypeOK, EventsInv
  <2>2. \A k \in 1..Len(events) : events[k] = seq - Len(events) + k
    BY DEF IInv, EventsInv
  <2>3. ASSUME NEW e \in Retained PROVE e \in (seq - Len(events) + 1)..seq
    BY <2>1, <2>2 DEF Retained
  <2>4. ASSUME NEW e \in (seq - Len(events) + 1)..seq PROVE e \in Retained
    <3>1. e - (seq - Len(events)) \in 1..Len(events)
      BY <2>1
    <3>2. events[e - (seq - Len(events))] = e
      BY <2>1, <2>2, <3>1
    <3> QED
      BY <3>1, <3>2 DEF Retained
  <2> QED
    BY <2>1, <2>3, <2>4
<1> DEFINE floor == seq - Len(events)
<1> DEFINE start == IF after < floor THEN floor ELSE after
<1>7. Cursor(i)' = start
  <2>1. CASE start = seq
    <3>1. replay'[i] = {} /\ start = after
      BY <1>2, <1>4, <1>6, <2>1 DEF IInv, EventsInv
    <3> QED
      BY <1>4, <3>1 DEF Cursor
  <2>2. CASE start # seq
    <3>1. start + 1 \in replay'[i] /\ \A f \in replay'[i] : start + 1 <= f
      BY <1>2, <1>4, <1>6, <2>2
    <3>2. replay'[i] \in SUBSET Nat
      BY DEF IInv, TypeOK
    <3>3. Least(replay'[i]) = start + 1
      BY <3>1, <3>2, LeastOf
    <3>4. start \in Int
      BY <1>2, <1>6
    <3>5. Cursor(i)' = IF replay'[i] = {} THEN pos'[i] ELSE Least(replay'[i]) - 1
      BY CursorIs
    <3> QED
      BY <3>1, <3>3, <3>4, <3>5
  <2> QED
    BY <2>1, <2>2
<1>8. Standing(i)' = start
  BY <1>5, <1>7 DEF Standing
<1>9. Phase' = [Phase EXCEPT ![i] = "open"] /\ Cursors' = [Cursors EXCEPT ![i] = start]
  BY <1>4, <1>5, <1>8, OneReader
<1> QED
  BY <1>2, <1>3, <1>5, <1>9 DEF Stream!Join, Phase, Cursors, Standing

LEMMA StreamDeliver ==
  ASSUME IInv, NEW i \in ConnIds, st[i] \in Reading, st'[i] = st[i],
         \A j \in ConnIds \ {i} : /\ st'[j] = st[j] /\ replay'[j] = replay[j]
                                  /\ pos'[j] = pos[j],
         Cursor(i) < seq, Cursor(i)' = Cursor(i) + 1,
         UNCHANGED <<seq, events, terminal>>
  PROVE  Stream!Deliver(i)
<1>1. Reader(i) = "open" /\ Reader(i)' = "open"
  BY DEF Reader, Reading
<1>2. Phase' = [Phase EXCEPT ![i] = "open"] /\ Cursors' = [Cursors EXCEPT ![i] = Cursor(i) + 1]
  BY <1>1, OneReader DEF Standing
<1>3. Phase' = Phase
  BY <1>1, <1>2 DEF Phase
<1> QED
  BY <1>1, <1>2, <1>3 DEF Stream!Deliver, Phase, Cursors, Standing

(* The replay of a reader is the rest of what it is owed before its channel: *)
(* after its least event comes the next.                                    *)
LEMMA StreamWriteReplay ==
  ASSUME IInv, NEW i \in ConnIds, WriteReplay(i)
  PROVE  Stream!Deliver(i)
<1>1. PICK e \in replay[i] : /\ \A f \in replay[i] : e <= f
                             /\ replay' = [replay EXCEPT ![i] = @ \ {e}]
                             /\ pos' = [pos EXCEPT ![i] = e]
  BY DEF WriteReplay
<1>2. /\ st[i] = "replay" /\ st'[i] = st[i] /\ replay'[i] = replay[i] \ {e} /\ pos'[i] = e
      /\ \A j \in ConnIds \ {i} : st'[j] = st[j] /\ replay'[j] = replay[j] /\ pos'[j] = pos[j]
      /\ UNCHANGED <<seq, events, terminal>>
  BY <1>1 DEF WriteReplay, hub, IInv, TypeOK
<1>3. Cursor(i) = e - 1
  BY <1>1, CursorAt
<1>4. ReplayExact(i) /\ pos[i] \in Nat /\ seq \in Nat /\ Ahead(i) \in Nat
  <2>1. ReplayExact(i) /\ pos[i] \in Nat /\ seq \in Nat
    BY <1>2 DEF IInv, TypeOK, ConnInv, Reading
  <2>2. InFlight(i) \in Seq(Nat) /\ ch[i] \in Seq(Nat)
    BY DEF IInv, TypeOK, InFlight
  <2> QED
    BY <2>1, <2>2 DEF Ahead
<1> DEFINE last == seq - Ahead(i)
<1>5. /\ last \in Int /\ last <= seq
      /\ replay[i] \subseteq (pos[i] + 1)..last
      /\ \A g \in (pos[i] + 1)..last : g \in replay[i] \/ \A f \in replay[i] : g < f
  BY <1>4 DEF ReplayExact
<1>6. e \in Nat /\ e \in (pos[i] + 1)..last
  BY <1>4, <1>5
<1>7. \A g \in replay[i] : e <= g /\ g \in (pos[i] + 1)..last
  BY <1>1, <1>5
<1>8. e = last \/ e + 1 \in replay[i]
  <2>1. SUFFICES ASSUME e # last PROVE e + 1 \in replay[i]
    OBVIOUS
  <2>2. e + 1 \in (pos[i] + 1)..last
    BY <1>4, <1>5, <1>6, <2>1
  <2>3. ~(e + 1 < e)
    BY <1>6
  <2> QED
    BY <1>5, <2>2, <2>3
<1> HIDE DEF last
<1>9. Cursor(i)' = e
  <2>1. Cursor(i)' = IF replay'[i] = {} THEN pos'[i] ELSE Least(replay'[i]) - 1
    BY CursorIs
  <2>2. CASE e = last
    <3>1. replay'[i] = {}
      BY <1>2, <1>5, <1>6, <1>7, <2>2
    <3> QED
      BY <1>2, <2>1, <3>1
  <2>3. CASE e + 1 \in replay[i]
    <3>1. e + 1 \in replay'[i] /\ \A f \in replay'[i] : e + 1 <= f
      BY <1>2, <1>5, <1>6, <1>7, <2>3
    <3>2. replay'[i] \in SUBSET Nat
      BY <1>2 DEF IInv, TypeOK
    <3>3. Least(replay'[i]) = e + 1
      BY <3>1, <3>2, LeastOf
    <3> QED
      BY <1>6, <2>1, <3>1, <3>3
  <2> QED
    BY <1>8, <2>2, <2>3
<1>10. Cursor(i) < seq /\ Cursor(i)' = Cursor(i) + 1
  BY <1>3, <1>4, <1>5, <1>6, <1>9
<1> QED
  BY <1>2, <1>10, StreamDeliver DEF Reading

LEMMA StreamWriteLive ==
  ASSUME IInv, NEW i \in ConnIds, WriteLive(i)
  PROVE  Stream!Deliver(i)
<1>1. /\ st[i] = "live" /\ ch[i] # <<>> /\ st'[i] = st[i]
      /\ replay'[i] = replay[i] /\ pos'[i] = Head(ch[i])
      /\ \A j \in ConnIds \ {i} : st'[j] = st[j] /\ replay'[j] = replay[j] /\ pos'[j] = pos[j]
      /\ UNCHANGED <<seq, events, terminal>>
  BY DEF WriteLive, hub, IInv, TypeOK
<1>2. /\ ChannelExact(i) /\ ReplayExact(i) /\ replay[i] = {}
      /\ pos[i] \in Nat /\ seq \in Nat /\ ch[i] \in Seq(Nat)
  BY <1>1 DEF IInv, TypeOK, ConnInv, Reading
<1>3. Ahead(i) \in Nat /\ Len(ch[i]) \in Nat /\ Ahead(i) >= Len(ch[i])
  <2>1. InFlight(i) \in Seq(Nat) /\ ch[i] \in Seq(Nat)
    BY DEF IInv, TypeOK, InFlight
  <2> QED
    BY <2>1 DEF Ahead
<1>4. Len(ch[i]) > 0 /\ Head(ch[i]) = ch[i][1]
  BY <1>1, <1>2
<1>5. Head(ch[i]) = seq - Ahead(i) + 1
  BY <1>2, <1>3, <1>4 DEF ChannelExact
<1>6. pos[i] = seq - Ahead(i)
  <2>1. /\ pos[i] <= seq - Ahead(i)
        /\ (pos[i] + 1)..(seq - Ahead(i)) # {} => seq - Ahead(i) \in replay[i]
    BY <1>2 DEF ReplayExact
  <2>2. (pos[i] + 1)..(seq - Ahead(i)) = {}
    BY <1>2, <2>1
  <2>3. seq - Ahead(i) \in Int /\ ~(pos[i] + 1 <= seq - Ahead(i))
    <3>1. seq - Ahead(i) \in Int /\ pos[i] + 1 \in Int
      BY <1>2, <1>3
    <3> QED
      BY ONLY <2>2, <3>1
  <2> QED
    BY ONLY <1>2, <1>3, <2>1, <2>3
<1>7. Cursor(i) = pos[i] /\ Cursor(i)' = pos'[i]
  BY <1>1, <1>2 DEF Cursor
<1>8. Cursor(i) < seq /\ Cursor(i)' = Cursor(i) + 1
  BY <1>1, <1>2, <1>3, <1>4, <1>5, <1>6, <1>7
<1> QED
  BY <1>1, <1>8, StreamDeliver DEF Reading

(* The end of a connection, whichever. *)
LEMMA StreamEnds ==
  ASSUME IInv, IInv', NEW i \in ConnIds, Reader(i) = "open", st'[i] = "eof",
         Cursor(i) = pos[i], pos'[i] = pos[i],
         \A j \in ConnIds \ {i} : /\ st'[j] = st[j] /\ replay'[j] = replay[j]
                                  /\ pos'[j] = pos[j],
         UNCHANGED <<seq, events, terminal>>
  PROVE  Stream!Complete(i)
<1>1. terminal /\ pos[i] = seq
  BY DEF IInv, ConnInv
<1>2. Reader(i)' = "eof"
  BY DEF Reader, Reading
<1>3. Phase' = [Phase EXCEPT ![i] = "eof"] /\ Cursors' = [Cursors EXCEPT ![i] = 0]
  BY <1>2, OneReader DEF Standing
<1> QED
  BY <1>1, <1>2, <1>3 DEF Stream!Complete, Phase, Cursors, Standing

LEMMA StreamQuits ==
  ASSUME NEW i \in ConnIds, Reader(i) \in {"none", "open"}, Reader(i)' = "gone",
         \A j \in ConnIds \ {i} : /\ st'[j] = st[j] /\ replay'[j] = replay[j]
                                  /\ pos'[j] = pos[j],
         UNCHANGED <<seq, events, terminal>>
  PROVE  Stream!Quit(i)
<1>1. Phase' = [Phase EXCEPT ![i] = "gone"] /\ Cursors' = [Cursors EXCEPT ![i] = 0]
  BY OneReader DEF Standing
<1> QED
  BY <1>1 DEF Stream!Quit, Phase, Cursors, Standing

LEMMA ConnRefines ==
  ASSUME IInv, IInv', NEW i \in ConnIds,
         Open(i) \/ Write(i) \/ Disconnect(i) \/ Cancel(i)
  PROVE  [Stream!Next]_(Stream!vars)
<1> USE DEF IInv, TypeOK
<1>1. CASE Subscribe(i)
  BY <1>1, StreamJoin DEF Stream!Next
<1>2. CASE WriteReplay(i) \/ WriteLive(i)
  BY <1>2, StreamWriteReplay, StreamWriteLive DEF Stream!Next
<1>3. CASE Probe(i) \/ Leave(i) \/ WriteFails(i)
  <2>1. /\ Reader(i) \in {"none", "open"} /\ Reader(i)' = "gone"
        /\ \A j \in ConnIds \ {i} : st'[j] = st[j] /\ replay'[j] = replay[j] /\ pos'[j] = pos[j]
        /\ UNCHANGED <<seq, events, terminal>>
    <3>1. CASE Probe(i)
      BY <3>1 DEF Probe, Register, Reader, Reading, hub
    <3>2. CASE Leave(i)
      BY <3>2 DEF Leave, Reader, Reading, hub
    <3>3. CASE WriteFails(i)
      BY <3>3 DEF WriteFails, Reader, Reading, hub
    <3> QED
      BY <1>3, <3>1, <3>2, <3>3
  <2>2. Stream!Quit(i)
    BY <2>1, StreamQuits
  <2> QED
    BY <2>2 DEF Stream!Next
<1>4. CASE Cancel(i)
  <2>1. /\ Reader(i) = "gone" /\ Reader(i)' = "gone"
        /\ \A j \in ConnIds \ {i} : st'[j] = st[j] /\ replay'[j] = replay[j] /\ pos'[j] = pos[j]
        /\ UNCHANGED <<seq, events, terminal>>
    BY <1>4 DEF Cancel, Reader, Reading, hub
  <2>2. \A j \in ConnIds : Reader(j)' = Reader(j) /\ Standing(j)' = Standing(j)
    BY <2>1, StillStands DEF Standing
  <2> QED
    BY <2>1, <2>2 DEF Stream!vars, Standing
<1>5. CASE GoLive(i)
  <2>1. /\ Reader(i) = "open" /\ Cursor(i) = pos[i] /\ Cursor(i)' = pos'[i]
        /\ pos' = pos /\ replay' = replay /\ st'[i] \in {"live", "eof"}
        /\ \A j \in ConnIds \ {i} : st'[j] = st[j]
        /\ UNCHANGED <<seq, events, terminal>>
    BY <1>5 DEF GoLive, Reader, Reading, Cursor, hub
  <2>2. CASE st'[i] = "eof"
    BY <2>1, <2>2, StreamEnds DEF Stream!Next
  <2>3. CASE st'[i] = "live"
    <3>1. Reader(i)' = "open"
      BY <2>3 DEF Reader, Reading
    <3>2. \A j \in ConnIds : Reader(j)' = Reader(j) /\ Standing(j)' = Standing(j)
      BY <2>1, <3>1, StillStands DEF Standing
    <3> QED
      BY <2>1, <3>2 DEF Stream!vars, Standing
  <2> QED
    BY <2>1, <2>2, <2>3
<1>6. CASE Eof(i)
  <2>1. /\ st[i] = "live" /\ st' = [st EXCEPT ![i] = "eof"] /\ pos' = pos /\ replay' = replay
        /\ UNCHANGED <<seq, events, terminal>>
    BY <1>6 DEF Eof, hub
  <2>2. replay[i] = {}
    BY <2>1 DEF ConnInv
  <2>3. /\ Reader(i) = "open" /\ Cursor(i) = pos[i] /\ st'[i] = "eof"
        /\ \A j \in ConnIds \ {i} : st'[j] = st[j]
    BY <2>1, <2>2 DEF Reader, Reading, Cursor
  <2>4. Stream!Complete(i)
    BY <2>1, <2>3, StreamEnds
  <2> QED
    BY <2>4 DEF Stream!Next
<1> QED
  BY <1>1, <1>2, <1>3, <1>4, <1>5, <1>6 DEF Open, Write, Disconnect

(* The journal and its connections keep the promise of EventStream          *)
(* (journal.go:41-129, journal_writer.go:22-62).                            *)
THEOREM JournalImplementsStream == Spec => StreamSpec
<1>1. Init => Stream!Init
  BY StreamInit
<1>2. IInv /\ IInv' /\ [Next]_vars => [Stream!Next]_(Stream!vars)
  BY HubRefines, ConnRefines DEF Next
<1> QED
  BY <1>1, <1>2, Invariance, PTL DEF Spec, StreamSpec, Stream!Spec
=============================================================================
