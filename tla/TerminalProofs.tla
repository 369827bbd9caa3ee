---------------------------- MODULE TerminalProofs ----------------------------
(***************************************************************************)
(* Theorems about Terminal for any number of sessions, requests, viewers,  *)
(* shells and items, and any capacities: what a viewer gets is in order,   *)
(* and the newest item survives; and, when requests come one at a time, no *)
(* shell is left behind.                                                   *)
(***************************************************************************)
EXTENDS Terminal, TLAPS

-----------------------------------------------------------------------------
(* What a viewer has and will get: p first, then the items of its channel. *)
Ascending(p, s) ==
  /\ \A i \in 1..Len(s) : p < s[i]
  /\ \A i, j \in 1..Len(s) : i < j => s[i] < s[j]
Latest(p, s) == IF Len(s) = 0 THEN p ELSE s[Len(s)]

LEMMA LatestIsNat ==
  ASSUME NEW p \in Nat, NEW s \in Seq(Nat)
  PROVE  Latest(p, s) \in Nat /\ Len(s) \in Nat
BY DEF Latest

LEMMA PutAtEnd ==
  ASSUME NEW p \in Nat, NEW s \in Seq(Nat), NEW e \in Nat,
         Ascending(p, s), Latest(p, s) < e
  PROVE  /\ Append(s, e) \in Seq(Nat)
         /\ Ascending(p, Append(s, e)) /\ Latest(p, Append(s, e)) = e
<1> DEFINE n == Len(s)
<1> DEFINE t == Append(s, e)
<1>1. /\ n \in Nat /\ t \in Seq(Nat) /\ Len(t) = n + 1 /\ t[n + 1] = e
      /\ \A i \in 1..n : t[i] = s[i] /\ s[i] \in Nat
  OBVIOUS
<1>2. ASSUME NEW i \in 1..n PROVE s[i] < e
  <2>1. s[n] < e /\ s[i] <= s[n] /\ s[n] \in Nat /\ s[i] \in Nat
    BY <1>1, <1>2 DEF Ascending, Latest
  <2> QED
    BY <2>1
<1>3. p < e
  <2>1. n = 0 => p < e
    BY DEF Latest
  <2>2. n # 0 => p < s[1] /\ s[1] < e /\ s[1] \in Nat
    BY <1>1, <1>2 DEF Ascending
  <2> QED
    BY <2>1, <2>2
<1>4. \A i \in 1..Len(t) : i \in 1..n \/ i = n + 1
  BY <1>1
<1>5. Ascending(p, s)
  OBVIOUS
<1> HIDE DEF n, t
<1>6. \A i \in 1..Len(t) : p < t[i]
  BY <1>1, <1>3, <1>4, <1>5 DEF Ascending, n
<1>7. \A i, j \in 1..Len(t) : i < j => t[i] < t[j]
  <2>1. SUFFICES ASSUME NEW i \in 1..Len(t), NEW j \in 1..Len(t), i < j PROVE t[i] < t[j]
    OBVIOUS
  <2>2. i \in 1..n
    BY <1>1, <1>4, <2>1
  <2>3. CASE j \in 1..n
    BY <1>1, <1>5, <2>1, <2>2, <2>3 DEF Ascending, n
  <2>4. CASE j = n + 1
    BY <1>1, <1>2, <2>2, <2>4
  <2> QED
    BY <1>4, <2>3, <2>4
<1>8. Latest(p, t) = e
  BY <1>1 DEF Latest
<1> QED
  BY <1>1, <1>6, <1>7, <1>8 DEF Ascending, t

LEMMA TakeFirst ==
  ASSUME NEW p \in Nat, NEW s \in Seq(Nat), s # <<>>, Ascending(p, s)
  PROVE  /\ Tail(s) \in Seq(Nat) /\ Head(s) \in Nat
         /\ Ascending(p, Tail(s)) /\ Latest(p, Tail(s)) <= Latest(p, s)
         /\ Ascending(Head(s), Tail(s)) /\ Latest(Head(s), Tail(s)) = Latest(p, s)
<1> DEFINE n == Len(s)
<1> DEFINE t == Tail(s)
<1>1. /\ n \in Nat \ {0} /\ t \in Seq(Nat) /\ Len(t) = n - 1 /\ Head(s) = s[1]
      /\ \A i \in 1..(n - 1) : t[i] = s[i + 1]
      /\ \A i \in 1..n : s[i] \in Nat
  OBVIOUS
<1>2. /\ \A i \in 1..n : p < s[i]
      /\ \A i, j \in 1..n : i < j => s[i] < s[j]
  BY DEF Ascending
<1>3. Latest(p, s) = s[n]
  BY <1>1 DEF Latest
<1> HIDE DEF n, t
<1>4. Ascending(p, t) /\ Ascending(s[1], t)
  <2>1. \A i \in 1..(n - 1) : i + 1 \in 1..n /\ 1 \in 1..n /\ 1 < i + 1
    BY <1>1
  <2>2. \A i \in 1..(n - 1) : p < t[i] /\ s[1] < t[i]
    BY <1>1, <1>2, <2>1
  <2>3. \A i, j \in 1..(n - 1) : i < j => t[i] < t[j]
    BY <1>1, <1>2, <2>1
  <2> QED
    BY <1>1, <2>2, <2>3 DEF Ascending
<1>5. Latest(s[1], t) = s[n] /\ Latest(p, t) <= s[n]
  <2>1. CASE n = 1
    BY <1>1, <1>2, <2>1 DEF Latest
  <2>2. CASE n # 1
    <3>1. n - 1 \in 1..(n - 1) /\ t[n - 1] = s[n] /\ s[n] \in Nat
      BY <1>1, <2>2
    <3> QED
      BY <1>1, <2>2, <3>1 DEF Latest
  <2> QED
    BY <2>1, <2>2
<1> QED
  BY <1>1, <1>3, <1>4, <1>5 DEF t

(* The sequence of the properties. *)
LEMMA SeenFacts ==
  ASSUME NEW p \in Nat, NEW s \in Seq(Nat), Ascending(p, s)
  PROVE  LET seen == <<p>> \o s IN
         /\ \A i, j \in 1..Len(seen) : i < j => seen[i] < seen[j]
         /\ seen[Len(seen)] = Latest(p, s)
<1> DEFINE n == Len(s)
<1> DEFINE seen == <<p>> \o s
<1>1. /\ n \in Nat /\ Len(seen) = n + 1 /\ seen[1] = p
      /\ \A i \in 2..(n + 1) : seen[i] = s[i - 1]
  OBVIOUS
<1>2. \A i \in 1..(n + 1) : i = 1 \/ (i \in 2..(n + 1) /\ i - 1 \in 1..n)
  BY <1>1
<1>3. /\ \A i \in 1..n : p < s[i]
      /\ \A i, j \in 1..n : i < j => s[i] < s[j]
  BY DEF Ascending
<1> HIDE DEF n, seen
<1>4. ASSUME NEW i \in 1..(n + 1), NEW j \in 1..(n + 1), i < j PROVE seen[i] < seen[j]
  <2>1. j \in 2..(n + 1) /\ j - 1 \in 1..n
    BY <1>1, <1>2, <1>4
  <2>2. CASE i = 1
    BY <1>1, <1>3, <2>1, <2>2
  <2>3. CASE i \in 2..(n + 1) /\ i - 1 \in 1..n
    <3>1. i - 1 < j - 1
      BY <1>1, <1>4, <2>1, <2>3
    <3> QED
      BY <1>1, <1>3, <2>1, <2>3, <3>1
  <2> QED
    BY <1>2, <2>2, <2>3
<1>5. seen[n + 1] = Latest(p, s)
  <2>1. CASE n = 0
    BY <1>1, <2>1 DEF Latest, n
  <2>2. CASE n # 0
    <3>1. n + 1 \in 2..(n + 1) /\ n + 1 - 1 = n
      BY <1>1, <2>2
    <3>2. seen[n + 1] = s[n]
      BY <1>1, <3>1
    <3> QED
      BY <2>2, <3>2 DEF Latest, n
  <2> QED
    BY <2>1, <2>2
<1> QED
  BY <1>1, <1>4, <1>5 DEF seen

-----------------------------------------------------------------------------
(* The backlog: the last items, numbered without a hole, and one at least   *)
(* when any was published.                                                 *)
Backlogged(log, seq) ==
  /\ Len(log) <= seq /\ (seq > 0 => Len(log) > 0)
  /\ \A i \in 1..Len(log) : log[i] = seq - Len(log) + i

LEMMA BacklogSeen ==
  ASSUME NEW log \in Seq(Nat), NEW seq \in Nat, Backlogged(log, seq)
  PROVE  Ascending(0, log) /\ Latest(0, log) = seq
<1> DEFINE n == Len(log)
<1>1. n \in Nat /\ n <= seq /\ (seq > 0 => n > 0) /\ \A i \in 1..n : log[i] = seq - n + i
  BY DEF Backlogged
<1> HIDE DEF n
<1>2. Latest(0, log) = IF n = 0 THEN 0 ELSE log[n]
  BY DEF Latest, n
<1>3. Latest(0, log) = seq
  BY <1>1, <1>2
<1>4. \A i \in 1..n : 0 < log[i]
  BY <1>1
<1>5. \A i, j \in 1..n : i < j => log[i] < log[j]
  BY <1>1
<1> QED
  BY <1>3, <1>4, <1>5 DEF Ascending, n

LEMMA BacklogGrows ==
  ASSUME TerminalAssumption, NEW log \in Seq(Nat), NEW seq \in Nat, Backlogged(log, seq)
  PROVE  /\ Trim(Append(log, seq + 1)) \in Seq(Nat)
         /\ Backlogged(Trim(Append(log, seq + 1)), seq + 1)
<1> DEFINE n == Len(log)
<1> DEFINE a == Append(log, seq + 1)
<1> DEFINE t == SubSeq(a, n + 1 - Backlog + 1, n + 1)
<1>1. /\ n \in Nat /\ n <= seq /\ Backlog \in Nat \ {0}
      /\ \A i \in 1..n : log[i] = seq - n + i
  BY DEF Backlogged, TerminalAssumption
<1>2. /\ a \in Seq(Nat) /\ Len(a) = n + 1 /\ a[n + 1] = seq + 1
      /\ \A i \in 1..n : a[i] = log[i]
  OBVIOUS
<1>3. \A i \in 1..(n + 1) : a[i] = (seq + 1) - (n + 1) + i
  <2>1. SUFFICES ASSUME NEW i \in 1..(n + 1) PROVE a[i] = (seq + 1) - (n + 1) + i
    OBVIOUS
  <2> HIDE DEF a
  <2>2. CASE i = n + 1
    BY <1>1, <1>2, <2>2
  <2>3. CASE i \in 1..n
    BY <1>1, <1>2, <2>3
  <2> QED
    BY <1>1, <2>1, <2>2, <2>3
<1>4. CASE n + 1 <= Backlog
  <2>1. Trim(a) = a
    BY <1>1, <1>2, <1>4 DEF Trim
  <2> HIDE DEF a
  <2>2. Backlogged(a, seq + 1)
    BY <1>1, <1>2, <1>3 DEF Backlogged
  <2> QED
    BY <1>2, <2>1, <2>2 DEF a
<1>5. CASE n + 1 > Backlog
  <2>1. Trim(a) = t
    <3>1. Len(a) = n + 1 /\ Len(a) > Backlog
      BY <1>1, <1>2, <1>5
    <3> HIDE DEF a
    <3>2. Trim(a) = SubSeq(a, Len(a) - Backlog + 1, Len(a))
      BY <3>1 DEF Trim
    <3> QED
      BY <3>1, <3>2
  <2> DEFINE m == n + 1 - Backlog + 1
  <2>2. m \in 1..(n + 1) /\ n + 1 \in Nat /\ n + 1 - m + 1 = Backlog
    BY <1>1, <1>5
  <2> HIDE DEF a
  <2>3. /\ t \in Seq(Nat) /\ Len(t) = Backlog
        /\ \A i \in 1..Backlog : t[i] = a[m + i - 1]
    BY <1>1, <1>2, <2>2
  <2>4. \A i \in 1..Backlog : m + i - 1 \in 1..(n + 1)
    BY <1>1, <1>5
  <2> HIDE DEF t
  <2>5. \A i \in 1..Backlog : t[i] = (seq + 1) - (n + 1) + (m + i - 1)
    BY <1>3, <2>3, <2>4
  <2>6. \A i \in 1..Backlog : t[i] = (seq + 1) - Backlog + i
    BY <1>1, <2>5
  <2>7. Backlogged(t, seq + 1)
    BY <1>1, <1>5, <2>3, <2>6 DEF Backlogged
  <2> QED
    BY <2>1, <2>3, <2>7 DEF a
<1> QED
  BY <1>1, <1>4, <1>5

-----------------------------------------------------------------------------
(* The invariant.  Types first; of a request only what it may register.     *)
TermRec ==
  [sid : Sids \cup {Nobody}, closed : BOOLEAN, open : BOOLEAN,
   shell : {"none", "running", "exited"}, seq : Nat, log : Seq(Nat),
   subs : SUBSET Viewers, watch : {"watched", "unwatched", "idle"},
   at : {"none", "reading", "sending", "hungup", "parting", "ended"},
   todo : SUBSET Viewers, cur : Viewers \cup {Nobody}]
ViewRec == [at : {"away", "found", "open", "stuck", "left"}, k : Nat, ch : Seq(Nat), pos : Nat]
Steps == {"cap", "alive", "spawn", "register", "unregister", "shut"}
Working == [at : Steps, sid : Sids, k : Nat, then : {"cap", "idle"}]
Closing == [at : {"unregister", "shut", "reap"}, sid : Sids, k : Nat, then : {"reap"},
            victims : SUBSET Sids]
Request ==
  {Idle} \cup Working \cup [at : {"reap"}, victims : SUBSET Sids] \cup Closing

RegInv ==
  /\ made \in 0..MaxTerms /\ reg \in [Sids -> 0..made]
  /\ req \in [Clients \cup {Reaper} -> Request]
  /\ \A c \in Clients \cup {Reaper} : req[c].at = "register" => req[c].k \in Made

Records == term \in [Terms -> TermRec] /\ view \in [Viewers -> ViewRec]

(* The delivery loop holds viewers only while it delivers. *)
LoopInv ==
  \A k \in Terms :
    /\ Backlogged(term[k].log, term[k].seq)
    /\ term[k].cur # Nobody => term[k].cur \in term[k].todo
    /\ term[k].at \notin {"sending", "parting"} => term[k].todo = {}

(* A subscriber is connected to this terminal, or it has left. *)
SubsInv ==
  \A k \in Terms : \A v \in term[k].subs \cup term[k].todo :
    \/ view[v].at = "open" /\ view[v].k = k
    \/ view[v].at = "left"

(* What a viewer has and will get ends with the newest item, or with an     *)
(* older one while the loop still has it to serve.                         *)
UpTo(v) ==
  LET w == view[v]
      t == term[w.k]
  IN  /\ v \in t.subs /\ Ascending(w.pos, w.ch)
      /\ v \in t.todo => Latest(w.pos, w.ch) < t.seq
      /\ v \notin t.todo => Latest(w.pos, w.ch) = t.seq

ViewInv ==
  \A v \in Viewers :
    /\ view[v].at \in {"found", "open", "stuck"} => view[v].k \in Made
    /\ view[v].at \in {"away", "found"} => view[v].pos = 0
    /\ view[v].at = "open" => UpTo(v)

TermInv == RegInv /\ Records /\ LoopInv /\ SubsInv /\ ViewInv

LEMMA TermInit == TerminalAssumption /\ Init => TermInv
<1> SUFFICES ASSUME TerminalAssumption, Init PROVE TermInv
  OBVIOUS
<1> USE DEF TerminalAssumption, Init
<1>1. RegInv
  BY DEF RegInv, Request, Working, Closing, Idle, Made
<1>2. NoTerm \in TermRec
  BY DEF NoTerm, TermRec
<1>3. Records
  BY <1>2 DEF Records, ViewRec
<1>4. LoopInv
  BY DEF LoopInv, NoTerm, Backlogged
<1>5. SubsInv
  BY DEF SubsInv, NoTerm
<1>6. ViewInv
  BY DEF ViewInv
<1> QED
  BY <1>1, <1>3, <1>4, <1>5, <1>6 DEF TermInv

-----------------------------------------------------------------------------
(* Requests. *)
LEMMA TermRange == ASSUME TerminalAssumption, RegInv PROVE Made \subseteq Terms /\ Made \subseteq Nat
BY DEF RegInv, TerminalAssumption, Made, Terms

(* A step that leaves terminals and viewers alone. *)
LEMMA TermRest ==
  ASSUME TermInv, RegInv', UNCHANGED <<made, term, view>>
  PROVE  TermInv'
BY DEF TermInv, Records, LoopInv, SubsInv, ViewInv, UpTo, Made

LEMMA TermStart ==
  ASSUME TerminalAssumption, TermInv, NEW c \in Clients, NEW s \in Sids,
         StartLook(c, s) \/ CloseRequest(c, s)
  PROVE  TermInv'
<1>1. RegInv
  BY DEF TermInv
<1>2. At(IF reg[s] = 0 THEN "cap" ELSE "alive", s, reg[s], "cap") \in Request
      /\ At("unregister", s, 0, "idle") \in Request
  BY <1>1 DEF RegInv, Request, Working, At, Steps
<1>3. RegInv'
  BY <1>1, <1>2 DEF RegInv, StartLook, CloseRequest, At, Made
<1> QED
  BY <1>3, TermRest DEF StartLook, CloseRequest

(* closeterminal: what the caller is at next. *)
LEMMA ReturnForm ==
  ASSUME NEW c \in Clients \cup {Reaper}, req[c] \in Request, req[c].at \in {"unregister", "shut"}
  PROVE  Return(c) \in Request /\ Return(c).at # "register"
<1>1. req[c] \in Working \/ req[c] \in Closing
  BY DEF Request, Idle
<1>2. CASE req[c].then = "idle"
  BY <1>2 DEF Request, Return, Idle
<1>3. CASE req[c].then = "cap"
  <2>1. req[c] \in Working
    BY <1>1, <1>3 DEF Closing
  <2>2. /\ [req[c] EXCEPT !.at = "cap", !.k = 0] \in Working
        /\ [req[c] EXCEPT !.at = "cap", !.k = 0].at = "cap"
    BY <2>1 DEF Working, Steps
  <2>3. Return(c) = [req[c] EXCEPT !.at = "cap", !.k = 0]
    BY <1>3 DEF Return
  <2> QED
    BY <2>2, <2>3 DEF Request
<1>4. CASE req[c].then = "reap"
  <2>1. req[c] \in Closing
    BY <1>1, <1>4 DEF Working
  <2>2. /\ [req[c] EXCEPT !.at = "reap", !.k = 0] \in Closing
        /\ [req[c] EXCEPT !.at = "reap", !.k = 0].at = "reap"
    BY <2>1 DEF Closing
  <2>3. Return(c) = [req[c] EXCEPT !.at = "reap", !.k = 0]
    BY <1>4 DEF Return
  <2> QED
    BY <2>2, <2>3 DEF Request
<1> QED
  BY <1>1, <1>2, <1>3, <1>4 DEF Working, Closing

LEMMA ShutForm ==
  ASSUME NEW c \in Clients \cup {Reaper}, req[c] \in Request, req[c].at = "unregister",
         NEW k \in Nat
  PROVE  /\ [req[c] EXCEPT !.at = "shut", !.k = k] \in Request
         /\ [req[c] EXCEPT !.at = "shut", !.k = k].at # "register"
<1>1. req[c] \in Working \/ req[c] \in Closing
  BY DEF Request, Idle
<1>2. ASSUME req[c] \in Working
      PROVE  /\ [req[c] EXCEPT !.at = "shut", !.k = k] \in Working
             /\ [req[c] EXCEPT !.at = "shut", !.k = k].at = "shut"
  BY <1>2 DEF Working, Steps
<1>3. ASSUME req[c] \in Closing
      PROVE  /\ [req[c] EXCEPT !.at = "shut", !.k = k] \in Closing
             /\ [req[c] EXCEPT !.at = "shut", !.k = k].at = "shut"
  BY <1>3 DEF Closing
<1> QED
  BY <1>1, <1>2, <1>3 DEF Request

LEMMA TermProceed ==
  ASSUME TerminalAssumption, TermInv, NEW c \in Clients \cup {Reaper},
         StartAlive(c) \/ StartCap(c) \/ StartRegister(c) \/ Unregister(c)
  PROVE  TermInv'
<1>1. RegInv
  BY DEF TermInv
<1>2. CASE StartAlive(c)
  <2>1. req[c].sid \in Sids
    BY <1>1, <1>2 DEF RegInv, StartAlive, Request, Working, Closing, Idle, Steps
  <2>2. At("unregister", req[c].sid, 0, "cap") \in Request /\ Idle \in Request
    BY <2>1 DEF Request, Working, At, Steps
  <2>3. RegInv'
    BY <1>1, <1>2, <2>2 DEF RegInv, StartAlive, At, Idle, Made
  <2> QED
    BY <1>2, <2>3, TermRest DEF StartAlive
<1>3. CASE StartCap(c)
  <2>1. req[c].at = "cap" /\ (req' = req \/ req' = [req EXCEPT ![c].at = "spawn"])
        /\ UNCHANGED <<reg, made, term, view>>
    BY <1>3 DEF StartCap
  <2>2. [req[c] EXCEPT !.at = "spawn"] \in Request
        /\ [req[c] EXCEPT !.at = "spawn"].at = "spawn"
    BY <1>1, <2>1 DEF RegInv, Request, Working, Closing, Idle, Steps
  <2>3. RegInv'
    BY <1>1, <2>1, <2>2 DEF RegInv, Made
  <2> QED
    BY <2>1, <2>3, TermRest
<1>4. CASE StartRegister(c)
  <2>1. req[c].k \in Made /\ Made \subseteq 0..made
    BY <1>1, <1>4 DEF RegInv, StartRegister, Made
  <2>2. RegInv'
    BY <1>1, <1>4, <2>1 DEF RegInv, StartRegister, Request, Working, Closing, Idle, Made
  <2> QED
    BY <1>4, <2>2, TermRest DEF StartRegister
<1>5. CASE Unregister(c)
  <2>1. PICK r \in {Return(c), [req[c] EXCEPT !.at = "shut", !.k = reg[req[c].sid]]} :
          req' = [req EXCEPT ![c] = r]
    BY <1>5 DEF Unregister
  <2>2. req[c].at = "unregister" /\ req[c] \in Request
    BY <1>1, <1>5 DEF RegInv, Unregister
  <2>3. reg[req[c].sid] \in Nat /\ req[c].sid \in Sids
    BY <1>1, <2>2 DEF RegInv, Request, Working, Closing, Idle
  <2>4. r \in Request /\ r.at # "register"
    BY <2>1, <2>2, <2>3, ReturnForm, ShutForm
  <2>5. reg' = [reg EXCEPT ![req[c].sid] = 0] /\ UNCHANGED <<made, term, view>>
    BY <1>5 DEF Unregister
  <2>6. RegInv'
    <3>1. 0 \in 0..made /\ req[c].sid \in Sids
      BY <1>1, <2>3 DEF RegInv, TerminalAssumption
    <3>2. reg' \in [Sids -> 0..made]
      BY <1>1, <2>5, <3>1 DEF RegInv
    <3>3. req' \in [Clients \cup {Reaper} -> Request]
      BY <1>1, <2>1, <2>4 DEF RegInv
    <3>4. \A b \in Clients \cup {Reaper} : req'[b].at = "register" => req'[b].k \in Made
      BY <1>1, <2>1, <2>4 DEF RegInv
    <3> QED
      BY <1>1, <2>5, <3>2, <3>3, <3>4 DEF RegInv, Made
  <2> QED
    BY <2>5, <2>6, TermRest
<1> QED
  BY <1>2, <1>3, <1>4, <1>5

LEMMA TermReap ==
  ASSUME TerminalAssumption, TermInv, ReapScan \/ ReapNext
  PROVE  TermInv'
<1>1. RegInv
  BY DEF TermInv
<1>2. PICK r : /\ req' = req \/ req' = [req EXCEPT ![Reaper] = r]
               /\ r \in Request /\ r.at # "register"
  <2>1. CASE ReapScan
    <3>1. PICK victims \in SUBSET Sids :
            req' = req \/ req' = [req EXCEPT ![Reaper] = [at |-> "reap", victims |-> victims]]
      BY <2>1 DEF ReapScan, Registered
    <3>2. [at |-> "reap", victims |-> victims] \in Request
      BY DEF Request
    <3> QED
      BY <3>1, <3>2
  <2>2. CASE ReapNext
    <3>1. req[Reaper].victims \in SUBSET Sids
      BY <1>1, <2>2 DEF ReapNext, RegInv, Request, Working, Closing, Idle, Steps
    <3>2. CASE req[Reaper].victims = {}
      BY <2>2, <3>2 DEF ReapNext, Request, Working, Closing, Idle
    <3>3. CASE req[Reaper].victims # {}
      <4>1. PICK s \in req[Reaper].victims :
              req' = [req EXCEPT ![Reaper] =
                        [at |-> "unregister", sid |-> s, k |-> 0, then |-> "reap",
                         victims |-> req[Reaper].victims \ {s}]]
        BY <2>2, <3>3 DEF ReapNext
      <4> DEFINE next == [at |-> "unregister", sid |-> s, k |-> 0, then |-> "reap",
                         victims |-> req[Reaper].victims \ {s}]
      <4>2. next \in Request /\ next.at # "register"
        BY <3>1 DEF Request, Closing
      <4>3. req' = [req EXCEPT ![Reaper] = next]
        BY <4>1
      <4> HIDE DEF next
      <4> QED
        BY <4>2, <4>3
    <3> QED
      BY <3>2, <3>3
  <2> QED
    BY <2>1, <2>2
<1>3. UNCHANGED <<reg, made, term, view>>
  BY DEF ReapScan, ReapNext
<1>4. RegInv'
  BY <1>1, <1>2, <1>3 DEF RegInv, Made
<1> QED
  BY <1>3, <1>4, TermRest

-----------------------------------------------------------------------------
(* Shells: what changes neither an item nor a subscription. *)
LEMMA TermFrame ==
  ASSUME TermInv, RegInv', term' \in [Terms -> TermRec], UNCHANGED <<made, view>>,
         \A k \in Terms : /\ term'[k].seq = term[k].seq /\ term'[k].log = term[k].log
                          /\ term'[k].subs = term[k].subs /\ term'[k].todo = term[k].todo
                          /\ term'[k].cur = term[k].cur
                          /\ term'[k].at = term[k].at \/ term[k].at \notin {"sending", "parting"},
         TerminalAssumption
  PROVE  TermInv'
<1>1. Records /\ LoopInv /\ SubsInv /\ ViewInv /\ RegInv
  BY DEF TermInv
<1>2. Records'
  BY <1>1 DEF Records
<1>3. LoopInv'
  <2>1. ASSUME NEW k \in Terms, term'[k].at \notin {"sending", "parting"}
        PROVE  term'[k].todo = {}
    BY <1>1, <2>1 DEF LoopInv
  <2>2. ASSUME NEW k \in Terms
        PROVE  /\ Backlogged(term'[k].log, term'[k].seq)
               /\ term'[k].cur # Nobody => term'[k].cur \in term'[k].todo
    <3>1. /\ term'[k].seq = term[k].seq /\ term'[k].log = term[k].log
          /\ term'[k].todo = term[k].todo /\ term'[k].cur = term[k].cur
      OBVIOUS
    <3>2. /\ Backlogged(term[k].log, term[k].seq)
          /\ term[k].cur # Nobody => term[k].cur \in term[k].todo
      BY <1>1 DEF LoopInv
    <3> QED
      BY <3>1, <3>2
  <2> QED
    BY <2>1, <2>2 DEF LoopInv
<1>4. SubsInv'
  BY <1>1 DEF SubsInv
<1>5. ViewInv'
  <2>1. ASSUME NEW v \in Viewers, view[v].at = "open" PROVE UpTo(v)'
    <3>1. view[v].k \in Terms /\ UpTo(v)
      BY <1>1, <2>1, TermRange DEF ViewInv
    <3> QED
      BY <3>1 DEF UpTo
  <2> QED
    BY <1>1, <2>1 DEF ViewInv, Made
<1> QED
  BY <1>2, <1>3, <1>4, <1>5 DEF TermInv

LEMMA TermShell ==
  ASSUME TerminalAssumption, TermInv, NEW k \in Terms,
         Hangup(k) \/ ShellExits(k) \/ Elapse(k)
  PROVE  TermInv'
<1>1. RegInv /\ term \in [Terms -> TermRec] /\ term[k] \in TermRec
  BY DEF TermInv, Records
<1>2. RegInv' /\ UNCHANGED <<made, view>>
  BY <1>1 DEF RegInv, Made, Hangup, ShellExits, Elapse
<1>3. CASE Hangup(k)
  <2>1. term[k].at = "reading" /\ term' = [term EXCEPT ![k].closed = TRUE, ![k].at = "hungup"]
    BY <1>3 DEF Hangup
  <2>2. term' = [term EXCEPT ![k] = [term[k] EXCEPT !.closed = TRUE, !.at = "hungup"]]
    BY <1>1, <2>1
  <2>3. [term[k] EXCEPT !.closed = TRUE, !.at = "hungup"] \in TermRec
    BY <1>1 DEF TermRec
  <2>4. term' \in [Terms -> TermRec]
    BY <1>1, <2>2, <2>3
  <2> QED
    BY <1>1, <1>2, <2>1, <2>2, <2>4, TermFrame DEF TermRec
<1>4. CASE ShellExits(k)
  <2>1. term' = [term EXCEPT ![k] = [term[k] EXCEPT !.shell = "exited"]]
    BY <1>1, <1>4 DEF ShellExits
  <2>2. [term[k] EXCEPT !.shell = "exited"] \in TermRec
    BY <1>1 DEF TermRec
  <2>3. term' \in [Terms -> TermRec]
    BY <1>1, <2>1, <2>2
  <2> QED
    BY <1>1, <1>2, <2>1, <2>3, TermFrame DEF TermRec
<1>5. CASE Elapse(k)
  <2>1. term' = [term EXCEPT ![k] = [term[k] EXCEPT !.watch = "idle"]]
    BY <1>1, <1>5 DEF Elapse
  <2>2. [term[k] EXCEPT !.watch = "idle"] \in TermRec
    BY <1>1 DEF TermRec
  <2>3. term' \in [Terms -> TermRec]
    BY <1>1, <2>1, <2>2
  <2> QED
    BY <1>1, <1>2, <2>1, <2>3, TermFrame DEF TermRec
<1> QED
  BY <1>3, <1>4, <1>5

LEMMA TermShut ==
  ASSUME TerminalAssumption, TermInv, NEW c \in Clients \cup {Reaper}, Shut(c)
  PROVE  TermInv'
<1>1. RegInv /\ term \in [Terms -> TermRec]
  BY DEF TermInv, Records
<1>2. req[c].at = "shut" /\ req' = [req EXCEPT ![c] = Return(c)] /\ UNCHANGED <<reg, made, view>>
  BY DEF Shut
<1>3. RegInv'
  <2>1. Return(c) \in Request /\ Return(c).at # "register"
    BY <1>1, <1>2, ReturnForm DEF RegInv
  <2> QED
    BY <1>1, <1>2, <2>1 DEF RegInv, Made
<1> DEFINE k == req[c].k
<1>4. CASE k \in Terms
  <2>1. term' = [term EXCEPT ![k] = [term[k] EXCEPT !.closed = TRUE, !.open = FALSE]]
    BY <1>1, <1>4 DEF Shut
  <2> HIDE DEF k
  <2>2. [term[k] EXCEPT !.closed = TRUE, !.open = FALSE] \in TermRec
    <3>1. term[k] \in TermRec
      BY <1>1, <1>4
    <3> QED
      BY ONLY <3>1 DEF TermRec
  <2>3. term' \in [Terms -> TermRec]
    BY <1>1, <2>1, <2>2
  <2> QED
    BY <1>1, <1>2, <1>3, <2>1, <2>3, TermFrame DEF TermRec
<1>5. CASE k \notin Terms
  <2>1. term' = term
    BY <1>1, <1>5 DEF Shut
  <2> QED
    BY <1>2, <1>3, <2>1, TermRest
<1> QED
  BY <1>4, <1>5

(* A new shell has no viewer, and no viewer knows it. *)
LEMMA TermSpawn ==
  ASSUME TerminalAssumption, TermInv, NEW c \in Clients \cup {Reaper}, StartSpawn(c)
  PROVE  TermInv'
<1>1. /\ RegInv /\ Records /\ LoopInv /\ SubsInv /\ ViewInv
      /\ req[c] \in Request /\ req[c].at = "spawn" /\ UNCHANGED <<reg, view>>
  BY DEF TermInv, RegInv, StartSpawn
<1>2. req[c] \in Working /\ req[c].sid \in Sids
  BY <1>1 DEF Request, Idle, Working, Closing
<1>3. CASE UNCHANGED <<made, term>> /\ req' = [req EXCEPT ![c] = Idle]
  <2>1. RegInv'
    BY <1>1, <1>3 DEF RegInv, Made, Request, Idle
  <2> QED
    BY <1>1, <1>3, <2>1, TermRest
<1>4. CASE made < MaxTerms /\ made' = made + 1
  <2> DEFINE n == made + 1
  <2> DEFINE new == [NoTerm EXCEPT !.sid = req[c].sid, !.open = TRUE, !.shell = "running",
                                   !.at = "reading"]
  <2>1. /\ term' = [term EXCEPT ![n] = new]
        /\ req' = [req EXCEPT ![c].at = "register", ![c].k = n]
    BY <1>1, <1>4 DEF StartSpawn, RegInv, TerminalAssumption
  <2>2. n \in Terms /\ n \in Nat /\ n \notin Made /\ made' = n /\ made \in Nat /\ Made' = Made \cup {n}
        /\ 0..made \subseteq 0..n
    BY <1>1, <1>4 DEF RegInv, TerminalAssumption, Terms, Made
  <2>3. /\ new \in TermRec /\ new.subs = {} /\ new.todo = {} /\ new.cur = Nobody
        /\ new.log = <<>> /\ new.seq = 0
    <3>1. NoTerm \in TermRec
      BY DEF TermRec, NoTerm
    <3>2. new \in TermRec
      BY <1>2, <3>1 DEF TermRec
    <3> QED
      BY <1>2, <3>2 DEF NoTerm
  <2> HIDE DEF new
  <2>4. RegInv'
    <3>1. [req[c] EXCEPT !.at = "register", !.k = n] \in Working
          /\ [req[c] EXCEPT !.at = "register", !.k = n].k = n
      <4>1. n \in Nat
        BY <2>2
      <4> HIDE DEF n
      <4> QED
        BY <1>2, <4>1 DEF Working, Steps
    <3>2. req' = [req EXCEPT ![c] = [req[c] EXCEPT !.at = "register", !.k = n]]
      BY <1>1, <2>1 DEF RegInv
    <3>3. req' \in [Clients \cup {Reaper} -> Request]
      BY <1>1, <3>1, <3>2 DEF RegInv, Request
    <3>4. \A b \in Clients \cup {Reaper} : req'[b].at = "register" => req'[b].k \in Made'
      BY <1>1, <2>2, <3>1, <3>2 DEF RegInv
    <3>5. made' \in 0..MaxTerms /\ reg' \in [Sids -> 0..made']
      BY <1>1, <1>4, <2>2 DEF RegInv, TerminalAssumption
    <3> QED
      BY <3>3, <3>4, <3>5 DEF RegInv
  <2>5. Records'
    BY <1>1, <2>1, <2>2, <2>3 DEF Records
  <2>6. /\ term'[n] = new
        /\ \A k \in Terms : k # n => term'[k] = term[k]
    BY <1>1, <2>1, <2>2 DEF Records
  <2> HIDE DEF n
  <2>7. LoopInv'
    <3>1. Backlogged(new.log, new.seq)
      BY <2>3 DEF Backlogged
    <3>2. ASSUME NEW k \in Terms
          PROVE  /\ Backlogged(term'[k].log, term'[k].seq)
                 /\ term'[k].cur # Nobody => term'[k].cur \in term'[k].todo
                 /\ term'[k].at \notin {"sending", "parting"} => term'[k].todo = {}
      <4>1. CASE k = n
        BY <2>3, <2>6, <3>1, <4>1
      <4>2. CASE k # n
        BY <1>1, <2>6, <4>2 DEF LoopInv
      <4> QED
        BY <4>1, <4>2
    <3> QED
      BY <3>2 DEF LoopInv
  <2>8. SubsInv'
    <3>1. SUFFICES ASSUME NEW k \in Terms, NEW v \in term'[k].subs \cup term'[k].todo
                   PROVE  (view'[v].at = "open" /\ view'[v].k = k) \/ view'[v].at = "left"
      BY DEF SubsInv
    <3>2. k # n
      BY <2>3, <2>6, <3>1
    <3> QED
      BY <1>1, <2>6, <3>1, <3>2 DEF SubsInv
  <2>9. ViewInv'
    <3>1. ASSUME NEW v \in Viewers, view[v].at = "open" PROVE UpTo(v)'
      <4>1. view[v].k \in Made /\ UpTo(v)
        BY <1>1, <3>1 DEF ViewInv
      <4>2. view[v].k \in Terms /\ view[v].k # n
        BY <1>1, <2>2, <4>1, TermRange
      <4> QED
        BY <1>1, <2>6, <4>1, <4>2 DEF UpTo
    <3> QED
      BY <1>1, <2>2, <3>1 DEF ViewInv
  <2> QED
    BY <2>4, <2>5, <2>7, <2>8, <2>9 DEF TermInv
<1> QED
  BY <1>3, <1>4 DEF StartSpawn

-----------------------------------------------------------------------------
(* publish: nobody is left to serve from the item before, so that whoever   *)
(* is connected has that one, and is copied for this one.                  *)
LEMMA TermPublish ==
  ASSUME TerminalAssumption, TermInv, NEW k \in Terms, Output(k) \/ Farewell(k)
  PROVE  TermInv'
<1> DEFINE t == term[k]
<1>1. /\ RegInv /\ Records /\ LoopInv /\ SubsInv /\ ViewInv
      /\ t \in TermRec /\ term \in [Terms -> TermRec]
  BY DEF TermInv, Records
<1>2. /\ UNCHANGED <<reg, made, req, view>>
      /\ t.at \in {"reading", "hungup"}
  BY DEF Output, Farewell
<1>3. PICK busy \in {"sending", "parting"}, after \in {"reading", "ended"} : Publish(k, busy, after)
  BY DEF Output, Farewell
<1>4. t.todo = {} /\ t.cur = Nobody /\ Backlogged(t.log, t.seq)
  BY <1>1, <1>2 DEF LoopInv
<1> DEFINE u == [t EXCEPT !.seq = t.seq + 1, !.log = Trim(Append(t.log, t.seq + 1)),
                          !.todo = t.subs, !.at = Loop(busy, after, t.subs)]
<1>5. term' = [term EXCEPT ![k] = u]
  BY <1>3 DEF Publish
<1>6. /\ t.seq \in Nat /\ t.log \in Seq(Nat) /\ t.subs \subseteq Viewers
      /\ Trim(Append(t.log, t.seq + 1)) \in Seq(Nat)
      /\ Backlogged(Trim(Append(t.log, t.seq + 1)), t.seq + 1)
  <2>1. t.seq \in Nat /\ t.log \in Seq(Nat) /\ t.subs \subseteq Viewers
    BY <1>1 DEF TermRec
  <2> HIDE DEF t
  <2> QED
    BY <1>4, <2>1, BacklogGrows
<1>7. Loop(busy, after, t.subs) \in {"sending", "parting", "reading", "ended"}
      /\ (Loop(busy, after, t.subs) \notin {"sending", "parting"} => t.subs = {})
  BY DEF Loop
<1>8. /\ u \in TermRec /\ u.seq = t.seq + 1 /\ Backlogged(u.log, u.seq)
      /\ u.subs = t.subs /\ u.todo = t.subs /\ u.cur = Nobody
      /\ u.at \notin {"sending", "parting"} => t.subs = {}
  <2> DEFINE l == Trim(Append(t.log, t.seq + 1))
  <2> DEFINE a == Loop(busy, after, t.subs)
  <2>1. l \in Seq(Nat) /\ t.seq + 1 \in Nat /\ Backlogged(l, t.seq + 1)
    BY <1>6
  <2>2. /\ a \in {"sending", "parting", "reading", "ended"}
        /\ (a \notin {"sending", "parting"} => t.subs = {})
    BY <1>7
  <2> HIDE DEF t, l, a
  <2> QED
    BY <1>1, <1>4, <2>1, <2>2 DEF TermRec, l, a
<1> HIDE DEF u
<1>9. term'[k] = u /\ \A j \in Terms : j # k => term'[j] = term[j]
  BY <1>1, <1>5
<1>10. RegInv' /\ Records'
  BY <1>1, <1>2, <1>5, <1>8 DEF RegInv, Made, Records
<1>11. LoopInv'
  <2>1. ASSUME NEW j \in Terms
        PROVE  /\ Backlogged(term'[j].log, term'[j].seq)
               /\ term'[j].cur # Nobody => term'[j].cur \in term'[j].todo
               /\ term'[j].at \notin {"sending", "parting"} => term'[j].todo = {}
    <3>1. CASE j = k
      BY <1>8, <1>9, <3>1
    <3>2. CASE j # k
      BY <1>1, <1>9, <3>2 DEF LoopInv
    <3> QED
      BY <3>1, <3>2
  <2> QED
    BY <2>1 DEF LoopInv
<1>12. SubsInv'
  <2>1. \A j \in Terms : term'[j].subs \cup term'[j].todo \subseteq term[j].subs \cup term[j].todo
    BY <1>8, <1>9
  <2> QED
    BY <1>1, <1>2, <2>1 DEF SubsInv
<1>13. ViewInv'
  <2>1. ASSUME NEW v \in Viewers, view[v].at = "open" PROVE UpTo(v)'
    <3>1. view[v].k \in Terms /\ UpTo(v) /\ view[v] \in ViewRec
      BY <1>1, <2>1, TermRange DEF ViewInv, Records
    <3>2. CASE view[v].k = k
      BY <1>2, <1>4, <1>6, <1>8, <1>9, <3>1, <3>2 DEF UpTo
    <3>3. CASE view[v].k # k
      BY <1>2, <1>9, <3>1, <3>3 DEF UpTo
    <3> QED
      BY <3>2, <3>3
  <2> QED
    BY <1>1, <1>2, <2>1 DEF ViewInv, Made
<1> QED
  BY <1>10, <1>11, <1>12, <1>13 DEF TermInv

(* One of the viewers is served: the item goes behind the rest s of what it *)
(* has.                                                                    *)
LEMMA TermServe ==
  ASSUME TerminalAssumption, TermInv, NEW k \in Terms, NEW v \in term[k].todo,
         Served(k, v), UNCHANGED <<reg, made, req>>, NEW s \in Seq(Nat),
         view[v].at = "open" => /\ Ascending(view[v].pos, s)
                                /\ Latest(view[v].pos, s) < term[k].seq,
         view' = IF view[v].at = "open"
                   THEN [view EXCEPT ![v].ch = Append(s, term[k].seq)] ELSE view
  PROVE  TermInv'
<1> DEFINE t == term[k]
<1> DEFINE rest == t.todo \ {v}
<1>1. /\ RegInv /\ Records /\ LoopInv /\ SubsInv /\ ViewInv
      /\ t \in TermRec /\ term \in [Terms -> TermRec] /\ view \in [Viewers -> ViewRec]
      /\ v \in Viewers
  BY DEF TermInv, Records, TermRec
<1>2. t.at \in {"sending", "parting"}
  BY <1>1 DEF LoopInv
<1> DEFINE after == IF t.at = "sending" THEN "reading" ELSE "ended"
<1> DEFINE u == [t EXCEPT !.todo = rest, !.cur = Nobody, !.at = Loop(t.at, after, rest)]
<1>3. term' = [term EXCEPT ![k] = u]
  BY DEF Served
<1>4. /\ Loop(t.at, after, rest) \in {"sending", "parting", "reading", "ended"}
      /\ (Loop(t.at, after, rest) \notin {"sending", "parting"} => rest = {})
  BY <1>2 DEF Loop
<1>5. /\ u \in TermRec /\ u.seq = t.seq /\ u.log = t.log /\ u.subs = t.subs
      /\ u.todo = rest /\ u.cur = Nobody
      /\ u.at \notin {"sending", "parting"} => rest = {}
  <2> DEFINE a == Loop(t.at, after, rest)
  <2>1. /\ a \in {"sending", "parting", "reading", "ended"}
        /\ (a \notin {"sending", "parting"} => rest = {})
    BY <1>4
  <2>2. t \in TermRec /\ rest \in SUBSET Viewers
    BY <1>1 DEF TermRec
  <2> HIDE DEF t, rest, a
  <2>3. /\ [t EXCEPT !.todo = rest, !.cur = Nobody, !.at = a] \in TermRec
        /\ [t EXCEPT !.todo = rest, !.cur = Nobody, !.at = a].seq = t.seq
        /\ [t EXCEPT !.todo = rest, !.cur = Nobody, !.at = a].log = t.log
        /\ [t EXCEPT !.todo = rest, !.cur = Nobody, !.at = a].subs = t.subs
        /\ [t EXCEPT !.todo = rest, !.cur = Nobody, !.at = a].todo = rest
        /\ [t EXCEPT !.todo = rest, !.cur = Nobody, !.at = a].cur = Nobody
        /\ [t EXCEPT !.todo = rest, !.cur = Nobody, !.at = a].at = a
    BY ONLY <2>1, <2>2 DEF TermRec
  <2> QED
    BY <2>1, <2>3 DEF a
<1> HIDE DEF u
<1>6. term'[k] = u /\ \A j \in Terms : j # k => term'[j] = term[j]
  BY <1>1, <1>3
<1>7. t.seq \in Nat /\ view[v] \in ViewRec
  BY <1>1 DEF TermRec
<1>8. /\ view' \in [Viewers -> ViewRec]
      /\ \A w \in Viewers : /\ view'[w].at = view[w].at /\ view'[w].k = view[w].k
                            /\ view'[w].pos = view[w].pos
                            /\ w # v => view'[w] = view[w]
      /\ view[v].at = "open" => view'[v].ch = Append(s, t.seq)
  <2>1. CASE view[v].at = "open"
    <3>1. Append(s, t.seq) \in Seq(Nat)
      BY <1>7
    <3> DEFINE l == Append(s, t.seq)
    <3>2. view' = [view EXCEPT ![v] = [view[v] EXCEPT !.ch = l]]
      BY <1>1, <2>1
    <3> HIDE DEF l
    <3>3. [view[v] EXCEPT !.ch = l] \in ViewRec
      BY <1>7, <3>1 DEF ViewRec, l
    <3>4. view' \in [Viewers -> ViewRec]
      BY <1>1, <3>2, <3>3
    <3>5. view'[v] = [view[v] EXCEPT !.ch = l] /\ \A w \in Viewers : w # v => view'[w] = view[w]
      BY <1>1, <3>2
    <3>6. /\ [view[v] EXCEPT !.ch = l].at = view[v].at /\ [view[v] EXCEPT !.ch = l].k = view[v].k
          /\ [view[v] EXCEPT !.ch = l].pos = view[v].pos /\ [view[v] EXCEPT !.ch = l].ch = l
      BY <1>7 DEF ViewRec
    <3> QED
      BY <3>4, <3>5, <3>6 DEF l
  <2>2. CASE view[v].at # "open"
    BY <1>1, <2>2
  <2> QED
    BY <2>1, <2>2
<1>9. RegInv' /\ Records'
  BY <1>1, <1>3, <1>5, <1>8 DEF RegInv, Made, Records
<1>10. LoopInv'
  <2>1. ASSUME NEW j \in Terms
        PROVE  /\ Backlogged(term'[j].log, term'[j].seq)
               /\ term'[j].cur # Nobody => term'[j].cur \in term'[j].todo
               /\ term'[j].at \notin {"sending", "parting"} => term'[j].todo = {}
    <3>1. CASE j = k
      BY <1>1, <1>5, <1>6, <3>1 DEF LoopInv
    <3>2. CASE j # k
      BY <1>1, <1>6, <3>2 DEF LoopInv
    <3> QED
      BY <3>1, <3>2
  <2> QED
    BY <2>1 DEF LoopInv
<1>11. SubsInv'
  <2>1. \A j \in Terms : /\ term'[j].subs \cup term'[j].todo \subseteq term[j].subs \cup term[j].todo
                         /\ term[j].subs \cup term[j].todo \subseteq Viewers
    BY <1>1, <1>5, <1>6 DEF TermRec
  <2> QED
    BY <1>1, <1>8, <2>1 DEF SubsInv
<1>12. ViewInv'
  <2>1. ASSUME NEW w \in Viewers, view[w].at = "open" PROVE UpTo(w)'
    <3>1. view[w].k \in Terms /\ UpTo(w) /\ view[w] \in ViewRec
      BY <1>1, <2>1, TermRange DEF ViewInv
    <3>2. CASE w = v
      <4>1. view[w].k = k
        BY <1>1, <2>1, <3>2 DEF SubsInv
      <4>2. /\ Ascending(view[w].pos, Append(s, t.seq))
            /\ Latest(view[w].pos, Append(s, t.seq)) = t.seq
        <5>1. view[w].pos \in Nat /\ t.seq \in Nat
          BY <1>7, <3>1 DEF ViewRec
        <5>2. Ascending(view[w].pos, s) /\ Latest(view[w].pos, s) < t.seq
          BY <2>1, <3>2
        <5> HIDE DEF t
        <5> QED
          BY <5>1, <5>2, PutAtEnd
      <4> QED
        BY <1>5, <1>6, <1>8, <2>1, <3>1, <3>2, <4>1, <4>2 DEF UpTo
    <3>3. CASE w # v /\ view[w].k = k
      BY <1>5, <1>6, <1>8, <3>1, <3>3 DEF UpTo
    <3>4. CASE w # v /\ view[w].k # k
      BY <1>6, <1>8, <3>1, <3>4 DEF UpTo
    <3> QED
      BY <3>2, <3>3, <3>4
  <2> QED
    BY <1>1, <1>8, <2>1 DEF ViewInv, Made
<1> QED
  BY <1>9, <1>10, <1>11, <1>12 DEF TermInv

(* What a connected viewer the loop has to serve has and lacks. *)
LEMMA TermOwed ==
  ASSUME TerminalAssumption, TermInv, NEW k \in Terms, NEW v \in term[k].todo,
         view[v].at = "open"
  PROVE  /\ view[v].pos \in Nat /\ view[v].ch \in Seq(Nat)
         /\ Ascending(view[v].pos, view[v].ch)
         /\ Latest(view[v].pos, view[v].ch) < term[k].seq
<1>1. v \in Viewers /\ view[v] \in ViewRec
  BY DEF TermInv, Records, TermRec
<1>2. view[v].k = k
  BY DEF TermInv, SubsInv
<1>3. UpTo(v)
  BY <1>1 DEF TermInv, ViewInv
<1> QED
  BY <1>1, <1>2, <1>3 DEF UpTo, ViewRec

LEMMA TermOffer ==
  ASSUME TerminalAssumption, TermInv, NEW k \in Terms, NEW v \in Viewers, Offer(k, v)
  PROVE  TermInv'
<1>1. v \in term[k].todo /\ UNCHANGED <<reg, made, req, wedged>>
  BY DEF Offer
<1>2. CASE Len(view[v].ch) < ChanCap
  <2>1. Served(k, v) /\ view' = IF view[v].at = "open"
                                  THEN [view EXCEPT ![v].ch = Append(@, term[k].seq)] ELSE view
    BY <1>2 DEF Offer, Put
  <2>2. view[v].ch \in Seq(Nat) /\ view \in [Viewers -> ViewRec]
    BY DEF TermInv, Records, ViewRec
  <2>3. view' = IF view[v].at = "open"
                  THEN [view EXCEPT ![v].ch = Append(view[v].ch, term[k].seq)] ELSE view
    BY <2>1, <2>2
  <2> QED
    BY <1>1, <2>1, <2>2, <2>3, TermOwed, TermServe
<1>3. CASE ~(Len(view[v].ch) < ChanCap)
  <2>1. term' = [term EXCEPT ![k].cur = v] /\ UNCHANGED view
    BY <1>3 DEF Offer
  <2>2. term \in [Terms -> TermRec] /\ term[k] \in TermRec /\ RegInv /\ Records /\ LoopInv
        /\ SubsInv /\ ViewInv
    BY DEF TermInv, Records
  <2>3. /\ [term[k] EXCEPT !.cur = v] \in TermRec
        /\ term' = [term EXCEPT ![k] = [term[k] EXCEPT !.cur = v]]
    BY <2>1, <2>2 DEF TermRec
  <2>4. term' \in [Terms -> TermRec]
    BY <2>2, <2>3
  <2>5. \A j \in Terms : /\ term'[j].seq = term[j].seq /\ term'[j].log = term[j].log
                         /\ term'[j].subs = term[j].subs /\ term'[j].todo = term[j].todo
                         /\ term'[j].at = term[j].at
                         /\ term'[j].cur = IF j = k THEN v ELSE term[j].cur
    BY <2>2, <2>3 DEF TermRec
  <2>6. RegInv' /\ Records'
    BY <1>1, <2>1, <2>2, <2>4 DEF RegInv, Made, Records
  <2>7. LoopInv'
    BY <1>1, <2>2, <2>5 DEF LoopInv
  <2>8. SubsInv'
    BY <2>1, <2>2, <2>5 DEF SubsInv
  <2>9. ViewInv'
    <3>1. ASSUME NEW w \in Viewers, view[w].at = "open" PROVE UpTo(w)'
      <4>1. view[w].k \in Terms /\ UpTo(w)
        BY <2>2, <3>1, TermRange DEF ViewInv
      <4> QED
        BY <2>1, <2>5, <4>1 DEF UpTo
    <3> QED
      BY <1>1, <2>1, <2>2, <3>1 DEF ViewInv, Made
  <2> QED
    BY <2>6, <2>7, <2>8, <2>9 DEF TermInv
<1> QED
  BY <1>2, <1>3

LEMMA TermDrop ==
  ASSUME TerminalAssumption, TermInv, NEW k \in Terms, DropOldest(k)
  PROVE  TermInv'
<1> DEFINE v == term[k].cur
<1> DEFINE s == IF view[v].ch = <<>> THEN view[v].ch ELSE Tail(view[v].ch)
<1>1. /\ v \in term[k].todo /\ v \in Viewers /\ view \in [Viewers -> ViewRec]
      /\ view[v].ch \in Seq(Nat)
  BY DEF DropOldest, TermInv, LoopInv, Records, TermRec, ViewRec
<1>2. Served(k, v) /\ UNCHANGED <<reg, made, req>>
  BY DEF DropOldest
<1>3. s \in Seq(Nat)
  BY <1>1
<1>4. view' = IF view[v].at = "open"
                THEN [view EXCEPT ![v].ch = Append(s, term[k].seq)] ELSE view
  BY <1>1 DEF DropOldest
<1>5. ASSUME view[v].at = "open"
      PROVE  Ascending(view[v].pos, s) /\ Latest(view[v].pos, s) < term[k].seq
  <2>1. /\ view[v].pos \in Nat /\ view[v].ch \in Seq(Nat)
        /\ Ascending(view[v].pos, view[v].ch)
        /\ Latest(view[v].pos, view[v].ch) < term[k].seq
    BY <1>1, <1>5, TermOwed
  <2>2. CASE view[v].ch = <<>>
    BY <2>1, <2>2
  <2>3. CASE view[v].ch # <<>>
    <3>1. /\ Ascending(view[v].pos, s) /\ s \in Seq(Nat)
          /\ Latest(view[v].pos, s) <= Latest(view[v].pos, view[v].ch)
      BY <2>1, <2>3, TakeFirst
    <3>2. term[k].seq \in Nat
      BY DEF TermInv, Records, TermRec
    <3>3. Latest(view[v].pos, s) \in Nat /\ Latest(view[v].pos, view[v].ch) \in Nat
      <4> HIDE DEF s
      <4> QED
        BY <1>3, <2>1, LatestIsNat
    <3> HIDE DEF s
    <3> QED
      BY <2>1, <3>1, <3>2, <3>3
  <2> QED
    BY <2>2, <2>3
<1> HIDE DEF s, v
<1> QED
  BY <1>1, <1>2, <1>3, <1>4, <1>5, TermServe

-----------------------------------------------------------------------------
(* Viewers: one changes, and of terminals at most its subscription. *)
LEMMA TermView ==
  ASSUME TerminalAssumption, TermInv, NEW v \in Viewers, NEW w \in ViewRec,
         NEW k \in Terms, NEW u \in TermRec,
         UNCHANGED <<reg, made, req>>,
         view' = [view EXCEPT ![v] = w], term' = [term EXCEPT ![k] = u],
         /\ u.seq = term[k].seq /\ u.log = term[k].log /\ u.todo = term[k].todo
         /\ u.cur = term[k].cur /\ u.at = term[k].at
         /\ u.subs \ {v} = term[k].subs \ {v},
         v \in u.subs => w.at = "open" /\ w.k = k,
         w.at # "left" => \A j \in Terms : v \in term[j].subs \cup term[j].todo => w.at = "open" /\ w.k = j,
         w.at \in {"found", "open", "stuck"} => w.k \in Made,
         w.at \in {"away", "found"} => w.pos = 0,
         w.at = "open" => UpTo(v)'
  PROVE  TermInv'
<1>1. /\ RegInv /\ Records /\ LoopInv /\ SubsInv /\ ViewInv
      /\ term \in [Terms -> TermRec] /\ view \in [Viewers -> ViewRec]
  BY DEF TermInv, Records
<1>2. /\ term'[k] = u /\ \A j \in Terms : j # k => term'[j] = term[j]
      /\ view'[v] = w /\ \A x \in Viewers : x # v => view'[x] = view[x]
  BY <1>1
<1>3. RegInv' /\ Records'
  BY <1>1 DEF RegInv, Made, Records
<1>4. \A j \in Terms :
        /\ term'[j].seq = term[j].seq /\ term'[j].log = term[j].log
        /\ term'[j].todo = term[j].todo /\ term'[j].cur = term[j].cur
        /\ term'[j].at = term[j].at /\ term'[j].subs \ {v} = term[j].subs \ {v}
  BY <1>2
<1>5. LoopInv'
  BY <1>1, <1>4 DEF LoopInv
<1>6. SubsInv'
  <2>1. SUFFICES ASSUME NEW j \in Terms, NEW x \in term'[j].subs \cup term'[j].todo
                 PROVE  (view'[x].at = "open" /\ view'[x].k = j) \/ view'[x].at = "left"
    BY DEF SubsInv
  <2>2. CASE x # v
    <3>1. x \in term[j].subs \cup term[j].todo
      BY <1>4, <2>1, <2>2
    <3>2. x \in Viewers
      BY <1>1, <3>1 DEF TermRec
    <3> QED
      BY <1>1, <1>2, <2>2, <3>1, <3>2 DEF SubsInv
  <2>3. CASE x = v /\ j = k /\ v \in u.subs
    BY <1>2, <2>3
  <2>4. CASE x = v /\ v \in term[j].subs \cup term[j].todo
    BY <1>2, <2>4
  <2> QED
    BY <1>2, <1>4, <2>1, <2>2, <2>3, <2>4
<1>7. ViewInv'
  <2>1. ASSUME NEW x \in Viewers, x # v
        PROVE  /\ view[x].at \in {"found", "open", "stuck"} => view[x].k \in Made
               /\ view[x].at \in {"away", "found"} => view[x].pos = 0
               /\ view[x].at = "open" => UpTo(x)'
    <3>1. ASSUME view[x].at = "open" PROVE UpTo(x)'
      <4>1. view[x].k \in Terms /\ UpTo(x)
        BY <1>1, <3>1, TermRange DEF ViewInv
      <4> QED
        BY <1>2, <1>4, <2>1, <4>1 DEF UpTo
    <3> QED
      BY <1>1, <3>1 DEF ViewInv
  <2> QED
    BY <1>2, <2>1 DEF ViewInv, Made
<1> QED
  BY <1>3, <1>5, <1>6, <1>7 DEF TermInv

LEMMA TermLook ==
  ASSUME TerminalAssumption, TermInv, NEW v \in Viewers, NEW s \in Sids, Look(v, s)
  PROVE  TermInv'
<1> DEFINE w == [view[v] EXCEPT !.at = "found", !.k = reg[s]]
<1> DEFINE k == reg[s]
<1>1. /\ RegInv /\ Records /\ SubsInv /\ ViewInv
      /\ term \in [Terms -> TermRec] /\ view \in [Viewers -> ViewRec]
  BY DEF TermInv, Records
<1>2. view[v].at = "away" /\ UNCHANGED <<reg, made, req, term>>
  BY DEF Look
<1>3. k \in Made /\ k \in Terms /\ k \in Nat
  BY <1>1, TermRange DEF Look, RegInv, TerminalAssumption, Made
<1>4. view' = [view EXCEPT ![v] = w]
  BY <1>1 DEF Look
<1>5. w \in ViewRec /\ w.at = "found" /\ w.k = k /\ w.pos = 0
  BY <1>1, <1>2, <1>3 DEF ViewRec, ViewInv
<1>6. \A j \in Terms : v \notin term[j].subs \cup term[j].todo
  BY <1>1, <1>2 DEF SubsInv
<1>7. term' = [term EXCEPT ![k] = term[k]] /\ term[k] \in TermRec
  BY <1>1, <1>2, <1>3
<1> HIDE DEF w, k
<1> QED
  BY <1>2, <1>3, <1>4, <1>5, <1>6, <1>7, TermView

LEMMA TermSubscribe ==
  ASSUME TerminalAssumption, TermInv, NEW v \in Viewers, Subscribe(v)
  PROVE  TermInv'
<1> DEFINE k == view[v].k
<1> DEFINE t == term[k]
<1>1. /\ RegInv /\ Records /\ SubsInv /\ ViewInv /\ LoopInv
      /\ term \in [Terms -> TermRec] /\ view \in [Viewers -> ViewRec]
  BY DEF TermInv, Records
<1>2. view[v].at = "found" /\ view[v].pos = 0 /\ UNCHANGED <<reg, made, req>>
  BY <1>1 DEF Subscribe, ViewInv
<1>3. k \in Made /\ k \in Terms /\ t \in TermRec
  BY <1>1, <1>2, TermRange DEF ViewInv
<1>4. \A j \in Terms : v \notin term[j].subs \cup term[j].todo
  BY <1>1, <1>2 DEF SubsInv
<1>5. CASE Len(t.log) > ChanCap
  <2> DEFINE w == [view[v] EXCEPT !.at = "stuck"]
  <2>1. view' = [view EXCEPT ![v] = w] /\ term' = [term EXCEPT ![k] = t]
    BY <1>1, <1>3, <1>5 DEF Subscribe
  <2>2. w \in ViewRec /\ w.at = "stuck" /\ w.k = k
    BY <1>1 DEF ViewRec
  <2> HIDE DEF w, k
  <2> QED
    BY <1>2, <1>3, <1>4, <2>1, <2>2, TermView
<1>6. CASE ~(Len(t.log) > ChanCap)
  <2> DEFINE w == [view[v] EXCEPT !.at = "open", !.ch = t.log]
  <2> DEFINE u == [t EXCEPT !.subs = t.subs \cup {v}, !.watch = "watched"]
  <2>1. view' = [view EXCEPT ![v] = w] /\ term' = [term EXCEPT ![k] = u]
    BY <1>1, <1>3, <1>6 DEF Subscribe
  <2>2. t.log \in Seq(Nat) /\ t.seq \in Nat /\ Backlogged(t.log, t.seq)
    BY <1>1, <1>3 DEF TermRec, LoopInv
  <2>3. w \in ViewRec /\ w.at = "open" /\ w.k = k /\ w.pos = 0 /\ w.ch = t.log
    <3> DEFINE l == t.log
    <3>1. l \in Seq(Nat)
      BY <2>2
    <3> HIDE DEF t, l
    <3> QED
      BY <1>1, <1>2, <3>1 DEF ViewRec, l
  <2>4. /\ u \in TermRec /\ u.seq = t.seq /\ u.log = t.log /\ u.todo = t.todo
        /\ u.cur = t.cur /\ u.at = t.at /\ u.subs = t.subs \cup {v}
    BY <1>3 DEF TermRec
  <2>5. Ascending(0, t.log) /\ Latest(0, t.log) = t.seq
    <3> HIDE DEF t
    <3> QED
      BY <2>2, BacklogSeen
  <2> HIDE DEF w, u
  <2>6. view'[v] = w /\ term'[k] = u
    BY <1>1, <1>3, <2>1
  <2>7. UpTo(v)'
    BY <1>3, <1>4, <2>3, <2>4, <2>5, <2>6 DEF UpTo
  <2>8. u.subs \ {v} = t.subs \ {v}
    BY <2>4
  <2> HIDE DEF k
  <2> QED
    BY <1>2, <1>3, <1>4, <2>1, <2>3, <2>4, <2>7, <2>8, TermView
<1> QED
  BY <1>5, <1>6

LEMMA TermRead ==
  ASSUME TerminalAssumption, TermInv, NEW v \in Viewers, Read(v)
  PROVE  TermInv'
<1> DEFINE k == view[v].k
<1> DEFINE s == view[v].ch
<1> DEFINE w == [view[v] EXCEPT !.pos = Head(s), !.ch = Tail(s)]
<1>1. /\ RegInv /\ Records /\ SubsInv /\ ViewInv
      /\ term \in [Terms -> TermRec] /\ view \in [Viewers -> ViewRec]
  BY DEF TermInv, Records
<1>2. view[v].at = "open" /\ s # <<>> /\ UNCHANGED <<reg, made, req, term>>
  BY DEF Read
<1>3. k \in Made /\ k \in Terms /\ term[k] \in TermRec /\ UpTo(v)
  BY <1>1, <1>2, TermRange DEF ViewInv
<1>4. view[v].pos \in Nat /\ s \in Seq(Nat) /\ Ascending(view[v].pos, s)
  BY <1>1, <1>3 DEF ViewRec, UpTo
<1>5. /\ Tail(s) \in Seq(Nat) /\ Head(s) \in Nat
      /\ Ascending(Head(s), Tail(s)) /\ Latest(Head(s), Tail(s)) = Latest(view[v].pos, s)
  <2> HIDE DEF s
  <2> QED
    BY <1>2, <1>4, TakeFirst
<1>6. view' = [view EXCEPT ![v] = w]
  BY <1>1, <1>2 DEF Read
<1>7. w \in ViewRec /\ w.at = "open" /\ w.k = k /\ w.pos = Head(s) /\ w.ch = Tail(s)
  <2> DEFINE h == Head(s)
  <2> DEFINE l == Tail(s)
  <2>1. h \in Nat /\ l \in Seq(Nat)
    BY <1>5
  <2> HIDE DEF s, h, l
  <2> QED
    BY <1>1, <1>2, <2>1 DEF ViewRec, h, l
<1> HIDE DEF w
<1>8. view'[v] = w /\ term'[k] = term[k] /\ term' = [term EXCEPT ![k] = term[k]]
  BY <1>1, <1>2, <1>3, <1>6
<1>9. UpTo(v)'
  BY <1>3, <1>5, <1>7, <1>8 DEF UpTo
<1>10. \A j \in Terms : v \in term[j].subs \cup term[j].todo => j = k
  BY <1>1, <1>2 DEF SubsInv
<1> HIDE DEF k, s
<1> QED
  BY <1>2, <1>3, <1>6, <1>7, <1>8, <1>9, <1>10, TermView

LEMMA TermLeave ==
  ASSUME TerminalAssumption, TermInv, NEW v \in Viewers, Leave(v)
  PROVE  TermInv'
<1> DEFINE k == view[v].k
<1> DEFINE t == term[k]
<1> DEFINE w == [at |-> "left", k |-> 0, ch |-> <<>>, pos |-> 0]
<1> DEFINE watch == IF t.subs = {v} THEN "unwatched" ELSE t.watch
<1> DEFINE u == [t EXCEPT !.subs = t.subs \ {v}, !.watch = watch]
<1>1. /\ RegInv /\ Records /\ SubsInv /\ ViewInv
      /\ term \in [Terms -> TermRec] /\ view \in [Viewers -> ViewRec]
  BY DEF TermInv, Records
<1>2. view[v].at = "open" /\ UNCHANGED <<reg, made, req>>
  BY DEF Leave
<1>3. k \in Made /\ k \in Terms /\ t \in TermRec
  BY <1>1, <1>2, TermRange DEF ViewInv
<1>4. view' = [view EXCEPT ![v] = w] /\ term' = [term EXCEPT ![k] = u]
  BY <1>1, <1>3 DEF Leave
<1>5. w \in ViewRec /\ w.at = "left"
  BY DEF ViewRec
<1>6. watch \in {"watched", "unwatched", "idle"}
  BY <1>3 DEF TermRec
<1> HIDE DEF watch
<1>7. /\ u \in TermRec /\ u.seq = t.seq /\ u.log = t.log /\ u.todo = t.todo
      /\ u.cur = t.cur /\ u.at = t.at /\ u.subs = t.subs \ {v}
  BY <1>3, <1>6 DEF TermRec
<1> HIDE DEF u, w
<1>8. v \notin u.subs /\ u.subs \ {v} = t.subs \ {v}
  BY <1>7
<1> HIDE DEF k
<1> QED
  BY <1>2, <1>3, <1>4, <1>5, <1>7, <1>8, TermView

-----------------------------------------------------------------------------
LEMMA TermStep == TerminalAssumption /\ TermInv /\ [Next]_vars => TermInv'
<1> SUFFICES ASSUME TerminalAssumption, TermInv, [Next]_vars PROVE TermInv'
  OBVIOUS
<1>1. CASE UNCHANGED vars
  BY <1>1 DEF vars, TermInv, RegInv, Records, LoopInv, SubsInv, ViewInv, UpTo, Made
<1>2. ASSUME NEW c \in Clients, NEW s \in Sids, StartLook(c, s) \/ CloseRequest(c, s)
      PROVE  TermInv'
  BY <1>2, TermStart
<1>3. ASSUME NEW c \in Clients \cup {Reaper}, Proceed(c) PROVE TermInv'
  BY <1>3, TermProceed, TermSpawn, TermShut DEF Proceed
<1>4. CASE ReapScan \/ ReapNext
  BY <1>4, TermReap
<1>5. ASSUME NEW k \in Terms, Output(k) \/ ReaderLoop(k) \/ ShellExits(k) \/ Elapse(k)
      PROVE  TermInv'
  BY <1>5, TermShell, TermPublish, TermOffer, TermDrop DEF ReaderLoop
<1>6. ASSUME NEW v \in Viewers,
             Subscribe(v) \/ Read(v) \/ Leave(v) \/ \E s \in Sids : Look(v, s)
      PROVE  TermInv'
  BY <1>6, TermSubscribe, TermRead, TermLeave, TermLook
<1> QED
  BY <1>1, <1>2, <1>3, <1>4, <1>5, <1>6 DEF Next

(* The invariant holds in every reachable state. *)
THEOREM TermInvariant == Spec => []TermInv
BY TermInit, TermStep, TerminalAssumption, PTL DEF Spec

LEMMA SeenByViewer ==
  ASSUME TerminalAssumption, TermInv, NEW v \in Viewers, view[v].at = "open"
  PROVE  LET seen == <<view[v].pos>> \o view[v].ch
             t == term[view[v].k] IN
         /\ \A i, j \in 1..Len(seen) : i < j => seen[i] < seen[j]
         /\ seen[Len(seen)] <= t.seq
         /\ v \notin t.todo => seen[Len(seen)] = t.seq
<1> DEFINE p == view[v].pos
<1> DEFINE s == view[v].ch
<1> DEFINE t == term[view[v].k]
<1>1. p \in Nat /\ s \in Seq(Nat) /\ view[v].k \in Terms
  BY TermRange DEF TermInv, Records, ViewRec, ViewInv
<1>2. t.seq \in Nat
  BY <1>1 DEF TermInv, Records, TermRec
<1>3. UpTo(v)
  BY DEF TermInv, ViewInv
<1>4. /\ Ascending(p, s)
      /\ v \in t.todo => Latest(p, s) < t.seq
      /\ v \notin t.todo => Latest(p, s) = t.seq
  BY <1>3 DEF UpTo
<1> HIDE DEF p, s, t
<1>5. Latest(p, s) \in Nat
  BY <1>1, LatestIsNat
<1> DEFINE seen == <<p>> \o s
<1>6. /\ \A i, j \in 1..Len(seen) : i < j => seen[i] < seen[j]
      /\ seen[Len(seen)] = Latest(p, s)
  BY <1>1, <1>4, SeenFacts
<1> HIDE DEF seen
<1>7. seen[Len(seen)] <= t.seq /\ (v \notin t.todo => seen[Len(seen)] = t.seq)
  BY <1>2, <1>4, <1>5, <1>6
<1> QED
  BY <1>6, <1>7 DEF seen, p, s, t

(* A viewer gets items in the order they were published and none twice,     *)
(* although it is served its replay under the lock and the live items       *)
(* outside it, and the channel may drop some.                              *)
THEOREM OutputInOrder == Spec => []InOrder
<1>1. ASSUME TermInv PROVE InOrder
  BY <1>1, SeenByViewer, TerminalAssumption DEF InOrder
<1> QED
  BY <1>1, TermInvariant, PTL

(* However slow a viewer is, once publish has served it the newest item is  *)
(* the last it has or got.                                                 *)
THEOREM NewestReachesViewer == Spec => []NewestSurvives
<1>1. ASSUME TermInv PROVE NewestSurvives
  BY <1>1, SeenByViewer, TerminalAssumption DEF NewestSurvives
<1> QED
  BY <1>1, TermInvariant, PTL

-----------------------------------------------------------------------------
(* One request at a time, beside the reaper: a start finds the entry of its  *)
(* session empty when it registers the shell, so that it replaces nobody's.  *)

OneAtATime == \A c, d \in Clients : c = d

(* A start of session s that goes on to register a shell. *)
Starting(c) ==
  \/ req[c].at \in {"cap", "spawn", "register"}
  \/ req[c].at = "shut" /\ req[c].then = "cap"

OwnInv ==
  /\ \A k \in Made : term[k].sid \in Sids
  /\ \A s \in Sids : reg[s] # 0 => term[reg[s]].sid = s
  /\ \A c \in Clients \cup {Reaper} : req[c].at = "register" => term[req[c].k].sid = req[c].sid
  /\ req[Reaper] \notin Working
  /\ \A c \in Clients : Starting(c) => reg[req[c].sid] = 0

SafeInv == OwnInv /\ NoOrphan

LEMMA SafeInit == TerminalAssumption /\ Init => SafeInv
<1> SUFFICES ASSUME TerminalAssumption, Init PROVE SafeInv
  OBVIOUS
<1>1. Made = {} /\ Idle \notin Working
  BY DEF Init, Made, Idle, Working
<1>2. OwnInv
  BY <1>1 DEF Init, OwnInv, Starting, Idle
<1>3. NoOrphan
  BY <1>1 DEF NoOrphan
<1> QED
  BY <1>2, <1>3 DEF SafeInv

(* A step that opens no terminal and leaves registry and requests alone. *)
LEMMA SafeFrame ==
  ASSUME TerminalAssumption, TermInv, SafeInv, UNCHANGED <<reg, made, req>>,
         \A k \in Terms : term'[k].sid = term[k].sid /\ (term'[k].open => term[k].open)
  PROVE  SafeInv'
<1>1. Made \subseteq Terms /\ Made' = Made
  BY TermRange DEF TermInv, Made
<1>2. \A s \in Sids : reg[s] # 0 => reg[s] \in Terms
  BY <1>1 DEF TermInv, RegInv, Made
<1>3. \A c \in Clients \cup {Reaper} : req[c].at = "register" => req[c].k \in Terms
  BY <1>1 DEF TermInv, RegInv
<1>4. OwnInv'
  <2>1. \A s \in Sids : reg[s] # 0 => term'[reg[s]].sid = s
    BY <1>2 DEF SafeInv, OwnInv
  <2>2. \A c \in Clients \cup {Reaper} : req[c].at = "register" => term'[req[c].k].sid = req[c].sid
    BY <1>3 DEF SafeInv, OwnInv
  <2>3. \A k \in Made : term'[k].sid \in Sids
    BY <1>1 DEF SafeInv, OwnInv
  <2> QED
    BY <1>1, <2>1, <2>2, <2>3 DEF SafeInv, OwnInv, Starting
<1>5. NoOrphan'
  <2>1. SUFFICES ASSUME NEW k \in Made, term'[k].open
                 PROVE  \/ reg[term'[k].sid] = k
                        \/ \E c \in Clients \cup {Reaper} :
                             req[c].at \in {"register", "shut"} /\ req[c].k = k
    BY <1>1 DEF NoOrphan
  <2>2. k \in Terms /\ term'[k].sid = term[k].sid /\ term[k].open
    BY <1>1, <2>1
  <2> QED
    BY <2>1, <2>2 DEF SafeInv, NoOrphan
<1> QED
  BY <1>4, <1>5 DEF SafeInv

(* A request moves on without touching a terminal or the registry; it was   *)
(* not looking after a terminal.                                            *)
LEMMA SafeMove ==
  ASSUME TermInv, SafeInv, NEW c \in Clients \cup {Reaper}, NEW r,
         UNCHANGED <<reg, made, term>>, req' = [req EXCEPT ![c] = r],
         r.at # "register", req[c].at \notin {"register", "shut"},
         c = Reaper => r \notin Working,
         r.at \in {"cap", "spawn"} => reg[r.sid] = 0,
         r.at # "shut"
  PROVE  SafeInv'
<1>1. /\ req'[c] = r
      /\ \A d \in Clients \cup {Reaper} : d # c => req'[d] = req[d]
  BY DEF TermInv, RegInv
<1>2. OwnInv'
  <2>1. \A d \in Clients \cup {Reaper} : req'[d].at = "register" => term[req'[d].k].sid = req'[d].sid
    BY <1>1 DEF SafeInv, OwnInv
  <2>2. req'[Reaper] \notin Working
    BY <1>1 DEF SafeInv, OwnInv
  <2>3. ASSUME NEW d \in Clients, Starting(d)' PROVE reg[req'[d].sid] = 0
    <3>1. CASE d = c
      BY <1>1, <2>3, <3>1 DEF Starting
    <3>2. CASE d # c
      BY <1>1, <2>3, <3>2 DEF Starting, SafeInv, OwnInv
    <3> QED
      BY <3>1, <3>2
  <2> QED
    BY <2>1, <2>2, <2>3 DEF SafeInv, OwnInv, Made
<1>3. NoOrphan'
  BY <1>1 DEF SafeInv, NoOrphan, Made
<1> QED
  BY <1>2, <1>3 DEF SafeInv

LEMMA SafeStart ==
  ASSUME TermInv, SafeInv, TerminalAssumption, NEW c \in Clients, NEW s \in Sids,
         StartLook(c, s) \/ CloseRequest(c, s)
  PROVE  SafeInv'
<1>1. req[c].at = "idle" /\ c # Reaper /\ UNCHANGED <<reg, made, term>>
  BY DEF StartLook, CloseRequest
<1>2. CASE StartLook(c, s)
  <2> DEFINE r == At(IF reg[s] = 0 THEN "cap" ELSE "alive", s, reg[s], "cap")
  <2>1. req' = [req EXCEPT ![c] = r]
    BY <1>2 DEF StartLook
  <2>2. r.at \in {"cap", "alive"} /\ r.sid = s /\ (r.at = "cap" => reg[s] = 0)
    BY DEF At
  <2> HIDE DEF r
  <2> QED
    BY <1>1, <2>1, <2>2, SafeMove
<1>3. CASE CloseRequest(c, s)
  <2> DEFINE r == At("unregister", s, 0, "idle")
  <2>1. req' = [req EXCEPT ![c] = r]
    BY <1>3 DEF CloseRequest
  <2>2. r.at = "unregister"
    BY DEF At
  <2> HIDE DEF r
  <2> QED
    BY <1>1, <2>1, <2>2, SafeMove
<1> QED
  BY <1>2, <1>3

(* Only a request starts a terminal. *)
LEMMA ReaperOnlyCloses ==
  ASSUME TermInv, OwnInv, NEW c \in Clients \cup {Reaper},
         req[c].at \in {"cap", "alive", "spawn", "register"}
  PROVE  c \in Clients /\ c # Reaper /\ req[c] \in Working
<1>1. req[c] \in Request
  BY DEF TermInv, RegInv
<1>2. req[c] \in Working
  BY <1>1 DEF Request, Idle, Closing
<1> QED
  BY <1>2 DEF OwnInv

LEMMA SafeAlive ==
  ASSUME TermInv, SafeInv, TerminalAssumption, NEW c \in Clients \cup {Reaper},
         StartAlive(c) \/ StartCap(c)
  PROVE  SafeInv'
<1>1. /\ req[c].at \in {"cap", "alive"} /\ UNCHANGED <<reg, made, term>>
  BY DEF StartAlive, StartCap
<1>2. c \in Clients /\ c # Reaper /\ req[c] \in Working
  BY <1>1, ReaperOnlyCloses DEF SafeInv
<1>3. CASE StartAlive(c)
  <2>1. PICK r \in {Idle, At("unregister", req[c].sid, 0, "cap")} : req' = [req EXCEPT ![c] = r]
    BY <1>3 DEF StartAlive
  <2>2. r.at \in {"idle", "unregister"}
    BY <2>1 DEF Idle, At
  <2> QED
    BY <1>1, <1>2, <2>1, <2>2, SafeMove
<1>4. CASE StartCap(c) /\ req' # req
  <2> DEFINE r == [req[c] EXCEPT !.at = "spawn"]
  <2>1. req' = [req EXCEPT ![c] = r] /\ req[c].at = "cap"
    BY <1>4 DEF StartCap
  <2>2. r.at = "spawn" /\ r.sid = req[c].sid
    BY <1>2 DEF Working
  <2>3. reg[req[c].sid] = 0
    BY <1>2, <2>1 DEF SafeInv, OwnInv, Starting
  <2> HIDE DEF r
  <2> QED
    BY <1>1, <1>2, <2>1, <2>2, <2>3, SafeMove
<1>5. CASE req' = req
  BY <1>1, <1>5, SafeFrame
<1> QED
  BY <1>3, <1>4, <1>5

(* The new shell is looked after by the request that started it. *)
LEMMA SafeSpawn ==
  ASSUME TermInv, SafeInv, TerminalAssumption, NEW c \in Clients \cup {Reaper}, StartSpawn(c)
  PROVE  SafeInv'
<1>1. req[c].at = "spawn" /\ UNCHANGED reg
  BY DEF StartSpawn
<1>2. c \in Clients /\ c # Reaper /\ req[c] \in Working
  BY <1>1, ReaperOnlyCloses DEF SafeInv
<1>3. CASE UNCHANGED <<made, term>> /\ req' = [req EXCEPT ![c] = Idle]
  <2>1. Idle.at = "idle"
    BY DEF Idle
  <2> QED
    BY <1>1, <1>2, <1>3, <2>1, SafeMove
<1>4. CASE made < MaxTerms /\ made' = made + 1
  <2> DEFINE n == made + 1
  <2> DEFINE new == [NoTerm EXCEPT !.sid = req[c].sid, !.open = TRUE, !.shell = "running",
                                   !.at = "reading"]
  <2>1. /\ term' = [term EXCEPT ![n] = new]
        /\ req' = [req EXCEPT ![c].at = "register", ![c].k = n]
    BY <1>4 DEF StartSpawn, TermInv, RegInv, TerminalAssumption
  <2>2. n \in Terms /\ n \in Nat /\ n \notin Made /\ Made' = Made \cup {n} /\ Made \subseteq Terms
        /\ \A s \in Sids : reg[s] # n
    BY <1>4, TermRange DEF TermInv, RegInv, TerminalAssumption, Terms, Made
  <2>3. new.sid = req[c].sid
    BY DEF NoTerm
  <2>4. req'[c].at = "register" /\ req'[c].k = n /\ req'[c].sid = req[c].sid
        /\ \A d \in Clients \cup {Reaper} : d # c => req'[d] = req[d]
    <3>1. req' = [req EXCEPT ![c] = [req[c] EXCEPT !.at = "register", !.k = n]]
      BY <2>1 DEF TermInv, RegInv
    <3> HIDE DEF n
    <3>2. /\ [req[c] EXCEPT !.at = "register", !.k = n].at = "register"
          /\ [req[c] EXCEPT !.at = "register", !.k = n].k = n
          /\ [req[c] EXCEPT !.at = "register", !.k = n].sid = req[c].sid
      BY <1>2 DEF Working
    <3> QED
      BY <3>1, <3>2 DEF TermInv, RegInv
  <2> HIDE DEF new
  <2>5. term'[n] = new /\ \A k \in Terms : k # n => term'[k] = term[k]
    BY <2>1, <2>2 DEF TermInv, Records
  <2> HIDE DEF n
  <2>6. OwnInv'
    <3>1. ASSUME NEW s \in Sids, reg[s] # 0 PROVE term'[reg[s]].sid = s
      <4>1. reg[s] \in Terms /\ reg[s] # n
        BY <2>2, <3>1 DEF TermInv, RegInv, Made
      <4> QED
        BY <2>5, <3>1, <4>1 DEF SafeInv, OwnInv
    <3>2. ASSUME NEW d \in Clients \cup {Reaper}, req'[d].at = "register"
          PROVE  term'[req'[d].k].sid = req'[d].sid
      <4>1. CASE d = c
        BY <2>3, <2>4, <2>5, <4>1
      <4>2. CASE d # c
        <5>1. req[d].at = "register" /\ req[d].k \in Made /\ req'[d] = req[d]
          BY <2>4, <3>2, <4>2 DEF TermInv, RegInv
        <5>2. req[d].k \in Terms /\ req[d].k # n
          BY <2>2, <5>1
        <5> QED
          BY <2>5, <5>1, <5>2 DEF SafeInv, OwnInv
      <4> QED
        BY <4>1, <4>2
    <3>3. req'[Reaper] \notin Working
      BY <1>2, <2>4 DEF SafeInv, OwnInv
    <3>4. ASSUME NEW d \in Clients, Starting(d)' PROVE reg[req'[d].sid] = 0
      <4>1. CASE d = c
        BY <1>1, <1>2, <2>4, <4>1 DEF SafeInv, OwnInv, Starting
      <4>2. CASE d # c
        BY <2>4, <3>4, <4>2 DEF SafeInv, OwnInv, Starting
      <4> QED
        BY <4>1, <4>2
    <3>5. ASSUME NEW k \in Made' PROVE term'[k].sid \in Sids
      <4>1. CASE k = n
        BY <1>2, <2>3, <2>5, <4>1 DEF Working
      <4>2. CASE k # n
        BY <2>2, <2>5, <3>5, <4>2 DEF SafeInv, OwnInv
      <4> QED
        BY <4>1, <4>2
    <3> QED
      BY <1>1, <3>1, <3>2, <3>3, <3>4, <3>5 DEF OwnInv
  <2>7. NoOrphan'
    <3>1. SUFFICES ASSUME NEW k \in Made', term'[k].open
                   PROVE  \/ reg[term'[k].sid] = k
                          \/ \E d \in Clients \cup {Reaper} :
                               req'[d].at \in {"register", "shut"} /\ req'[d].k = k
      BY <1>1 DEF NoOrphan
    <3>2. CASE k = n
      BY <2>4, <3>2
    <3>3. CASE k # n
      <4>1. k \in Made /\ term'[k] = term[k]
        BY <2>2, <2>5, <3>3
      <4>2. \/ reg[term[k].sid] = k
            \/ \E d \in Clients \cup {Reaper} :
                 req[d].at \in {"register", "shut"} /\ req[d].k = k
        BY <3>1, <4>1 DEF SafeInv, NoOrphan
      <4> QED
        BY <1>1, <2>4, <4>1, <4>2
    <3> QED
      BY <3>2, <3>3
  <2> QED
    BY <2>6, <2>7 DEF SafeInv
<1> QED
  BY <1>3, <1>4 DEF StartSpawn

(* The entry it takes is empty: no shell loses its own. *)
LEMMA SafeRegister ==
  ASSUME OneAtATime, TermInv, SafeInv, TerminalAssumption, NEW c \in Clients \cup {Reaper},
         StartRegister(c)
  PROVE  SafeInv'
<1> DEFINE s == req[c].sid
<1>1. /\ req[c].at = "register" /\ reg' = [reg EXCEPT ![s] = req[c].k]
      /\ req' = [req EXCEPT ![c] = Idle] /\ UNCHANGED <<made, term>>
  BY DEF StartRegister
<1>2. c \in Clients /\ c # Reaper /\ req[c] \in Working
  BY <1>1, ReaperOnlyCloses DEF SafeInv
<1>3. s \in Sids /\ req[c].k \in Made /\ reg[s] = 0 /\ term[req[c].k].sid = s /\ 0 \notin Made
  BY <1>1, <1>2 DEF Working, TermInv, RegInv, SafeInv, OwnInv, Starting, Made
<1>4. /\ reg'[s] = req[c].k /\ \A t \in Sids : t # s => reg'[t] = reg[t]
      /\ req'[c] = Idle /\ \A d \in Clients \cup {Reaper} : d # c => req'[d] = req[d]
  BY <1>1, <1>3 DEF TermInv, RegInv
<1> HIDE DEF s
<1>5. OwnInv'
  <2>1. \A t \in Sids : reg'[t] # 0 => term[reg'[t]].sid = t
    BY <1>3, <1>4 DEF SafeInv, OwnInv
  <2>2. ASSUME NEW d \in Clients \cup {Reaper}, req'[d].at = "register"
        PROVE  term[req'[d].k].sid = req'[d].sid
    BY <1>4, <2>2 DEF SafeInv, OwnInv, Idle
  <2>3. req'[Reaper] \notin Working
    BY <1>2, <1>4 DEF SafeInv, OwnInv
  <2>4. \A d \in Clients : ~Starting(d)'
    BY <1>2, <1>4 DEF Starting, Idle, OneAtATime
  <2>5. Made' = Made /\ \A k \in Made : term'[k].sid \in Sids
    BY <1>1 DEF SafeInv, OwnInv, Made
  <2> QED
    BY <1>1, <2>1, <2>2, <2>3, <2>4, <2>5 DEF OwnInv
<1>6. NoOrphan'
  <2>1. SUFFICES ASSUME NEW k \in Made, term[k].open
                 PROVE  \/ reg'[term[k].sid] = k
                        \/ \E d \in Clients \cup {Reaper} :
                             req'[d].at \in {"register", "shut"} /\ req'[d].k = k
    BY <1>1 DEF NoOrphan, Made
  <2>2. \/ reg[term[k].sid] = k
        \/ \E d \in Clients \cup {Reaper} : req[d].at \in {"register", "shut"} /\ req[d].k = k
    BY <2>1 DEF SafeInv, NoOrphan
  <2>3. CASE reg[term[k].sid] = k
    <3>1. term[k].sid # s /\ term[k].sid \in Sids
      <4>1. k # 0 /\ term[k].sid \in Sids
        BY <1>3, <2>1 DEF SafeInv, OwnInv
      <4> QED
        BY <1>3, <2>3, <4>1
    <3> QED
      BY <1>4, <2>3, <3>1
  <2>4. ASSUME NEW d \in Clients \cup {Reaper}, req[d].at \in {"register", "shut"}, req[d].k = k
        PROVE  \/ reg'[term[k].sid] = k
               \/ \E e \in Clients \cup {Reaper} :
                    req'[e].at \in {"register", "shut"} /\ req'[e].k = k
    <3>1. CASE d = c
      BY <1>3, <1>4, <2>4, <3>1
    <3>2. CASE d # c
      BY <1>4, <2>4, <3>2
    <3> QED
      BY <3>1, <3>2
  <2> QED
    BY <2>2, <2>3, <2>4
<1> QED
  BY <1>5, <1>6 DEF SafeInv

(* Where closeterminal's caller goes on. *)
LEMMA ReturnGoesOn ==
  ASSUME NEW c \in Clients \cup {Reaper}, req[c] \in Request,
         req[c].at \in {"unregister", "shut"}
  PROVE  /\ Return(c).at \in {"idle", "cap", "reap"}
         /\ Return(c).at = "cap" => req[c].then = "cap" /\ Return(c).sid = req[c].sid
         /\ req[c] \notin Working => Return(c) \notin Working
<1>1. req[c] \in Working \/ req[c] \in Closing
  BY DEF Request, Idle
<1>2. CASE req[c].then = "idle"
  BY <1>2 DEF Return, Idle, Working, Steps
<1>3. CASE req[c].then = "cap"
  <2>1. req[c] \in Working
    BY <1>1, <1>3 DEF Closing
  <2>2. /\ [req[c] EXCEPT !.at = "cap", !.k = 0].at = "cap"
        /\ [req[c] EXCEPT !.at = "cap", !.k = 0].sid = req[c].sid
    BY <2>1 DEF Working
  <2>3. Return(c) = [req[c] EXCEPT !.at = "cap", !.k = 0]
    BY <1>3 DEF Return
  <2> QED
    BY <1>3, <2>1, <2>2, <2>3
<1>4. CASE req[c].then = "reap"
  <2>1. req[c] \in Closing
    BY <1>1, <1>4 DEF Working
  <2>2. /\ [req[c] EXCEPT !.at = "reap", !.k = 0].at = "reap"
        /\ [req[c] EXCEPT !.at = "reap", !.k = 0].then = "reap"
    BY <2>1 DEF Closing
  <2>3. Return(c) = [req[c] EXCEPT !.at = "reap", !.k = 0]
    BY <1>4 DEF Return
  <2>4. Return(c) \notin Working
    BY <2>2, <2>3 DEF Working
  <2> QED
    BY <2>2, <2>3, <2>4
<1> QED
  BY <1>1, <1>2, <1>3, <1>4 DEF Working, Closing

(* A terminal that leaves the registry is in the hands of its closer. *)
LEMMA SafeUnregister ==
  ASSUME TermInv, SafeInv, TerminalAssumption, NEW c \in Clients \cup {Reaper}, Unregister(c)
  PROVE  SafeInv'
<1> DEFINE s == req[c].sid
<1> DEFINE r == IF reg[s] = 0 THEN Return(c) ELSE [req[c] EXCEPT !.at = "shut", !.k = reg[s]]
<1>1. /\ req[c].at = "unregister" /\ req[c] \in Request /\ reg' = [reg EXCEPT ![s] = 0]
      /\ req' = [req EXCEPT ![c] = r] /\ UNCHANGED <<made, term>>
  BY DEF Unregister, TermInv, RegInv
<1>2. s \in Sids /\ (req[c] \in Working \/ req[c] \in Closing)
  BY <1>1 DEF Request, Working, Closing, Idle
<1>3. reg[s] # 0 =>
        /\ [req[c] EXCEPT !.at = "shut", !.k = reg[s]].at = "shut"
        /\ [req[c] EXCEPT !.at = "shut", !.k = reg[s]].k = reg[s]
        /\ [req[c] EXCEPT !.at = "shut", !.k = reg[s]].sid = s
        /\ req[c] \notin Working => [req[c] EXCEPT !.at = "shut", !.k = reg[s]] \notin Working
  <2> DEFINE k == reg[s]
  <2> DEFINE q == [req[c] EXCEPT !.at = "shut", !.k = k]
  <2> HIDE DEF k, s
  <2>1. CASE req[c] \in Working
    BY <2>1 DEF Working, s
  <2>2. CASE req[c] \in Closing
    <3>1. q.at = "shut" /\ q.k = k /\ q.sid = req[c].sid /\ q.then = "reap"
      BY <2>2 DEF Closing
    <3>2. q \notin Working
      BY <3>1 DEF Working
    <3> QED
      BY <3>1, <3>2 DEF s, k
  <2> QED
    BY <1>2, <2>1, <2>2 DEF k
<1>4. /\ r.at \in {"idle", "cap", "reap", "shut"}
      /\ r.at = "cap" => r.sid = s
      /\ r.at = "shut" => r.sid = s /\ r.k = reg[s]
      /\ reg[s] # 0 => r.at = "shut"
      /\ req[c] \notin Working => r \notin Working
  BY <1>1, <1>3, ReturnGoesOn
<1> HIDE DEF r
<1>5. /\ reg'[s] = 0 /\ \A t \in Sids : t # s => reg'[t] = reg[t]
      /\ req'[c] = r /\ \A d \in Clients \cup {Reaper} : d # c => req'[d] = req[d]
  BY <1>1, <1>2 DEF TermInv, RegInv
<1> HIDE DEF s
<1>6. OwnInv'
  <2>1. \A t \in Sids : reg'[t] # 0 => term[reg'[t]].sid = t
    BY <1>5 DEF SafeInv, OwnInv
  <2>2. ASSUME NEW d \in Clients \cup {Reaper}, req'[d].at = "register"
        PROVE  term[req'[d].k].sid = req'[d].sid
    BY <1>4, <1>5, <2>2 DEF SafeInv, OwnInv
  <2>3. req'[Reaper] \notin Working
    BY <1>4, <1>5 DEF SafeInv, OwnInv
  <2>4. ASSUME NEW d \in Clients, Starting(d)' PROVE reg'[req'[d].sid] = 0
    <3>1. CASE d = c
      BY <1>4, <1>5, <2>4, <3>1 DEF Starting
    <3>2. CASE d # c
      <4>1. Starting(d) /\ req'[d] = req[d] /\ reg[req[d].sid] = 0
        BY <1>5, <2>4, <3>2 DEF Starting, SafeInv, OwnInv
      <4>2. req[d] \in Request /\ req[d] # Idle /\ req[d].at # "reap"
        BY <4>1 DEF TermInv, RegInv, Starting, Idle
      <4>3. req[d].sid \in Sids
        BY <4>2 DEF Request, Working, Closing
      <4> QED
        BY <1>5, <4>1, <4>3
    <3> QED
      BY <3>1, <3>2
  <2>5. Made' = Made /\ \A k \in Made : term'[k].sid \in Sids
    BY <1>1 DEF SafeInv, OwnInv, Made
  <2> QED
    BY <1>1, <2>1, <2>2, <2>3, <2>4, <2>5 DEF OwnInv
<1>7. NoOrphan'
  <2>1. SUFFICES ASSUME NEW k \in Made, term[k].open
                 PROVE  \/ reg'[term[k].sid] = k
                        \/ \E d \in Clients \cup {Reaper} :
                             req'[d].at \in {"register", "shut"} /\ req'[d].k = k
    BY <1>1 DEF NoOrphan, Made
  <2>2. \/ reg[term[k].sid] = k
        \/ \E d \in Clients \cup {Reaper} : req[d].at \in {"register", "shut"} /\ req[d].k = k
    BY <2>1 DEF SafeInv, NoOrphan
  <2>3. CASE reg[term[k].sid] = k
    <3>1. term[k].sid \in Sids /\ k # 0
      BY <2>1 DEF SafeInv, OwnInv, Made
    <3>2. CASE term[k].sid = s
      BY <1>4, <1>5, <2>3, <3>1, <3>2
    <3>3. CASE term[k].sid # s
      BY <1>5, <2>3, <3>1, <3>3
    <3> QED
      BY <3>2, <3>3
  <2>4. ASSUME NEW d \in Clients \cup {Reaper}, req[d].at \in {"register", "shut"}, req[d].k = k
        PROVE  req'[d].at \in {"register", "shut"} /\ req'[d].k = k
    BY <1>1, <1>5, <2>4
  <2> QED
    BY <2>2, <2>3, <2>4
<1> QED
  BY <1>6, <1>7 DEF SafeInv

(* The terminal it lets go of is closed. *)
LEMMA SafeShut ==
  ASSUME TermInv, SafeInv, TerminalAssumption, NEW c \in Clients \cup {Reaper}, Shut(c)
  PROVE  SafeInv'
<1> DEFINE n == req[c].k
<1>1. /\ req[c].at = "shut" /\ req[c] \in Request /\ req' = [req EXCEPT ![c] = Return(c)]
      /\ UNCHANGED <<reg, made>> /\ term \in [Terms -> TermRec]
  BY DEF Shut, TermInv, RegInv, Records
<1>2. /\ Return(c).at \in {"idle", "cap", "reap"}
      /\ Return(c).at = "cap" => req[c].then = "cap" /\ Return(c).sid = req[c].sid
      /\ req[c] \notin Working => Return(c) \notin Working
  BY <1>1, ReturnGoesOn
<1>3. req'[c] = Return(c) /\ \A d \in Clients \cup {Reaper} : d # c => req'[d] = req[d]
  BY <1>1 DEF TermInv, RegInv
<1>4. \A k \in Terms : /\ term'[k].sid = term[k].sid
                       /\ term'[k].open => term[k].open /\ k # n
  <2>1. term' = [term EXCEPT ![n].closed = TRUE, ![n].open = FALSE]
    BY DEF Shut
  <2> HIDE DEF n
  <2>2. CASE n \in Terms
    <3>1. term' = [term EXCEPT ![n] = [term[n] EXCEPT !.closed = TRUE, !.open = FALSE]]
      BY <1>1, <2>1, <2>2
    <3>2. /\ [term[n] EXCEPT !.closed = TRUE, !.open = FALSE].sid = term[n].sid
          /\ [term[n] EXCEPT !.closed = TRUE, !.open = FALSE].open = FALSE
      BY <1>1, <2>2 DEF TermRec
    <3> QED
      BY <1>1, <2>2, <3>1, <3>2
  <2>3. CASE n \notin Terms
    BY <1>1, <2>1, <2>3
  <2> QED
    BY <2>2, <2>3
<1>5. Made \subseteq Terms /\ Made' = Made
  BY <1>1, TermRange DEF TermInv, Made
<1> HIDE DEF n
<1>6. OwnInv'
  <2>1. ASSUME NEW t \in Sids, reg[t] # 0 PROVE term'[reg[t]].sid = t
    <3>1. reg[t] \in Terms
      BY <1>5, <2>1 DEF TermInv, RegInv, Made
    <3> QED
      BY <1>4, <2>1, <3>1 DEF SafeInv, OwnInv
  <2>2. ASSUME NEW d \in Clients \cup {Reaper}, req'[d].at = "register"
        PROVE  term'[req'[d].k].sid = req'[d].sid
    <3>1. req'[d] = req[d] /\ req[d].k \in Made
      BY <1>2, <1>3, <2>2 DEF TermInv, RegInv
    <3> QED
      BY <1>4, <1>5, <2>2, <3>1 DEF SafeInv, OwnInv
  <2>3. req'[Reaper] \notin Working
    BY <1>2, <1>3 DEF SafeInv, OwnInv
  <2>4. ASSUME NEW d \in Clients, Starting(d)' PROVE reg[req'[d].sid] = 0
    <3>1. CASE d = c
      BY <1>1, <1>2, <1>3, <2>4, <3>1 DEF Starting, SafeInv, OwnInv
    <3>2. CASE d # c
      BY <1>3, <2>4, <3>2 DEF Starting, SafeInv, OwnInv
    <3> QED
      BY <3>1, <3>2
  <2>5. \A k \in Made : term'[k].sid \in Sids
    BY <1>4, <1>5 DEF SafeInv, OwnInv
  <2> QED
    BY <1>1, <1>5, <2>1, <2>2, <2>3, <2>4, <2>5 DEF OwnInv
<1>7. NoOrphan'
  <2>1. SUFFICES ASSUME NEW k \in Made, term'[k].open
                 PROVE  \/ reg[term'[k].sid] = k
                        \/ \E d \in Clients \cup {Reaper} :
                             req'[d].at \in {"register", "shut"} /\ req'[d].k = k
    BY <1>1, <1>5 DEF NoOrphan
  <2>2. term'[k].sid = term[k].sid /\ term[k].open /\ k # n
    BY <1>4, <1>5, <2>1
  <2>3. \/ reg[term[k].sid] = k
        \/ \E d \in Clients \cup {Reaper} : req[d].at \in {"register", "shut"} /\ req[d].k = k
    BY <2>1, <2>2 DEF SafeInv, NoOrphan
  <2> QED
    BY <1>3, <2>2, <2>3 DEF n
<1> QED
  BY <1>6, <1>7 DEF SafeInv

LEMMA SafeReap ==
  ASSUME TermInv, SafeInv, TerminalAssumption, ReapScan \/ ReapNext
  PROVE  SafeInv'
<1>1. UNCHANGED <<reg, made, term>> /\ req[Reaper].at \in {"idle", "reap"}
  BY DEF ReapScan, ReapNext
<1>2. PICK r : /\ req' = req \/ req' = [req EXCEPT ![Reaper] = r]
               /\ r.at \in {"idle", "reap", "unregister"} /\ r \notin Working
  <2>1. CASE ReapScan
    <3>1. PICK victims : req' = req \/ req' = [req EXCEPT ![Reaper] = [at |-> "reap", victims |-> victims]]
      BY <2>1 DEF ReapScan
    <3>2. [at |-> "reap", victims |-> victims].at = "reap"
      OBVIOUS
    <3>3. [at |-> "reap", victims |-> victims] \notin Working
      BY <3>2 DEF Working, Steps
    <3> QED
      BY <3>1, <3>2, <3>3
  <2>2. CASE ReapNext
    <3>1. CASE req' = [req EXCEPT ![Reaper] = Idle]
      <4>1. Idle.at = "idle"
        BY DEF Idle
      <4>2. Idle \notin Working
        BY <4>1 DEF Working, Steps
      <4> QED
        BY <3>1, <4>1, <4>2
    <3>2. ASSUME NEW s, req' = [req EXCEPT ![Reaper] =
                        [at |-> "unregister", sid |-> s, k |-> 0, then |-> "reap",
                         victims |-> req[Reaper].victims \ {s}]]
          PROVE  \E r : /\ req' = [req EXCEPT ![Reaper] = r]
                        /\ r.at \in {"idle", "reap", "unregister"} /\ r \notin Working
      <4> DEFINE next == [at |-> "unregister", sid |-> s, k |-> 0, then |-> "reap",
                         victims |-> req[Reaper].victims \ {s}]
      <4>1. next.at = "unregister" /\ next.then = "reap" /\ req' = [req EXCEPT ![Reaper] = next]
        BY <3>2
      <4> HIDE DEF next
      <4>2. next \notin Working
        BY <4>1 DEF Working
      <4> QED
        BY <4>1, <4>2
    <3> QED
      BY <2>2, <3>1, <3>2 DEF ReapNext
  <2> QED
    BY <2>1, <2>2
<1>3. CASE req' = req
  BY <1>1, <1>3, SafeFrame
<1>4. CASE req' = [req EXCEPT ![Reaper] = r]
  BY <1>1, <1>2, <1>4, SafeMove
<1> QED
  BY <1>2, <1>3, <1>4

(* What shells and viewers do opens no terminal. *)
LEMMA SafeShell ==
  ASSUME TermInv, SafeInv, TerminalAssumption, NEW k \in Terms,
         Output(k) \/ ReaderLoop(k) \/ ShellExits(k) \/ Elapse(k)
  PROVE  SafeInv'
<1>1. UNCHANGED <<reg, made, req>>
  BY DEF Output, ReaderLoop, ShellExits, Elapse, Hangup, Farewell, DropOldest, Offer
<1>2. term \in [Terms -> TermRec]
  BY DEF TermInv, Records
<1>3. PICK u : /\ term' = term \/ term' = [term EXCEPT ![k] = u]
               /\ u.sid = term[k].sid /\ u.open = term[k].open
  <2>1. ASSUME NEW busy, NEW after, Publish(k, busy, after)
        PROVE  \E u : /\ term' = [term EXCEPT ![k] = u]
                      /\ u.sid = term[k].sid /\ u.open = term[k].open
    <3> DEFINE t == term[k]
    <3> DEFINE u == [t EXCEPT !.seq = t.seq + 1, !.log = Trim(Append(t.log, t.seq + 1)),
                              !.todo = t.subs, !.at = Loop(busy, after, t.subs)]
    <3>1. term' = [term EXCEPT ![k] = u]
      BY <2>1 DEF Publish
    <3>2. u.sid = t.sid /\ u.open = t.open
      BY <1>2 DEF TermRec
    <3> HIDE DEF u
    <3> QED
      BY <3>1, <3>2
  <2>2. ASSUME NEW v, Served(k, v)
        PROVE  \E u : /\ term' = [term EXCEPT ![k] = u]
                      /\ u.sid = term[k].sid /\ u.open = term[k].open
    <3> DEFINE t == term[k]
    <3> DEFINE rest == t.todo \ {v}
    <3> DEFINE u == [t EXCEPT !.todo = rest, !.cur = Nobody,
                  !.at = Loop(t.at, IF t.at = "sending" THEN "reading" ELSE "ended", rest)]
    <3>1. term' = [term EXCEPT ![k] = u]
      BY <2>2 DEF Served
    <3>2. u.sid = t.sid /\ u.open = t.open
      BY <1>2 DEF TermRec
    <3> HIDE DEF u
    <3> QED
      BY <3>1, <3>2
  <2>3. CASE Hangup(k)
    <3>1. term' = [term EXCEPT ![k] = [term[k] EXCEPT !.closed = TRUE, !.at = "hungup"]]
      BY <1>2, <2>3 DEF Hangup
    <3>2. /\ [term[k] EXCEPT !.closed = TRUE, !.at = "hungup"].sid = term[k].sid
          /\ [term[k] EXCEPT !.closed = TRUE, !.at = "hungup"].open = term[k].open
      BY <1>2 DEF TermRec
    <3> QED
      BY <3>1, <3>2
  <2>4. CASE ShellExits(k)
    <3>1. term' = [term EXCEPT ![k] = [term[k] EXCEPT !.shell = "exited"]]
      BY <1>2, <2>4 DEF ShellExits
    <3>2. /\ [term[k] EXCEPT !.shell = "exited"].sid = term[k].sid
          /\ [term[k] EXCEPT !.shell = "exited"].open = term[k].open
      BY <1>2 DEF TermRec
    <3> QED
      BY <3>1, <3>2
  <2>5. CASE Elapse(k)
    <3>1. term' = [term EXCEPT ![k] = [term[k] EXCEPT !.watch = "idle"]]
      BY <1>2, <2>5 DEF Elapse
    <3>2. /\ [term[k] EXCEPT !.watch = "idle"].sid = term[k].sid
          /\ [term[k] EXCEPT !.watch = "idle"].open = term[k].open
      BY <1>2 DEF TermRec
    <3> QED
      BY <3>1, <3>2
  <2>6. ASSUME NEW v \in Viewers, Offer(k, v)
        PROVE  \E u : /\ term' = [term EXCEPT ![k] = u]
                      /\ u.sid = term[k].sid /\ u.open = term[k].open
    <3>1. CASE Served(k, v)
      BY <2>2, <3>1
    <3>2. CASE term' = [term EXCEPT ![k].cur = v]
      <4>1. term' = [term EXCEPT ![k] = [term[k] EXCEPT !.cur = v]]
        BY <1>2, <3>2
      <4>2. /\ [term[k] EXCEPT !.cur = v].sid = term[k].sid
            /\ [term[k] EXCEPT !.cur = v].open = term[k].open
        BY <1>2 DEF TermRec
      <4> QED
        BY <4>1, <4>2
    <3> QED
      BY <2>6, <3>1, <3>2 DEF Offer
  <2> QED
    BY <2>1, <2>2, <2>3, <2>4, <2>5, <2>6 DEF Output, ReaderLoop, Farewell, DropOldest
<1>4. \A j \in Terms : term'[j].sid = term[j].sid /\ (term'[j].open => term[j].open)
  BY <1>2, <1>3
<1> QED
  BY <1>1, <1>4, SafeFrame

LEMMA SafeView ==
  ASSUME TermInv, SafeInv, TerminalAssumption, NEW v \in Viewers,
         Subscribe(v) \/ Read(v) \/ Leave(v) \/ \E s \in Sids : Look(v, s)
  PROVE  SafeInv'
<1>1. UNCHANGED <<reg, made, req>>
  BY DEF Subscribe, Read, Leave, Look
<1>2. term \in [Terms -> TermRec]
  BY DEF TermInv, Records
<1>3. \E k, a, b : term' = term \/ term' = [term EXCEPT ![k].subs = a, ![k].watch = b]
  BY DEF Subscribe, Read, Leave, Look
<1>4. \A j \in Terms : term'[j].sid = term[j].sid /\ (term'[j].open => term[j].open)
  <2>1. SUFFICES ASSUME NEW k, NEW a, NEW b, k \in Terms,
                        term' = [term EXCEPT ![k].subs = a, ![k].watch = b]
                 PROVE  \A j \in Terms : term'[j].sid = term[j].sid /\ (term'[j].open => term[j].open)
    <3>1. ASSUME NEW k, NEW a, NEW b, k \notin Terms,
                 term' = [term EXCEPT ![k].subs = a, ![k].watch = b]
          PROVE  term' = term
      BY <1>2, <3>1
    <3> QED
      BY <1>3, <3>1
  <2>2. term' = [term EXCEPT ![k] = [term[k] EXCEPT !.subs = a, !.watch = b]]
    BY <1>2, <2>1
  <2>3. /\ [term[k] EXCEPT !.subs = a, !.watch = b].sid = term[k].sid
        /\ [term[k] EXCEPT !.subs = a, !.watch = b].open = term[k].open
    BY <1>2, <2>1 DEF TermRec
  <2> QED
    BY <1>2, <2>1, <2>2, <2>3
<1> QED
  BY <1>1, <1>4, SafeFrame

LEMMA SafeStep ==
  ASSUME OneAtATime, TerminalAssumption, TermInv, SafeInv, [Next]_vars
  PROVE  SafeInv'
<1>1. CASE UNCHANGED vars
  BY <1>1, SafeFrame DEF vars
<1>2. ASSUME NEW c \in Clients \cup {Reaper}, Proceed(c) PROVE SafeInv'
  BY <1>2, SafeAlive, SafeSpawn, SafeRegister, SafeUnregister, SafeShut DEF Proceed
<1> QED
  BY <1>1, <1>2, SafeStart, SafeReap, SafeShell, SafeView DEF Next

(* With one request at a time, and the reaper beside it, no shell is left    *)
(* behind in any number of starts and closes (terminal.go:196-231, 280-307). *)
THEOREM NoShellLeftBehind ==
  ASSUME OneAtATime PROVE Spec => []NoOrphan
<1>1. Init => SafeInv
  BY SafeInit, TerminalAssumption
<1>2. TermInv /\ SafeInv /\ [Next]_vars => SafeInv'
  BY SafeStep, TerminalAssumption
<1>3. SafeInv => NoOrphan
  BY DEF SafeInv
<1> QED
  BY <1>1, <1>2, <1>3, TermInvariant, PTL DEF Spec
=============================================================================
