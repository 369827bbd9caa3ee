------------------------------- MODULE Terminal -------------------------------
(***************************************************************************)
(* The embedded terminals (httpserver/terminal.go): the registry under     *)
(* termMu, the terminals each under its own mu, the goroutine that reads    *)
(* a shell's output and fans it out, the requests that start and close      *)
(* terminals, the reaper, and the SSE viewers.                             *)
(*                                                                         *)
(* Critical sections are steps.  Two of them can block inside for ever and  *)
(* keep their mutex: Subscribe, whose replay does not fit the channel       *)
(* nobody reads yet (Stuck), and the cap, which closes a terminal while it  *)
(* holds the mutex that closing takes again (wedged).                       *)
(***************************************************************************)
EXTENDS Naturals, Sequences, FiniteSetsExt

CONSTANTS
  Sids,       \* session ids
  Clients,    \* goroutines serving /start and /close
  Reaper,     \* the reaper goroutine
  Nobody,
  Viewers,    \* bound: connections to /output, each made once
  MaxTerms,   \* bound: shells ever started
  MaxSeq,     \* bound: items published when a chunk of output is read
  Cap,        \* terminals allowed before one is evicted (8)
  Backlog,    \* termOutputMax (4096)
  ChanCap     \* capacity of a viewer's channel (128)

ASSUME TerminalAssumption ==
  /\ Reaper \notin Clients /\ Nobody \notin Viewers
  /\ MaxTerms \in Nat /\ MaxSeq \in Nat
  /\ Cap \in Nat \ {0} /\ Backlog \in Nat \ {0} /\ ChanCap \in Nat \ {0}

VARIABLES
  reg,     \* terminals: the registered terminal of a session, or 0
  made,    \* shells started so far
  term,    \* term[k]: the k-th terminal
  req,     \* req[c]: where a request, or the reaper, is
  view,    \* view[v]: an SSE connection
  wedged   \* a goroutine waits for ever while it holds termMu

vars == <<reg, made, term, req, view, wedged>>

Terms == 1..MaxTerms
Made == 1..made
(* Items published by all shells together. *)
Published == MapThenSumSet(LAMBDA k : term[k].seq, Made)

Registered == {s \in Sids : reg[s] # 0}

Idle == [at |-> "idle"]
NoTerm == [sid |-> Nobody, closed |-> FALSE, open |-> FALSE, shell |-> "none",
           seq |-> 0, log |-> <<>>, subs |-> {}, watch |-> "unwatched",
           at |-> "none", todo |-> {}, cur |-> Nobody]

(* A viewer of k is blocked in subscribe, holding t.mu. *)
Stuck(k) == \E v \in Viewers : view[v].at = "stuck" /\ view[v].k = k
Alive(k) == ~term[k].closed

Init ==
  /\ reg = [s \in Sids |-> 0]
  /\ made = 0
  /\ term = [k \in Terms |-> NoTerm]
  /\ req = [c \in Clients \cup {Reaper} |-> Idle]
  /\ view = [v \in Viewers |-> [at |-> "away", k |-> 0, ch |-> <<>>, pos |-> 0]]
  /\ wedged = FALSE

-----------------------------------------------------------------------------
(* POST /api/terminal/start *)

(* A request that is at work on session s; it goes on to `then` when a      *)
(* closeterminal it calls returns.                                         *)
At(at, s, k, then) == [at |-> at, sid |-> s, k |-> k, then |-> then]

(* The terminal registered for the session. *)
StartLook(c, s) ==
  /\ c # Reaper /\ req[c].at = "idle" /\ ~wedged
  /\ req' = [req EXCEPT ![c] = At(IF reg[s] = 0 THEN "cap" ELSE "alive", s, reg[s], "cap")]
  /\ UNCHANGED <<reg, made, term, view, wedged>>

(* The new shell takes the entry of one that is not closed. *)
StartAlive_skipsClose(c) ==
  /\ req[c].at = "alive" /\ ~Stuck(req[c].k)
  /\ \/ Alive(req[c].k) /\ req' = [req EXCEPT ![c] = Idle]
     \/ req' = [req EXCEPT ![c] = At("cap", @.sid, 0, "cap")]
  /\ UNCHANGED <<reg, made, term, view, wedged>>

(* A live one is returned as it is, unless the request asks for a restart   *)
(* or the workspace is another; any other is closed first.                 *)
StartAlive(c) ==
  /\ req[c].at = "alive" /\ ~Stuck(req[c].k)
  /\ \/ Alive(req[c].k) /\ req' = [req EXCEPT ![c] = Idle]
     \/ req' = [req EXCEPT ![c] = At("unregister", @.sid, 0, "cap")]
  /\ UNCHANGED <<reg, made, term, view, wedged>>

(* enforceTerminalCap: it asks every other terminal whether it is alive and *)
(* unwatched, and closes the oldest of them - with termMu still held.       *)
StartCap(c) ==
  /\ req[c].at = "cap" /\ ~wedged
  /\ LET others == {reg[s] : s \in Registered \ {req[c].sid}}
         blocked == \E k \in others : Stuck(k)
         victims == {k \in others : Alive(k) /\ term[k].subs = {}} IN
     wedged' = (Cardinality(Registered) >= Cap /\ (blocked \/ victims # {}))
  /\ req' = IF wedged' THEN req ELSE [req EXCEPT ![c].at = "spawn"]
  /\ UNCHANGED <<reg, made, term, view>>

(* The shell and the goroutine that reads it are started, or cannot be. *)
StartSpawn(c) ==
  /\ req[c].at = "spawn"
  /\ \/ /\ made < MaxTerms
        /\ made' = made + 1
        /\ term' = [term EXCEPT ![made + 1] =
             [NoTerm EXCEPT !.sid = req[c].sid, !.open = TRUE, !.shell = "running",
                            !.at = "reading"]]
        /\ req' = [req EXCEPT ![c].at = "register", ![c].k = made + 1]
     \/ /\ req' = [req EXCEPT ![c] = Idle]
        /\ UNCHANGED <<made, term>>
  /\ UNCHANGED <<reg, view, wedged>>

StartRegister(c) ==
  /\ req[c].at = "register" /\ ~wedged
  /\ reg' = [reg EXCEPT ![req[c].sid] = req[c].k]
  /\ req' = [req EXCEPT ![c] = Idle]
  /\ UNCHANGED <<made, term, view, wedged>>

-----------------------------------------------------------------------------
(* closeterminal, for /start, /close and the reaper *)

CloseRequest(c, s) ==
  /\ c # Reaper /\ req[c].at = "idle"
  /\ req' = [req EXCEPT ![c] = At("unregister", s, 0, "idle")]
  /\ UNCHANGED <<reg, made, term, view, wedged>>

(* What the caller does when closeterminal returns. *)
Return(c) == IF req[c].then = "idle" THEN Idle
             ELSE [req[c] EXCEPT !.at = req[c].then, !.k = 0]

Unregister(c) ==
  /\ req[c].at = "unregister" /\ ~wedged
  /\ LET s == req[c].sid IN
       /\ reg' = [reg EXCEPT ![s] = 0]
       /\ req' = [req EXCEPT ![c] = IF reg[s] = 0 THEN Return(c)
                                    ELSE [@ EXCEPT !.at = "shut", !.k = reg[s]]]
  /\ UNCHANGED <<made, term, view, wedged>>

(* closed, SIGTERM (SIGKILL two seconds later), and the master's Close. *)
Shut(c) ==
  /\ req[c].at = "shut" /\ ~Stuck(req[c].k)
  /\ term' = [term EXCEPT ![req[c].k].closed = TRUE, ![req[c].k].open = FALSE]
  /\ req' = [req EXCEPT ![c] = Return(c)]
  /\ UNCHANGED <<reg, made, view, wedged>>

(* Every minute: the dead and the long unwatched, under termMu. *)
ReapScan ==
  /\ req[Reaper].at = "idle" /\ ~wedged
  /\ LET blocked == \E s \in Registered : Stuck(reg[s])
         victims == {s \in Registered : ~Alive(reg[s]) \/ term[reg[s]].watch = "idle"} IN
       /\ blocked \/ victims # {}
       /\ wedged' = blocked
       /\ req' = IF blocked THEN req
                 ELSE [req EXCEPT ![Reaper] = [at |-> "reap", victims |-> victims]]
  /\ UNCHANGED <<reg, made, term, view>>

(* Then they are closed one by one, by session id. *)
ReapNext ==
  /\ req[Reaper].at = "reap"
  /\ IF req[Reaper].victims = {} THEN req' = [req EXCEPT ![Reaper] = Idle]
     ELSE \E s \in req[Reaper].victims :
            req' = [req EXCEPT ![Reaper] =
                      [at |-> "unregister", sid |-> s, k |-> 0, then |-> "reap",
                       victims |-> @.victims \ {s}]]
  /\ UNCHANGED <<reg, made, term, view, wedged>>

-----------------------------------------------------------------------------
(* readerLoop and publish *)

Trim(s) == IF Len(s) > Backlog THEN SubSeq(s, Len(s) - Backlog + 1, Len(s)) ELSE s

(* The delivery loop of publish ends when todo is empty. *)
Loop(busy, after, todo) == IF todo = {} THEN after ELSE busy

(* The critical section of publish: number, keep, copy the subscribers. *)
Publish(k, busy, after) ==
  LET t == term[k]
  IN  term' = [term EXCEPT ![k] =
        [t EXCEPT !.seq = t.seq + 1, !.log = Trim(Append(t.log, t.seq + 1)),
                  !.todo = t.subs, !.at = Loop(busy, after, t.subs)]]

(* A chunk is read; what the shell wrote before it exited is still read. *)
Output(k) ==
  /\ term[k].at = "reading" /\ term[k].open /\ Published < MaxSeq /\ ~Stuck(k)
  /\ Publish(k, "sending", "reading")
  /\ UNCHANGED <<reg, made, req, view, wedged>>

(* Read fails: the shell has gone or the master is closed. *)
Hangup(k) ==
  /\ term[k].at = "reading" /\ (term[k].shell = "exited" \/ ~term[k].open) /\ ~Stuck(k)
  /\ term' = [term EXCEPT ![k].closed = TRUE, ![k].at = "hungup"]
  /\ UNCHANGED <<reg, made, req, view, wedged>>

(* The last item of all: terminal_closed. *)
Farewell(k) ==
  /\ term[k].at = "hungup" /\ ~Stuck(k)
  /\ Publish(k, "parting", "ended")
  /\ UNCHANGED <<reg, made, req, view, wedged>>

(* The channel of a viewer that has left is garbage. *)
Put(v, e) == view' = IF view[v].at = "open" THEN [view EXCEPT ![v].ch = Append(@, e)] ELSE view

Served(k, v) ==
  LET t == term[k]
      rest == t.todo \ {v}
      after == IF t.at = "sending" THEN "reading" ELSE "ended"
  IN  term' = [term EXCEPT ![k] = [t EXCEPT !.todo = rest, !.cur = Nobody,
                                            !.at = Loop(t.at, after, rest)]]

(* Whoever is subscribed by now is served. *)
Offer_lateSubscribers(k, v) ==
  /\ term[k].cur = Nobody /\ term[k].todo # {} /\ v \in term[k].todo \cup term[k].subs
  /\ IF Len(view[v].ch) < ChanCap
       THEN Put(v, term[k].seq) /\ Served(k, v)
       ELSE term' = [term EXCEPT ![k].cur = v] /\ UNCHANGED view
  /\ UNCHANGED <<reg, made, req, wedged>>

(* The first select of publish, for any of the copied subscribers. *)
Offer(k, v) ==
  /\ term[k].cur = Nobody /\ v \in term[k].todo
  /\ IF Len(view[v].ch) < ChanCap
       THEN Put(v, term[k].seq) /\ Served(k, v)
       ELSE term' = [term EXCEPT ![k].cur = v] /\ UNCHANGED view
  /\ UNCHANGED <<reg, made, req, wedged>>

(* A full channel keeps what it has. *)
DropOldest_dropsNewest(k) ==
  /\ term[k].cur # Nobody
  /\ Served(k, term[k].cur)
  /\ UNCHANGED <<reg, made, req, view, wedged>>

(* The full channel: its oldest item goes, if the viewer has left any, and  *)
(* the second send finds room, because nobody else sends to it.  The viewer *)
(* may have read since the first select; what it reads between the last two *)
(* it could as well read after them.                                       *)
DropOldest(k) ==
  LET v == term[k].cur IN
  /\ v # Nobody
  /\ view' = IF view[v].at # "open" THEN view
             ELSE [view EXCEPT ![v].ch = Append(IF @ = <<>> THEN @ ELSE Tail(@), term[k].seq)]
  /\ Served(k, v)
  /\ UNCHANGED <<reg, made, req, wedged>>

ReaderLoop(k) ==
  \/ Hangup(k) \/ Farewell(k) \/ DropOldest(k)
  \/ \E v \in Viewers : Offer(k, v)

(* The shell ends: by itself, or by the signals of closeterminal. *)
ShellExits(k) ==
  /\ term[k].shell = "running"
  /\ term' = [term EXCEPT ![k].shell = "exited"]
  /\ UNCHANGED <<reg, made, req, view, wedged>>

(* termIdleGrace passes: the reaper looks at registered terminals only. *)
Elapse(k) ==
  /\ k \in Made /\ reg[term[k].sid] = k /\ term[k].watch = "unwatched"
  /\ term' = [term EXCEPT ![k].watch = "idle"]
  /\ UNCHANGED <<reg, made, req, view, wedged>>

-----------------------------------------------------------------------------
(* GET /api/terminal/output *)

Look(v, s) ==
  /\ view[v].at = "away" /\ ~wedged /\ reg[s] # 0
  /\ view' = [view EXCEPT ![v].at = "found", ![v].k = reg[s]]
  /\ UNCHANGED <<reg, made, term, req, wedged>>

(* subscribe(0): frames carry no id, so no client ever names a later start. *)
(* The backlog is put in the new channel by sends that block when it is     *)
(* full, under t.mu and before anyone can read it.                         *)
Subscribe(v) ==
  /\ view[v].at = "found" /\ ~Stuck(view[v].k)
  /\ LET k == view[v].k IN
     IF Len(term[k].log) > ChanCap
       THEN /\ view' = [view EXCEPT ![v].at = "stuck"]
            /\ UNCHANGED term
       ELSE /\ view' = [view EXCEPT ![v].at = "open", ![v].ch = term[k].log]
            /\ term' = [term EXCEPT ![k].subs = @ \cup {v}, ![k].watch = "watched"]
  /\ UNCHANGED <<reg, made, req, wedged>>

Read(v) ==
  /\ view[v].at = "open" /\ view[v].ch # <<>>
  /\ view' = [view EXCEPT ![v].pos = Head(view[v].ch), ![v].ch = Tail(@)]
  /\ UNCHANGED <<reg, made, term, req, wedged>>

(* The viewer goes: unsubscribe, and the last one starts the idle clock. *)
Leave(v) ==
  /\ view[v].at = "open" /\ ~Stuck(view[v].k)
  /\ LET k == view[v].k IN
       /\ view' = [view EXCEPT ![v] = [at |-> "left", k |-> 0, ch |-> <<>>, pos |-> 0]]
       /\ term' = [term EXCEPT ![k].subs = @ \ {v},
                               ![k].watch = IF term[k].subs = {v} THEN "unwatched" ELSE @]
  /\ UNCHANGED <<reg, made, req, wedged>>

-----------------------------------------------------------------------------
(* What a request or the reaper does once it has begun. *)
Proceed(c) ==
  \/ StartAlive(c) \/ StartCap(c) \/ StartSpawn(c) \/ StartRegister(c)
  \/ Unregister(c) \/ Shut(c)

Next ==
  \/ \E c \in Clients, s \in Sids : StartLook(c, s) \/ CloseRequest(c, s)
  \/ \E c \in Clients \cup {Reaper} : Proceed(c)
  \/ ReapScan \/ ReapNext
  \/ \E k \in Terms : Output(k) \/ ReaderLoop(k) \/ ShellExits(k) \/ Elapse(k)
  \/ \E v \in Viewers :
       Subscribe(v) \/ Read(v) \/ Leave(v) \/ \E s \in Sids : Look(v, s)

Spec == Init /\ [][Next]_vars

(* Goroutines that can run do; a connected viewer reads.  Users, shells and *)
(* clocks owe nothing.                                                     *)
Fairness ==
  /\ \A c \in Clients \cup {Reaper} : WF_vars(Proceed(c))
  /\ WF_vars(ReapNext)
  /\ \A k \in Terms : WF_vars(ReaderLoop(k))
  /\ \A v \in Viewers : WF_vars(Read(v))

FairSpec == Spec /\ Fairness

-----------------------------------------------------------------------------
(* Types, with the bounds of the backlog and of the channels. *)
TypeOK ==
  /\ reg \in [Sids -> 0..made] /\ made \in 0..MaxTerms /\ wedged \in BOOLEAN
  /\ \A k \in Terms :
       /\ term[k].seq \in 0..(MaxSeq + 1) /\ Len(term[k].log) <= Backlog
       /\ term[k].subs \subseteq Viewers /\ term[k].todo \subseteq Viewers
       /\ term[k].watch \in {"watched", "unwatched", "idle"}
       /\ term[k].at \in {"none", "reading", "sending", "hungup", "parting", "ended"}
  /\ \A v \in Viewers : /\ view[v].at \in {"away", "found", "open", "stuck", "left"}
                        /\ Len(view[v].ch) <= ChanCap

(* A viewer gets items in the order they were published and none twice,     *)
(* although replay is taken under the lock and live items are sent outside  *)
(* it (terminal.go:78-120).                                                *)
InOrder ==
  \A v \in Viewers : view[v].at = "open" =>
    LET seen == <<view[v].pos>> \o view[v].ch IN
      /\ \A i, j \in 1..Len(seen) : i < j => seen[i] < seen[j]
      /\ seen[Len(seen)] <= term[view[v].k].seq

(* Dropping drops the oldest: once publish has served a viewer, the newest  *)
(* item - terminal_closed if the shell has gone - is the last in its        *)
(* channel or the last it got (terminal.go:92-105).                        *)
NewestSurvives ==
  \A v \in Viewers :
    view[v].at = "open" /\ v \notin term[view[v].k].todo =>
      LET seen == <<view[v].pos>> \o view[v].ch
      IN  seen[Len(seen)] = term[view[v].k].seq

(* With one request at a time no shell is left behind: one that still has    *)
(* its terminal open can be found in the registry, or a goroutine is about   *)
(* to put it there or to close it (terminal.go:196-231, 280-307).           *)
NoOrphan ==
  \A k \in Made : term[k].open =>
    \/ reg[term[k].sid] = k
    \/ \E c \in Clients \cup {Reaper} : req[c].at \in {"register", "shut"} /\ req[c].k = k

(* terminal.go:5-6: start spawns a shell with "cap enforcement": a start     *)
(* that meets the cap evicts a terminal, and returns.                       *)
StartReturns == \A c \in Clients : (req[c].at # "idle") ~> (req[c].at = "idle")
=============================================================================
