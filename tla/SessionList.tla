---------------------------- MODULE SessionList ----------------------------
(***************************************************************************)
(* The session list of the page (static/sessions.js, static/panels.js):    *)
(* refreshes asked and answered over the network, payloads held while the  *)
(* user is pointing at the list, profile switches with the skeleton and    *)
(* the embargo they put up, and optimistic deletes.  Rows of a turn just   *)
(* sent, the rename box, the row menu and the error note are left out.     *)
(***************************************************************************)
EXTENDS Naturals, Sequences

CONSTANTS
  ListProfiles,     \* the profiles
  ListSessions,     \* the conversations of all profiles
  ListOwner,        \* [ListSessions -> ListProfiles]
  ListFirst,        \* the profile the page starts on
  ListKinds,        \* how a switch is started: "chat" (switchToProfile), "load"
  ListBudget,       \* bound: refreshes, switches and deletes of a run
  ListDeletes       \* bound: deletes among them

ASSUME ListAssumption ==
  /\ ListOwner \in [ListSessions -> ListProfiles]
  /\ ListFirst \in ListProfiles
  /\ ListKinds \subseteq {"chat", "load"}
  /\ {ListBudget, ListDeletes} \subseteq Nat

VARIABLES
  listGen,      \* _renderSessionListGen
  flight,       \* the request _renderSessionListInFlight is running
  queued,       \* _renderSessionListQueuedRequest
  held,         \* _pendingSessionListPayload
  embargo,      \* _profileSwitchListEmbargo
  skeleton,     \* _sessionListSkeletonActive
  allSessions,  \* _allSessions
  rowScope,     \* _allSessionsScope.profile
  screen,       \* what #sessionList shows, and what painted it
  pageProfile,  \* S.activeProfile
  cookie,       \* the profile cookie of the browser
  stored,       \* the sessions the server has
  switches,     \* the profile switches, oldest first
  removed,      \* _optimisticallyRemovedSessionIds
  deletion,     \* the call of deleteSession that is running
  told,         \* sessions whose delete the server confirmed to the page
  left          \* what the environment may still start

listVars == <<listGen, flight, queued, held, embargo, skeleton, allSessions,
  rowScope, screen, pageProfile, cookie, stored, switches, removed, deletion,
  told, left>>
requestVars == <<listGen, flight, queued, held>>
rowVars     == <<allSessions, rowScope, skeleton, screen>>
switchVars  == <<embargo, pageProfile, cookie, switches>>
deleteVars  == <<removed, deletion, told, stored>>

Defer    == {"yes", "no", "unset"}       \* opts.deferWhileInteracting
Idle     == [phase |-> "idle", gen |-> 0, defer |-> "unset",
             of |-> ListFirst, rows |-> {}]
NoQueue  == [on |-> FALSE, gen |-> 0, defer |-> "unset"]
NoHeld   == [on |-> FALSE, gen |-> 0, of |-> ListFirst, rows |-> {}]
NoDelete == [phase |-> "idle", sid |-> {}, before |-> {}, reply |-> "none"]

RowsOf(p) == {s \in stored : ListOwner[s] = p}

ListTypeOK ==
  /\ listGen \in Nat
  /\ flight \in [phase: {"idle", "asked", "answered", "failed"}, gen: Nat,
                 defer: Defer, of: ListProfiles, rows: SUBSET ListSessions]
  /\ queued \in [on: BOOLEAN, gen: Nat, defer: Defer]
  /\ held \in [on: BOOLEAN, gen: Nat, of: ListProfiles,
               rows: SUBSET ListSessions]
  /\ embargo \in BOOLEAN /\ skeleton \in BOOLEAN
  /\ allSessions \in SUBSET ListSessions
  /\ rowScope \in ListProfiles
  /\ screen \in [by: {"skeleton", "server", "cache", "error"},
                 rows: SUBSET ListSessions]
  /\ pageProfile \in ListProfiles /\ cookie \in ListProfiles
  /\ stored \in SUBSET ListSessions
  /\ switches \in Seq([kind: {"chat", "load"}, to: ListProfiles,
                       phase: {"posting", "updating", "creating", "listing",
                               "over", "broken"},
                       alone: BOOLEAN])
  /\ removed \in SUBSET ListSessions
  /\ deletion \in [phase: {"idle", "holding", "waiting", "refreshing"},
                   sid: SUBSET ListSessions, before: SUBSET ListSessions,
                   reply: {"none", "ok", "error"}]
  /\ told \in SUBSET ListSessions
  /\ left \in [events: Nat, deletes: Nat]

ListInit ==
  /\ listGen = 0 /\ flight = Idle /\ queued = NoQueue /\ held = NoHeld
  /\ embargo = FALSE /\ skeleton = FALSE
  /\ stored = ListSessions /\ allSessions = RowsOf(ListFirst)
  /\ rowScope = ListFirst
  /\ screen = [by |-> "server", rows |-> allSessions]
  /\ pageProfile = ListFirst /\ cookie = ListFirst
  /\ switches = << >>
  /\ removed = {} /\ deletion = NoDelete /\ told = {}
  /\ left = [events |-> ListBudget, deletes |-> ListDeletes]

---------------------------------------------------------------------------
(* Requests: renderSessionList and its queue *)

\* A request leaves with the profile cookie of the moment (jar).
Asked(gen, defer, jar) ==
  [phase |-> "asked", gen |-> gen, defer |-> defer, of |-> jar, rows |-> {}]

\* A request that is not deferred drops the payload held for later.
HeldAfterStart(h, defer) == IF defer = "yes" THEN h ELSE NoHeld

\* Only an explicit FALSE survives a later passive request: an immediate
\* request without options, merged into a deferred one, is deferred.
Merged(prev, next) ==
  IF "no" \in {prev, next} THEN "no" ELSE IF next = "unset" THEN prev ELSE next

RenderSessionList(defer, jar) ==
  /\ listGen' = listGen + 1
  /\ \/ /\ flight.phase = "idle"
        /\ flight' = Asked(listGen', defer, jar)
        /\ held' = HeldAfterStart(held, defer)
        /\ UNCHANGED queued
     \/ /\ flight.phase # "idle"
        /\ queued' = [on |-> TRUE, gen |-> listGen',
                      defer |-> Merged(queued.defer, defer)]
        /\ UNCHANGED <<flight, held>>

\* Mutant: the loop ends with a request still queued.
DrainNext_forgetsQueue(h) ==
  /\ flight' = Idle /\ held' = h /\ UNCHANGED <<queued, removed>>
  /\ deletion' = IF deletion.phase = "refreshing" THEN NoDelete ELSE deletion

\* The loop takes the queued request or ends; h is what is held by now.  The
\* delete whose refresh this was forgets its row when the loop ends.
DrainNext(h) ==
  \/ /\ queued.on
     /\ flight' = Asked(queued.gen, queued.defer, cookie)
     /\ held' = HeldAfterStart(h, queued.defer)
     /\ queued' = NoQueue
     /\ UNCHANGED <<removed, deletion>>
  \/ /\ ~queued.on
     /\ flight' = Idle /\ held' = h
     /\ UNCHANGED queued
     /\ IF deletion.phase = "refreshing"
          THEN /\ removed' = removed \ deletion.sid
               /\ deletion' = NoDelete
          ELSE UNCHANGED <<removed, deletion>>

\* renderSessionListFromCache bails while the skeleton is up.
RenderFromCache(up, by, rows) ==
  screen' = IF up THEN screen ELSE [by |-> by, rows |-> rows]

ApplySessionListPayload(of, rows) ==
  /\ allSessions' = rows \ removed
  /\ rowScope' = of
  /\ skeleton' = FALSE
  /\ RenderFromCache(FALSE, "server", rows \ removed)

---------------------------------------------------------------------------
(* Refreshes *)

\* A caller outside this model: a poll or an event (deferred), an action of
\* the user (no options), Retry or a filter (never deferred).
Refresh ==
  /\ left.events > 0
  /\ left' = [left EXCEPT !.events = @ - 1]
  /\ \E d \in Defer : RenderSessionList(d, cookie)
  /\ UNCHANGED <<rowVars, switchVars, deleteVars>>

\* GET /api/sessions is served, or fails after its retries.
Serve ==
  /\ flight.phase = "asked"
  /\ \/ flight' = [flight EXCEPT !.phase = "answered", !.rows = RowsOf(flight.of)]
     \/ flight' = [flight EXCEPT !.phase = "failed"]
  /\ UNCHANGED <<listGen, queued, held, rowVars, switchVars, deleteVars, left>>

\* Mutant: the embargo of a switch is not asked about.
Droppable_noEmbargo == flight.gen # listGen

Droppable == flight.gen # listGen \/ embargo

\* The answer reaches _runRenderSessionListRefresh.
TakeAnswer ==
  /\ flight.phase = "answered"
  /\ \/ /\ Droppable
        /\ DrainNext(held)
        /\ UNCHANGED rowVars
     \/ /\ ~Droppable /\ flight.defer = "yes"
        /\ DrainNext([on |-> TRUE, gen |-> flight.gen, of |-> flight.of,
                      rows |-> flight.rows])
        /\ UNCHANGED rowVars
     \/ /\ ~Droppable
        /\ DrainNext(held)
        /\ ApplySessionListPayload(flight.of, flight.rows)
  /\ UNCHANGED <<listGen, switchVars, told, stored, left>>

\* Mutant: a failed refresh leaves the skeleton up.
TakeFailure_keepsSkeleton ==
  /\ flight.phase = "failed" /\ DrainNext(held)
  /\ UNCHANGED <<listGen, rowVars, switchVars, told, stored, left>>

\* The request failed: rows of another profile are not repainted.
TakeFailure ==
  /\ flight.phase = "failed"
  /\ DrainNext(held)
  /\ IF Droppable THEN UNCHANGED rowVars
     ELSE /\ skeleton' = FALSE
          /\ rowScope' = pageProfile
          /\ allSessions' = IF rowScope = pageProfile THEN allSessions ELSE {}
          /\ RenderFromCache(FALSE, "error", allSessions')
  /\ UNCHANGED <<listGen, switchVars, told, stored, left>>

\* The user left the list alone: the timer applies what was held.
ApplyHeld ==
  /\ held.on
  /\ held' = NoHeld
  /\ IF held.gen # listGen THEN UNCHANGED rowVars
     ELSE ApplySessionListPayload(held.of, held.rows)
  /\ UNCHANGED <<listGen, flight, queued, switchVars, deleteVars, left>>

---------------------------------------------------------------------------
(* Profile switches *)

Ended(k)    == switches[k].phase \in {"over", "broken"}
Running(k)  == switches[k].phase \in {"posting", "updating", "creating"}
\* _switchGen === _profileSwitchGeneration: only switchToProfile counts.
Current(k)  == \A j \in k + 1 .. Len(switches) : switches[j].kind # "chat"
MayAct(k)   == switches[k].kind = "load" \/ Current(k)
Become(k, phase) == switches' = [switches EXCEPT ![k].phase = phase]

InvalidateSessionListRenders ==
  /\ listGen' = listGen + 1
  /\ held' = NoHeld /\ queued' = NoQueue
  /\ UNCHANGED flight

StartSwitch(kind, p) ==
  /\ left.events > 0 /\ p # pageProfile
  /\ left' = [left EXCEPT !.events = @ - 1]
  /\ LET calm == \A k \in DOMAIN switches : Ended(k) IN
     switches' = Append([k \in DOMAIN switches |->
                           [switches[k] EXCEPT !.alone = @ /\ Ended(k)]],
                        [kind |-> kind, to |-> p, phase |-> "posting",
                         alone |-> calm])
  /\ InvalidateSessionListRenders
  /\ embargo' = TRUE
  /\ skeleton' = TRUE /\ screen' = [by |-> "skeleton", rows |-> {}]
  /\ UNCHANGED <<allSessions, rowScope, pageProfile, cookie, deleteVars>>

\* The embargo is lifted right before the switch asks for its own list.
SwitchOwnedRender(jar) ==
  /\ embargo' = FALSE
  /\ RenderSessionList("unset", jar)

\* POST /api/profile/switch answered: the answer itself sets the cookie.  A
\* conversation that has turns is replaced, an empty one is updated in place.
SwitchAccepted(k) ==
  /\ switches[k].phase = "posting"
  /\ cookie' = switches[k].to
  /\ \/ /\ ~MayAct(k)
        /\ Become(k, "over")
        /\ UNCHANGED <<requestVars, embargo, pageProfile>>
     \/ /\ MayAct(k)
        /\ pageProfile' = switches[k].to
        /\ \/ /\ SwitchOwnedRender(switches[k].to)
              /\ Become(k, IF switches[k].kind = "load" THEN "over" ELSE "listing")
           \/ /\ switches[k].kind = "chat"
              /\ \E next \in {"updating", "creating"} : Become(k, next)
              /\ UNCHANGED <<requestVars, embargo>>
  /\ UNCHANGED <<rowVars, deleteVars, left>>

\* The workspace of the empty conversation is saved (a failure is swallowed);
\* whether this switch is still the newest is not asked again.
UpdateDone(k) ==
  /\ switches[k].phase = "updating"
  /\ Become(k, "listing")
  /\ SwitchOwnedRender(cookie)
  /\ UNCHANGED <<rowVars, pageProfile, cookie, deleteVars, left>>

\* newSession made the replacement.
CreateDone(k) ==
  /\ switches[k].phase = "creating"
  /\ \/ /\ Current(k)
        /\ Become(k, "listing")
        /\ SwitchOwnedRender(cookie)
     \/ /\ ~Current(k)
        /\ Become(k, "over")
        /\ UNCHANGED <<requestVars, embargo>>
  /\ UNCHANGED <<rowVars, pageProfile, cookie, deleteVars, left>>

\* The POST, or newSession after it, failed: put the cached rows back.  In the
\* second case ("broken") the page is already on the new profile.
SwitchFailed(k) ==
  /\ switches[k].phase \in {"posting", "creating"}
  /\ Become(k, IF switches[k].phase = "posting" THEN "over" ELSE "broken")
  /\ IF MayAct(k)
       THEN /\ embargo' = FALSE /\ skeleton' = FALSE
            /\ RenderFromCache(FALSE, "cache", allSessions)
       ELSE UNCHANGED <<embargo, skeleton, screen>>
  /\ UNCHANGED <<requestVars, allSessions, rowScope, pageProfile, cookie,
                 deleteVars, left>>

\* The list was awaited: the finally block lifts the embargo once more.
SwitchFinally(k) ==
  /\ switches[k].phase = "listing" /\ flight.phase = "idle"
  /\ Become(k, "over")
  /\ embargo' = (embargo /\ ~Current(k))
  /\ UNCHANGED <<requestVars, rowVars, pageProfile, cookie, deleteVars, left>>

---------------------------------------------------------------------------
(* deleteSession: the row goes when its animation ends *)

StartDelete(s) ==
  /\ deletion.phase = "idle" /\ left.events > 0 /\ left.deletes > 0
  /\ s \in screen.rows
  /\ left' = [events |-> left.events - 1, deletes |-> left.deletes - 1]
  /\ deletion' = [phase |-> "holding", sid |-> {s}, before |-> allSessions,
                  reply |-> "none"]
  /\ UNCHANGED <<requestVars, rowVars, switchVars, removed, told, stored>>

\* An error may come after the server has deleted the session.
ServeDelete ==
  /\ deletion.phase \in {"holding", "waiting"} /\ deletion.reply = "none"
  /\ \/ /\ deletion' = [deletion EXCEPT !.reply = "ok"]
        /\ stored' = stored \ deletion.sid
     \/ /\ deletion' = [deletion EXCEPT !.reply = "error"]
        /\ stored' \in {stored, stored \ deletion.sid}
  /\ UNCHANGED <<requestVars, rowVars, switchVars, removed, told, left>>

RemoveRow ==
  /\ deletion.phase = "holding"
  /\ deletion' = [deletion EXCEPT !.phase = "waiting"]
  /\ removed' = removed \cup deletion.sid
  /\ allSessions' = allSessions \ deletion.sid
  /\ IF allSessions' = allSessions THEN UNCHANGED screen
     ELSE RenderFromCache(skeleton, "cache", allSessions')
  /\ UNCHANGED <<requestVars, rowScope, skeleton, switchVars, told, stored, left>>

\* Mutant: the row is forgotten without asking for a newer list.
DeleteConfirmed_noRefresh ==
  /\ deletion.phase = "waiting" /\ deletion.reply = "ok"
  /\ deletion' = NoDelete /\ removed' = removed \ deletion.sid
  /\ told' = told \cup deletion.sid
  /\ UNCHANGED <<requestVars, rowVars, switchVars, stored, left>>

DeleteConfirmed ==
  /\ deletion.phase = "waiting" /\ deletion.reply = "ok"
  /\ deletion' = [deletion EXCEPT !.phase = "refreshing"]
  /\ told' = told \cup deletion.sid
  /\ RenderSessionList("unset", cookie)
  /\ UNCHANGED <<rowVars, switchVars, removed, stored, left>>

\* The rows of the moment the delete started come back, whatever was loaded
\* since.
DeleteRolledBack ==
  /\ deletion.phase = "waiting" /\ deletion.reply = "error"
  /\ deletion' = NoDelete
  /\ removed' = removed \ deletion.sid
  /\ allSessions' = deletion.before
  /\ RenderFromCache(skeleton, "cache", deletion.before)
  /\ UNCHANGED <<requestVars, rowScope, skeleton, switchVars, told, stored, left>>

---------------------------------------------------------------------------
SwitchStep(k) == \/ SwitchAccepted(k) \/ UpdateDone(k) \/ CreateDone(k)
                 \/ SwitchFailed(k) \/ SwitchFinally(k)

\* What the network, the timers and the promises do by themselves.
ListProgress ==
  \/ Serve \/ TakeAnswer \/ TakeFailure \/ ApplyHeld
  \/ \E k \in DOMAIN switches : SwitchStep(k)
  \/ ServeDelete \/ RemoveRow \/ DeleteConfirmed \/ DeleteRolledBack

ListNext ==
  \/ Refresh
  \/ \E kind \in ListKinds, p \in ListProfiles : StartSwitch(kind, p)
  \/ \E s \in ListSessions : StartDelete(s)
  \/ ListProgress

\* Every request is answered or fails, and timers and promises run: the
\* browser's event loop does not drop them.
ListSpec == ListInit /\ [][ListNext]_listVars /\ WF_listVars(ListProgress)

---------------------------------------------------------------------------
(* Properties *)

\* Two switches ran at once, or one failed after its POST had succeeded.
Disturbed == \E k \in DOMAIN switches :
               ~switches[k].alone \/ switches[k].phase = "broken"

\* A list painted from an answer of the server shows sessions of the profile
\* the page says is active, and so does the list painted when a refresh failed
\* (static/sessions.js 5657-5664, 5686-5707), in a run whose switches do not
\* overlap and succeed or fail as a whole.  A delete rolled back across a
\* switch puts rows of the old profile in the cache, so the second half speaks
\* of runs without deletes.
FetchedRowsAreActive ==
  ~Disturbed =>
    /\ screen.by = "server" => \A s \in screen.rows : ListOwner[s] = pageProfile
    /\ screen.by = "error" /\ left.deletes = ListDeletes =>
         \A s \in screen.rows : ListOwner[s] = pageProfile

\* A conversation whose delete was confirmed is never shown again, whichever
\* refresh was under way, held or queued (sessions.js 9130-9197).
NoResurrection == told \cap screen.rows = {}

\* The embargo is only up while a switch is running (panels.js 8138-8145: it
\* cannot freeze the sidebar).
EmbargoOwned == embargo => \E k \in DOMAIN switches : Running(k)

\* Whenever the skeleton is shown somebody still owes the list a repaint: a
\* running switch, or a refresh whose answer will not be dropped
\* (panels.js 7821-7832: the skeleton must never strand).
SkeletonOwed ==
  skeleton =>
    \/ \E k \in DOMAIN switches : Running(k)
    \/ flight.phase # "idle" /\ flight.gen = listGen
    \/ queued.on
    \/ held.on /\ held.gen = listGen

\* The skeleton goes: the list comes back after every switch, however
\* switches, refreshes and failures interleave.
SkeletonGoes == []<>~skeleton

\* As panels.js 7821 puts it, the skeleton is never clobbered by the old
\* profile's content: what is painted over it belongs to the active profile.
SkeletonNotClobbered ==
  screen.by # "skeleton" => \A s \in screen.rows : ListOwner[s] = pageProfile

\* As panels.js 7835-7836 puts it, a slower earlier switch cannot clobber the
\* skeleton or the embargo of a newer one.
NewestSwitchKeepsSkeleton ==
  \A k \in DOMAIN switches :
    switches[k].kind = "chat" /\ switches[k].phase = "posting" /\ Current(k) =>
      embargo /\ skeleton
=============================================================================
