---------------------------- MODULE SessionStore ----------------------------
(***************************************************************************)
(* The sessions table of webui.db and the handlers that change it.  Only   *)
(* AppendMessageWithRev and TruncateMessages hold a transaction over their *)
(* read and their write (the DSN asks for BEGIN IMMEDIATE, so the write    *)
(* lock is taken before the read).  Every other handler reads in one       *)
(* statement and writes in a later one, or writes blindly: undo and retry, *)
(* import_cli, cleanup, pin.  A request is therefore up to three steps of  *)
(* its goroutine, and any statement of another request may come between.   *)
(*                                                                         *)
(* The agent's own state.db (cli) is outside: it grows by itself, holds    *)
(* what the agent wrote of a turn, and is read by import_cli and at boot.  *)
(***************************************************************************)
EXTENDS Naturals, FiniteSets, SequencesExt

CONSTANTS Sessions,  \* session ids
          Clients,   \* goroutines serving a request
          Nobody,
          PinLimit,  \* maxPinnedSessions (3 in the code)
          MaxMsgs,   \* bound: messages written during a behaviour
          MaxRev,    \* bound: revisions of a session
          Ops        \* the requests a run lets the clients make

ASSUME StoreAssumption ==
    /\ Nobody \notin Clients
    /\ PinLimit \in Nat \ {0}
    /\ MaxMsgs \in Nat
    /\ MaxRev \in Nat

VARIABLES row,     \* the sessions table
          lock,    \* the connection that holds SQLite's write lock
          req,     \* what each request goroutine is in the middle of
          minted,  \* messages written so far: each message has its own number
          cli      \* the agent's transcript of each session

vars == <<row, lock, req, minted, cli>>

Message == [role : {"user", "assistant"}, n : 1 .. MaxMsgs]
MaxLen == MaxMsgs + 1  \* bound: one message may be sent twice
Transcript == BoundedSeq(Message, MaxLen)

(***************************************************************************)
(* "new", "cleaned" and "deleted" are all the absence of a row; they       *)
(* differ for the properties only.  blob is the storage class of messages: *)
(* undo and retry bind a []byte, everybody else a string.                  *)
(***************************************************************************)
NoRow(why) == [st |-> why, msgs |-> <<>>, rev |-> 0, pinned |-> FALSE,
               titled |-> FALSE, blob |-> FALSE]
Live(s) == row[s].st = "live"
LiveRows == {s \in Sessions : Live(s)}
Pinned == {s \in LiveRows : row[s].pinned}

Idle == [op |-> "idle"]
Busy(op, s, data) == [op |-> op, sid |-> s, data |-> data]
At(c, op) == req[c].op = op
CanWrite == lock = Nobody

Free(c, op) == op \in Ops /\ At(c, "idle")

(* UPDATE sessions SET ... WHERE session_id = s: no row, no effect. *)
Update(s, r) == row' = IF Live(s) THEN [row EXCEPT ![s] = r] ELSE row

LastUser(msgs) == SelectLastInSeq(msgs, LAMBDA m : m.role = "user")

Init ==
    /\ row = [s \in Sessions |-> NoRow("new")]
    /\ lock = Nobody
    /\ req = [c \in Clients |-> Idle]
    /\ minted = 0
    /\ cli = [s \in Sessions |-> <<>>]

-----------------------------------------------------------------------------
(* POST /api/session/new: ids are fresh random strings. *)
Create(c, s) ==
    /\ Free(c, "create")
    /\ CanWrite
    /\ row[s].st = "new"
    /\ \E titled \in BOOLEAN : row' = [row EXCEPT ![s] = [NoRow("live") EXCEPT !.titled = titled]]
    /\ UNCHANGED <<lock, req, minted, cli>>

(* POST /api/session/rename. *)
Rename(c, s) ==
    /\ Free(c, "rename")
    /\ CanWrite
    /\ Update(s, [row[s] EXCEPT !.titled = TRUE])
    /\ UNCHANGED <<lock, req, minted, cli>>

(* POST /api/session/delete. *)
Delete(c, s) ==
    /\ Free(c, "delete")
    /\ CanWrite
    /\ Update(s, NoRow("deleted"))
    /\ UNCHANGED <<lock, req, minted, cli>>

(* TxBegin with a deferred BEGIN: the write lock is not taken. *)
TxBegin_deferred(c, op, s) ==
    /\ CanWrite
    /\ Live(s)
    /\ req' = [req EXCEPT ![c] = Busy(op, s, row[s].msgs)]
    /\ UNCHANGED <<row, lock, minted, cli>>

-----------------------------------------------------------------------------
(* BEGIN IMMEDIATE takes the write lock, then the messages are read. *)
TxBegin(c, op, s) ==
    /\ CanWrite
    /\ Live(s)
    /\ lock' = c
    /\ req' = [req EXCEPT ![c] = Busy(op, s, row[s].msgs)]
    /\ UNCHANGED <<row, minted, cli>>

AppendBegin(c, s) == Free(c, "append") /\ TxBegin(c, "append", s)
TruncateBegin(c, s) == Free(c, "truncate") /\ TxBegin(c, "truncate", s)

(* The write and COMMIT of a transaction: messages, and rev one higher. *)
Commit(c, msgs) ==
    LET s == req[c].sid IN
    /\ row[s].rev < MaxRev
    /\ Update(s, [row[s] EXCEPT !.msgs = msgs, !.rev = @ + 1, !.blob = FALSE])
    /\ lock' = Nobody
    /\ req' = [req EXCEPT ![c] = Idle]
    /\ UNCHANGED cli

AppendCommit(c) ==
    /\ At(c, "append")
    /\ minted < MaxMsgs
    /\ Len(req[c].data) < MaxLen
    /\ minted' = minted + 1
    /\ \E role \in {"user", "assistant"} :
          Commit(c, Append(req[c].data, [role |-> role, n |-> minted + 1]))

TruncateCommit(c) ==
    /\ At(c, "truncate")
    /\ \E keep \in 0 .. MaxMsgs :
          Commit(c, IF keep < Len(req[c].data) THEN SubSeq(req[c].data, 1, keep)
                                               ELSE req[c].data)
    /\ UNCHANGED minted

(* Fail without the deferred Rollback. *)
Fail_keepsLock(c) ==
    /\ ~At(c, "idle")
    /\ req' = [req EXCEPT ![c] = Idle]
    /\ UNCHANGED <<row, lock, minted, cli>>

(* A statement fails: the handler answers 500, and the deferred Rollback of *)
(* a transaction gives the lock back.                                       *)
Fail(c) ==
    /\ ~At(c, "idle")
    /\ lock' = IF lock = c THEN Nobody ELSE lock
    /\ req' = [req EXCEPT ![c] = Idle]
    /\ UNCHANGED <<row, minted, cli>>

(* POST /api/session/clear: one UPDATE. *)
Clear(c, s) ==
    /\ Free(c, "clear")
    /\ CanWrite
    /\ row[s].rev < MaxRev
    /\ Update(s, [row[s] EXCEPT !.msgs = <<>>, !.rev = @ + 1, !.titled = FALSE, !.blob = FALSE])
    /\ UNCHANGED <<lock, req, minted, cli>>

-----------------------------------------------------------------------------
(* POST /api/session/undo and /retry: read, then write what is left of it. *)
CutRead(c, s, op) ==
    /\ Free(c, op)
    /\ op \in {"undo", "retry"}
    /\ Live(s)
    /\ LET idx == LastUser(row[s].msgs) IN
          /\ idx > 0
          /\ req' = [req EXCEPT ![c] =
                Busy(op, s, SubSeq(row[s].msgs, 1, IF op = "retry" THEN idx ELSE idx - 1))]
    /\ UNCHANGED <<row, lock, minted, cli>>

CutWrite(c) ==
    /\ req[c].op \in {"undo", "retry"}
    /\ CanWrite
    /\ LET s == req[c].sid
           kept == req[c].data IN
          /\ Update(s, [row[s] EXCEPT !.msgs = kept, !.blob = TRUE])
          /\ req' = [req EXCEPT ![c] = IF At(c, "retry") /\ "resend" \in Ops
                                          THEN Busy("resend", s, Last(kept)) ELSE Idle]
    /\ UNCHANGED <<lock, minted, cli>>

(* The browser's /retry then sends last_user_text again (AppendMessage). *)
Resend(c) ==
    /\ At(c, "resend")
    /\ CanWrite
    /\ LET s == req[c].sid IN
          /\ row[s].rev < MaxRev
          /\ Len(row[s].msgs) < MaxLen
          /\ Update(s, [row[s] EXCEPT !.msgs = Append(@, req[c].data),
                                      !.rev = @ + 1, !.blob = FALSE])
    /\ req' = [req EXCEPT ![c] = Idle]
    /\ UNCHANGED <<lock, minted, cli>>

-----------------------------------------------------------------------------
(* The agent records a message of its own, or one the web UI also holds. *)
AgentWrites(s) ==
    /\ "import" \in Ops \/ "boot" \in Ops
    /\ Len(cli[s]) < MaxLen
    /\ LET k == Len(cli[s]) + 1 IN
       \/ /\ k \in DOMAIN row[s].msgs
          /\ cli' = [cli EXCEPT ![s] = Append(@, row[s].msgs[k])]
          /\ UNCHANGED minted
       \/ /\ "import" \in Ops
          /\ minted < MaxMsgs
          /\ minted' = minted + 1
          /\ cli' = [cli EXCEPT ![s] = Append(@, [role |-> "user", n |-> minted + 1])]
    /\ UNCHANGED <<row, lock, req>>

(* POST /api/session/import_cli: the agent's transcript is read first ... *)
ImportFetch(c, s) ==
    /\ Free(c, "import")
    /\ cli[s] # <<>>
    /\ req' = [req EXCEPT ![c] = Busy("import.check", s, cli[s])]
    /\ UNCHANGED <<row, lock, minted, cli>>

(* ImportCheck without the prefix test. *)
ImportCheck_anyLonger(c) ==
    /\ At(c, "import.check")
    /\ LET s == req[c].sid
           fresh == req[c].data IN
          req' = [req EXCEPT ![c] =
                    IF ~Live(s) THEN Busy("import.insert", s, fresh)
                    ELSE IF Len(fresh) > Len(row[s].msgs) THEN Busy("import.update", s, fresh)
                    ELSE Idle]
    /\ UNCHANGED <<row, lock, minted, cli>>

(* ... then the row, which it may replace only if it extends it ... *)
ImportCheck(c) ==
    /\ At(c, "import.check")
    /\ LET s == req[c].sid
           fresh == req[c].data
           grows == Len(fresh) > Len(row[s].msgs) /\ IsPrefix(row[s].msgs, fresh) IN
          req' = [req EXCEPT ![c] = IF ~Live(s) THEN Busy("import.insert", s, fresh)
                                    ELSE IF grows THEN Busy("import.update", s, fresh)
                                    ELSE Idle]
    /\ UNCHANGED <<row, lock, minted, cli>>

(* ... and the write: an UPDATE, or an INSERT that fails if the row is there. *)
ImportWrite(c) ==
    /\ req[c].op \in {"import.update", "import.insert"}
    /\ CanWrite
    /\ LET s == req[c].sid
           fresh == req[c].data IN
       IF At(c, "import.update")
         THEN Update(s, [row[s] EXCEPT !.msgs = fresh, !.blob = FALSE])
         ELSE row' = IF Live(s) THEN row
                     ELSE [row EXCEPT ![s] = [NoRow("live") EXCEPT !.msgs = fresh,
                                                                   !.titled = TRUE]]
    /\ req' = [req EXCEPT ![c] = Idle]
    /\ UNCHANGED <<lock, minted, cli>>

(* CleanupSelect whose Untitled variant forgets the message condition. *)
CleanupSelect_untitled(c) ==
    /\ Free(c, "cleanup")
    /\ \E zeroOnly \in BOOLEAN :
          LET ids == {s \in LiveRows :
                        IF zeroOnly THEN row[s].msgs = <<>> /\ ~row[s].blob
                                    ELSE ~row[s].titled} IN
          /\ ids # {}
          /\ req' = [req EXCEPT ![c] = Busy("cleanup", Nobody, ids)]
    /\ UNCHANGED <<row, lock, minted, cli>>

-----------------------------------------------------------------------------
(* CleanupSessions: the ids of the rows whose messages column is '[]' ... *)
CleanupSelect(c) ==
    /\ Free(c, "cleanup")
    /\ \E zeroOnly \in BOOLEAN :
          LET ids == {s \in LiveRows : /\ row[s].msgs = <<>>
                                       /\ ~row[s].blob
                                       /\ zeroOnly \/ ~row[s].titled} IN
          /\ ids # {}
          /\ req' = [req EXCEPT ![c] = Busy("cleanup", Nobody, ids)]
    /\ UNCHANGED <<row, lock, minted, cli>>

(* ... and in a second statement, whatever these ids hold by then, the DELETE. *)
CleanupDelete(c) ==
    /\ At(c, "cleanup")
    /\ CanWrite
    /\ row' = [s \in Sessions |-> IF s \in req[c].data /\ Live(s) THEN NoRow("cleaned") ELSE row[s]]
    /\ req' = [req EXCEPT ![c] = Idle]
    /\ UNCHANGED <<lock, minted, cli>>

(* PinCheck with > for >= in the handler's comparison. *)
PinCheck_offByOne(c, s) ==
    /\ Free(c, "pin")
    /\ Live(s)
    /\ Cardinality(Pinned) <= PinLimit
    /\ req' = [req EXCEPT ![c] = Busy("pin", s, TRUE)]
    /\ UNCHANGED <<row, lock, minted, cli>>

(* POST /api/session/pin: count the pinned rows, then set the flag. *)
PinCheck(c, s) ==
    /\ Free(c, "pin")
    /\ Live(s)
    /\ Cardinality(Pinned) < PinLimit
    /\ req' = [req EXCEPT ![c] = Busy("pin", s, TRUE)]
    /\ UNCHANGED <<row, lock, minted, cli>>

PinSet(c) ==
    /\ At(c, "pin")
    /\ CanWrite
    /\ LET s == req[c].sid IN Update(s, [row[s] EXCEPT !.pinned = TRUE])
    /\ req' = [req EXCEPT ![c] = Idle]
    /\ UNCHANGED <<lock, minted, cli>>

Unpin(c, s) ==
    /\ Free(c, "pin")
    /\ CanWrite
    /\ Update(s, [row[s] EXCEPT !.pinned = FALSE])
    /\ UNCHANGED <<lock, req, minted, cli>>

(* POST /api/session/update sets any column it is given. *)
UpdatePinned(c, s) ==
    /\ Free(c, "update")
    /\ CanWrite
    /\ \E pinned \in BOOLEAN : Update(s, [row[s] EXCEPT !.pinned = pinned])
    /\ UNCHANGED <<lock, req, minted, cli>>

(* Boot that replaces the row, its revision with it. *)
Boot_replacesRow ==
    /\ "boot" \in Ops
    /\ row' = [s \in Sessions |->
                 IF cli[s] = <<>> THEN row[s]
                 ELSE [NoRow("live") EXCEPT !.msgs = cli[s], !.titled = TRUE]]
    /\ lock' = Nobody
    /\ req' = [c \in Clients |-> Idle]
    /\ UNCHANGED <<minted, cli>>

(* The process stops and starts again: requests and transactions are gone, *)
(* and every session of state.db is imported over its row.                 *)
Boot ==
    /\ "boot" \in Ops
    /\ row' = [s \in Sessions |->
                 IF cli[s] = <<>> THEN row[s]
                 ELSE [(IF Live(s) THEN row[s] ELSE NoRow("live")) EXCEPT
                         !.msgs = cli[s], !.pinned = FALSE, !.titled = TRUE, !.blob = FALSE]]
    /\ lock' = Nobody
    /\ req' = [c \in Clients |-> Idle]
    /\ UNCHANGED <<minted, cli>>

-----------------------------------------------------------------------------
Next ==
    \/ \E c \in Clients, s \in Sessions :
          \/ Create(c, s) \/ Rename(c, s) \/ Delete(c, s) \/ Clear(c, s)
          \/ AppendBegin(c, s) \/ TruncateBegin(c, s)
          \/ CutRead(c, s, "undo") \/ CutRead(c, s, "retry")
          \/ ImportFetch(c, s)
          \/ PinCheck(c, s) \/ Unpin(c, s) \/ UpdatePinned(c, s)
    \/ \E c \in Clients :
          \/ AppendCommit(c) \/ TruncateCommit(c) \/ Fail(c)
          \/ CutWrite(c) \/ Resend(c)
          \/ ImportCheck(c) \/ ImportWrite(c)
          \/ CleanupSelect(c) \/ CleanupDelete(c)
          \/ PinSet(c)
    \/ \E s \in Sessions : AgentWrites(s)
    \/ Boot

Spec == Init /\ [][Next]_vars

-----------------------------------------------------------------------------
(* Types.  Code: the columns of the sessions table (store.go:145-167). *)
TypeOK ==
    /\ \A s \in Sessions :
          /\ row[s].st \in {"new", "live", "cleaned", "deleted"}
          /\ row[s].msgs \in Transcript
          /\ row[s].rev \in 0 .. MaxRev
          /\ row[s].pinned \in BOOLEAN /\ row[s].titled \in BOOLEAN /\ row[s].blob \in BOOLEAN
          /\ ~Live(s) => row[s] = NoRow(row[s].st)
          /\ cli[s] \in Transcript
    /\ lock \in Clients \cup {Nobody}
    /\ \A c \in Clients : lock = c <=> req[c].op \in {"append", "truncate"}
    /\ minted \in 0 .. MaxMsgs

(* Storing a message never costs another one: whatever the other requests  *)
(* did since the append began, it writes the row's transcript as it stands *)
(* plus one message.  Code: AppendMessageWithRev, whose comment            *)
(* (store.go:555-557) promises that concurrent turns cannot overwrite each *)
(* other's messages.                                                       *)
AppendOnlyAdds ==
    [][\A c \in Clients : AppendCommit(c) =>
          \A s \in Sessions : Live(s) => IsPrefix(row[s].msgs, row'[s].msgs)]_vars

(* A transcript that stays in the table is only ever extended or cut: no   *)
(* step swaps a part of the conversation for another one.  Code: every     *)
(* UPDATE of sessions.messages.                                            *)
ExtendsOrCuts ==
    [][\A s \in Sessions : Live(s) /\ row'[s].st = "live" =>
          \/ IsPrefix(row[s].msgs, row'[s].msgs)
          \/ IsPrefix(row'[s].msgs, row[s].msgs)]_row

(* As long as a row exists its revision never falls, even over a restart:  *)
(* a browser that keeps the highest revision it saw (revGuard.ts) would    *)
(* otherwise refuse every later snapshot.  Code: ImportSession leaves rev  *)
(* out of its ON CONFLICT list.                                            *)
RevNeverFalls ==
    [][\A s \in Sessions : Live(s) /\ row'[s].st = "live" => row'[s].rev >= row[s].rev]_row

(* At most PinLimit sessions are pinned.  Code: /api/session/pin refuses   *)
(* the next one (session_family.go:117-126).                               *)
PinsWithinLimit == Cardinality(Pinned) <= PinLimit

(* Cleanup removes empty sessions and no other.  Code: cleanupSessions     *)
(* (data.go:671) and CleanupSessions (store.go:454-491).                   *)
CleanupTakesOnlyEmpty ==
    [][\A c \in Clients : CleanupDelete(c) =>
          \A s \in Sessions : row'[s].st = "cleaned" /\ Live(s) => row[s].msgs = <<>>]_vars

(* Undo and retry only take messages away.  Code: handleSessionTruncate    *)
(* (session_mutations.go:91-126).                                          *)
UndoOnlyRemoves ==
    [][\A c \in Clients : CutWrite(c) =>
          \A s \in Sessions : Live(s) => IsPrefix(row'[s].msgs, row[s].msgs)]_vars

(* What cleanup removed stays removed over a restart.  Code: cleanupSessions *)
(* unlinks the session file for that purpose (data.go:677-681).            *)
CleanedStaysGone ==
    [][\A s \in Sessions : row[s].st = "cleaned" => row'[s].st # "live"]_row
=============================================================================
