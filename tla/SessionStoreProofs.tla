-------------------------- MODULE SessionStoreProofs --------------------------
(***************************************************************************)
(* Theorems about SessionStore for any sessions, clients, requests and     *)
(* bounds: the types, that an append loses nothing, and that revisions     *)
(* never fall.  Then, when requests come one at a time: what cleanup takes, *)
(* what becomes of a transcript, and how many sessions are pinned.         *)
(***************************************************************************)
EXTENDS SessionStore, FiniteSetTheorems, WellFoundedInduction, TLAPS

LEMMA MaxIsThere ==
  ASSUME NEW n \in Nat, NEW S \in SUBSET (0..n), S # {}
  PROVE  Max(S) \in S
<1> DEFINE T == {k \in Nat : k <= n /\ n - k \in S}
<1>1. T \subseteq Nat /\ T # {}
  <2>1. PICK x \in S : TRUE
    OBVIOUS
  <2>2. n - x \in T
    BY <2>1
  <2> QED
    BY <2>2
<1>2. PICK m \in T : \A y \in T : ~(<<y, m>> \in OpToRel(<, Nat))
  BY <1>1, NatLessThanWellFounded, WFMin, Zenon
<1>3. \A y \in T : ~(y < m)
  BY <1>1, <1>2 DEF OpToRel
<1>4. n - m \in S /\ \A y \in S : n - m >= y
  <2>1. n - m \in S
    OBVIOUS
  <2>2. ASSUME NEW y \in S PROVE n - m >= y
    <3>1. n - y \in T
      BY <2>2
    <3> QED
      BY <1>3, <3>1
  <2> QED
    BY <2>1, <2>2
<1> QED
  BY <1>4 DEF Max

-----------------------------------------------------------------------------
(* Transcripts *)

Fit == {m \in Seq(Message) : Len(m) <= MaxLen}

LEMMA FitIsTranscript == Fit \subseteq Transcript
<1>1. MaxLen \in Nat
  BY StoreAssumption DEF MaxLen
<1>2. ASSUME NEW m \in Fit PROVE m \in Transcript
  <2>1. Len(m) \in 0..MaxLen /\ m \in [1..Len(m) -> Message]
    BY <1>1, <1>2 DEF Fit
  <2> QED
    BY <2>1 DEF Transcript, BoundedSeq, SeqOf
<1> QED
  BY <1>2

LEMMA EmptyFits == <<>> \in Fit
<1>1. MaxLen \in Nat
  BY StoreAssumption DEF MaxLen
<1>2. <<>> \in Seq(Message) /\ Len(<<>>) = 0
  BY ONLY TRUE
<1>3. Len(<<>>) <= MaxLen
  BY <1>1, <1>2
<1> QED
  BY <1>2, <1>3 DEF Fit

LEMMA CutFits ==
  ASSUME NEW m \in Fit, NEW k \in 0..Len(m)
  PROVE  SubSeq(m, 1, k) \in Fit /\ Len(SubSeq(m, 1, k)) = k
<1>1. m \in Seq(Message) /\ Len(m) <= MaxLen /\ Len(m) \in Nat /\ MaxLen \in Nat
  BY StoreAssumption DEF Fit, MaxLen
<1>2. SubSeq(m, 1, k) \in Seq(Message) /\ Len(SubSeq(m, 1, k)) = k
  BY <1>1
<1> QED
  BY <1>1, <1>2 DEF Fit

LEMMA AddFits ==
  ASSUME NEW m \in Fit, NEW x \in Message, Len(m) < MaxLen
  PROVE  Append(m, x) \in Fit /\ IsPrefix(m, Append(m, x))
<1>1. m \in Seq(Message) /\ Len(m) \in Nat /\ MaxLen \in Nat
  BY StoreAssumption DEF Fit, MaxLen
<1>2. /\ Append(m, x) \in Seq(Message) /\ Len(Append(m, x)) = Len(m) + 1
      /\ \A k \in 1..Len(m) : Append(m, x)[k] = m[k]
  BY <1>1
<1>3. SubSeq(m, 1, Len(m)) = SubSeq(Append(m, x), 1, Len(m))
  BY <1>1, <1>2
<1> QED
  BY <1>1, <1>2, <1>3 DEF Fit, IsPrefix

LEMMA PrefixOfItself ==
  ASSUME NEW m \in Fit PROVE IsPrefix(m, m)
BY DEF IsPrefix, Fit

(* The index of the last question is one of the transcript's, or zero. *)
LEMMA LastUserIndex ==
  ASSUME NEW m \in Fit PROVE LastUser(m) \in 0..Len(m)
<1> DEFINE I == {i \in 1..Len(m) : m[i].role = "user"}
<1>1. LastUser(m) = IF I # {} THEN Max(I) ELSE 0
  BY DEF LastUser, SelectLastInSeq
<1>2. Len(m) \in Nat
  BY DEF Fit
<1>3. ASSUME I # {} PROVE Max(I) \in 1..Len(m)
  <2>1. I \in SUBSET (0..Len(m))
    BY <1>2
  <2>2. Max(I) \in I
    BY <1>2, <1>3, <2>1, MaxIsThere
  <2> QED
    BY <2>2
<1> QED
  BY <1>1, <1>2, <1>3

LEMMA LastFits ==
  ASSUME NEW m \in Fit, m # <<>> PROVE Last(m) \in Message
<1>1. m \in Seq(Message) /\ Len(m) \in 1..Len(m)
  BY DEF Fit
<1> QED
  BY <1>1 DEF Last

-----------------------------------------------------------------------------
(* Types *)

Row == [st : {"new", "live", "cleaned", "deleted"}, msgs : Fit, rev : 0..MaxRev,
        pinned : BOOLEAN, titled : BOOLEAN, blob : BOOLEAN]

Tx == {"append", "truncate"}
Cut == {"undo", "retry"}
Import == {"import.check", "import.insert", "import.update"}

(* What a goroutine can be in the middle of. *)
InRequest(r) ==
  \/ r = Idle
  \/ \E op \in Tx \cup Cut \cup Import, s \in Sessions, m \in Fit :
       r = Busy(op, s, m) /\ (op = "retry" => m # <<>>)
  \/ \E s \in Sessions, x \in Message : r = Busy("resend", s, x)
  \/ \E ids \in SUBSET Sessions : r = Busy("cleanup", Nobody, ids)
  \/ \E s \in Sessions : r = Busy("pin", s, TRUE)

Types ==
  /\ row \in [Sessions -> Row] /\ cli \in [Sessions -> Fit]
  /\ \A s \in Sessions : ~Live(s) => row[s] = NoRow(row[s].st)
  /\ req = [c \in Clients |-> req[c]] /\ \A c \in Clients : InRequest(req[c])
  /\ lock \in Clients \cup {Nobody} /\ minted \in 0..MaxMsgs

(* The write lock is held by the transaction in progress, and what that     *)
(* transaction has read is what the row still holds.                        *)
LockInv ==
  \A c \in Clients :
    /\ lock = c <=> req[c].op \in Tx
    /\ req[c].op \in Tx => Live(req[c].sid) /\ req[c].data = row[req[c].sid].msgs

LEMMA NoRowIsRow ==
  ASSUME NEW why \in {"new", "live", "cleaned", "deleted"}
  PROVE  NoRow(why) \in Row /\ NoRow(why).st = why
<1>1. <<>> \in Fit /\ 0 \in 0..MaxRev
  BY EmptyFits, StoreAssumption
<1> QED
  BY <1>1 DEF NoRow, Row

LEMMA RequestFacts ==
  ASSUME Types, NEW c \in Clients
  PROVE  /\ req[c].op \in Tx \cup Cut \cup Import =>
              req[c].sid \in Sessions /\ req[c].data \in Fit
         /\ req[c].op = "retry" => req[c].data # <<>>
         /\ req[c].op = "resend" => req[c].sid \in Sessions /\ req[c].data \in Message
         /\ req[c].op = "cleanup" => req[c].data \in SUBSET Sessions
         /\ req[c].op = "pin" => req[c].sid \in Sessions
<1>1. InRequest(req[c])
  BY DEF Types
<1>2. CASE req[c] = Idle
  BY <1>2 DEF Idle, Tx, Cut, Import
<1>3. ASSUME NEW op \in Tx \cup Cut \cup Import, NEW s \in Sessions, NEW m \in Fit,
             req[c] = Busy(op, s, m), op = "retry" => m # <<>>
      PROVE  /\ req[c].sid \in Sessions /\ req[c].data \in Fit /\ req[c].op = op
             /\ op = "retry" => req[c].data # <<>>
             /\ op \notin {"resend", "cleanup", "pin"}
  BY <1>3 DEF Busy, Tx, Cut, Import
<1>4. ASSUME NEW s \in Sessions, NEW x \in Message, req[c] = Busy("resend", s, x)
      PROVE  req[c].op = "resend" /\ req[c].sid \in Sessions /\ req[c].data \in Message
  BY <1>4 DEF Busy
<1>5. ASSUME NEW ids \in SUBSET Sessions, req[c] = Busy("cleanup", Nobody, ids)
      PROVE  req[c].op = "cleanup" /\ req[c].data \in SUBSET Sessions
  BY <1>5 DEF Busy
<1>6. ASSUME NEW s \in Sessions, req[c] = Busy("pin", s, TRUE)
      PROVE  req[c].op = "pin" /\ req[c].sid \in Sessions
  BY <1>6 DEF Busy
<1> QED
  BY <1>1, <1>2, <1>3, <1>4, <1>5, <1>6 DEF InRequest, Tx, Cut, Import

-----------------------------------------------------------------------------
(* What a step does to the table *)

(* One row is written, by a statement that holds the lock or by the commit  *)
(* of the transaction that does.                                            *)
Written(s, r) ==
  /\ row' = [row EXCEPT ![s] = r]
  /\ r.st = "live" \/ r = NoRow(r.st)
  /\ Live(s) /\ r.st = "live" => r.rev >= row[s].rev
  /\ \/ lock = Nobody
     \/ lock \in Clients /\ req'[lock] = Idle /\ lock' = Nobody

RowKept == row' \in [Sessions -> Row]

LEMMA UpdateWrites ==
  ASSUME Types, NEW s \in Sessions, NEW r, Live(s) => r \in Row, Update(s, r),
         r.st = "live" \/ r = NoRow(r.st), r.st = "live" => r.rev >= row[s].rev,
         \/ lock = Nobody
         \/ lock \in Clients /\ req'[lock] = Idle /\ lock' = Nobody
  PROVE  UNCHANGED row \/ \E q \in Row : Written(s, q)
<1>1. CASE Live(s)
  BY <1>1 DEF Update, Written
<1>2. CASE ~Live(s)
  BY <1>2 DEF Update
<1> QED
  BY <1>1, <1>2

LEMMA LiveRow ==
  ASSUME Types, NEW s \in Sessions, Live(s)
  PROVE  /\ row[s] \in Row /\ row[s].st = "live" /\ row[s].rev \in 0..MaxRev
         /\ row[s].msgs \in Fit
BY DEF Types, Row, Live

(* The rows that the handlers write. *)
LEMMA RowValues ==
  ASSUME NEW r \in Row, r.st = "live", NEW m \in Fit, NEW b \in BOOLEAN,
         r.rev < MaxRev
  PROVE  /\ [r EXCEPT !.msgs = m, !.rev = @ + 1, !.blob = FALSE] \in Row
         /\ [r EXCEPT !.msgs = m, !.rev = @ + 1, !.titled = FALSE, !.blob = FALSE] \in Row
         /\ [r EXCEPT !.msgs = m, !.rev = @ + 1, !.blob = FALSE].st = "live"
         /\ [r EXCEPT !.msgs = m, !.rev = @ + 1, !.titled = FALSE, !.blob = FALSE].st = "live"
         /\ [r EXCEPT !.msgs = m, !.rev = @ + 1, !.blob = FALSE].rev >= r.rev
         /\ [r EXCEPT !.msgs = m, !.rev = @ + 1, !.titled = FALSE, !.blob = FALSE].rev >= r.rev
<1>1. r.rev \in Nat /\ r.rev + 1 \in 0..MaxRev /\ r.rev + 1 >= r.rev
  BY StoreAssumption DEF Row
<1> QED
  BY <1>1 DEF Row

LEMMA RowKeepsRev ==
  ASSUME NEW r \in Row, r.st = "live", NEW m \in Fit, NEW b \in BOOLEAN
  PROVE  \A q \in {[r EXCEPT !.msgs = m, !.blob = b], [r EXCEPT !.pinned = b],
                   [r EXCEPT !.titled = TRUE]} :
           q \in Row /\ q.st = "live" /\ q.rev >= r.rev
<1>1. r.rev \in Nat /\ r.rev >= r.rev
  BY StoreAssumption DEF Row
<1>2. /\ [r EXCEPT !.msgs = m, !.blob = b] \in Row /\ [r EXCEPT !.pinned = b] \in Row
      /\ [r EXCEPT !.titled = TRUE] \in Row
  BY DEF Row
<1>3. \A q \in {[r EXCEPT !.msgs = m, !.blob = b], [r EXCEPT !.pinned = b],
                [r EXCEPT !.titled = TRUE]} : q.st = "live" /\ q.rev = r.rev
  BY DEF Row
<1> QED
  BY <1>1, <1>2, <1>3

LEMMA AppendWrites ==
  ASSUME Types, LockInv, NEW c \in Clients, AppendCommit(c) \/ TruncateCommit(c)
  PROVE  UNCHANGED row \/ \E s \in Sessions, r \in Row : Written(s, r)
<1> DEFINE s == req[c].sid
<1>1. req[c].op \in Tx /\ s \in Sessions /\ req[c].data \in Fit
  BY RequestFacts DEF AppendCommit, TruncateCommit, At, Tx
<1>2. lock = c /\ Live(s) /\ req[c].data = row[s].msgs
  BY <1>1 DEF LockInv
<1>3. PICK m \in Fit : Commit(c, m)
  <2>1. CASE AppendCommit(c)
    <3>1. PICK role \in {"user", "assistant"} :
            Commit(c, Append(req[c].data, [role |-> role, n |-> minted + 1]))
      BY <2>1 DEF AppendCommit
    <3>2. [role |-> role, n |-> minted + 1] \in Message
      <4>1. minted + 1 \in 1..MaxMsgs
        BY <2>1, StoreAssumption DEF AppendCommit, Types
      <4> QED
        BY <4>1 DEF Message
    <3>3. Append(req[c].data, [role |-> role, n |-> minted + 1]) \in Fit
      BY <1>1, <2>1, <3>2, AddFits DEF AppendCommit
    <3> QED
      BY <3>1, <3>3
  <2>2. CASE TruncateCommit(c)
    <3>1. PICK keep \in 0..MaxMsgs :
            Commit(c, IF keep < Len(req[c].data) THEN SubSeq(req[c].data, 1, keep)
                                                 ELSE req[c].data)
      BY <2>2 DEF TruncateCommit
    <3>2. keep < Len(req[c].data) => keep \in 0..Len(req[c].data)
      BY <1>1, <3>1, StoreAssumption DEF Fit
    <3> QED
      BY <1>1, <3>1, <3>2, CutFits
  <2> QED
    BY <2>1, <2>2
<1>4. row[s] \in Row /\ row[s].st = "live" /\ row[s].rev < MaxRev
  BY <1>1, <1>2, <1>3, LiveRow DEF Commit
<1> DEFINE r == [row[s] EXCEPT !.msgs = m, !.rev = @ + 1, !.blob = FALSE]
<1>5. r \in Row /\ r.st = "live" /\ r.rev >= row[s].rev
  BY <1>4, RowValues
<1>6. Update(s, r) /\ lock' = Nobody /\ req' = [req EXCEPT ![c] = Idle]
  BY <1>3 DEF Commit
<1>7. req'[lock] = Idle
  BY <1>2, <1>6 DEF Types
<1> HIDE DEF r
<1> QED
  BY <1>1, <1>2, <1>5, <1>6, <1>7, UpdateWrites

LEMMA MessagesWrite ==
  ASSUME Types, NEW c \in Clients, NEW s \in Sessions,
         Clear(c, s) \/ CutWrite(c) \/ Resend(c)
  PROVE  UNCHANGED row \/ \E t \in Sessions, r \in Row : Written(t, r)
<1> DEFINE t == req[c].sid
<1>1. lock = Nobody
  BY DEF Clear, CutWrite, Resend, CanWrite
<1>2. CASE Clear(c, s)
  <2> DEFINE r == [row[s] EXCEPT !.msgs = <<>>, !.rev = @ + 1, !.titled = FALSE, !.blob = FALSE]
  <2>1. Live(s) => r \in Row /\ r.st = "live" /\ r.rev >= row[s].rev
    BY <1>2, LiveRow, RowValues, EmptyFits DEF Clear
  <2>2. Update(s, r)
    BY <1>2 DEF Clear
  <2>3. CASE ~Live(s)
    BY <2>2, <2>3 DEF Update
  <2> HIDE DEF r
  <2>4. CASE Live(s)
    BY <1>1, <2>1, <2>2, <2>4, UpdateWrites
  <2> QED
    BY <2>3, <2>4
<1>3. CASE CutWrite(c)
  <2> DEFINE r == [row[t] EXCEPT !.msgs = req[c].data, !.blob = TRUE]
  <2>1. t \in Sessions /\ req[c].data \in Fit
    BY <1>3, RequestFacts DEF CutWrite, Cut
  <2>2. Live(t) => r \in Row /\ r.st = "live" /\ r.rev >= row[t].rev
    <3>1. ASSUME Live(t)
          PROVE  row[t] \in Row /\ row[t].st = "live" /\ row[t].rev \in Nat
      BY <2>1, <3>1, LiveRow, StoreAssumption
    <3> QED
      BY <2>1, <3>1, RowKeepsRev
  <2>3. Update(t, r)
    BY <1>3 DEF CutWrite
  <2>4. CASE ~Live(t)
    BY <2>3, <2>4 DEF Update
  <2> HIDE DEF r
  <2>5. CASE Live(t)
    BY <1>1, <2>1, <2>2, <2>3, <2>5, UpdateWrites
  <2> QED
    BY <2>4, <2>5
<1>4. CASE Resend(c)
  <2> DEFINE r == [row[t] EXCEPT !.msgs = Append(@, req[c].data), !.rev = @ + 1, !.blob = FALSE]
  <2>1. t \in Sessions /\ req[c].data \in Message
    BY <1>4, RequestFacts DEF Resend, At
  <2>2. ASSUME Live(t)
        PROVE  r \in Row /\ r.st = "live" /\ r.rev >= row[t].rev
    <3>1. row[t] \in Row /\ row[t].st = "live" /\ row[t].rev < MaxRev
      BY <1>4, <2>1, <2>2, LiveRow DEF Resend
    <3>2. Append(row[t].msgs, req[c].data) \in Fit
      BY <1>4, <2>1, <2>2, LiveRow, AddFits DEF Resend
    <3>3. r = [row[t] EXCEPT !.msgs = Append(row[t].msgs, req[c].data),
                             !.rev = @ + 1, !.blob = FALSE]
      BY <3>1 DEF Row
    <3> QED
      BY <3>1, <3>2, <3>3, RowValues
  <2>3. Update(t, r)
    BY <1>4 DEF Resend
  <2>4. CASE ~Live(t)
    BY <2>3, <2>4 DEF Update
  <2> HIDE DEF r
  <2>5. CASE Live(t)
    BY <1>1, <2>1, <2>2, <2>3, <2>5, UpdateWrites
  <2> QED
    BY <2>4, <2>5
<1> QED
  BY <1>2, <1>3, <1>4

LEMMA FlagsWrite ==
  ASSUME Types, NEW c \in Clients, NEW s \in Sessions,
         Rename(c, s) \/ Delete(c, s) \/ PinSet(c) \/ Unpin(c, s) \/ UpdatePinned(c, s)
  PROVE  UNCHANGED row \/ \E t \in Sessions, r \in Row : Written(t, r)
<1>1. lock = Nobody
  BY DEF Rename, Delete, PinSet, Unpin, UpdatePinned, CanWrite
<1>2. ASSUME NEW t \in Sessions, NEW r, Update(t, r),
             \/ r = NoRow("deleted")
             \/ \E b \in BOOLEAN : r = [row[t] EXCEPT !.pinned = b]
             \/ r = [row[t] EXCEPT !.titled = TRUE]
      PROVE  UNCHANGED row \/ \E q \in Row : Written(t, q)
  <2>1. CASE ~Live(t)
    BY <1>2, <2>1 DEF Update
  <2>2. CASE Live(t)
    <3>1. row[t] \in Row /\ row[t].st = "live" /\ row[t].rev \in Nat
      BY <2>2, LiveRow, StoreAssumption
    <3>2. r \in Row /\ (r.st = "live" \/ r = NoRow(r.st))
          /\ (r.st = "live" => r.rev >= row[t].rev)
      <4>1. CASE r = NoRow("deleted")
        BY <4>1, NoRowIsRow
      <4>2. CASE \/ \E b \in BOOLEAN : r = [row[t] EXCEPT !.pinned = b]
                 \/ r = [row[t] EXCEPT !.titled = TRUE]
        BY <3>1, <4>2, EmptyFits, RowKeepsRev
      <4> QED
        BY <1>2, <4>1, <4>2
    <3> QED
      BY <1>1, <1>2, <3>2, UpdateWrites
  <2> QED
    BY <2>1, <2>2
<1>3. PinSet(c) => req[c].sid \in Sessions
  BY RequestFacts DEF PinSet, At
<1> QED
  BY <1>2, <1>3 DEF Rename, Delete, PinSet, Unpin, UpdatePinned

LEMMA NewRowWrites ==
  ASSUME Types, NEW c \in Clients, NEW s \in Sessions, Create(c, s) \/ ImportWrite(c)
  PROVE  UNCHANGED row \/ \E t \in Sessions, r \in Row : Written(t, r)
<1>1. lock = Nobody
  BY DEF Create, ImportWrite, CanWrite
<1>2. NoRow("live") \in Row /\ NoRow("live").st = "live"
  BY NoRowIsRow
<1>3. CASE Create(c, s)
  <2>1. PICK b \in BOOLEAN : row' = [row EXCEPT ![s] = [NoRow("live") EXCEPT !.titled = b]]
    BY <1>3 DEF Create
  <2> DEFINE r == [NoRow("live") EXCEPT !.titled = b]
  <2>2. r \in Row /\ r.st = "live"
    BY <1>2 DEF Row
  <2>3. ~Live(s)
    BY <1>3 DEF Create, Live
  <2> QED
    BY <1>1, <2>1, <2>2, <2>3 DEF Written
<1>4. CASE ImportWrite(c)
  <2> DEFINE t == req[c].sid
  <2>1. t \in Sessions /\ req[c].data \in Fit
    BY <1>4, RequestFacts DEF ImportWrite, Import
  <2>2. CASE ~Live(t)
    <3> DEFINE r == [NoRow("live") EXCEPT !.msgs = req[c].data, !.titled = TRUE]
    <3>1. r \in Row /\ r.st = "live"
      BY <1>2, <2>1 DEF Row
    <3>2. UNCHANGED row \/ row' = [row EXCEPT ![t] = r]
      BY <1>4, <2>2 DEF ImportWrite, Update
    <3> QED
      BY <1>1, <2>1, <2>2, <3>1, <3>2 DEF Written
  <2>3. CASE Live(t)
    <3> DEFINE r == [row[t] EXCEPT !.msgs = req[c].data, !.blob = FALSE]
    <3>1. row[t] \in Row /\ row[t].st = "live" /\ row[t].rev \in Nat
      BY <2>1, <2>3, LiveRow, StoreAssumption
    <3>2. r \in Row /\ r.st = "live" /\ r.rev >= row[t].rev
      BY <2>1, <3>1, RowKeepsRev
    <3>3. UNCHANGED row \/ row' = [row EXCEPT ![t] = r]
      BY <1>4, <2>3 DEF ImportWrite, Update
    <3> QED
      BY <1>1, <2>1, <2>3, <3>2, <3>3 DEF Written
  <2> QED
    BY <2>2, <2>3
<1> QED
  BY <1>3, <1>4

LEMMA RowStep ==
  ASSUME Types, LockInv, [Next]_vars
  PROVE  \/ UNCHANGED row
         \/ \E s \in Sessions, r \in Row : Written(s, r)
         \/ \E c \in Clients : CleanupDelete(c)
         \/ Boot
<1>1. ASSUME NEW c \in Clients, NEW s \in Sessions,
             \/ AppendBegin(c, s) \/ TruncateBegin(c, s) \/ CutRead(c, s, "undo")
             \/ CutRead(c, s, "retry") \/ ImportFetch(c, s) \/ PinCheck(c, s)
             \/ Fail(c) \/ ImportCheck(c) \/ CleanupSelect(c) \/ AgentWrites(s)
      PROVE  UNCHANGED row
  BY <1>1 DEF AppendBegin, TruncateBegin, TxBegin, CutRead, ImportFetch, PinCheck, Fail,
     ImportCheck, CleanupSelect, AgentWrites
<1>2. ASSUME NEW c \in Clients, Fail(c) \/ ImportCheck(c) \/ CleanupSelect(c)
      PROVE  UNCHANGED row
  BY <1>2 DEF Fail, ImportCheck, CleanupSelect
<1>3. ASSUME NEW s \in Sessions, AgentWrites(s) PROVE UNCHANGED row
  BY <1>3 DEF AgentWrites
<1>4. ASSUME NEW c \in Clients, PinSet(c)
      PROVE  UNCHANGED row \/ \E t \in Sessions, r \in Row : Written(t, r)
  <2>1. PICK s \in Sessions : TRUE
    BY <1>4, RequestFacts DEF PinSet, At
  <2> QED
    BY <1>4, FlagsWrite
<1>5. ASSUME NEW c \in Clients, CutWrite(c) \/ Resend(c) \/ ImportWrite(c)
      PROVE  UNCHANGED row \/ \E t \in Sessions, r \in Row : Written(t, r)
  <2>1. PICK s \in Sessions : TRUE
    BY <1>5, RequestFacts DEF CutWrite, Resend, ImportWrite, At, Cut, Import
  <2> QED
    BY <1>5, MessagesWrite, NewRowWrites
<1>6. UNCHANGED vars => UNCHANGED row
  BY DEF vars
<1> QED
  BY <1>1, <1>2, <1>3, <1>4, <1>5, <1>6, AppendWrites, MessagesWrite, FlagsWrite,
     NewRowWrites DEF Next

(* What a restart makes of a row whose session the agent knows. *)
Imported(r, m) ==
  [r EXCEPT !.msgs = m, !.pinned = FALSE, !.titled = TRUE, !.blob = FALSE]

LEMMA RowGood ==
  ASSUME Types, LockInv, [Next]_vars
  PROVE  /\ row' \in [Sessions -> Row]
         /\ \A s \in Sessions : row'[s].st # "live" => row'[s] = NoRow(row'[s].st)
         /\ \A s \in Sessions :
              Live(s) /\ row'[s].st = "live" => row'[s].rev >= row[s].rev
<1>1. /\ row \in [Sessions -> Row]
      /\ \A s \in Sessions : row[s].st # "live" => row[s] = NoRow(row[s].st)
      /\ \A s \in Sessions : row[s].rev >= row[s].rev
      /\ \A s \in Sessions : cli[s] \in Fit
  BY StoreAssumption DEF Types, Live, Row
<1>2. CASE UNCHANGED row
  BY <1>1, <1>2
<1>3. ASSUME NEW s \in Sessions, NEW r \in Row, Written(s, r)
      PROVE  /\ row' \in [Sessions -> Row]
             /\ \A t \in Sessions : row'[t].st # "live" => row'[t] = NoRow(row'[t].st)
             /\ \A t \in Sessions :
                  Live(t) /\ row'[t].st = "live" => row'[t].rev >= row[t].rev
  BY <1>1, <1>3 DEF Written
<1>4. ASSUME NEW c \in Clients, CleanupDelete(c)
      PROVE  /\ row' \in [Sessions -> Row]
             /\ \A t \in Sessions : row'[t].st # "live" => row'[t] = NoRow(row'[t].st)
             /\ \A t \in Sessions :
                  Live(t) /\ row'[t].st = "live" => row'[t].rev >= row[t].rev
  <2>1. NoRow("cleaned") \in Row /\ NoRow("cleaned").st = "cleaned"
    BY NoRowIsRow
  <2>2. row' = [s \in Sessions |-> IF s \in req[c].data /\ Live(s)
                                     THEN NoRow("cleaned") ELSE row[s]]
    BY <1>4 DEF CleanupDelete
  <2> QED
    BY <1>1, <2>1, <2>2
<1>5. ASSUME Boot
      PROVE  /\ row' \in [Sessions -> Row]
             /\ \A t \in Sessions : row'[t].st # "live" => row'[t] = NoRow(row'[t].st)
             /\ \A t \in Sessions :
                  Live(t) /\ row'[t].st = "live" => row'[t].rev >= row[t].rev
  <2>1. ASSUME NEW r \in Row, r.st = "live", NEW m \in Fit
        PROVE  /\ Imported(r, m) \in Row /\ Imported(r, m).st = "live"
               /\ Imported(r, m).rev = r.rev
    BY <2>1 DEF Imported, Row
  <2>2. NoRow("live") \in Row /\ NoRow("live").st = "live"
    BY NoRowIsRow
  <2>3. ASSUME NEW t \in Sessions
        PROVE  \/ row'[t] = row[t]
               \/ row'[t] \in Row /\ row'[t].st = "live" /\ (Live(t) => row'[t].rev = row[t].rev)
    <3>1. row'[t] = IF cli[t] = <<>> THEN row[t]
                    ELSE Imported(IF Live(t) THEN row[t] ELSE NoRow("live"), cli[t])
      BY <1>5 DEF Boot, Imported
    <3>2. row[t] \in Row /\ (Live(t) => row[t].st = "live")
      BY <1>1 DEF Live
    <3>3. CASE Live(t)
      BY <1>1, <2>1, <3>1, <3>2, <3>3
    <3>4. CASE ~Live(t)
      BY <1>1, <2>1, <2>2, <3>1, <3>4
    <3> QED
      BY <3>3, <3>4
  <2>4. row' = [t \in Sessions |-> row'[t]]
    BY <1>5 DEF Boot
  <2> QED
    BY <1>1, <2>3, <2>4
<1> QED
  BY <1>2, <1>3, <1>4, <1>5, RowStep

-----------------------------------------------------------------------------
(* What a step does to the requests and to the lock *)

Turned(c, q) == InRequest(q) /\ req' = [req EXCEPT ![c] = q]
Began(c, q) == /\ lock = Nobody /\ lock' = c /\ q.op \in Tx /\ UNCHANGED row
               /\ Live(q.sid) /\ q.data = row[q.sid].msgs

LEMMA IdleRequest == InRequest(Idle) /\ Idle.op \notin Tx
BY DEF InRequest, Idle, Tx

LEMMA BusyRequest ==
  ASSUME NEW op, NEW s, NEW d
  PROVE  Busy(op, s, d).op = op /\ Busy(op, s, d).sid = s /\ Busy(op, s, d).data = d
BY DEF Busy

(* The steps that neither begin nor end a transaction. *)
LEMMA OtherRequests ==
  ASSUME Types, NEW c \in Clients, NEW s \in Sessions,
         \/ CutRead(c, s, "undo") \/ CutRead(c, s, "retry") \/ ImportFetch(c, s)
         \/ PinCheck(c, s)
  PROVE  \E q : Turned(c, q) /\ q.op \notin Tx /\ req[c].op \notin Tx /\ lock' = lock
<1> USE IdleRequest, BusyRequest
<1>1. ASSUME NEW op \in Cut, CutRead(c, s, op)
      PROVE  \E q : Turned(c, q) /\ q.op \notin Tx /\ req[c].op \notin Tx /\ lock' = lock
  <2> DEFINE idx == LastUser(row[s].msgs)
  <2> DEFINE keep == IF op = "retry" THEN idx ELSE idx - 1
  <2>1. row[s].msgs \in Fit
    BY <1>1, LiveRow DEF CutRead
  <2>2. idx \in 0..Len(row[s].msgs) /\ idx > 0 /\ Len(row[s].msgs) \in Nat
    BY <1>1, <2>1, LastUserIndex DEF CutRead, Fit
  <2>3. keep \in 0..Len(row[s].msgs) /\ (op = "retry" => keep > 0)
    BY <2>2
  <2>4. SubSeq(row[s].msgs, 1, keep) \in Fit /\ Len(SubSeq(row[s].msgs, 1, keep)) = keep
    BY <2>1, <2>3, CutFits
  <2>5. op = "retry" => SubSeq(row[s].msgs, 1, keep) # <<>>
    <3>1. Len(<<>>) = 0
      BY ONLY TRUE
    <3>2. op = "retry" => keep # 0
      BY <2>2, <2>3
    <3> QED
      BY <2>4, <3>1, <3>2, Zenon
  <2> DEFINE q == Busy(op, s, SubSeq(row[s].msgs, 1, keep))
  <2>6. InRequest(q)
    <3> HIDE DEF keep
    <3> QED
      BY <2>4, <2>5 DEF InRequest
  <2>7. req' = [req EXCEPT ![c] = q] /\ lock' = lock /\ req[c].op = "idle"
    BY <1>1 DEF CutRead, Free, At
  <2>8. q.op \notin Tx /\ req[c].op \notin Tx
    BY <2>7 DEF Tx, Cut
  <2> QED
    BY <2>6, <2>7, <2>8 DEF Turned
<1>2. CASE ImportFetch(c, s)
  <2>1. InRequest(Busy("import.check", s, cli[s]))
    <3>1. cli[s] \in Fit /\ "import.check" \in Tx \cup Cut \cup Import
      BY DEF Types, Import
    <3> QED
      BY <3>1 DEF InRequest
  <2>2. req' = [req EXCEPT ![c] = Busy("import.check", s, cli[s])] /\ lock' = lock
    BY <1>2 DEF ImportFetch
  <2>3. req[c].op \notin Tx /\ Busy("import.check", s, cli[s]).op \notin Tx
    BY <1>2 DEF ImportFetch, Free, At, Tx
  <2> QED
    BY <2>1, <2>2, <2>3 DEF Turned
<1>3. CASE PinCheck(c, s)
  <2>1. InRequest(Busy("pin", s, TRUE))
    BY DEF InRequest
  <2> QED
    <3>1. req' = [req EXCEPT ![c] = Busy("pin", s, TRUE)] /\ lock' = lock
      BY <1>3 DEF PinCheck
    <3>2. req[c].op \notin Tx /\ Busy("pin", s, TRUE).op \notin Tx
      BY <1>3 DEF PinCheck, Free, At, Tx, Busy
    <3> QED
      BY <2>1, <3>1, <3>2 DEF Turned
<1> QED
  BY <1>1, <1>2, <1>3 DEF Cut

LEMMA OwnRequests ==
  ASSUME Types, NEW c \in Clients,
         \/ CutWrite(c) \/ Resend(c) \/ ImportCheck(c) \/ ImportWrite(c)
         \/ CleanupSelect(c) \/ CleanupDelete(c) \/ PinSet(c)
  PROVE  \E q : Turned(c, q) /\ q.op \notin Tx /\ req[c].op \notin Tx /\ lock' = lock
<1> USE IdleRequest, BusyRequest
<1>1. CASE CutWrite(c)
  <2>1. /\ req[c].op \in Cut /\ req[c].sid \in Sessions /\ req[c].data \in Fit
        /\ req[c].op = "retry" => req[c].data # <<>>
    BY <1>1, RequestFacts DEF CutWrite, Cut
  <2>2. req[c].op = "retry" => InRequest(Busy("resend", req[c].sid, Last(req[c].data)))
    BY <2>1, LastFits DEF InRequest
  <2>3. lock' = lock /\ req[c].op \notin Tx
    BY <1>1, <2>1 DEF CutWrite, Cut, Tx
  <2>4. \/ req' = [req EXCEPT ![c] = Idle]
        \/ /\ req[c].op = "retry"
           /\ req' = [req EXCEPT ![c] = Busy("resend", req[c].sid, Last(req[c].data))]
    BY <1>1 DEF CutWrite, At
  <2> QED
    BY <2>2, <2>3, <2>4 DEF Turned, Tx
<1>2. CASE Resend(c) \/ ImportWrite(c) \/ CleanupDelete(c) \/ PinSet(c)
  BY <1>2 DEF Resend, ImportWrite, CleanupDelete, PinSet, At, Turned, Tx
<1>3. CASE ImportCheck(c)
  <2>1. req[c].sid \in Sessions /\ req[c].data \in Fit /\ req[c].op = "import.check"
    BY <1>3, RequestFacts DEF ImportCheck, At, Import
  <2>2. /\ InRequest(Busy("import.insert", req[c].sid, req[c].data))
        /\ InRequest(Busy("import.update", req[c].sid, req[c].data))
    BY <2>1 DEF InRequest, Import
  <2>3. \/ req' = [req EXCEPT ![c] = Idle]
        \/ req' = [req EXCEPT ![c] = Busy("import.insert", req[c].sid, req[c].data)]
        \/ req' = [req EXCEPT ![c] = Busy("import.update", req[c].sid, req[c].data)]
    BY <1>3 DEF ImportCheck
  <2>4. lock' = lock
    BY <1>3 DEF ImportCheck
  <2> QED
    BY <2>1, <2>2, <2>3, <2>4 DEF Turned, Tx
<1>4. CASE CleanupSelect(c)
  <2>1. PICK ids : ids \subseteq LiveRows /\ req' = [req EXCEPT ![c] = Busy("cleanup", Nobody, ids)]
    BY <1>4 DEF CleanupSelect
  <2>2. InRequest(Busy("cleanup", Nobody, ids))
    BY <2>1 DEF InRequest, LiveRows
  <2> QED
    <3>1. req[c].op \notin Tx /\ Busy("cleanup", Nobody, ids).op \notin Tx /\ lock' = lock
      BY <1>4 DEF CleanupSelect, Free, At, Tx
    <3> QED
      BY <2>1, <2>2, <3>1 DEF Turned
<1> QED
  BY <1>1, <1>2, <1>3, <1>4

LEMMA TxRequests ==
  ASSUME Types, NEW c \in Clients,
         \/ \E s \in Sessions : AppendBegin(c, s) \/ TruncateBegin(c, s)
         \/ AppendCommit(c) \/ TruncateCommit(c) \/ Fail(c)
  PROVE  \E q : /\ Turned(c, q)
                /\ \/ Began(c, q)
                   \/ q = Idle /\ lock' = IF lock = c THEN Nobody ELSE lock
                   \/ q = Idle /\ req[c].op \in Tx /\ lock' = Nobody
<1> USE IdleRequest, BusyRequest
<1>1. ASSUME NEW s \in Sessions, NEW op \in Tx, TxBegin(c, op, s)
      PROVE  \E q : Turned(c, q) /\ Began(c, q)
  <2> DEFINE q == Busy(op, s, row[s].msgs)
  <2>1. row[s].msgs \in Fit /\ Live(s) /\ op # "retry"
    BY <1>1, LiveRow DEF TxBegin, Tx
  <2>2. InRequest(q)
    BY <2>1 DEF InRequest
  <2>3. Turned(c, q)
    BY <1>1, <2>2 DEF TxBegin, Turned
  <2>4. Began(c, q)
    BY <1>1, <2>1 DEF TxBegin, Began, CanWrite
  <2> QED
    BY <2>3, <2>4
<1>2. CASE \E s \in Sessions : AppendBegin(c, s) \/ TruncateBegin(c, s)
  BY <1>1, <1>2 DEF AppendBegin, TruncateBegin, Tx
<1>3. CASE AppendCommit(c) \/ TruncateCommit(c)
  BY <1>3 DEF AppendCommit, TruncateCommit, Commit, At, Tx, Turned
<1>4. CASE Fail(c)
  BY <1>4 DEF Fail, Turned
<1> QED
  BY <1>2, <1>3, <1>4

LEMMA RequestStep ==
  ASSUME Types, [Next]_vars
  PROVE  \/ UNCHANGED <<req, lock>>
         \/ req' = [c \in Clients |-> Idle] /\ lock' = Nobody
         \/ \E c \in Clients : \E q :
              /\ Turned(c, q)
              /\ \/ q.op \notin Tx /\ req[c].op \notin Tx /\ lock' = lock
                 \/ Began(c, q)
                 \/ q = Idle /\ lock' = IF lock = c THEN Nobody ELSE lock
                 \/ q = Idle /\ req[c].op \in Tx /\ lock' = Nobody
<1>1. ASSUME NEW c \in Clients, NEW s \in Sessions,
             \/ Create(c, s) \/ Rename(c, s) \/ Delete(c, s) \/ Clear(c, s)
             \/ Unpin(c, s) \/ UpdatePinned(c, s)
      PROVE  UNCHANGED <<req, lock>>
  BY <1>1 DEF Create, Rename, Delete, Clear, Unpin, UpdatePinned
<1>2. ASSUME NEW s \in Sessions, AgentWrites(s) PROVE UNCHANGED <<req, lock>>
  BY <1>2 DEF AgentWrites
<1>3. UNCHANGED vars => UNCHANGED <<req, lock>>
  BY DEF vars
<1>4. Boot => req' = [c \in Clients |-> Idle] /\ lock' = Nobody
  BY DEF Boot
<1> QED
  BY <1>1, <1>2, <1>3, <1>4, OtherRequests, OwnRequests, TxRequests DEF Next

-----------------------------------------------------------------------------
(* The invariant *)

LEMMA TypesStep ==
  ASSUME Types, LockInv, [Next]_vars PROVE Types'
<1>1. /\ row' \in [Sessions -> Row]
      /\ \A s \in Sessions : row'[s].st # "live" => row'[s] = NoRow(row'[s].st)
  BY RowGood
<1>2. /\ req' = [c \in Clients |-> req'[c]] /\ \A c \in Clients : InRequest(req'[c])
      /\ lock' \in Clients \cup {Nobody}
  <2>1. /\ req = [c \in Clients |-> req[c]] /\ \A c \in Clients : InRequest(req[c])
        /\ lock \in Clients \cup {Nobody}
    BY DEF Types
  <2>2. CASE UNCHANGED <<req, lock>>
    BY <2>1, <2>2
  <2>3. CASE req' = [c \in Clients |-> Idle] /\ lock' = Nobody
    BY <2>3, IdleRequest
  <2>4. ASSUME NEW c \in Clients, NEW q, Turned(c, q), lock' \in {lock, c, Nobody}
        PROVE  /\ req' = [d \in Clients |-> req'[d]] /\ \A d \in Clients : InRequest(req'[d])
               /\ lock' \in Clients \cup {Nobody}
    BY <2>1, <2>4 DEF Turned
  <2> QED
    BY <2>2, <2>3, <2>4, RequestStep DEF Began
<1>3. cli' \in [Sessions -> Fit] /\ minted' \in 0..MaxMsgs
  <2>1. /\ cli \in [Sessions -> Fit] /\ minted \in 0..MaxMsgs /\ MaxMsgs \in Nat
    BY StoreAssumption DEF Types
  <2>2. ASSUME NEW s \in Sessions, AgentWrites(s)
        PROVE  cli' \in [Sessions -> Fit] /\ minted' \in 0..MaxMsgs
    <3>1. \E x \in Message : cli' = [cli EXCEPT ![s] = Append(@, x)]
      <4>1. CASE \E k \in DOMAIN row[s].msgs : cli' = [cli EXCEPT ![s] = Append(@, row[s].msgs[k])]
        <5>1. row[s].msgs \in Seq(Message)
          BY DEF Types, Row, Fit
        <5>2. \A k \in DOMAIN row[s].msgs : row[s].msgs[k] \in Message
          BY <5>1
        <5> QED
          BY <4>1, <5>2
      <4>2. CASE /\ minted < MaxMsgs
                 /\ cli' = [cli EXCEPT ![s] = Append(@, [role |-> "user", n |-> minted + 1])]
        <5>1. minted + 1 \in 1..MaxMsgs
          BY <2>1, <4>2
        <5>2. [role |-> "user", n |-> minted + 1] \in Message
          BY <5>1 DEF Message
        <5> QED
          BY <4>2, <5>2
      <4> QED
        BY <2>2, <4>1, <4>2 DEF AgentWrites
    <3>2. Len(cli[s]) < MaxLen /\ cli[s] \in Fit
      BY <2>1, <2>2 DEF AgentWrites
    <3>3. minted' = minted \/ (minted < MaxMsgs /\ minted' = minted + 1)
      BY <2>2 DEF AgentWrites
    <3> QED
      BY <2>1, <3>1, <3>2, <3>3, AddFits
  <2>3. ASSUME NEW c \in Clients, AppendCommit(c)
        PROVE  cli' = cli /\ minted < MaxMsgs /\ minted' = minted + 1
    BY <2>3 DEF AppendCommit, Commit
  <2>4. ASSUME NEW c \in Clients, NEW s \in Sessions,
               \/ Create(c, s) \/ Rename(c, s) \/ Delete(c, s) \/ Clear(c, s)
               \/ AppendBegin(c, s) \/ TruncateBegin(c, s)
               \/ CutRead(c, s, "undo") \/ CutRead(c, s, "retry")
               \/ ImportFetch(c, s) \/ PinCheck(c, s) \/ Unpin(c, s) \/ UpdatePinned(c, s)
        PROVE  UNCHANGED <<cli, minted>>
    BY <2>4 DEF Create, Rename, Delete, Clear, AppendBegin, TruncateBegin, TxBegin, CutRead,
       ImportFetch, PinCheck, Unpin, UpdatePinned
  <2>5. ASSUME NEW c \in Clients,
               \/ TruncateCommit(c) \/ Fail(c) \/ CutWrite(c) \/ Resend(c) \/ ImportCheck(c)
               \/ ImportWrite(c) \/ CleanupSelect(c) \/ CleanupDelete(c) \/ PinSet(c)
        PROVE  UNCHANGED <<cli, minted>>
    BY <2>5 DEF TruncateCommit, Commit, Fail, CutWrite, Resend, ImportCheck, ImportWrite,
       CleanupSelect, CleanupDelete, PinSet
  <2>6. Boot \/ UNCHANGED vars => UNCHANGED <<cli, minted>>
    BY DEF Boot, vars
  <2> QED
    BY <2>1, <2>2, <2>3, <2>4, <2>5, <2>6 DEF Next
<1> QED
  BY <1>1, <1>2, <1>3 DEF Types, Live

(* While a transaction is in progress nobody else writes. *)
LEMMA RowHeld ==
  ASSUME Types, LockInv, [Next]_vars, NEW c \in Clients,
         req[c].op \in Tx, req'[c] = req[c]
  PROVE  UNCHANGED row
<1>1. lock = c /\ lock # Nobody
  BY StoreAssumption DEF LockInv
<1>2. req'[c] # Idle
  BY IdleRequest
<1>3. ASSUME NEW s \in Sessions, NEW r \in Row PROVE ~Written(s, r)
  BY <1>1, <1>2 DEF Written
<1>4. ASSUME NEW d \in Clients PROVE ~CleanupDelete(d)
  BY <1>1 DEF CleanupDelete, CanWrite
<1>5. ~Boot
  BY <1>2 DEF Boot
<1> QED
  BY <1>3, <1>4, <1>5, RowStep

LEMMA LockStep ==
  ASSUME Types, LockInv, [Next]_vars PROVE LockInv'
<1>1. SUFFICES ASSUME NEW c \in Clients
      PROVE  /\ lock' = c <=> req'[c].op \in Tx
             /\ req'[c].op \in Tx =>
                  row'[req'[c].sid].st = "live" /\ req'[c].data = row'[req'[c].sid].msgs
  BY DEF LockInv, Live
<1>2. /\ lock = c <=> req[c].op \in Tx
      /\ req[c].op \in Tx => Live(req[c].sid) /\ req[c].data = row[req[c].sid].msgs
      /\ c # Nobody
  BY StoreAssumption DEF LockInv
<1>3. CASE req'[c] = req[c] /\ (lock' = c <=> lock = c)
  BY <1>2, <1>3, RowHeld DEF Live
<1>4. CASE req'[c] = Idle /\ lock' # c
  BY <1>4, IdleRequest
<1>5. ASSUME NEW d \in Clients, NEW q, Turned(d, q),
             \/ q.op \notin Tx /\ req[d].op \notin Tx /\ lock' = lock
             \/ Began(d, q)
             \/ q = Idle /\ lock' = IF lock = d THEN Nobody ELSE lock
             \/ q = Idle /\ req[d].op \in Tx /\ lock' = Nobody
      PROVE  /\ lock' = c <=> req'[c].op \in Tx
             /\ req'[c].op \in Tx =>
                  row'[req'[c].sid].st = "live" /\ req'[c].data = row'[req'[c].sid].msgs
  <2>1. req = [e \in Clients |-> req[e]]
    BY DEF Types
  <2>2. CASE d = c
    <3>1. req'[c] = q
      BY <1>5, <2>1, <2>2 DEF Turned
    <3>2. CASE Began(c, q)
      BY <3>1, <3>2 DEF Began, Live
    <3>3. CASE q.op \notin Tx /\ lock' # c
      BY <3>1, <3>3
    <3> QED
      BY <1>2, <1>5, <2>2, <3>2, <3>3, IdleRequest
  <2>3. CASE d # c
    <3>1. req'[c] = req[c]
      BY <1>5, <2>1, <2>3 DEF Turned
    <3>2. lock' = c <=> lock = c
      <4>1. req[d].op \in Tx => lock = d
        BY DEF LockInv
      <4> QED
        BY <1>2, <1>5, <2>3, <4>1 DEF Began
    <3> QED
      BY <1>3, <3>1, <3>2
  <2> QED
    BY <2>2, <2>3
<1> QED
  BY <1>2, <1>3, <1>4, <1>5, RequestStep

StoreInv == Types /\ LockInv

LEMMA StoreInit ==
  ASSUME Init PROVE StoreInv
<1> USE DEF Init
<1>1. NoRow("new") \in Row /\ NoRow("new").st = "new"
  BY NoRowIsRow
<1>2. 0 \in 0..MaxMsgs
  BY ONLY StoreAssumption
<1>3. Types
  BY <1>1, <1>2, EmptyFits, IdleRequest DEF Types, Live
<1>4. LockInv
  BY IdleRequest, StoreAssumption DEF LockInv
<1> QED
  BY <1>3, <1>4 DEF StoreInv

(* The inductive invariant (store.go:181-640, session_mutations.go:91-126). *)
THEOREM StoreInvariant == Spec => []StoreInv
<1>1. Init => StoreInv
  BY StoreInit
<1>2. StoreInv /\ [Next]_vars => StoreInv'
  BY TypesStep, LockStep DEF StoreInv
<1> QED
  BY <1>1, <1>2, PTL DEF Spec

(* Rows, requests and the lock keep their types, and only a transaction in  *)
(* progress holds the lock (store.go:145-167, 540-600).                     *)
THEOREM StoreTypes == Spec => []TypeOK
<1>1. StoreInv => TypeOK
  BY FitIsTranscript DEF StoreInv, Types, LockInv, TypeOK, Row, Tx
<1> QED
  BY <1>1, StoreInvariant, PTL

(* No append loses a message of another request (store.go:555-557). *)
THEOREM AppendsKeepEverything == Spec => AppendOnlyAdds
<1>1. ASSUME StoreInv, NEW c \in Clients, AppendCommit(c), NEW s \in Sessions, Live(s)
      PROVE  IsPrefix(row[s].msgs, row'[s].msgs)
  <2> DEFINE t == req[c].sid
  <2>1. /\ req[c].op \in Tx /\ t \in Sessions /\ Live(t) /\ req[c].data = row[t].msgs
        /\ row \in [Sessions -> Row] /\ row[s].msgs \in Fit /\ row[t].msgs \in Fit
    BY <1>1, RequestFacts, LiveRow DEF StoreInv, LockInv, AppendCommit, At, Tx, Types
  <2>2. PICK role \in {"user", "assistant"} :
          Commit(c, Append(req[c].data, [role |-> role, n |-> minted + 1]))
    BY <1>1 DEF AppendCommit
  <2> DEFINE x == [role |-> role, n |-> minted + 1]
  <2>3. x \in Message /\ Len(row[t].msgs) < MaxLen
    <3>1. minted + 1 \in 1..MaxMsgs
      BY <1>1, StoreAssumption DEF AppendCommit, StoreInv, Types
    <3> QED
      BY <1>1, <2>1, <3>1 DEF Message, AppendCommit
  <2>4. row' = [row EXCEPT ![t] = [row[t] EXCEPT !.msgs = Append(row[t].msgs, x),
                                                 !.rev = @ + 1, !.blob = FALSE]]
    BY <2>1, <2>2 DEF Commit, Update
  <2>5. row[t] \in Row
    BY <2>1
  <2>6. row'[t].msgs = Append(row[t].msgs, x)
    BY <2>1, <2>4, <2>5 DEF Row
  <2>7. CASE s = t
    BY <2>1, <2>3, <2>6, <2>7, AddFits
  <2>8. CASE s # t
    BY <2>1, <2>4, <2>8, PrefixOfItself
  <2> QED
    BY <2>7, <2>8
<1>2. StoreInv /\ [Next]_vars =>
        [\A c \in Clients : AppendCommit(c) =>
           \A s \in Sessions : Live(s) => IsPrefix(row[s].msgs, row'[s].msgs)]_vars
  BY <1>1
<1> QED
  BY <1>2, StoreInvariant, PTL DEF Spec, AppendOnlyAdds

(* The revision of a row never falls, not even at a restart, whose import    *)
(* leaves rev out of its ON CONFLICT list (store.go:181-203).               *)
THEOREM RevisionsNeverFall == Spec => RevNeverFalls
<1>1. StoreInv /\ [Next]_vars =>
        [\A s \in Sessions : Live(s) /\ row'[s].st = "live" => row'[s].rev >= row[s].rev]_row
  BY RowGood DEF StoreInv
<1> QED
  BY <1>1, StoreInvariant, PTL DEF Spec, RevNeverFalls

-----------------------------------------------------------------------------
(* One request at a time.  Undo, import, cleanup and pin write in a second   *)
(* statement what they made of a first one; with a single goroutine serving  *)
(* requests what was read is still in the table.                            *)

OneAtATime == \A c, d \in Clients : c = d

SerialInv ==
  \A c \in Clients :
    LET r == req[c] IN
    /\ r.op = "cleanup" => \A s \in r.data : Live(s) => row[s].msgs = <<>>
    /\ r.op \in Cut => Live(r.sid) /\ IsPrefix(r.data, row[r.sid].msgs)
    /\ r.op = "import.update" => Live(r.sid) /\ IsPrefix(row[r.sid].msgs, r.data)
    /\ r.op = "import.insert" => ~Live(r.sid)

(* A request that has read and not yet written. *)
Decided == Cut \cup {"cleanup", "import.update", "import.insert", "pin"}

LEMMA CutIsPrefix ==
  ASSUME NEW m \in Fit, NEW k \in 0..Len(m) PROVE IsPrefix(SubSeq(m, 1, k), m)
<1>1. m \in Seq(Message) /\ Len(m) \in Nat /\ k \in Nat /\ k <= Len(m)
  BY DEF Fit
<1>2. Len(SubSeq(m, 1, k)) = k
  BY CutFits
<1>3. SubSeq(SubSeq(m, 1, k), 1, k) = SubSeq(m, 1, k)
  <2>1. /\ SubSeq(m, 1, k) \in Seq(Message)
        /\ \A i \in 1..k : SubSeq(m, 1, k)[i] = m[i]
    BY <1>1
  <2> QED
    BY <1>1, <1>2, <2>1
<1> QED
  BY <1>1, <1>2, <1>3 DEF IsPrefix

LEMMA EmptyIsPrefix ==
  ASSUME NEW m \in Fit PROVE IsPrefix(<<>>, m)
<1>1. <<>> = SubSeq(m, 1, 0) /\ 0 \in 0..Len(m)
  BY DEF Fit
<1> QED
  BY <1>1, CutIsPrefix

(* While a request is between its two statements nothing else writes a row. *)
LEMMA Undisturbed ==
  ASSUME OneAtATime, Types, [Next]_vars, NEW c \in Clients,
         req[c].op \in Decided, req'[c] = req[c]
  PROVE  UNCHANGED row
<1>1. req[c].op # "idle" /\ req[c] # Idle /\ req = [d \in Clients |-> req[d]]
  BY DEF Decided, Cut, Idle, Types
<1>2. ASSUME NEW d \in Clients, NEW s \in Sessions,
             \/ Create(d, s) \/ Rename(d, s) \/ Delete(d, s) \/ Clear(d, s)
             \/ AppendBegin(d, s) \/ TruncateBegin(d, s)
             \/ CutRead(d, s, "undo") \/ CutRead(d, s, "retry")
             \/ ImportFetch(d, s)
             \/ PinCheck(d, s) \/ Unpin(d, s) \/ UpdatePinned(d, s)
      PROVE  FALSE
  <2>1. d = c
    BY DEF OneAtATime
  <2>2. Free(d, "create") \/ Free(d, "rename") \/ Free(d, "delete") \/ Free(d, "clear")
        \/ Free(d, "append") \/ Free(d, "truncate") \/ Free(d, "undo") \/ Free(d, "retry")
        \/ Free(d, "import") \/ Free(d, "pin") \/ Free(d, "update")
    BY <1>2 DEF Create, Rename, Delete, Clear, AppendBegin, TruncateBegin, CutRead, ImportFetch,
       PinCheck, Unpin, UpdatePinned
  <2> QED
    BY <1>1, <2>1, <2>2 DEF Free, At
<1>3. ASSUME NEW d \in Clients,
             \/ AppendCommit(d) \/ TruncateCommit(d) \/ Resend(d)
             \/ ImportWrite(d) \/ CleanupDelete(d) \/ PinSet(d)
      PROVE  FALSE
  <2>1. req' = [req EXCEPT ![d] = Idle]
    BY <1>3 DEF AppendCommit, TruncateCommit, Commit, Resend, ImportWrite, CleanupDelete, PinSet
  <2> QED
    BY <1>1, <2>1 DEF OneAtATime
<1>4. ASSUME NEW d \in Clients, CutWrite(d) PROVE FALSE
  <2>1. d = c
    BY DEF OneAtATime
  <2>2. req'[c] = Idle \/ req'[c] = Busy("resend", req[c].sid, Last(req[c].data))
    BY <1>1, <1>4, <2>1 DEF CutWrite
  <2>3. Busy("resend", req[c].sid, Last(req[c].data)).op \notin Decided
    BY DEF Busy, Decided, Cut
  <2> QED
    BY <1>1, <2>2, <2>3
<1>5. ASSUME NEW d \in Clients, Fail(d) \/ ImportCheck(d) \/ CleanupSelect(d)
      PROVE  UNCHANGED row
  BY <1>5 DEF Fail, ImportCheck, CleanupSelect
<1>6. ASSUME NEW s \in Sessions, AgentWrites(s) PROVE UNCHANGED row
  BY <1>6 DEF AgentWrites
<1>7. ~Boot
  BY <1>1 DEF Boot
<1>8. UNCHANGED vars => UNCHANGED row
  BY DEF vars
<1> QED
  BY <1>2, <1>3, <1>4, <1>5, <1>6, <1>7, <1>8 DEF Next

(* A request becomes decided by reading, and on what it has read. *)
LEMMA Decides ==
  ASSUME Types, [Next]_vars, NEW c \in Clients, req'[c] # req[c]
  PROVE  \/ req'[c].op \notin Decided
         \/ CleanupSelect(c)
         \/ \E s \in Sessions : CutRead(c, s, "undo") \/ CutRead(c, s, "retry") \/ PinCheck(c, s)
         \/ ImportCheck(c)
<1>1. req = [d \in Clients |-> req[d]] /\ Idle.op \notin Decided
  BY DEF Types, Decided, Cut, Idle
<1>2. ASSUME NEW d \in Clients, NEW s \in Sessions,
             \/ Create(d, s) \/ Rename(d, s) \/ Delete(d, s) \/ Clear(d, s)
             \/ Unpin(d, s) \/ UpdatePinned(d, s)
      PROVE  FALSE
  BY <1>2 DEF Create, Rename, Delete, Clear, Unpin, UpdatePinned
<1>3. ASSUME NEW d \in Clients, NEW s \in Sessions,
             AppendBegin(d, s) \/ TruncateBegin(d, s) \/ ImportFetch(d, s)
      PROVE  req'[c].op \notin Decided
  <2>1. PICK q : req' = [req EXCEPT ![d] = q] /\ q.op \in Tx \cup {"import.check"}
    <3>1. ASSUME NEW op \in Tx, TxBegin(d, op, s)
          PROVE  \E q : req' = [req EXCEPT ![d] = q] /\ q.op \in Tx \cup {"import.check"}
      <4>1. req' = [req EXCEPT ![d] = Busy(op, s, row[s].msgs)]
        BY <3>1 DEF TxBegin
      <4>2. Busy(op, s, row[s].msgs).op = op
        BY BusyRequest
      <4> QED
        BY <4>1, <4>2
    <3>2. CASE ImportFetch(d, s)
      <4>1. req' = [req EXCEPT ![d] = Busy("import.check", s, cli[s])]
        BY <3>2 DEF ImportFetch
      <4>2. Busy("import.check", s, cli[s]).op = "import.check"
        BY BusyRequest
      <4> QED
        BY <4>1, <4>2
    <3> QED
      BY <1>3, <3>1, <3>2 DEF AppendBegin, TruncateBegin, Tx
  <2>2. q.op \notin Decided
    BY <2>1 DEF Tx, Decided, Cut
  <2> QED
    BY <1>1, <2>1, <2>2
<1>4. ASSUME NEW d \in Clients, NEW s \in Sessions,
             \/ CutRead(d, s, "undo") \/ CutRead(d, s, "retry") \/ PinCheck(d, s)
      PROVE  d = c
  BY <1>1, <1>4 DEF CutRead, PinCheck
<1>5. ASSUME NEW d \in Clients,
             \/ AppendCommit(d) \/ TruncateCommit(d) \/ Resend(d) \/ Fail(d)
             \/ ImportWrite(d) \/ CleanupDelete(d) \/ PinSet(d)
      PROVE  req'[c].op \notin Decided
  <2>1. req' = [req EXCEPT ![d] = Idle]
    BY <1>5 DEF AppendCommit, TruncateCommit, Commit, Resend, ImportWrite, CleanupDelete, PinSet,
       Fail
  <2> QED
    BY <1>1, <2>1
<1>6. ASSUME NEW d \in Clients, CutWrite(d) PROVE req'[c].op \notin Decided
  <2>1. PICK q : req' = [req EXCEPT ![d] = q] /\ (q = Idle \/ q.op = "resend")
    <3>1. \/ req' = [req EXCEPT ![d] = Idle]
          \/ req' = [req EXCEPT ![d] = Busy("resend", req[d].sid, Last(req[d].data))]
      BY <1>6 DEF CutWrite
    <3>2. Busy("resend", req[d].sid, Last(req[d].data)).op = "resend"
      BY BusyRequest
    <3> QED
      BY <3>1, <3>2
  <2> QED
    BY <1>1, <2>1 DEF Decided, Cut
<1>7. ASSUME NEW d \in Clients, ImportCheck(d) \/ CleanupSelect(d) PROVE d = c
  BY <1>1, <1>7 DEF ImportCheck, CleanupSelect
<1>8. ASSUME NEW s \in Sessions, AgentWrites(s) PROVE FALSE
  BY <1>8 DEF AgentWrites
<1>9. Boot => req'[c].op \notin Decided
  BY <1>1 DEF Boot
<1>10. ~UNCHANGED vars
  BY DEF vars
<1> QED
  BY <1>2, <1>3, <1>4, <1>5, <1>6, <1>7, <1>8, <1>9, <1>10 DEF Next

LEMMA SerialStep ==
  ASSUME OneAtATime, Types, SerialInv, [Next]_vars PROVE SerialInv'
<1>1. SUFFICES ASSUME NEW c \in Clients, req'[c].op \in Decided
      PROVE  /\ req'[c].op = "cleanup" =>
                  \A s \in req'[c].data : row'[s].st = "live" => row'[s].msgs = <<>>
             /\ req'[c].op \in Cut =>
                  /\ row'[req'[c].sid].st = "live"
                  /\ IsPrefix(req'[c].data, row'[req'[c].sid].msgs)
             /\ req'[c].op = "import.update" =>
                  /\ row'[req'[c].sid].st = "live"
                  /\ IsPrefix(row'[req'[c].sid].msgs, req'[c].data)
             /\ req'[c].op = "import.insert" => row'[req'[c].sid].st # "live"
  BY DEF SerialInv, Live, Decided
<1>2. req = [d \in Clients |-> req[d]]
  BY DEF Types
<1>3. CASE req'[c] = req[c]
  <2>1. UNCHANGED row
    BY <1>1, <1>3, Undisturbed
  <2> QED
    BY <1>3, <2>1 DEF SerialInv, Live
<1>4. CASE CleanupSelect(c)
  <2>1. PICK ids : /\ req' = [req EXCEPT ![c] = Busy("cleanup", Nobody, ids)]
                   /\ \A s \in ids : row[s].msgs = <<>>
    BY <1>4 DEF CleanupSelect
  <2>2. req'[c].op = "cleanup" /\ req'[c].data = ids /\ row' = row
    BY <1>2, <1>4, <2>1, BusyRequest DEF CleanupSelect
  <2> QED
    BY <2>1, <2>2 DEF Cut
<1>5. ASSUME NEW s \in Sessions, NEW op \in Cut, CutRead(c, s, op)
      PROVE  /\ req'[c].op \in Cut /\ Live(req'[c].sid) /\ row' = row
             /\ IsPrefix(req'[c].data, row[req'[c].sid].msgs)
  <2> DEFINE idx == LastUser(row[s].msgs)
  <2> DEFINE keep == IF op = "retry" THEN idx ELSE idx - 1
  <2>1. row[s].msgs \in Fit /\ Live(s) /\ row' = row
    BY <1>5, LiveRow DEF CutRead
  <2>2. idx \in 0..Len(row[s].msgs) /\ idx > 0 /\ Len(row[s].msgs) \in Nat
    BY <1>5, <2>1, LastUserIndex DEF CutRead, Fit
  <2>3. keep \in 0..Len(row[s].msgs)
    BY <2>2
  <2>4. IsPrefix(SubSeq(row[s].msgs, 1, keep), row[s].msgs)
    BY <2>1, <2>3, CutIsPrefix
  <2>5. req'[c] = Busy(op, s, SubSeq(row[s].msgs, 1, keep))
    BY <1>2, <1>5 DEF CutRead
  <2> HIDE DEF keep
  <2> QED
    BY <2>1, <2>4, <2>5, BusyRequest
<1>6. ASSUME NEW s \in Sessions, PinCheck(c, s) PROVE req'[c].op = "pin"
  <2>1. req' = [req EXCEPT ![c] = Busy("pin", s, TRUE)]
    BY <1>6 DEF PinCheck
  <2>2. req'[c] = Busy("pin", s, TRUE)
    BY <1>2, <2>1
  <2> QED
    BY <2>2 DEF Busy
<1>7. CASE ImportCheck(c)
  <2> DEFINE s == req[c].sid
  <2>1. row' = row
    BY <1>7 DEF ImportCheck
  <2>2. CASE ~Live(s)
    <3>1. req'[c] = Busy("import.insert", s, req[c].data)
      BY <1>2, <1>7, <2>2 DEF ImportCheck
    <3> QED
      BY <2>1, <2>2, <3>1, BusyRequest DEF Cut, Live
  <2>3. CASE Live(s)
    <3>1. \/ req'[c] = Idle
          \/ /\ req'[c] = Busy("import.update", s, req[c].data)
             /\ IsPrefix(row[s].msgs, req[c].data)
      BY <1>2, <1>7, <2>3 DEF ImportCheck
    <3>2. Idle.op \notin Decided
      BY DEF Idle, Decided, Cut
    <3> QED
      BY <1>1, <2>1, <2>3, <3>1, <3>2, BusyRequest DEF Cut, Live
  <2> QED
    BY <2>2, <2>3
<1>8. CASE \E s \in Sessions : CutRead(c, s, "undo") \/ CutRead(c, s, "retry") \/ PinCheck(c, s)
  BY <1>5, <1>6, <1>8 DEF Cut, Live
<1> QED
  BY <1>1, <1>3, <1>4, <1>7, <1>8, Decides

LEMMA SerialAlways ==
  ASSUME OneAtATime PROVE Spec => [](StoreInv /\ SerialInv)
<1>1. Init => SerialInv
  BY DEF Init, SerialInv, Idle, Cut
<1>2. StoreInv /\ SerialInv /\ [Next]_vars => SerialInv'
  BY SerialStep DEF StoreInv
<1> QED
  BY <1>1, <1>2, StoreInvariant, PTL DEF Spec

(* With one request at a time cleanup removes empty sessions and no other   *)
(* (store.go:454-491).                                                      *)
THEOREM CleanupSparesMessages ==
  ASSUME OneAtATime PROVE Spec => CleanupTakesOnlyEmpty
<1>1. ASSUME StoreInv, SerialInv, NEW c \in Clients, CleanupDelete(c),
             NEW s \in Sessions, row'[s].st = "cleaned", Live(s)
      PROVE  row[s].msgs = <<>>
  <2>1. s \in req[c].data /\ req[c].op = "cleanup"
    BY <1>1 DEF CleanupDelete, At, Live
  <2> QED
    BY <1>1, <2>1 DEF SerialInv
<1>2. StoreInv /\ SerialInv /\ [Next]_vars =>
        [\A c \in Clients : CleanupDelete(c) =>
           \A s \in Sessions : row'[s].st = "cleaned" /\ Live(s) => row[s].msgs = <<>>]_vars
  BY <1>1
<1> QED
  BY <1>2, SerialAlways, PTL DEF Spec, CleanupTakesOnlyEmpty
-----------------------------------------------------------------------------
(* A transcript is extended or cut. *)

Same(m, n) == IsPrefix(m, n) \/ IsPrefix(n, m)

(* The rows that have one and are still there keep it, or it grows or shrinks. *)
Kept ==
  \A s \in Sessions : Live(s) /\ row'[s].st = "live" => Same(row[s].msgs, row'[s].msgs)

LEMMA KeptByUpdate ==
  ASSUME Types, NEW s \in Sessions, NEW r, Update(s, r),
         Live(s) /\ r.st = "live" => Same(row[s].msgs, r.msgs)
  PROVE  Kept
<1>1. row \in [Sessions -> Row]
  BY DEF Types
<1>2. ASSUME NEW t \in Sessions, Live(t), row'[t] = row[t] PROVE Same(row[t].msgs, row'[t].msgs)
  BY <1>2, LiveRow, PrefixOfItself DEF Same
<1>3. row' = row \/ (Live(s) /\ row' = [row EXCEPT ![s] = r])
  BY DEF Update
<1> QED
  BY <1>1, <1>2, <1>3 DEF Kept

LEMMA KeptIfUnchanged ==
  ASSUME Types, UNCHANGED row PROVE Kept
BY LiveRow, PrefixOfItself DEF Kept, Same

LEMMA KeptByTransaction ==
  ASSUME Types, LockInv, NEW c \in Clients, AppendCommit(c) \/ TruncateCommit(c)
  PROVE  Kept
<1> DEFINE s == req[c].sid
<1> DEFINE m == req[c].data
<1>1. /\ req[c].op \in Tx /\ s \in Sessions /\ m \in Fit /\ Live(s) /\ m = row[s].msgs
      /\ row[s] \in Row
  BY RequestFacts, LiveRow DEF AppendCommit, TruncateCommit, At, Tx, LockInv
<1>2. PICK n : Commit(c, n) /\ Same(m, n)
  <2>1. CASE AppendCommit(c)
    <3>1. PICK role \in {"user", "assistant"} :
            Commit(c, Append(m, [role |-> role, n |-> minted + 1]))
      BY <2>1 DEF AppendCommit
    <3> DEFINE x == [role |-> role, n |-> minted + 1]
    <3>2. x \in Message
      <4>1. minted + 1 \in 1..MaxMsgs
        BY <2>1, StoreAssumption DEF AppendCommit, Types
      <4> QED
        BY <4>1 DEF Message
    <3>3. IsPrefix(m, Append(m, x))
      BY <1>1, <2>1, <3>2, AddFits DEF AppendCommit
    <3> QED
      BY <3>1, <3>3 DEF Same
  <2>2. CASE TruncateCommit(c)
    <3>1. PICK keep \in 0..MaxMsgs :
            Commit(c, IF keep < Len(m) THEN SubSeq(m, 1, keep) ELSE m)
      BY <2>2 DEF TruncateCommit
    <3>2. keep < Len(m) => keep \in 0..Len(m)
      BY <1>1, <3>1, StoreAssumption DEF Fit
    <3>3. keep < Len(m) => IsPrefix(SubSeq(m, 1, keep), m)
      BY <1>1, <3>2, CutIsPrefix
    <3>4. IsPrefix(m, m)
      BY <1>1, PrefixOfItself
    <3> QED
      BY <3>1, <3>3, <3>4 DEF Same
  <2> QED
    BY <2>1, <2>2
<1> DEFINE r == [row[s] EXCEPT !.msgs = n, !.rev = @ + 1, !.blob = FALSE]
<1>3. Update(s, r)
  BY <1>2 DEF Commit
<1>4. r.msgs = n
  BY <1>1 DEF Row
<1> HIDE DEF r
<1> QED
  BY <1>1, <1>2, <1>3, <1>4, KeptByUpdate

LEMMA KeptByRequest ==
  ASSUME Types, SerialInv, NEW c \in Clients, CutWrite(c) \/ Resend(c) \/ ImportWrite(c)
  PROVE  Kept
<1> DEFINE s == req[c].sid
<1> DEFINE m == req[c].data
<1>1. CASE CutWrite(c)
  <2> DEFINE r == [row[s] EXCEPT !.msgs = m, !.blob = TRUE]
  <2>1. /\ s \in Sessions /\ Live(s) /\ IsPrefix(m, row[s].msgs) /\ row[s] \in Row
    BY <1>1, RequestFacts, LiveRow DEF CutWrite, Cut, SerialInv
  <2>2. Update(s, r)
    BY <1>1 DEF CutWrite
  <2>3. r.msgs = m
    BY <2>1 DEF Row
  <2> HIDE DEF r
  <2> QED
    BY <2>1, <2>2, <2>3, KeptByUpdate DEF Same
<1>2. CASE Resend(c)
  <2> DEFINE r == [row[s] EXCEPT !.msgs = Append(@, m), !.rev = @ + 1, !.blob = FALSE]
  <2>1. s \in Sessions /\ m \in Message
    BY <1>2, RequestFacts DEF Resend, At
  <2>2. Update(s, r)
    BY <1>2 DEF Resend
  <2>3. ASSUME Live(s) PROVE Same(row[s].msgs, r.msgs)
    <3>1. row[s] \in Row /\ row[s].msgs \in Fit /\ Len(row[s].msgs) < MaxLen
      BY <1>2, <2>1, <2>3, LiveRow DEF Resend
    <3>2. r.msgs = Append(row[s].msgs, m)
      BY <3>1 DEF Row
    <3> HIDE DEF r
    <3> QED
      BY <2>1, <3>1, <3>2, AddFits DEF Same
  <2> HIDE DEF r
  <2> QED
    BY <2>1, <2>2, <2>3, KeptByUpdate
<1>3. CASE ImportWrite(c)
  <2>1. s \in Sessions /\ m \in Fit /\ req[c].op \in Import
    BY <1>3, RequestFacts DEF ImportWrite, Import
  <2>2. CASE req[c].op = "import.update"
    <3> DEFINE r == [row[s] EXCEPT !.msgs = m, !.blob = FALSE]
    <3>1. Live(s) /\ IsPrefix(row[s].msgs, m) /\ row[s] \in Row
      BY <2>1, <2>2, LiveRow DEF SerialInv
    <3>2. Update(s, r)
      BY <1>3, <2>2 DEF ImportWrite, At
    <3>3. r.msgs = m
      BY <3>1 DEF Row
    <3> HIDE DEF r
    <3> QED
      BY <2>1, <3>1, <3>2, <3>3, KeptByUpdate DEF Same
  <2>3. CASE req[c].op # "import.update"
    <3>1. req[c].op = "import.insert" /\ ~Live(s)
      BY <1>3, <2>3 DEF ImportWrite, SerialInv
    <3>2. \A t \in Sessions : t # s => row'[t] = row[t]
      BY <1>3, <2>1, <2>3 DEF ImportWrite, At, Types
    <3>3. ASSUME NEW t \in Sessions, Live(t) PROVE Same(row[t].msgs, row'[t].msgs)
      <4>1. row'[t] = row[t]
        BY <3>1, <3>2, <3>3
      <4> QED
        BY <3>3, <4>1, LiveRow, PrefixOfItself DEF Same
    <3> QED
      BY <3>3 DEF Kept
  <2> QED
    BY <2>2, <2>3
<1> QED
  BY <1>1, <1>2, <1>3

LEMMA KeptByFlags ==
  ASSUME Types, NEW c \in Clients, NEW s \in Sessions,
         \/ Create(c, s) \/ Rename(c, s) \/ Delete(c, s) \/ Clear(c, s)
         \/ Unpin(c, s) \/ UpdatePinned(c, s) \/ PinSet(c) \/ CleanupDelete(c)
  PROVE  Kept
<1>1. row \in [Sessions -> Row]
  BY DEF Types
<1>2. ASSUME NEW t \in Sessions, NEW r, Update(t, r),
             Live(t) => \/ r.st # "live"
                        \/ r.msgs = row[t].msgs
                        \/ r.msgs = <<>>
      PROVE  Kept
  <2>1. Live(t) => row[t].msgs \in Fit
    BY <1>2, LiveRow
  <2>2. Live(t) /\ r.st = "live" => Same(row[t].msgs, r.msgs)
    BY <1>2, <2>1, PrefixOfItself, EmptyIsPrefix DEF Same
  <2> QED
    BY <1>2, <2>2, KeptByUpdate
<1>3. CASE Create(c, s)
  <2>1. row[s].st # "live" /\ \A t \in Sessions : t # s => row'[t] = row[t]
    BY <1>1, <1>3 DEF Create
  <2>2. ASSUME NEW t \in Sessions, Live(t) PROVE Same(row[t].msgs, row'[t].msgs)
    <3>1. row'[t] = row[t]
      BY <2>1, <2>2 DEF Live
    <3> QED
      BY <2>2, <3>1, LiveRow, PrefixOfItself DEF Same
  <2> QED
    BY <2>2 DEF Kept
<1>4. CASE Rename(c, s)
  <2>1. Update(s, [row[s] EXCEPT !.titled = TRUE])
    BY <1>4 DEF Rename
  <2>2. [row[s] EXCEPT !.titled = TRUE].msgs = row[s].msgs
    BY <1>1 DEF Row
  <2> QED
    BY <1>2, <2>1, <2>2
<1>5. CASE Delete(c, s)
  <2>1. Update(s, NoRow("deleted")) /\ NoRow("deleted").st # "live"
    BY <1>5 DEF Delete, NoRow
  <2> QED
    BY <1>2, <2>1
<1>6. CASE Clear(c, s)
  <2> DEFINE r == [row[s] EXCEPT !.msgs = <<>>, !.rev = @ + 1, !.titled = FALSE, !.blob = FALSE]
  <2>1. Update(s, r)
    BY <1>6 DEF Clear
  <2>2. r.msgs = <<>>
    BY <1>1 DEF Row
  <2> HIDE DEF r
  <2> QED
    BY <1>2, <2>1, <2>2
<1>7. ASSUME NEW t \in Sessions, NEW b \in BOOLEAN, Update(t, [row[t] EXCEPT !.pinned = b])
      PROVE  Kept
  <2>1. [row[t] EXCEPT !.pinned = b].msgs = row[t].msgs
    BY <1>1 DEF Row
  <2> QED
    BY <1>2, <1>7, <2>1
<1>8. CASE PinSet(c)
  <2>1. req[c].sid \in Sessions
    BY <1>8, RequestFacts DEF PinSet, At
  <2>2. Update(req[c].sid, [row[req[c].sid] EXCEPT !.pinned = TRUE])
    BY <1>8 DEF PinSet
  <2> QED
    BY <1>7, <2>1, <2>2
<1>9. CASE Unpin(c, s) \/ UpdatePinned(c, s)
  BY <1>7, <1>9 DEF Unpin, UpdatePinned
<1>10. CASE CleanupDelete(c)
  <2>1. ASSUME NEW t \in Sessions, Live(t), row'[t].st = "live"
        PROVE  Same(row[t].msgs, row'[t].msgs)
    <3>1. row'[t] = row[t] \/ row'[t] = NoRow("cleaned")
      BY <1>10 DEF CleanupDelete
    <3>2. NoRow("cleaned").st # "live"
      BY DEF NoRow
    <3> QED
      BY <2>1, <3>1, <3>2, LiveRow, PrefixOfItself DEF Same
  <2> QED
    BY <2>1 DEF Kept
<1> QED
  BY <1>3, <1>4, <1>5, <1>6, <1>8, <1>9, <1>10

(* With one request at a time, and while the server stays up, no step swaps  *)
(* a part of a conversation for another one (store.go:181-640,               *)
(* session_mutations.go:91-126).  A restart may: it imports over the rows.   *)
THEOREM TranscriptsExtendOrCut ==
  ASSUME OneAtATime, "boot" \notin Ops PROVE Spec => ExtendsOrCuts
<1>1. ASSUME StoreInv, SerialInv, [Next]_vars PROVE Kept
  <2>1. Types /\ LockInv
    BY <1>1 DEF StoreInv
  <2>2. ASSUME NEW c \in Clients, NEW s \in Sessions,
               \/ AppendBegin(c, s) \/ TruncateBegin(c, s) \/ CutRead(c, s, "undo")
               \/ CutRead(c, s, "retry") \/ ImportFetch(c, s) \/ PinCheck(c, s)
        PROVE  UNCHANGED row
    BY <2>2 DEF AppendBegin, TruncateBegin, TxBegin, CutRead, ImportFetch, PinCheck
  <2>3. ASSUME NEW c \in Clients, Fail(c) \/ ImportCheck(c) \/ CleanupSelect(c)
        PROVE  UNCHANGED row
    BY <2>3 DEF Fail, ImportCheck, CleanupSelect
  <2>4. ASSUME NEW s \in Sessions, AgentWrites(s) PROVE UNCHANGED row
    BY <2>4 DEF AgentWrites
  <2>5. ASSUME NEW c \in Clients, PinSet(c) \/ CleanupDelete(c) PROVE Kept
    <3>1. CASE Sessions = {}
      BY <3>1 DEF Kept
    <3>2. CASE Sessions # {}
      BY <2>1, <2>5, <3>2, KeptByFlags
    <3> QED
      BY <3>1, <3>2
  <2>6. UNCHANGED vars => UNCHANGED row
    BY DEF vars
  <2>7. ~Boot
    BY DEF Boot
  <2> QED
    BY <1>1, <2>1, <2>2, <2>3, <2>4, <2>5, <2>6, <2>7, KeptIfUnchanged, KeptByTransaction,
       KeptByRequest, KeptByFlags DEF Next
<1>2. StoreInv /\ SerialInv /\ [Next]_vars =>
        [\A s \in Sessions : Live(s) /\ row'[s].st = "live" =>
           \/ IsPrefix(row[s].msgs, row'[s].msgs)
           \/ IsPrefix(row'[s].msgs, row[s].msgs)]_row
  BY <1>1 DEF Kept, Same
<1> QED
  BY <1>2, SerialAlways, PTL DEF Spec, ExtendsOrCuts
-----------------------------------------------------------------------------
(* Pins: the request that counted below the limit adds one. *)

PinInv ==
  /\ Cardinality(Pinned) <= PinLimit
  /\ \A c \in Clients : req[c].op = "pin" => Cardinality(Pinned) < PinLimit

LEMMA FewerPins ==
  ASSUME IsFiniteSet(Sessions), Pinned' \subseteq Pinned
  PROVE  /\ IsFiniteSet(Pinned) /\ Cardinality(Pinned) \in Nat /\ Cardinality(Pinned') \in Nat
         /\ Cardinality(Pinned') <= Cardinality(Pinned)
<1>1. Pinned \subseteq Sessions
  BY DEF Pinned, LiveRows
<1>2. IsFiniteSet(Pinned)
  BY <1>1, FS_Subset
<1> DEFINE P == Pinned
<1> DEFINE Q == Pinned'
<1>3. IsFiniteSet(P) /\ Q \subseteq P
  BY <1>2
<1> HIDE DEF P, Q
<1>4. IsFiniteSet(Q) /\ Cardinality(Q) <= Cardinality(P)
  BY <1>3, FS_Subset
<1>5. Cardinality(P) \in Nat /\ Cardinality(Q) \in Nat
  BY <1>3, <1>4, FS_CardinalityType
<1> QED
  BY <1>3, <1>4, <1>5 DEF P, Q

LEMMA OneMorePin ==
  ASSUME IsFiniteSet(Sessions), NEW s, Pinned' \subseteq Pinned \cup {s},
         Cardinality(Pinned) < PinLimit
  PROVE  Cardinality(Pinned') <= PinLimit
<1> DEFINE P == Pinned
<1> DEFINE Q == Pinned'
<1>1. P \subseteq Sessions /\ Q \subseteq P \cup {s} /\ Cardinality(P) < PinLimit
  BY DEF Pinned, LiveRows
<1> HIDE DEF P, Q
<1>2. IsFiniteSet(P)
  BY <1>1, FS_Subset
<1>3. /\ IsFiniteSet(P \cup {s})
      /\ Cardinality(P \cup {s}) = IF s \in P THEN Cardinality(P) ELSE Cardinality(P) + 1
  BY <1>2, FS_AddElement
<1>4. IsFiniteSet(Q) /\ Cardinality(Q) <= Cardinality(P \cup {s})
  BY <1>1, <1>3, FS_Subset
<1>5. Cardinality(P) \in Nat /\ Cardinality(Q) \in Nat /\ PinLimit \in Nat
  BY <1>2, <1>4, FS_CardinalityType, StoreAssumption
<1>6. Cardinality(Q) <= PinLimit
  BY <1>1, <1>3, <1>4, <1>5
<1> QED
  BY <1>6 DEF Q

LEMMA PinsByUpdate ==
  ASSUME Types, NEW s \in Sessions, NEW r, Update(s, r)
  PROVE  /\ Pinned' \subseteq Pinned \cup {s}
         /\ (r.st = "live" /\ r.pinned => row[s].pinned) => Pinned' \subseteq Pinned
<1>1. row \in [Sessions -> Row]
  BY DEF Types
<1>2. row' = row \/ (Live(s) /\ row' = [row EXCEPT ![s] = r])
  BY DEF Update
<1>3. \A t \in Sessions : t # s => row'[t] = row[t]
  BY <1>1, <1>2
<1>4. row'[s] = row[s] \/ (Live(s) /\ row'[s] = r)
  BY <1>1, <1>2
<1> QED
  BY <1>3, <1>4 DEF Pinned, LiveRows, Live

(* Only PinSet pins a row, unless /api/session/update is used. *)
LEMMA PinsStep ==
  ASSUME Types, LockInv, "update" \notin Ops, [Next]_vars
  PROVE  \/ Pinned' \subseteq Pinned
         \/ \E c \in Clients : PinSet(c) /\ Pinned' \subseteq Pinned \cup {req[c].sid}
<1>1. row \in [Sessions -> Row]
  BY DEF Types
<1>2. UNCHANGED row => Pinned' \subseteq Pinned
  BY DEF Pinned, LiveRows, Live
<1>3. ASSUME NEW c \in Clients, NEW s \in Sessions,
             \/ AppendBegin(c, s) \/ TruncateBegin(c, s) \/ CutRead(c, s, "undo")
             \/ CutRead(c, s, "retry") \/ ImportFetch(c, s) \/ PinCheck(c, s)
      PROVE  UNCHANGED row
  BY <1>3 DEF AppendBegin, TruncateBegin, TxBegin, CutRead, ImportFetch, PinCheck
<1>4. ASSUME NEW c \in Clients, Fail(c) \/ ImportCheck(c) \/ CleanupSelect(c)
      PROVE  UNCHANGED row
  BY <1>4 DEF Fail, ImportCheck, CleanupSelect
<1>5. ASSUME NEW s \in Sessions, AgentWrites(s) PROVE UNCHANGED row
  BY <1>5 DEF AgentWrites
<1>6. UNCHANGED vars => UNCHANGED row
  BY DEF vars
<1>7. ASSUME NEW c \in Clients, NEW s \in Sessions, Create(c, s)
      PROVE  Pinned' \subseteq Pinned
  <2>1. PICK b \in BOOLEAN : row' = [row EXCEPT ![s] = [NoRow("live") EXCEPT !.titled = b]]
    BY <1>7 DEF Create
  <2>2. [NoRow("live") EXCEPT !.titled = b].pinned = FALSE
    BY DEF NoRow
  <2>3. row'[s].pinned = FALSE /\ \A t \in Sessions : t # s => row'[t] = row[t]
    BY <1>1, <2>1, <2>2
  <2> QED
    BY <2>3 DEF Pinned, LiveRows, Live
<1>8. ASSUME NEW c \in Clients, NEW s \in Sessions, Rename(c, s) \/ Delete(c, s) \/ Clear(c, s)
      PROVE  Pinned' \subseteq Pinned
  <2> DEFINE r == [row[s] EXCEPT !.msgs = <<>>, !.rev = @ + 1, !.titled = FALSE, !.blob = FALSE]
  <2>1. /\ [row[s] EXCEPT !.titled = TRUE].pinned = row[s].pinned
        /\ r.pinned = row[s].pinned /\ NoRow("deleted").st # "live"
    BY <1>1 DEF Row, NoRow
  <2>2. \/ Update(s, [row[s] EXCEPT !.titled = TRUE]) \/ Update(s, NoRow("deleted"))
        \/ Update(s, r)
    BY <1>8 DEF Rename, Delete, Clear
  <2> HIDE DEF r
  <2> QED
    BY <2>1, <2>2, PinsByUpdate
<1>9. ASSUME NEW c \in Clients, NEW s \in Sessions, Unpin(c, s) PROVE Pinned' \subseteq Pinned
  <2>1. [row[s] EXCEPT !.pinned = FALSE].pinned = FALSE
    BY <1>1 DEF Row
  <2>2. Update(s, [row[s] EXCEPT !.pinned = FALSE])
    BY <1>9 DEF Unpin
  <2> QED
    BY <2>1, <2>2, PinsByUpdate
<1>10. ASSUME NEW c \in Clients, NEW s \in Sessions PROVE ~UpdatePinned(c, s)
  BY DEF UpdatePinned, Free
<1>11. ASSUME NEW c \in Clients, AppendCommit(c) \/ TruncateCommit(c)
       PROVE  Pinned' \subseteq Pinned
  <2> DEFINE s == req[c].sid
  <2>1. s \in Sessions
    BY <1>11, RequestFacts DEF AppendCommit, TruncateCommit, At, Tx
  <2>2. PICK m : Commit(c, m)
    BY <1>11 DEF AppendCommit, TruncateCommit
  <2> DEFINE r == [row[s] EXCEPT !.msgs = m, !.rev = @ + 1, !.blob = FALSE]
  <2>3. Update(s, r) /\ r.pinned = row[s].pinned
    BY <1>1, <2>1, <2>2 DEF Commit, Row
  <2> HIDE DEF r
  <2> QED
    BY <2>1, <2>3, PinsByUpdate
<1>12. ASSUME NEW c \in Clients, CutWrite(c) \/ Resend(c) PROVE Pinned' \subseteq Pinned
  <2> DEFINE s == req[c].sid
  <2> DEFINE q == [row[s] EXCEPT !.msgs = req[c].data, !.blob = TRUE]
  <2> DEFINE r == [row[s] EXCEPT !.msgs = Append(@, req[c].data), !.rev = @ + 1, !.blob = FALSE]
  <2>1. s \in Sessions
    BY <1>12, RequestFacts DEF CutWrite, Resend, At, Cut
  <2>2. Update(s, q) \/ Update(s, r)
    BY <1>12 DEF CutWrite, Resend
  <2>3. q.pinned = row[s].pinned /\ r.pinned = row[s].pinned
    BY <1>1, <2>1 DEF Row
  <2> HIDE DEF q, r
  <2> QED
    BY <2>1, <2>2, <2>3, PinsByUpdate
<1>13. ASSUME NEW c \in Clients, ImportWrite(c) PROVE Pinned' \subseteq Pinned
  <2> DEFINE s == req[c].sid
  <2> DEFINE q == [row[s] EXCEPT !.msgs = req[c].data, !.blob = FALSE]
  <2> DEFINE r == [NoRow("live") EXCEPT !.msgs = req[c].data, !.titled = TRUE]
  <2>1. s \in Sessions
    BY <1>13, RequestFacts DEF ImportWrite, Import
  <2>2. Update(s, q) \/ row' = row \/ row' = [row EXCEPT ![s] = r]
    BY <1>13 DEF ImportWrite
  <2>3. q.pinned = row[s].pinned /\ r.pinned = FALSE
    BY <1>1, <2>1 DEF Row, NoRow
  <2> HIDE DEF q, r
  <2>4. CASE row' = [row EXCEPT ![s] = r]
    <3>1. row'[s].pinned = FALSE /\ \A t \in Sessions : t # s => row'[t] = row[t]
      BY <1>1, <2>1, <2>3, <2>4
    <3> QED
      BY <3>1 DEF Pinned, LiveRows, Live
  <2> QED
    BY <1>2, <2>1, <2>2, <2>3, <2>4, PinsByUpdate
<1>14. ASSUME NEW c \in Clients, CleanupDelete(c) PROVE Pinned' \subseteq Pinned
  <2>1. \A t \in Sessions : row'[t] = row[t] \/ row'[t] = NoRow("cleaned")
    BY <1>14 DEF CleanupDelete
  <2>2. NoRow("cleaned").st # "live"
    BY DEF NoRow
  <2> QED
    BY <2>1, <2>2 DEF Pinned, LiveRows, Live
<1>15. ASSUME NEW c \in Clients, PinSet(c)
       PROVE  Pinned' \subseteq Pinned \cup {req[c].sid}
  <2>1. req[c].sid \in Sessions
    BY <1>15, RequestFacts DEF PinSet, At
  <2>2. Update(req[c].sid, [row[req[c].sid] EXCEPT !.pinned = TRUE])
    BY <1>15 DEF PinSet
  <2> QED
    BY <2>1, <2>2, PinsByUpdate
<1>16. ASSUME Boot PROVE Pinned' \subseteq Pinned
  <2>1. ASSUME NEW r, NEW m, r \in Row PROVE Imported(r, m).pinned = FALSE
    BY <2>1 DEF Imported, Row
  <2>2. ASSUME NEW t \in Sessions PROVE row'[t] = row[t] \/ row'[t].pinned = FALSE
    <3>1. row'[t] = IF cli[t] = <<>> THEN row[t]
                    ELSE Imported(IF Live(t) THEN row[t] ELSE NoRow("live"), cli[t])
      BY <1>16 DEF Boot, Imported
    <3>2. row[t] \in Row /\ NoRow("live") \in Row
      BY <1>1, NoRowIsRow
    <3> QED
      BY <2>1, <3>1, <3>2
  <2> QED
    BY <2>2 DEF Pinned, LiveRows, Live
<1> QED
  BY <1>2, <1>3, <1>4, <1>5, <1>6, <1>7, <1>8, <1>9, <1>10, <1>11, <1>12, <1>13, <1>14, <1>15,
     <1>16 DEF Next

LEMMA PinInvStep ==
  ASSUME OneAtATime, IsFiniteSet(Sessions), "update" \notin Ops, Types, LockInv, PinInv,
         [Next]_vars
  PROVE  PinInv'
<1>1. req = [d \in Clients |-> req[d]]
  BY DEF Types
<1>2. CASE Pinned' \subseteq Pinned
  <2>1. /\ Cardinality(Pinned) \in Nat /\ Cardinality(Pinned') \in Nat
        /\ Cardinality(Pinned') <= Cardinality(Pinned) /\ PinLimit \in Nat
    BY <1>2, FewerPins, StoreAssumption
  <2>2. ASSUME NEW c \in Clients, req'[c].op = "pin" PROVE Cardinality(Pinned) < PinLimit
    <3>1. CASE req'[c] = req[c]
      BY <2>2, <3>1 DEF PinInv
    <3>2. CASE req'[c] # req[c]
      <4>1. req'[c].op \in Decided
        BY <2>2 DEF Decided
      <4>2. \/ CleanupSelect(c) \/ ImportCheck(c)
            \/ \E s \in Sessions :
                 CutRead(c, s, "undo") \/ CutRead(c, s, "retry") \/ PinCheck(c, s)
        BY <3>2, <4>1, Decides
      <4>3. CASE CleanupSelect(c)
        <5>1. PICK ids : req' = [req EXCEPT ![c] = Busy("cleanup", Nobody, ids)]
          BY <4>3 DEF CleanupSelect
        <5> QED
          BY <1>1, <2>2, <5>1 DEF Busy
      <4>4. CASE ImportCheck(c)
        <5>1. \E r \in {Idle, Busy("import.insert", req[c].sid, req[c].data),
                        Busy("import.update", req[c].sid, req[c].data)} :
                req' = [req EXCEPT ![c] = r]
          BY <4>4 DEF ImportCheck
        <5> QED
          BY <1>1, <2>2, <5>1 DEF Busy, Idle
      <4>5. ASSUME NEW s \in Sessions, NEW op \in Cut, CutRead(c, s, op) PROVE FALSE
        <5>1. \E m : req' = [req EXCEPT ![c] = Busy(op, s, m)]
          BY <4>5 DEF CutRead
        <5> QED
          BY <1>1, <2>2, <5>1 DEF Busy, Cut
      <4>6. ASSUME NEW s \in Sessions, PinCheck(c, s) PROVE Cardinality(Pinned) < PinLimit
        BY <4>6 DEF PinCheck
      <4> QED
        BY <4>2, <4>3, <4>4, <4>5, <4>6 DEF Cut
    <3> QED
      BY <3>1, <3>2
  <2>3. Cardinality(Pinned) <= PinLimit
    BY DEF PinInv
  <2> QED
    BY <2>1, <2>2, <2>3 DEF PinInv
<1>3. ASSUME NEW c \in Clients, PinSet(c), Pinned' \subseteq Pinned \cup {req[c].sid}
      PROVE  PinInv'
  <2>1. Cardinality(Pinned) < PinLimit
    BY <1>3 DEF PinSet, At, PinInv
  <2>2. Cardinality(Pinned') <= PinLimit
    BY <1>3, <2>1, OneMorePin
  <2>3. \A d \in Clients : req'[d].op # "pin"
    BY <1>1, <1>3 DEF PinSet, Idle, OneAtATime
  <2> QED
    BY <2>2, <2>3 DEF PinInv
<1> QED
  BY <1>2, <1>3, PinsStep

(* With one request at a time, and if nobody sets the flag with              *)
(* /api/session/update, no more than PinLimit sessions are pinned            *)
(* (session_family.go:117-126).                                             *)
THEOREM PinsAreLimited ==
  ASSUME OneAtATime, IsFiniteSet(Sessions), "update" \notin Ops
  PROVE  Spec => []PinsWithinLimit
<1>1. Init => PinInv
  <2>1. SUFFICES ASSUME Init PROVE PinInv
    OBVIOUS
  <2>2. Pinned = {}
    BY <2>1 DEF Init, Pinned, LiveRows, Live, NoRow
  <2>3. Cardinality(Pinned) = 0
    BY <2>2, FS_EmptySet
  <2>4. \A c \in Clients : req[c].op # "pin"
    BY <2>1 DEF Init, Idle
  <2> QED
    BY <2>3, <2>4, StoreAssumption DEF PinInv
<1>2. StoreInv /\ PinInv /\ [Next]_vars => PinInv'
  BY PinInvStep DEF StoreInv
<1>3. PinInv => PinsWithinLimit
  BY DEF PinInv, PinsWithinLimit
<1> QED
  BY <1>1, <1>2, <1>3, StoreInvariant, PTL DEF Spec
=============================================================================
