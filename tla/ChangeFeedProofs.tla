-------------------------- MODULE ChangeFeedProofs --------------------------
(***************************************************************************)
(* Theorems about ChangeFeed, for every value of its constants: any number *)
(* of tabs, changes and faults, and any page limit.                        *)
(***************************************************************************)
EXTENDS ChangeFeed, TLAPS, FiniteSetTheorems

USE NoCursorAssumption, PageLimitAssumption, MaxSeqAssumption, MaxFaultsAssumption

-----------------------------------------------------------------------------
(* The inductive invariant.                                                *)

\* While changes can arrive a wait is registered, and one that nothing will
\* wake has nothing left to write.
WaitOK(t) ==
  /\ stream[t] = "listing" => waiter[t] # "none"
  /\ stream[t] = "waiting" \/ (stream[t] = "listed" /\ page[t] = {}) =>
       /\ waiter[t] # "none"
       /\ waiter[t] # "change" => unpublished > 0 \/ \A n \in mine : n <= cursor[t]

\* A page holds the next changes of the viewer, without a gap.
PageOK(t) ==
  stream[t] = "listed" =>
    /\ \A p \in page[t] : p \in mine /\ cursor[t] < p
    /\ \A p \in page[t], n \in mine : cursor[t] < n /\ n < p => n \in page[t]

\* A stream belongs to an open connection, and only those have frames.
SourceOK(t) ==
  /\ stream[t] # "none" => source[t] = "open"
  /\ source[t] # "open" => wire[t] = <<>>
  /\ source[t] # "closed" <=> phase[t] = "live"

\* A snapshot in hand is not older than the tab, nor newer than the ledger.
SnapshotOK(t) ==
  snapshot[t] # NoCursor =>
    /\ phase[t] \in {"boot", "resync"}
    /\ At(t) <= snapshot[t] /\ snapshot[t] <= lastSeq

\* The ledger, the stream and the tab, in that order.
CursorOK(t) ==
  /\ At(t) <= lastSeq /\ cursor[t] <= lastSeq
  /\ source[t] = "open" => At(t) <= cursor[t]

\* resync_required is the last frame of its connection.
ResyncIsLast(t) ==
  \A i \in DOMAIN wire[t] :
     wire[t][i].event = "resync_required" => i = Len(wire[t]) /\ stream[t] = "none"

\* PipeIsExact, frame by frame.
PipeSound(t) ==
  \A i \in DOMAIN wire[t] : wire[t][i].event = "change" =>
     wire[t][i].id \in mine /\ At(t) < wire[t][i].id /\ wire[t][i].id <= cursor[t]

PipeOrdered(t) ==
  \A i, j \in DOMAIN wire[t] :
     wire[t][i].event = "change" /\ wire[t][j].event = "change" /\ i < j =>
       wire[t][i].id < wire[t][j].id

PipeCovers(t) ==
  source[t] = "open" =>
    \A n \in mine : At(t) < n /\ n <= cursor[t] =>
      \E i \in DOMAIN wire[t] : wire[t][i].event = "change" /\ wire[t][i].id = n

PrunedOK(t) == stream[t] = "refused" => cursor[t] < floor

PipeOK(t) == PipeSound(t) /\ PipeOrdered(t) /\ PipeCovers(t)

TabOK(t) ==
  /\ WaitOK(t) /\ PageOK(t) /\ SourceOK(t) /\ SnapshotOK(t) /\ CursorOK(t)
  /\ ResyncIsLast(t) /\ PipeOK(t) /\ PrunedOK(t)

IInv == TypeOK /\ unpublished <= lastSeq /\ \A t \in Tabs : TabOK(t)

-----------------------------------------------------------------------------
(* Facts about data.                                                       *)

LEMMA AppendFacts ==
  ASSUME NEW S, NEW s \in Seq(S), NEW e \in S
  PROVE  /\ Append(s, e) \in Seq(S)
         /\ Len(Append(s, e)) = Len(s) + 1 /\ Len(s) \in Nat
         /\ DOMAIN s = 1..Len(s) /\ DOMAIN Append(s, e) = 1..(Len(s) + 1)
         /\ \A i \in 1..Len(s) : Append(s, e)[i] = s[i]
         /\ Append(s, e)[Len(s) + 1] = e
OBVIOUS

LEMMA TailFacts ==
  ASSUME NEW S, NEW s \in Seq(S), s # <<>>
  PROVE  /\ Head(s) = s[1] /\ Head(s) \in S
         /\ Tail(s) \in Seq(S)
         /\ Len(s) \in Nat /\ Len(s) >= 1 /\ Len(Tail(s)) = Len(s) - 1
         /\ DOMAIN s = 1..Len(s) /\ DOMAIN Tail(s) = 1..(Len(s) - 1)
         /\ \A i \in 1..(Len(s) - 1) : Tail(s)[i] = s[i + 1]
OBVIOUS

LEMMA SeqsFinite == IsFiniteSet(Seqs)
BY FS_Interval DEF Seqs

\* A set of changes that is not empty has a first one.  (Were there none, taking
\* one away would map the numbers above the set one-to-one into themselves, and
\* so onto themselves: MaxSeq would be the image of a number above MaxSeq.)
LEMMA FirstChange ==
  ASSUME NEW T \in SUBSET Seqs, T # {}
  PROVE  \E x \in T : \A y \in T : x <= y
<1> SUFFICES ASSUME \A x \in T : \E y \in T : y < x PROVE FALSE
  BY DEF Seqs
<1> DEFINE U == {y \in Seqs : \E x \in T : x <= y}
           f == [y \in U |-> y - 1]
<1>1. IsFiniteSet(U)
  <2>1. U \in SUBSET Seqs
    OBVIOUS
  <2> QED BY <2>1, SeqsFinite, FS_Subset
<1>2. ASSUME NEW y \in U PROVE y - 1 \in U
  <2>1. PICK x \in T : x <= y
    OBVIOUS
  <2>2. PICK z \in T : z < x
    OBVIOUS
  <2> QED BY <2>1, <2>2 DEF Seqs
<1>3. f \in Injection(U, U)
  <2>1. f \in [U -> U]
    BY <1>2
  <2>2. \A y, z \in U : f[y] = f[z] => y = z
    BY DEF Seqs
  <2> QED BY <2>1, <2>2 DEF Injection, IsInjective
<1>4. f \in Surjection(U, U)
  BY <1>1, <1>3, FS_Injection
<1>5. MaxSeq \in U
  <2>1. PICK x \in T : TRUE
    OBVIOUS
  <2>2. x \in 1..MaxSeq
    BY <2>1 DEF Seqs
  <2> QED BY <2>1, <2>2 DEF Seqs
<1>6. PICK y \in U : f[y] = MaxSeq
  BY <1>4, <1>5 DEF Surjection
<1>7. y = MaxSeq + 1 /\ y <= MaxSeq
  BY <1>6 DEF Seqs
<1> QED BY <1>7

\* What changes_after returns: the viewer's changes beyond the cursor, without a
\* gap, and at least one when there is any.
LEMMA PageFacts ==
  ASSUME TypeOK, NEW c \in Nat, InRange(c)
  PROVE  /\ ChangesAfter(c) \in SUBSET Seqs
         /\ \A p \in ChangesAfter(c) : p \in mine /\ c < p
         /\ \A p \in ChangesAfter(c), n \in mine : c < n /\ n < p => n \in ChangesAfter(c)
         /\ ChangesAfter(c) = {} => \A n \in mine : n <= c
<1> DEFINE after == {n \in mine : c < n /\ floor < n}
           Below(k) == {x \in after : x < k}
<1>1. mine \subseteq Seqs /\ \A n \in mine : n \in Int
  BY DEF TypeOK, Seqs
<1>2. floor \in Int /\ floor <= c
  BY DEF TypeOK, InRange
<1>3. IsFiniteSet(after)
  <2>1. after \in SUBSET Seqs
    BY <1>1
  <2> QED BY <2>1, SeqsFinite, FS_Subset
<1>4. ChangesAfter(c) = {n \in after : Cardinality(Below(n)) < PageLimit}
  BY DEF ChangesAfter
<1>5. ASSUME NEW p \in ChangesAfter(c), NEW n \in mine, c < n, n < p
      PROVE  n \in ChangesAfter(c)
  <2>1. n \in after /\ p \in after
    BY <1>1, <1>2, <1>4, <1>5
  <2>2. Below(n) \subseteq Below(p)
    BY <1>1, <1>5, <2>1
  <2>3. IsFiniteSet(Below(p))
    BY <1>3, FS_Subset
  <2>4. Cardinality(Below(n)) <= Cardinality(Below(p)) /\ IsFiniteSet(Below(n))
    BY <2>2, <2>3, FS_Subset
  <2>5. Cardinality(Below(n)) \in Nat /\ Cardinality(Below(p)) \in Nat
    BY <2>3, <2>4, FS_CardinalityType
  <2>6. Cardinality(Below(p)) < PageLimit
    BY <1>4
  <2>7. Cardinality(Below(n)) < PageLimit
    BY <2>4, <2>5, <2>6
  <2> QED BY <1>4, <2>1, <2>7
<1>6. ASSUME NEW n \in mine, ~(n <= c) PROVE ChangesAfter(c) # {}
  <2>1. after # {} /\ after \in SUBSET Seqs
    BY <1>1, <1>2, <1>6
  <2>2. PICK x \in after : \A y \in after : x <= y
    BY <2>1, FirstChange
  <2>3. Below(x) = {}
    BY <1>1, <2>2
  <2>4. Cardinality(Below(x)) = 0
    BY <2>3, FS_EmptySet
  <2>5. Cardinality(Below(x)) < PageLimit
    BY <2>4
  <2> QED BY <1>4, <2>5
<1> QED BY <1>1, <1>4, <1>5, <1>6

-----------------------------------------------------------------------------
(* A step of one tab leaves the others alone.                              *)

Untouched(u) ==
  /\ UNCHANGED <<ledger, unpublished>>
  /\ stream'[u] = stream[u] /\ cursor'[u] = cursor[u] /\ waiter'[u] = waiter[u]
  /\ page'[u] = page[u] /\ wire'[u] = wire[u] /\ phase'[u] = phase[u]
  /\ snapshot'[u] = snapshot[u] /\ source'[u] = source[u] /\ url'[u] = url[u]
  /\ lastEventId'[u] = lastEventId[u]

LEMMA UntouchedStaysOK ==
  ASSUME NEW u \in Tabs, TabOK(u), Untouched(u)
  PROVE  TabOK(u)'
<1>1. UNCHANGED <<lastSeq, mine, floor, unpublished>> /\ At(u)' = At(u)
  BY DEF Untouched, ledger, At
<1>2. WaitOK(u)' /\ PageOK(u)' /\ SourceOK(u)' /\ SnapshotOK(u)' /\ CursorOK(u)' /\ PrunedOK(u)'
  BY <1>1 DEF Untouched, TabOK, WaitOK, PageOK, SourceOK, SnapshotOK, CursorOK, PrunedOK
<1>3. ResyncIsLast(u)' /\ PipeOK(u)'
  BY <1>1 DEF Untouched, TabOK, ResyncIsLast, PipeOK, PipeSound, PipeOrdered, PipeCovers
<1> QED BY <1>2, <1>3 DEF TabOK

\* So a step of tab t has only its own tab to look at.
LEMMA OtherTabs ==
  ASSUME IInv, NEW t \in Tabs, ServerNext(t) \/ (ClientNext(t) /\ ~Drop(t)),
         NEW u \in Tabs, u # t
  PROVE  TabOK(u)'
<1>1. TypeOK /\ TabOK(u)
  BY DEF IInv
<1>2. CASE BeginRound(t) \/ ListChanges(t) \/ WriteResync(t) \/ WriteChange(t)
  <2>1. CASE BeginRound(t) \/ ListChanges(t)
    <3>1. Untouched(u)
      BY <1>1, <2>1 DEF Untouched, TypeOK, BeginRound, ListChanges, ledger, client
    <3> QED BY <1>1, <3>1, UntouchedStaysOK
  <2>2. CASE WriteResync(t)
    <3>1. Untouched(u)
      BY <1>1, <2>2 DEF Untouched, TypeOK, WriteResync, ledger, client
    <3> QED BY <1>1, <3>1, UntouchedStaysOK
  <2>3. CASE WriteChange(t)
    <3>1. Untouched(u)
      BY <1>1, <2>3 DEF Untouched, TypeOK, WriteChange, ledger, client
    <3> QED BY <1>1, <3>1, UntouchedStaysOK
  <2> QED BY <1>2, <2>1, <2>2, <2>3
<1>3. CASE Wait(t) \/ Woken(t) \/ Heartbeat(t)
  <2>1. Untouched(u)
    BY <1>1, <1>3 DEF Untouched, TypeOK, Wait, Woken, Heartbeat, ledger, client
  <2> QED BY <1>1, <2>1, UntouchedStaysOK
<1>4. CASE TakeSnapshot(t) \/ Connect(t) \/ ReloadFails(t)
  <2>1. CASE TakeSnapshot(t)
    <3>1. Untouched(u)
      BY <1>1, <2>1 DEF Untouched, TypeOK, TakeSnapshot, ledger, server
    <3> QED BY <1>1, <3>1, UntouchedStaysOK
  <2>2. CASE Connect(t)
    <3>1. Untouched(u)
      BY <1>1, <2>2 DEF Untouched, TypeOK, Connect, ledger, server
    <3> QED BY <1>1, <3>1, UntouchedStaysOK
  <2>3. CASE ReloadFails(t)
    <3>1. Untouched(u)
      BY <1>1, <2>3 DEF Untouched, TypeOK, ReloadFails, ledger, server
    <3> QED BY <1>1, <3>1, UntouchedStaysOK
  <2> QED BY <1>4, <2>1, <2>2, <2>3
<1>5. CASE Open(t) \/ ReceiveChange(t) \/ ReceiveResync(t)
  <2>1. CASE Open(t)
    <3>1. Untouched(u)
      BY <1>1, <2>1 DEF Untouched, TypeOK, Open, ledger, server
    <3> QED BY <1>1, <3>1, UntouchedStaysOK
  <2>2. CASE ReceiveChange(t)
    <3>1. Untouched(u)
      BY <1>1, <2>2 DEF Untouched, TypeOK, ReceiveChange, ledger, server
    <3> QED BY <1>1, <3>1, UntouchedStaysOK
  <2>3. CASE ReceiveResync(t)
    <3>1. Untouched(u)
      BY <1>1, <2>3 DEF Untouched, TypeOK, ReceiveResync, ledger, server
    <3> QED BY <1>1, <3>1, UntouchedStaysOK
  <2> QED BY <1>5, <2>1, <2>2, <2>3
<1> QED BY <1>2, <1>3, <1>4, <1>5 DEF ServerNext, ClientNext

-----------------------------------------------------------------------------
(* The ledger's steps.                                                     *)

LEMMA LedgerTypes ==
  ASSUME TypeOK, NEW t \in Tabs
  PROVE  /\ lastSeq \in Nat /\ floor \in Nat /\ unpublished \in Nat
         /\ floor <= lastSeq /\ Latest = lastSeq
         /\ mine \subseteq Seqs /\ \A n \in mine : n \in Nat \ {0} /\ n <= lastSeq
         /\ cursor[t] \in Nat /\ url[t] \in Nat /\ lastEventId[t] \in Nat
         /\ At(t) \in 0..MaxSeq /\ RequestCursor(t) = At(t)
         /\ page[t] \in SUBSET Seqs
<1>1. lastSeq \in 0..MaxSeq /\ floor \in 0..lastSeq
  BY DEF TypeOK
<1>2. At(t) \in 0..MaxSeq /\ RequestCursor(t) = At(t)
  BY DEF TypeOK, At, RequestCursor
<1>3. mine \subseteq 1..lastSeq
  BY DEF TypeOK
<1> QED BY <1>1, <1>2, <1>3 DEF TypeOK, Latest, Seqs

LEMMA CommitOK == IInv /\ Commit => IInv'
<1> SUFFICES ASSUME IInv, Commit PROVE IInv'
  OBVIOUS
<1>1. TypeOK /\ unpublished <= lastSeq
  BY DEF IInv
<1>2. UNCHANGED <<floor, stream, cursor, waiter, page, wire, phase, snapshot, source, url,
                  lastEventId, faults>>
  BY DEF Commit, server, client
<1>3. lastSeq' = lastSeq + 1 /\ unpublished' = unpublished + 1 /\ lastSeq < MaxSeq
  BY DEF Commit
<1>4. mine' \subseteq 1..lastSeq'
  <2>1. mine \subseteq 1..lastSeq /\ lastSeq \in Nat
    BY <1>1 DEF TypeOK
  <2> QED BY <2>1, <1>3 DEF Commit
<1>5. TypeOK'
  <2>1. lastSeq' \in 0..MaxSeq /\ unpublished' \in 0..MaxSeq /\ floor' \in 0..lastSeq'
    BY <1>1, <1>2, <1>3 DEF TypeOK
  <2> QED BY <1>1, <1>2, <1>4, <2>1 DEF TypeOK
<1>6. unpublished' <= lastSeq'
  BY <1>1, <1>3 DEF TypeOK
<1>7. ASSUME NEW t \in Tabs PROVE TabOK(t)'
  <2>1. TabOK(t) /\ At(t)' = At(t)
    BY <1>2 DEF IInv, At
  <2>2. lastSeq \in Nat /\ cursor[t] \in Nat /\ At(t) \in Nat /\ unpublished \in Nat
        /\ page[t] \in SUBSET Seqs /\ \A n \in mine : n \in Nat
    BY <1>1, LedgerTypes
  <2>3. cursor[t] <= lastSeq /\ At(t) <= lastSeq
    BY <2>1 DEF TabOK, CursorOK
  <2>4. \A n \in mine' : n \in mine \/ n = lastSeq + 1
    BY <1>3 DEF Commit
  <2>5. mine \subseteq mine'
    BY DEF Commit
  <2>6. WaitOK(t)' /\ SourceOK(t)' /\ CursorOK(t)' /\ ResyncIsLast(t)' /\ PrunedOK(t)'
    BY <1>2, <1>3, <2>1, <2>2
    DEF TabOK, WaitOK, SourceOK, CursorOK, ResyncIsLast, PrunedOK
  <2>7. SnapshotOK(t)'
    <3>1. snapshot[t] # NoCursor => snapshot[t] \in Nat
      BY <1>1 DEF TypeOK
    <3> QED BY <1>2, <1>3, <2>1, <2>2, <3>1 DEF TabOK, SnapshotOK
  <2>8. PageOK(t)'
    <3>1. \A p \in page[t], n \in mine' : p \in mine /\ n < p => n \in mine
      <4>1. \A p \in mine : p <= lastSeq
        BY <1>1, LedgerTypes
      <4> QED BY <2>2, <2>4, <4>1
    <3> QED BY <1>2, <2>1, <2>5, <3>1 DEF TabOK, PageOK
  <2>9. PipeOK(t)'
    <3>1. PipeSound(t)' /\ PipeOrdered(t)'
      BY <1>2, <2>1, <2>5 DEF TabOK, PipeOK, PipeSound, PipeOrdered
    <3>2. \A n \in mine' : n <= cursor[t] => n \in mine
      BY <2>2, <2>3, <2>4
    <3>3. PipeCovers(t)'
      BY <1>2, <2>1, <3>2 DEF TabOK, PipeOK, PipeCovers
    <3> QED BY <3>1, <3>3 DEF PipeOK
  <2> QED BY <2>6, <2>7, <2>8, <2>9 DEF TabOK
<1> QED BY <1>5, <1>6, <1>7 DEF IInv

LEMMA PublishOK == IInv /\ Publish => IInv'
<1> SUFFICES ASSUME IInv, Publish PROVE IInv'
  OBVIOUS
<1>1. TypeOK /\ unpublished <= lastSeq
  BY DEF IInv
<1>2. UNCHANGED <<lastSeq, mine, floor, stream, cursor, page, wire, phase, snapshot, source,
                  url, lastEventId, faults>>
  BY DEF Publish, ledger, client
<1>3. unpublished > 0 /\ unpublished' = unpublished - 1
  BY DEF Publish
<1>4. waiter' \in [Tabs -> {"none", "armed", "change"}]
  BY <1>1 DEF Publish, TypeOK
<1>5. TypeOK'
  <2>1. unpublished' \in 0..MaxSeq
    BY <1>1, <1>3 DEF TypeOK
  <2> QED BY <1>1, <1>2, <1>4, <2>1 DEF TypeOK
<1>6. unpublished' <= lastSeq'
  BY <1>1, <1>2, <1>3 DEF TypeOK
<1>7. ASSUME NEW t \in Tabs PROVE TabOK(t)'
  <2>1. TabOK(t) /\ At(t)' = At(t)
    BY <1>2 DEF IInv, At
  <2>2. waiter'[t] # "armed" /\ (waiter[t] # "none" => waiter'[t] = "change")
    BY <1>1 DEF Publish, TypeOK
  <2>3. WaitOK(t)'
    BY <1>2, <2>1, <2>2 DEF TabOK, WaitOK
  <2>4. PageOK(t)' /\ SourceOK(t)' /\ SnapshotOK(t)' /\ CursorOK(t)' /\ PrunedOK(t)'
    BY <1>2, <2>1 DEF TabOK, PageOK, SourceOK, SnapshotOK, CursorOK, PrunedOK
  <2>5. ResyncIsLast(t)' /\ PipeOK(t)'
    BY <1>2, <2>1 DEF TabOK, ResyncIsLast, PipeOK, PipeSound, PipeOrdered, PipeCovers
  <2> QED BY <2>3, <2>4, <2>5 DEF TabOK
<1> QED BY <1>5, <1>6, <1>7 DEF IInv

LEMMA PruneOK == IInv /\ Prune => IInv'
<1> SUFFICES ASSUME IInv, Prune PROVE IInv'
  OBVIOUS
<1>1. TypeOK /\ unpublished <= lastSeq
  BY DEF IInv
<1>2. UNCHANGED <<lastSeq, mine, unpublished, stream, cursor, waiter, page, wire, phase,
                  snapshot, source, url, lastEventId, faults>>
  BY DEF Prune, server, client
<1>3. floor' \in Nat /\ floor < floor' /\ floor' <= lastSeq /\ floor \in Nat
  BY <1>1 DEF Prune, Latest, TypeOK, Seqs
<1>4. TypeOK'
  <2>1. floor' \in 0..lastSeq' /\ lastSeq \in Nat
    BY <1>1, <1>2, <1>3 DEF TypeOK
  <2> QED BY <1>1, <1>2, <2>1 DEF TypeOK
<1>5. ASSUME NEW t \in Tabs PROVE TabOK(t)'
  <2>1. TabOK(t) /\ At(t)' = At(t)
    BY <1>2 DEF IInv, At
  <2>2. WaitOK(t)' /\ PageOK(t)' /\ SourceOK(t)' /\ SnapshotOK(t)' /\ CursorOK(t)'
    BY <1>2, <2>1 DEF TabOK, WaitOK, PageOK, SourceOK, SnapshotOK, CursorOK
  <2>3. ResyncIsLast(t)' /\ PipeOK(t)'
    BY <1>2, <2>1 DEF TabOK, ResyncIsLast, PipeOK, PipeSound, PipeOrdered, PipeCovers
  <2>4. PrunedOK(t)'
    <3>1. cursor[t] \in Nat
      BY <1>1, LedgerTypes
    <3> QED BY <1>2, <1>3, <2>1, <3>1 DEF TabOK, PrunedOK
  <2> QED BY <2>2, <2>3, <2>4 DEF TabOK
<1> QED BY <1>1, <1>2, <1>4, <1>5 DEF IInv

-----------------------------------------------------------------------------
(* The stream's steps.                                                     *)

\* A frame written at the end of the connection.
LEMMA Written ==
  ASSUME TypeOK, NEW t \in Tabs, NEW f \in Frame,
         wire' = [wire EXCEPT ![t] = Append(@, f)]
  PROVE  /\ wire' \in [Tabs -> Seq(Frame)]
         /\ Len(wire[t]) \in Nat /\ Len(wire'[t]) = Len(wire[t]) + 1
         /\ DOMAIN wire[t] = 1..Len(wire[t]) /\ DOMAIN wire'[t] = 1..(Len(wire[t]) + 1)
         /\ \A i \in 1..Len(wire[t]) : wire'[t][i] = wire[t][i]
         /\ wire'[t][Len(wire[t]) + 1] = f
<1>1. wire \in [Tabs -> Seq(Frame)] /\ wire[t] \in Seq(Frame)
  BY DEF TypeOK
<1>2. wire'[t] = Append(wire[t], f) /\ Append(wire[t], f) \in Seq(Frame)
  BY <1>1, AppendFacts
<1>3. wire' \in [Tabs -> Seq(Frame)]
  BY <1>1, <1>2
<1> QED BY <1>1, <1>2, <1>3, AppendFacts

LEMMA ListChangesOK ==
  ASSUME IInv, NEW t \in Tabs, ListChanges(t)
  PROVE  TypeOK' /\ TabOK(t)'
<1>1. TypeOK /\ TabOK(t)
  BY DEF IInv
<1>2. UNCHANGED <<lastSeq, mine, floor, unpublished, cursor, waiter, wire, phase, snapshot,
                  source, url, lastEventId, faults>>
  BY DEF ListChanges, ledger, client
<1>3. stream[t] = "listing" /\ At(t)' = At(t)
  BY <1>2 DEF ListChanges, At
<1>4. SourceOK(t)' /\ SnapshotOK(t)' /\ CursorOK(t)' /\ PipeOK(t)'
  <2>1. SourceOK(t)' /\ SnapshotOK(t)' /\ CursorOK(t)'
    BY <1>1, <1>2, <1>3 DEF TabOK, SourceOK, SnapshotOK, CursorOK
  <2>2. PipeOK(t)'
    BY <1>1, <1>2, <1>3 DEF TabOK, PipeOK, PipeSound, PipeOrdered, PipeCovers
  <2> QED BY <2>1, <2>2
<1>5. ResyncIsLast(t)'
  BY <1>1, <1>2, <1>3 DEF TabOK, ResyncIsLast
<1>6. CASE InRange(cursor[t])
  <2>1. stream'[t] = "listed" /\ page'[t] = ChangesAfter(cursor[t])
        /\ stream' = [stream EXCEPT ![t] = "listed"]
        /\ page' = [page EXCEPT ![t] = ChangesAfter(cursor[t])]
    BY <1>1, <1>6 DEF ListChanges, TypeOK
  <2>2. cursor[t] \in Nat
    BY <1>1, LedgerTypes
  <2> DEFINE P == ChangesAfter(cursor[t])
  <2>3. /\ P \in SUBSET Seqs
        /\ \A p \in P : p \in mine /\ cursor[t] < p
        /\ \A p \in P, n \in mine : cursor[t] < n /\ n < p => n \in P
        /\ P = {} => \A n \in mine : n <= cursor[t]
    BY <1>1, <1>6, <2>2, PageFacts
  <2>4. TypeOK'
    BY <1>1, <1>2, <2>1, <2>3 DEF TypeOK
  <2>5. WaitOK(t)' /\ PageOK(t)' /\ PrunedOK(t)'
    BY <1>1, <1>2, <1>3, <2>1, <2>3 DEF TabOK, WaitOK, PageOK, PrunedOK
  <2> QED BY <1>4, <1>5, <2>4, <2>5 DEF TabOK
<1>7. CASE ~InRange(cursor[t])
  <2>1. stream'[t] = "refused" /\ page' = page /\ stream' = [stream EXCEPT ![t] = "refused"]
    BY <1>1, <1>7 DEF ListChanges, TypeOK
  <2>2. TypeOK'
    BY <1>1, <1>2, <2>1 DEF TypeOK
  <2>3. cursor[t] < floor
    <3>1. Latest = lastSeq /\ cursor[t] \in Nat /\ floor \in Nat /\ lastSeq \in Nat
      BY <1>1, LedgerTypes
    <3>2. cursor[t] <= lastSeq
      BY <1>1 DEF TabOK, CursorOK
    <3> QED BY <1>7, <3>1, <3>2 DEF InRange
  <2>4. WaitOK(t)' /\ PageOK(t)' /\ PrunedOK(t)'
    BY <1>2, <2>1, <2>3 DEF WaitOK, PageOK, PrunedOK
  <2> QED BY <1>4, <1>5, <2>2, <2>4 DEF TabOK
<1> QED BY <1>6, <1>7

LEMMA WriteResyncOK ==
  ASSUME IInv, NEW t \in Tabs, WriteResync(t)
  PROVE  TypeOK' /\ TabOK(t)'
<1> DEFINE f == [event |-> "resync_required", id |-> 0]
           k == Len(wire[t])
<1>1. TypeOK /\ TabOK(t)
  BY DEF IInv
<1>2. UNCHANGED <<lastSeq, mine, floor, unpublished, cursor, page, phase, snapshot, source,
                  url, lastEventId, faults>>
  BY DEF WriteResync, ledger, client
<1>3. /\ wire' \in [Tabs -> Seq(Frame)]
      /\ k \in Nat /\ Len(wire'[t]) = k + 1
      /\ DOMAIN wire[t] = 1..k /\ DOMAIN wire'[t] = 1..(k + 1)
      /\ \A i \in 1..k : wire'[t][i] = wire[t][i]
      /\ wire'[t][k + 1] = f
  <2>1. f \in Frame
    BY DEF Frame
  <2>2. wire' = [wire EXCEPT ![t] = Append(@, f)]
    BY DEF WriteResync
  <2> HIDE DEF f
  <2> QED BY <1>1, <2>1, <2>2, Written
<1>4. TypeOK'
  BY <1>1, <1>2, <1>3 DEF TypeOK, WriteResync
<1>5. stream[t] = "refused" /\ stream'[t] = "none" /\ At(t)' = At(t)
  BY <1>1, <1>2 DEF WriteResync, TypeOK, At
<1>6. source[t] = "open"
  BY <1>1, <1>5 DEF TabOK, SourceOK
<1>7. WaitOK(t)' /\ PageOK(t)' /\ PrunedOK(t)'
  BY <1>5 DEF WaitOK, PageOK, PrunedOK
<1>8. SourceOK(t)' /\ SnapshotOK(t)' /\ CursorOK(t)'
  BY <1>1, <1>2, <1>5, <1>6 DEF TabOK, SourceOK, SnapshotOK, CursorOK
<1>9. ResyncIsLast(t)'
  <2>1. \A i \in 1..k : wire[t][i].event # "resync_required"
    BY <1>1, <1>3, <1>5 DEF TabOK, ResyncIsLast
  <2>2. \A i \in 1..(k + 1) : i \in 1..k \/ i = k + 1
    BY <1>3
  <2> QED BY <1>3, <1>5, <2>1, <2>2 DEF ResyncIsLast
<1>10. PipeOK(t)'
  <2>1. \A i \in DOMAIN wire'[t] : wire'[t][i].event = "change" =>
           i \in DOMAIN wire[t] /\ wire'[t][i] = wire[t][i]
    BY <1>3
  <2>2. \A i \in DOMAIN wire[t] : i \in DOMAIN wire'[t] /\ wire'[t][i] = wire[t][i]
    BY <1>3
  <2>3. PipeSound(t)' /\ PipeOrdered(t)'
    BY <1>1, <1>2, <1>5, <2>1 DEF TabOK, PipeOK, PipeSound, PipeOrdered
  <2>4. PipeCovers(t)'
    BY <1>1, <1>2, <1>5, <2>2 DEF TabOK, PipeOK, PipeCovers
  <2> QED BY <2>3, <2>4 DEF PipeOK
<1> QED BY <1>4, <1>7, <1>8, <1>9, <1>10 DEF TabOK

LEMMA WriteChangeOK ==
  ASSUME IInv, NEW t \in Tabs, WriteChange(t)
  PROVE  TypeOK' /\ TabOK(t)'
<1>1. TypeOK /\ TabOK(t)
  BY DEF IInv
<1>2. UNCHANGED <<lastSeq, mine, floor, unpublished, phase, snapshot, source, url,
                  lastEventId, faults>>
  BY DEF WriteChange, ledger, client
<1>3. PICK n \in page[t] :
        /\ \A m \in page[t] : n <= m
        /\ cursor' = [cursor EXCEPT ![t] = n]
        /\ wire' = [wire EXCEPT ![t] = Append(@, [event |-> "change", id |-> n])]
        /\ page' = [page EXCEPT ![t] = @ \ {n}]
        /\ stream' = [stream EXCEPT ![t] = IF page[t] = {n} THEN "round" ELSE @]
  BY DEF WriteChange
<1> DEFINE f == [event |-> "change", id |-> n]
           k == Len(wire[t])
<1>4. /\ stream[t] = "listed" /\ At(t)' = At(t)
      /\ cursor'[t] = n /\ page'[t] = page[t] \ {n}
      /\ stream'[t] = IF page[t] = {n} THEN "round" ELSE "listed"
  BY <1>1, <1>2, <1>3 DEF WriteChange, TypeOK, At
<1>5. n \in Seqs /\ n \in Nat /\ n \in mine /\ cursor[t] < n /\ n <= lastSeq
      /\ cursor[t] \in Nat /\ At(t) \in Nat /\ lastSeq \in Nat
      /\ \A m \in mine : m \in Nat
  <2>1. n \in mine /\ cursor[t] < n
    BY <1>1, <1>4 DEF TabOK, PageOK
  <2> QED BY <1>1, <2>1, LedgerTypes
<1>6. \A m \in mine : cursor[t] < m => n <= m
  <2>1. SUFFICES ASSUME NEW m \in mine, cursor[t] < m, m < n PROVE FALSE
    BY <1>5
  <2>2. m \in page[t]
    BY <1>1, <1>4, <2>1 DEF TabOK, PageOK
  <2> QED BY <1>3, <1>5, <2>1, <2>2
<1>7. /\ wire' \in [Tabs -> Seq(Frame)]
      /\ k \in Nat /\ Len(wire'[t]) = k + 1
      /\ DOMAIN wire[t] = 1..k /\ DOMAIN wire'[t] = 1..(k + 1)
      /\ \A i \in 1..k : wire'[t][i] = wire[t][i]
      /\ wire'[t][k + 1] = f
  <2>1. f \in Frame
    BY <1>5 DEF Frame
  <2>2. wire' = [wire EXCEPT ![t] = Append(@, f)]
    BY <1>3
  <2> HIDE DEF f
  <2> QED BY <1>1, <2>1, <2>2, Written
<1>8. TypeOK'
  <2>1. cursor' \in [Tabs -> 0..MaxSeq]
    BY <1>1, <1>3, <1>5 DEF TypeOK, Seqs
  <2>2. page' \in [Tabs -> SUBSET Seqs]
    BY <1>1, <1>3 DEF TypeOK
  <2>3. stream' \in [Tabs -> {"none", "round", "listing", "listed", "refused", "waiting"}]
    BY <1>1, <1>3 DEF TypeOK
  <2>4. waiter' \in [Tabs -> {"none", "armed", "change"}]
    BY <1>1 DEF TypeOK, WriteChange
  <2> QED BY <1>1, <1>2, <1>7, <2>1, <2>2, <2>3, <2>4 DEF TypeOK
<1>9. source[t] = "open" /\ At(t) <= cursor[t]
  BY <1>1, <1>4 DEF TabOK, SourceOK, CursorOK
<1>10. WaitOK(t)' /\ PrunedOK(t)'
  BY <1>3, <1>4 DEF WaitOK, PrunedOK
<1>11. PageOK(t)'
  <2>1. SUFFICES ASSUME NEW p \in page[t], p # n
                 PROVE  /\ p \in mine /\ n < p
                        /\ \A m \in mine : n < m /\ m < p => m \in page[t] /\ m # n
    BY <1>2, <1>4 DEF PageOK
  <2>2. p \in mine /\ n <= p /\ p \in Nat
    BY <1>1, <1>3, <1>4, <1>5 DEF TabOK, PageOK
  <2>3. ASSUME NEW m \in mine, n < m, m < p PROVE m \in page[t] /\ m # n
    <3>1. cursor[t] < m /\ m # n
      BY <1>5, <2>3
    <3> QED BY <1>1, <1>4, <2>3, <3>1 DEF TabOK, PageOK
  <2>4. n < p
    BY <1>5, <2>1, <2>2
  <2> QED BY <2>2, <2>3, <2>4
<1>12. SourceOK(t)' /\ SnapshotOK(t)'
  BY <1>1, <1>2, <1>4, <1>9 DEF TabOK, SourceOK, SnapshotOK
<1>13. CursorOK(t)'
  BY <1>1, <1>2, <1>4, <1>5, <1>9 DEF TabOK, CursorOK
<1>14. \A i \in 1..(k + 1) : i \in 1..k \/ i = k + 1
  BY <1>7
<1>15. ResyncIsLast(t)'
  <2>1. \A i \in 1..k : wire[t][i].event # "resync_required"
    BY <1>1, <1>4, <1>7 DEF TabOK, ResyncIsLast
  <2> QED BY <1>7, <1>14, <2>1 DEF ResyncIsLast
<1>16. PipeSound(t)'
  <2>1. ASSUME NEW i \in 1..k, wire[t][i].event = "change"
        PROVE  wire[t][i].id \in mine /\ At(t) < wire[t][i].id /\ wire[t][i].id <= n
    <3>1. wire[t][i].id \in mine /\ At(t) < wire[t][i].id /\ wire[t][i].id <= cursor[t]
      BY <1>1, <1>7, <2>1 DEF TabOK, PipeOK, PipeSound
    <3> DEFINE m == wire[t][i].id
    <3>2. m \in Nat /\ m <= cursor[t]
      BY <1>5, <3>1
    <3>3. m <= n
      BY <1>5, <3>2
    <3> QED BY <3>1, <3>3
  <2>2. f.id \in mine /\ At(t) < f.id /\ f.id <= n
    BY <1>5, <1>9
  <2> QED BY <1>2, <1>4, <1>7, <1>14, <2>1, <2>2 DEF PipeSound
<1>17. PipeOrdered(t)'
  <2>1. SUFFICES ASSUME NEW i \in 1..(k + 1), NEW j \in 1..(k + 1), i < j,
                        wire'[t][i].event = "change", wire'[t][j].event = "change"
                 PROVE  wire'[t][i].id < wire'[t][j].id
    BY <1>7 DEF PipeOrdered
  <2>2. i \in 1..k
    BY <1>7, <2>1
  <2>3. CASE j \in 1..k
    BY <1>1, <1>7, <2>1, <2>2, <2>3 DEF TabOK, PipeOK, PipeOrdered
  <2>4. CASE j = k + 1
    <3>1. wire[t][i].id \in mine /\ wire[t][i].id <= cursor[t]
      BY <1>1, <1>7, <2>1, <2>2 DEF TabOK, PipeOK, PipeSound
    <3> DEFINE m == wire[t][i].id
    <3>2. m \in Nat /\ m <= cursor[t]
      BY <1>5, <3>1
    <3>3. m < n
      BY <1>5, <3>2
    <3>4. wire'[t][i].id = m /\ wire'[t][j].id = n
      BY <1>7, <2>2, <2>4
    <3> QED BY <3>3, <3>4
  <2> QED BY <1>14, <2>3, <2>4
<1>18. PipeCovers(t)'
  <2>1. SUFFICES ASSUME NEW m \in mine, At(t) < m, m <= n
                 PROVE  \E i \in 1..(k + 1) : wire'[t][i].event = "change" /\ wire'[t][i].id = m
    BY <1>2, <1>4, <1>7 DEF PipeCovers
  <2>2. CASE m <= cursor[t]
    <3>1. PICK i \in 1..k : wire[t][i].event = "change" /\ wire[t][i].id = m
      BY <1>1, <1>7, <1>9, <2>1, <2>2 DEF TabOK, PipeOK, PipeCovers
    <3> QED BY <1>7, <3>1
  <2>3. CASE ~(m <= cursor[t])
    <3>1. m = n
      BY <1>5, <1>6, <2>1, <2>3
    <3> QED BY <1>7, <3>1
  <2> QED BY <2>2, <2>3
<1> QED BY <1>8, <1>10, <1>11, <1>12, <1>13, <1>15, <1>16, <1>17, <1>18 DEF TabOK, PipeOK

LEMMA RoundOK ==
  ASSUME IInv, NEW t \in Tabs, BeginRound(t) \/ Wait(t) \/ Woken(t) \/ Heartbeat(t)
  PROVE  TypeOK' /\ TabOK(t)'
<1>1. TypeOK /\ TabOK(t)
  BY DEF IInv
<1>2. UNCHANGED <<lastSeq, mine, floor, unpublished, cursor, page, wire, phase, snapshot,
                  source, url, lastEventId, faults>>
  BY DEF BeginRound, Wait, Woken, Heartbeat, ledger, client
<1>3. TypeOK'
  BY <1>1, <1>2 DEF BeginRound, Wait, Woken, Heartbeat, TypeOK
<1>4. At(t)' = At(t)
  BY <1>2 DEF At
<1>5. \/ stream[t] = "round" /\ stream'[t] = "listing" /\ waiter'[t] = "armed"
      \/ stream[t] = "listed" /\ page[t] = {} /\ stream'[t] = "waiting" /\ waiter' = waiter
      \/ stream[t] = "waiting" /\ stream'[t] = "round"
  BY <1>1 DEF BeginRound, Wait, Woken, Heartbeat, TypeOK
<1>6. WaitOK(t)' /\ PageOK(t)' /\ PrunedOK(t)'
  BY <1>1, <1>2, <1>5 DEF TabOK, WaitOK, PageOK, PrunedOK
<1>7. SourceOK(t)' /\ SnapshotOK(t)' /\ CursorOK(t)' /\ ResyncIsLast(t)'
  BY <1>1, <1>2, <1>4, <1>5 DEF TabOK, SourceOK, SnapshotOK, CursorOK, ResyncIsLast
<1>8. PipeOK(t)'
  BY <1>1, <1>2, <1>4 DEF TabOK, PipeOK, PipeSound, PipeOrdered, PipeCovers
<1> QED BY <1>3, <1>6, <1>7, <1>8 DEF TabOK

-----------------------------------------------------------------------------
(* The tab's steps.                                                        *)

LEMMA TakeSnapshotOK ==
  ASSUME IInv, NEW t \in Tabs, TakeSnapshot(t)
  PROVE  TypeOK' /\ TabOK(t)'
<1>1. TypeOK /\ TabOK(t)
  BY DEF IInv
<1>2. UNCHANGED <<lastSeq, mine, floor, unpublished, stream, cursor, waiter, page, wire,
                  phase, source, url, lastEventId, faults>>
  BY DEF TakeSnapshot, ledger, server
<1>3. Latest = lastSeq /\ lastSeq \in 0..MaxSeq /\ At(t)' = At(t)
  BY <1>1, <1>2, LedgerTypes DEF TypeOK, At
<1>4. snapshot' = [snapshot EXCEPT ![t] = lastSeq] /\ phase[t] \in {"boot", "resync"}
  BY <1>3 DEF TakeSnapshot
<1>5. TypeOK'
  BY <1>1, <1>2, <1>3, <1>4 DEF TypeOK
<1>6. SnapshotOK(t)'
  BY <1>1, <1>2, <1>3, <1>4 DEF TabOK, SnapshotOK, CursorOK, TypeOK
<1>7. WaitOK(t)' /\ PageOK(t)' /\ SourceOK(t)' /\ CursorOK(t)' /\ PrunedOK(t)'
  BY <1>1, <1>2, <1>3 DEF TabOK, WaitOK, PageOK, SourceOK, CursorOK, PrunedOK
<1>8. ResyncIsLast(t)' /\ PipeOK(t)'
  BY <1>1, <1>2, <1>3 DEF TabOK, ResyncIsLast, PipeOK, PipeSound, PipeOrdered, PipeCovers
<1> QED BY <1>5, <1>6, <1>7, <1>8 DEF TabOK

LEMMA ReloadOverOK ==
  ASSUME IInv, NEW t \in Tabs, Connect(t) \/ ReloadFails(t)
  PROVE  TypeOK' /\ TabOK(t)'
<1>1. TypeOK /\ TabOK(t)
  BY DEF IInv
<1>2. UNCHANGED <<lastSeq, mine, floor, unpublished, stream, cursor, waiter, page, wire>>
  BY DEF Connect, ReloadFails, ledger, server
<1>3. phase[t] \in {"boot", "resync"}
  BY <1>1 DEF Connect, ReloadFails, TabOK, SnapshotOK
<1>4. stream[t] = "none" /\ source[t] = "closed" /\ wire[t] = <<>> /\ snapshot'[t] = NoCursor
  BY <1>1, <1>3 DEF TabOK, SourceOK, TypeOK, Connect, ReloadFails
<1>5. wire'[t] = <<>> /\ DOMAIN wire'[t] = {} /\ stream'[t] = "none"
  BY <1>2, <1>4
<1>6. WaitOK(t)' /\ PageOK(t)' /\ PrunedOK(t)' /\ SnapshotOK(t)'
  BY <1>4, <1>5 DEF WaitOK, PageOK, PrunedOK, SnapshotOK
<1>7. ResyncIsLast(t)' /\ PipeSound(t)' /\ PipeOrdered(t)'
  BY <1>5 DEF ResyncIsLast, PipeSound, PipeOrdered
<1>8. CASE Connect(t)
  <2>1. snapshot[t] \in 0..MaxSeq /\ snapshot[t] <= lastSeq
    BY <1>1, <1>8 DEF TypeOK, Connect, TabOK, SnapshotOK
  <2>2. TypeOK'
    BY <1>1, <1>2, <1>8, <2>1 DEF TypeOK, Connect
  <2>3. phase'[t] = "live" /\ source'[t] = "connecting" /\ At(t)' = snapshot[t]
    BY <1>1, <1>8 DEF TypeOK, Connect, At
  <2>4. SourceOK(t)' /\ CursorOK(t)' /\ PipeCovers(t)'
    BY <1>1, <1>2, <1>5, <2>1, <2>3 DEF TabOK, SourceOK, CursorOK, PipeCovers
  <2> QED BY <1>6, <1>7, <2>2, <2>4 DEF TabOK, PipeOK
<1>9. CASE ReloadFails(t)
  <2>1. UNCHANGED <<source, url, lastEventId>> /\ phase'[t] \in {"boot", "down"}
    BY <1>1, <1>9 DEF ReloadFails, TypeOK
  <2>2. TypeOK'
    BY <1>1, <1>2, <1>9, <2>1 DEF TypeOK, ReloadFails
  <2>3. SourceOK(t)' /\ CursorOK(t)' /\ PipeCovers(t)'
    BY <1>1, <1>2, <1>4, <1>5, <2>1 DEF TabOK, SourceOK, CursorOK, PipeCovers, At
  <2> QED BY <1>6, <1>7, <2>2, <2>3 DEF TabOK, PipeOK
<1> QED BY <1>8, <1>9

LEMMA OpenOK ==
  ASSUME IInv, NEW t \in Tabs, Open(t)
  PROVE  TypeOK' /\ TabOK(t)'
<1>1. TypeOK /\ TabOK(t)
  BY DEF IInv
<1>2. UNCHANGED <<lastSeq, mine, floor, unpublished, waiter, wire, phase, snapshot, url,
                  lastEventId, faults>>
  BY DEF Open, ledger
<1>3. At(t) \in 0..MaxSeq /\ RequestCursor(t) = At(t) /\ At(t)' = At(t)
  BY <1>1, <1>2, LedgerTypes DEF At
<1>4. wire[t] = <<>> /\ DOMAIN wire'[t] = {} /\ source[t] = "connecting"
  BY <1>1, <1>2 DEF Open, TabOK, SourceOK
<1>5. cursor'[t] = At(t) /\ source'[t] = "open" /\ stream'[t] = "round"
  BY <1>1, <1>3 DEF Open, TypeOK
<1>6. TypeOK'
  BY <1>1, <1>2, <1>3 DEF TypeOK, Open
<1>7. WaitOK(t)' /\ PageOK(t)' /\ PrunedOK(t)' /\ SourceOK(t)'
  BY <1>1, <1>2, <1>4, <1>5 DEF TabOK, WaitOK, PageOK, PrunedOK, SourceOK
<1>8. SnapshotOK(t)' /\ CursorOK(t)'
  BY <1>1, <1>2, <1>3, <1>5 DEF TabOK, SnapshotOK, CursorOK
<1>9. ResyncIsLast(t)' /\ PipeSound(t)' /\ PipeOrdered(t)'
  BY <1>4 DEF ResyncIsLast, PipeSound, PipeOrdered
<1>10. PipeCovers(t)'
  <2>1. \A n \in mine : n \in Nat
    BY <1>1, LedgerTypes
  <2> QED BY <1>2, <1>3, <1>5, <2>1 DEF PipeCovers
<1> QED BY <1>6, <1>7, <1>8, <1>9, <1>10 DEF TabOK, PipeOK

\* The frame a tab reads next.
LEMMA Read ==
  ASSUME TypeOK, NEW t \in Tabs, wire[t] # <<>>
  PROVE  /\ Head(wire[t]) = wire[t][1] /\ Head(wire[t]) \in Frame
         /\ Tail(wire[t]) \in Seq(Frame)
         /\ Len(wire[t]) \in Nat /\ Len(wire[t]) >= 1
         /\ Len(Tail(wire[t])) = Len(wire[t]) - 1
         /\ DOMAIN wire[t] = 1..Len(wire[t])
         /\ DOMAIN Tail(wire[t]) = 1..(Len(wire[t]) - 1)
         /\ \A i \in 1..(Len(wire[t]) - 1) : Tail(wire[t])[i] = wire[t][i + 1]
<1>1. wire[t] \in Seq(Frame)
  BY DEF TypeOK
<1> QED BY <1>1, TailFacts

\* The change a tab reads is the next one of its viewer.
LEMMA ReadIsNext ==
  ASSUME IInv, NEW t \in Tabs, ReceiveChange(t)
  PROVE  LET h == Head(wire[t]).id
         IN /\ h \in mine /\ h \in Seqs /\ At(t) < h /\ h <= cursor[t]
            /\ \A m \in mine : At(t) < m => h <= m
            /\ \A i \in DOMAIN wire[t] : i # 1 /\ wire[t][i].event = "change" => h < wire[t][i].id
<1> DEFINE h == Head(wire[t]).id
<1>1. TypeOK /\ TabOK(t) /\ wire[t] # <<>> /\ source[t] = "open"
      /\ Head(wire[t]).event = "change"
  BY DEF IInv, ReceiveChange
<1>2. 1 \in DOMAIN wire[t] /\ Head(wire[t]) = wire[t][1] /\ DOMAIN wire[t] = 1..Len(wire[t])
      /\ Len(wire[t]) \in Nat
  BY <1>1, Read
<1>3. h \in mine /\ At(t) < h /\ h <= cursor[t]
  BY <1>1, <1>2 DEF TabOK, PipeOK, PipeSound
<1>4. h \in Seqs /\ h \in Nat /\ cursor[t] \in Nat /\ \A m \in mine : m \in Nat
  BY <1>1, <1>3, LedgerTypes
<1>5. ASSUME NEW i \in DOMAIN wire[t], i # 1, wire[t][i].event = "change" PROVE h < wire[t][i].id
  <2>1. 1 < i
    BY <1>2, <1>5
  <2> QED BY <1>1, <1>2, <1>5, <2>1 DEF TabOK, PipeOK, PipeOrdered
<1>6. ASSUME NEW m \in mine, At(t) < m PROVE h <= m
  <2>1. CASE m <= cursor[t]
    <3>1. PICK i \in DOMAIN wire[t] : wire[t][i].event = "change" /\ wire[t][i].id = m
      BY <1>1, <1>6, <2>1 DEF TabOK, PipeOK, PipeCovers
    <3>2. i = 1 => m = h
      BY <1>2, <3>1
    <3>3. i # 1 => h < m
      BY <1>5, <3>1
    <3> QED BY <1>4, <3>2, <3>3
  <2>2. CASE ~(m <= cursor[t])
    BY <1>3, <1>4, <2>2
  <2> QED BY <2>1, <2>2
<1> QED BY <1>3, <1>4, <1>5, <1>6

LEMMA ReceiveChangeOK ==
  ASSUME IInv, NEW t \in Tabs, ReceiveChange(t)
  PROVE  TypeOK' /\ TabOK(t)'
<1> DEFINE h == Head(wire[t]).id
           k == Len(wire[t]) - 1
<1>1. TypeOK /\ TabOK(t) /\ source[t] = "open" /\ wire[t] # <<>>
  BY DEF IInv, ReceiveChange
<1>2. UNCHANGED <<lastSeq, mine, floor, unpublished, stream, cursor, waiter, page, phase,
                  snapshot, source, url, faults>>
  BY DEF ReceiveChange, ledger, server
<1>3. /\ h \in mine /\ h \in Seqs /\ At(t) < h /\ h <= cursor[t]
      /\ \A m \in mine : At(t) < m => h <= m
      /\ \A i \in DOMAIN wire[t] : i # 1 /\ wire[t][i].event = "change" => h < wire[t][i].id
  BY ReadIsNext
<1>4. lastEventId' = [lastEventId EXCEPT ![t] = h] /\ wire' = [wire EXCEPT ![t] = Tail(wire[t])]
  BY DEF ReceiveChange
<1>5. /\ Tail(wire[t]) \in Seq(Frame) /\ k \in Nat /\ DOMAIN wire[t] = 1..(k + 1)
      /\ Len(wire[t]) = k + 1 /\ Len(Tail(wire[t])) = k /\ DOMAIN Tail(wire[t]) = 1..k
      /\ \A i \in 1..k : Tail(wire[t])[i] = wire[t][i + 1]
  BY <1>1, Read
<1>6. wire'[t] = Tail(wire[t]) /\ lastEventId'[t] = h
  BY <1>1, <1>4 DEF TypeOK
<1>7. TypeOK'
  <2>1. lastEventId' \in [Tabs -> 0..MaxSeq]
    BY <1>1, <1>3, <1>4 DEF TypeOK, Seqs
  <2>2. wire' \in [Tabs -> Seq(Frame)]
    BY <1>1, <1>4, <1>5 DEF TypeOK
  <2> QED BY <1>1, <1>2, <2>1, <2>2 DEF TypeOK
<1>8. At(t)' = h
  BY <1>3, <1>6 DEF At, Seqs
<1>9. At(t) \in Nat /\ cursor[t] \in Nat /\ lastSeq \in Nat /\ cursor[t] <= lastSeq /\ h \in Nat
      /\ \A m \in mine : m \in Nat
  BY <1>1, <1>3, LedgerTypes DEF TabOK, CursorOK, Seqs
<1>10. \A i \in 1..k : i + 1 \in 1..(k + 1) /\ i + 1 # 1 /\ wire'[t][i] = wire[t][i + 1]
  BY <1>5, <1>6
<1>11. WaitOK(t)' /\ PageOK(t)' /\ PrunedOK(t)'
  BY <1>1, <1>2 DEF TabOK, WaitOK, PageOK, PrunedOK
<1>12. SourceOK(t)' /\ SnapshotOK(t)'
  BY <1>1, <1>2 DEF TabOK, SourceOK, SnapshotOK
<1>13. CursorOK(t)'
  BY <1>2, <1>3, <1>8, <1>9 DEF CursorOK
<1>14. ResyncIsLast(t)'
  <2>1. SUFFICES ASSUME NEW i \in 1..k, wire[t][i + 1].event = "resync_required"
                 PROVE  i = k /\ stream[t] = "none"
    BY <1>2, <1>5, <1>6, <1>10 DEF ResyncIsLast
  <2>2. i + 1 = k + 1 /\ stream[t] = "none"
    BY <1>1, <1>5, <1>10, <2>1 DEF TabOK, ResyncIsLast
  <2> QED BY <1>5, <2>2
<1>15. PipeSound(t)'
  <2>1. SUFFICES ASSUME NEW i \in 1..k, wire[t][i + 1].event = "change"
                 PROVE  wire[t][i + 1].id \in mine /\ h < wire[t][i + 1].id
                        /\ wire[t][i + 1].id <= cursor[t]
    BY <1>2, <1>5, <1>6, <1>8, <1>10 DEF PipeSound
  <2> QED BY <1>1, <1>3, <1>5, <1>10, <2>1 DEF TabOK, PipeOK, PipeSound
<1>16. PipeOrdered(t)'
  <2>1. SUFFICES ASSUME NEW i \in 1..k, NEW j \in 1..k, i < j,
                        wire'[t][i].event = "change", wire'[t][j].event = "change"
                 PROVE  wire'[t][i].id < wire'[t][j].id
    BY <1>5, <1>6 DEF PipeOrdered
  <2>2. i + 1 < j + 1 /\ i + 1 \in DOMAIN wire[t] /\ j + 1 \in DOMAIN wire[t]
    BY <1>5, <1>10, <2>1
  <2>3. wire'[t][i] = wire[t][i + 1] /\ wire'[t][j] = wire[t][j + 1]
    BY <1>10
  <2> QED BY <1>1, <2>1, <2>2, <2>3 DEF TabOK, PipeOK, PipeOrdered
<1>17. PipeCovers(t)'
  <2>1. SUFFICES ASSUME NEW m \in mine, h < m, m <= cursor[t]
                 PROVE  \E i \in 1..k : wire'[t][i].event = "change" /\ wire'[t][i].id = m
    BY <1>2, <1>5, <1>6, <1>8 DEF PipeCovers
  <2>2. At(t) < m
    BY <1>3, <1>9, <2>1
  <2>3. PICK j \in 1..(k + 1) : wire[t][j].event = "change" /\ wire[t][j].id = m
    BY <1>1, <1>5, <2>1, <2>2 DEF TabOK, PipeOK, PipeCovers
  <2>4. j # 1
    <3>1. wire[t][1].id = h
      BY <1>1, Read
    <3>2. m # h
      BY <1>9, <2>1
    <3> QED BY <2>3, <3>1, <3>2
  <2>5. j - 1 \in 1..k /\ (j - 1) + 1 = j
    BY <1>5, <2>4
  <2>6. wire'[t][j - 1] = wire[t][j]
    BY <1>10, <2>5
  <2> QED BY <2>3, <2>5, <2>6
<1> QED BY <1>7, <1>11, <1>12, <1>13, <1>14, <1>15, <1>16, <1>17 DEF TabOK, PipeOK

LEMMA ReceiveResyncOK ==
  ASSUME IInv, NEW t \in Tabs, ReceiveResync(t)
  PROVE  TypeOK' /\ TabOK(t)'
<1>1. TypeOK /\ TabOK(t) /\ source[t] = "open" /\ wire[t] # <<>>
  BY DEF IInv, ReceiveResync
<1>2. UNCHANGED <<lastSeq, mine, floor, unpublished, stream, cursor, waiter, page, snapshot,
                  url, lastEventId, faults>>
  BY DEF ReceiveResync, ledger, server
<1>3. source'[t] = "closed" /\ phase'[t] = "resync" /\ wire'[t] = <<>> /\ DOMAIN wire'[t] = {}
  BY <1>1 DEF ReceiveResync, TypeOK
<1>4. TypeOK'
  <2>1. <<>> \in Seq(Frame)
    OBVIOUS
  <2>2. wire' \in [Tabs -> Seq(Frame)]
    BY <1>1, <2>1 DEF ReceiveResync, TypeOK
  <2> QED BY <1>1, <1>2, <2>2 DEF TypeOK, ReceiveResync
<1>5. stream[t] = "none" /\ At(t)' = At(t) /\ snapshot[t] = NoCursor
  <2>1. stream[t] = "none"
    BY <1>1, Read DEF TabOK, ResyncIsLast, ReceiveResync
  <2>2. phase[t] = "live"
    BY <1>1 DEF TabOK, SourceOK
  <2> QED BY <1>1, <1>2, <2>1, <2>2 DEF TabOK, SnapshotOK, At
<1>6. WaitOK(t)' /\ PageOK(t)' /\ PrunedOK(t)' /\ SourceOK(t)' /\ SnapshotOK(t)'
  BY <1>2, <1>3, <1>5 DEF WaitOK, PageOK, PrunedOK, SourceOK, SnapshotOK
<1>7. CursorOK(t)'
  BY <1>1, <1>2, <1>3, <1>5 DEF TabOK, CursorOK
<1>8. ResyncIsLast(t)' /\ PipeOK(t)'
  BY <1>3 DEF ResyncIsLast, PipeOK, PipeSound, PipeOrdered, PipeCovers
<1> QED BY <1>4, <1>6, <1>7, <1>8 DEF TabOK

LEMMA DisconnectedOK ==
  ASSUME IInv, NEW T \in SUBSET Tabs, Disconnected(T), unpublished' \in 0..unpublished,
         unpublished' # unpublished => T = Tabs
  PROVE  IInv'
<1>1. TypeOK /\ unpublished <= lastSeq
  BY DEF IInv
<1>2. UNCHANGED <<lastSeq, mine, floor, cursor, page, phase, snapshot, url, lastEventId>>
  BY DEF Disconnected, ledger
<1>3. TypeOK'
  <2>1. stream' \in [Tabs -> {"none", "round", "listing", "listed", "refused", "waiting"}]
        /\ waiter' \in [Tabs -> {"none", "armed", "change"}]
        /\ source' \in [Tabs -> {"closed", "connecting", "open"}]
    BY <1>1 DEF Disconnected, TypeOK
  <2>2. wire' \in [Tabs -> Seq(Frame)]
    <3>1. <<>> \in Seq(Frame)
      OBVIOUS
    <3> QED BY <1>1, <3>1 DEF Disconnected, TypeOK
  <2>3. unpublished' \in 0..MaxSeq /\ faults' \in 0..MaxFaults
    BY <1>1 DEF Disconnected, TypeOK
  <2> QED BY <1>1, <1>2, <2>1, <2>2, <2>3 DEF TypeOK
<1>4. unpublished' <= lastSeq'
  BY <1>1, <1>2 DEF TypeOK
<1>5. ASSUME NEW t \in Tabs PROVE TabOK(t)'
  <2>1. TabOK(t) /\ At(t)' = At(t)
    BY <1>2 DEF IInv, At
  <2>2. CASE t \notin T
    <3>1. UNCHANGED <<lastSeq, mine, floor, unpublished>>
      BY <1>2, <2>2
    <3>2. Untouched(t)
      BY <1>1, <1>2, <2>2, <3>1 DEF Disconnected, Untouched, TypeOK, ledger
    <3> QED BY <2>1, <3>2, UntouchedStaysOK
  <2>3. CASE t \in T
    <3>1. stream'[t] = "none" /\ wire'[t] = <<>> /\ DOMAIN wire'[t] = {}
          /\ source'[t] = IF source[t] = "open" THEN "connecting" ELSE source[t]
      BY <2>3 DEF Disconnected
    <3>2. WaitOK(t)' /\ PageOK(t)' /\ PrunedOK(t)'
      BY <3>1 DEF WaitOK, PageOK, PrunedOK
    <3>3. SourceOK(t)' /\ SnapshotOK(t)' /\ CursorOK(t)'
      BY <1>2, <2>1, <3>1 DEF TabOK, SourceOK, SnapshotOK, CursorOK
    <3>4. ResyncIsLast(t)' /\ PipeOK(t)'
      BY <3>1 DEF ResyncIsLast, PipeOK, PipeSound, PipeOrdered, PipeCovers
    <3> QED BY <3>2, <3>3, <3>4 DEF TabOK
  <2> QED BY <2>2, <2>3
<1> QED BY <1>3, <1>4, <1>5 DEF IInv

-----------------------------------------------------------------------------
(* The invariant holds.                                                    *)

LEMMA InitOK == Init => IInv
<1> SUFFICES ASSUME Init PROVE IInv
  OBVIOUS
<1>1. TypeOK
  <2>1. <<>> \in Seq(Frame)
    OBVIOUS
  <2> QED BY <2>1 DEF Init, TypeOK
<1>2. ASSUME NEW t \in Tabs PROVE TabOK(t)
  <2>1. stream[t] = "none" /\ wire[t] = <<>> /\ DOMAIN wire[t] = {} /\ source[t] = "closed"
        /\ phase[t] = "boot" /\ snapshot[t] = NoCursor /\ At(t) = 0 /\ cursor[t] = 0
        /\ lastSeq = 0
    BY DEF Init, At
  <2>2. WaitOK(t) /\ PageOK(t) /\ SourceOK(t) /\ SnapshotOK(t) /\ CursorOK(t) /\ PrunedOK(t)
    BY <2>1 DEF WaitOK, PageOK, SourceOK, SnapshotOK, CursorOK, PrunedOK
  <2>3. ResyncIsLast(t) /\ PipeOK(t)
    BY <2>1 DEF ResyncIsLast, PipeOK, PipeSound, PipeOrdered, PipeCovers
  <2> QED BY <2>2, <2>3 DEF TabOK
<1>3. unpublished <= lastSeq
  BY DEF Init
<1> QED BY <1>1, <1>2, <1>3 DEF IInv

\* A step of the stream or the tab, but for a dropped connection.
LEMMA TabStepOK ==
  ASSUME IInv, NEW t \in Tabs, ServerNext(t) \/ (ClientNext(t) /\ ~Drop(t))
  PROVE  IInv'
<1>1. TypeOK' /\ TabOK(t)'
  <2>1. CASE BeginRound(t) \/ Wait(t) \/ Woken(t) \/ Heartbeat(t)
    BY <2>1, RoundOK
  <2>2. CASE ListChanges(t) \/ WriteResync(t) \/ WriteChange(t)
    BY <2>2, ListChangesOK, WriteResyncOK, WriteChangeOK
  <2>3. CASE TakeSnapshot(t) \/ Connect(t) \/ ReloadFails(t) \/ Open(t)
    BY <2>3, TakeSnapshotOK, ReloadOverOK, OpenOK
  <2>4. CASE ReceiveChange(t) \/ ReceiveResync(t)
    BY <2>4, ReceiveChangeOK, ReceiveResyncOK
  <2> QED BY <2>1, <2>2, <2>3, <2>4 DEF ServerNext, ClientNext
<1>2. \A u \in Tabs : TabOK(u)'
  BY <1>1, OtherTabs
<1>3. UNCHANGED <<lastSeq, unpublished>>
  <2>1. ServerNext(t) => UNCHANGED <<lastSeq, unpublished>>
    BY DEF ServerNext, BeginRound, ListChanges, WriteResync, WriteChange, Wait, Woken,
           Heartbeat, ledger
  <2>2. ClientNext(t) /\ ~Drop(t) => UNCHANGED <<lastSeq, unpublished>>
    BY DEF ClientNext, TakeSnapshot, Connect, ReloadFails, Open, ReceiveChange,
           ReceiveResync, ledger
  <2> QED BY <2>1, <2>2
<1> QED BY <1>1, <1>2, <1>3 DEF IInv

LEMMA StutterOK == IInv /\ UNCHANGED vars => IInv'
<1> SUFFICES ASSUME IInv, UNCHANGED vars PROVE IInv'
  OBVIOUS
<1>1. UNCHANGED <<lastSeq, mine, floor, unpublished, stream, cursor, waiter, page, wire,
                  phase, snapshot, source, url, lastEventId, faults>>
  BY DEF vars, ledger, server, client
<1>2. TypeOK'
  BY <1>1 DEF IInv, TypeOK
<1>3. ASSUME NEW t \in Tabs PROVE TabOK(t)'
  <2>1. Untouched(t) /\ TabOK(t)
    BY <1>1 DEF Untouched, ledger, IInv
  <2> QED BY <2>1, UntouchedStaysOK
<1> QED BY <1>1, <1>2, <1>3 DEF IInv

LEMMA StepOK == IInv /\ [Next]_vars => IInv'
<1> SUFFICES ASSUME IInv, [Next]_vars PROVE IInv'
  OBVIOUS
<1>1. ASSUME NEW t \in Tabs, Drop(t) PROVE IInv'
  <2>1. unpublished' = unpublished /\ unpublished \in Nat
    BY <1>1 DEF Drop, IInv, TypeOK
  <2> QED BY <1>1, <2>1, DisconnectedOK DEF Drop
<1>2. CASE Restart
  <2>1. unpublished' \in 0..unpublished
    BY <1>2 DEF Restart, IInv, TypeOK
  <2> QED BY <1>2, <2>1, DisconnectedOK DEF Restart
<1> QED
  BY <1>1, <1>2, CommitOK, PublishOK, PruneOK, TabStepOK, StutterOK DEF Next, ClientNext

\* Every reachable state satisfies the inductive invariant.
THEOREM Inductive == Spec => []IInv
<1> QED BY InitOK, StepOK, PTL DEF Spec

\* Type correctness, for any number of tabs, changes and faults.
THEOREM TypeCorrect == Spec => []TypeOK
<1>1. IInv => TypeOK
  BY DEF IInv
<1> QED BY <1>1, Inductive, PTL

\* No change is left to the heartbeat: prepareWait comes before listChanges.
THEOREM NoWakeupLost == Spec => []NoLostWakeup
<1>1. IInv => NoLostWakeup
  BY DEF IInv, NoLostWakeup, TabOK, WaitOK
<1> QED BY <1>1, Inductive, PTL

\* The connection of a tab holds the viewer's changes between tab and stream.
THEOREM PipeAlwaysExact == Spec => []PipeIsExact
<1>1. ASSUME IInv, NEW t \in Tabs, source[t] = "open"
      PROVE  LET changes == {i \in DOMAIN wire[t] : wire[t][i].event = "change"}
             IN /\ {wire[t][i].id : i \in changes} = {n \in mine : At(t) < n /\ n <= cursor[t]}
                /\ \A i, j \in changes : i < j => wire[t][i].id < wire[t][j].id
  BY <1>1 DEF IInv, TabOK, PipeOK, PipeSound, PipeOrdered, PipeCovers
<1>2. IInv => PipeIsExact
  BY <1>1 DEF PipeIsExact
<1> QED BY <1>2, Inductive, PTL

\* Only retention makes a tab reload.
THEOREM OnlyPrunedResyncs == Spec => []ResyncOnlyWhenPruned
<1>1. IInv => ResyncOnlyWhenPruned
  BY DEF IInv, TabOK, PrunedOK, ResyncOnlyWhenPruned
<1> QED BY <1>1, Inductive, PTL

-----------------------------------------------------------------------------
(* The feed implements the abstract replay.                                *)

AtOf == [t \in Tabs |-> At(t)]
Following == {t \in Tabs : phase[t] = "live"}

LEMMA InitRefines == Init => Replay!Init
<1> SUFFICES ASSUME Init PROVE Replay!Init
  OBVIOUS
<1>1. lastSeq = 0 /\ mine = {} /\ AtOf = [t \in Tabs |-> 0] /\ Following = {}
  BY DEF Init, At, AtOf, Following
<1> QED BY <1>1 DEF Replay!Init, AtOf, Following

\* A step that tells nothing, loses nothing and reloads nothing.
LEMMA Stutters ==
  ASSUME UNCHANGED <<lastSeq, mine, url, lastEventId>>, Following' = Following
  PROVE  UNCHANGED Replay!vars
BY DEF Replay!vars, Following, At

LEMMA ReceiveTells ==
  ASSUME IInv, NEW t \in Tabs, ReceiveChange(t)
  PROVE  Replay!Tell(t)
<1> DEFINE h == Head(wire[t]).id
<1>1. TypeOK /\ TabOK(t)
  BY DEF IInv
<1>2. h \in mine /\ h \in Seqs /\ At(t) < h /\ \A m \in mine : At(t) < m => h <= m
  BY ReadIsNext
<1>3. lastEventId' = [lastEventId EXCEPT ![t] = h]
      /\ UNCHANGED <<lastSeq, mine, phase, url>>
  BY DEF ReceiveChange, ledger
<1>4. h # 0
  BY <1>2 DEF Seqs
<1> HIDE DEF h
<1>5. AtOf' = [AtOf EXCEPT ![t] = h]
  BY <1>1, <1>3, <1>4 DEF AtOf, At, TypeOK
<1>6. t \in Following /\ Following' = Following
  BY <1>1, <1>3 DEF Following, TabOK, SourceOK, ReceiveChange
<1>7. AtOf[t] = At(t)
  BY DEF AtOf
<1> QED BY <1>2, <1>3, <1>5, <1>6, <1>7 DEF Replay!Tell, AtOf, Following

LEMMA ConnectReloads ==
  ASSUME IInv, NEW t \in Tabs, Connect(t)
  PROVE  Replay!Reload(t)
<1>1. TypeOK /\ TabOK(t)
  BY DEF IInv
<1>2. UNCHANGED <<lastSeq, mine>>
  BY DEF Connect, ledger
<1>3. t \notin Following /\ Following' = Following \cup {t}
  BY <1>1 DEF Following, Connect, TypeOK, TabOK, SnapshotOK
<1>4. AtOf' = [AtOf EXCEPT ![t] = snapshot[t]]
  BY <1>1 DEF AtOf, At, Connect, TypeOK
<1>5. snapshot[t] \in AtOf[t]..lastSeq
  <2>1. AtOf[t] = At(t) /\ At(t) \in Nat /\ lastSeq \in Nat
    BY <1>1, LedgerTypes DEF AtOf
  <2>2. snapshot[t] \in Nat /\ At(t) <= snapshot[t] /\ snapshot[t] <= lastSeq
    BY <1>1 DEF Connect, TypeOK, TabOK, SnapshotOK
  <2> QED BY <2>1, <2>2
<1> QED BY <1>2, <1>3, <1>4, <1>5 DEF Replay!Reload, AtOf, Following

LEMMA ResyncLoses ==
  ASSUME IInv, NEW t \in Tabs, ReceiveResync(t)
  PROVE  Replay!Lose(t)
<1>1. UNCHANGED <<lastSeq, mine, url, lastEventId>>
  BY DEF ReceiveResync, ledger
<1>2. Following' = Following \ {t}
  BY DEF Following, ReceiveResync, IInv, TypeOK
<1>3. AtOf' = AtOf
  BY <1>1 DEF AtOf, At
<1> QED BY <1>1, <1>2, <1>3 DEF Replay!Lose, AtOf, Following

LEMMA StepRefines == IInv /\ [Next]_vars => [Replay!Next]_Replay!vars
<1> SUFFICES ASSUME IInv, [Next]_vars PROVE [Replay!Next]_Replay!vars
  OBVIOUS
<1>1. CASE Commit
  <2>1. UNCHANGED <<phase, url, lastEventId>> /\ AtOf' = AtOf /\ Following' = Following
    BY <1>1 DEF Commit, client, AtOf, At, Following
  <2>2. Replay!Commit
    BY <1>1, <2>1 DEF Commit, Replay!Commit, AtOf, Following
  <2> QED BY <2>2 DEF Replay!Next
<1>2. CASE Publish \/ Prune \/ Restart \/ UNCHANGED vars
  <2>1. UNCHANGED <<lastSeq, mine, phase, url, lastEventId>>
    BY <1>2 DEF Publish, Prune, Restart, Disconnected, vars, ledger, client
  <2> QED BY <2>1, Stutters DEF Following
<1>3. ASSUME NEW t \in Tabs, ServerNext(t) PROVE UNCHANGED Replay!vars
  <2>1. UNCHANGED <<lastSeq, mine, phase, url, lastEventId>>
    BY <1>3 DEF ServerNext, BeginRound, ListChanges, WriteResync, WriteChange, Wait, Woken,
                Heartbeat, ledger, client
  <2> QED BY <2>1, Stutters DEF Following
<1>4. ASSUME NEW t \in Tabs, TakeSnapshot(t) \/ Open(t) \/ Drop(t) PROVE UNCHANGED Replay!vars
  <2>1. UNCHANGED <<lastSeq, mine, phase, url, lastEventId>>
    BY <1>4 DEF TakeSnapshot, Open, Drop, Disconnected, ledger
  <2> QED BY <2>1, Stutters DEF Following
<1>5. ASSUME NEW t \in Tabs, ReloadFails(t) PROVE UNCHANGED Replay!vars
  <2>1. UNCHANGED <<lastSeq, mine, url, lastEventId>>
    BY <1>5 DEF ReloadFails, ledger
  <2>2. Following' = Following
    BY <1>5 DEF ReloadFails, Following, IInv, TypeOK
  <2> QED BY <2>1, <2>2, Stutters
<1>6. ASSUME NEW t \in Tabs, ReceiveChange(t) \/ Connect(t) \/ ReceiveResync(t)
      PROVE  Replay!Next
  BY <1>6, ReceiveTells, ConnectReloads, ResyncLoses DEF Replay!Next
<1> QED
  BY <1>1, <1>2, <1>3, <1>4, <1>5, <1>6 DEF Next, ClientNext

\* A tab is told every change of its viewer once and in order while it follows,
\* and re-reads everything, not before where it was, when it no longer can.
THEOREM FeedImplementsReplay == Spec => ImplementsReplay
<1>1. QED
  BY Inductive, InitRefines, StepRefines, PTL DEF Spec, ImplementsReplay, Replay!Spec
=============================================================================
