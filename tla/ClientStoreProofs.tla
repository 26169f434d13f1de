------------------------- MODULE ClientStoreProofs --------------------------
(***************************************************************************)
(* Theorems about ClientStore, for every value of its constants: any       *)
(* Channels, page sizes, number of calls in flight, Messages and faults.   *)
(***************************************************************************)
EXTENDS ClientStore, TLAPS, FiniteSetTheorems

USE NoChannelAssumption, PagesAssumption, BoundsAssumption

-----------------------------------------------------------------------------
(* The inductive invariant.                                                *)

\* A reload is under way exactly in the two modes of it, from a snapshot that
\* is not older than what the tab has seen; once started, a Channel is active.
LoadOK ==
  /\ mode \in {"live", "resyncing", "down"} => active \in Channels
  /\ step # "none" <=> mode \in {"opening", "resyncing"}
  /\ step = "tail" => mode = "resyncing"
  /\ Old <= at /\ Old <= Len(posts)
  /\ step \in {"seed", "tail"} => at <= cursor

\* What is shown of a list up to seq has no holes.
WholeUpTo(c, seq) == \A n \in In(c) : n <= seq => n \in shown[c]

\* An answer holds every Message from where it starts to where it ends.
PageWhole(call) ==
  /\ call.page \subseteq 1..Len(posts)
  /\ \A n \in In(call.ch) : call.after < n /\ n <= MaxSeq(call.page) => n \in call.page

\* A read of older Messages starts where the list is still whole, and none
\* lives through a resync.
OlderOK(s) ==
  calls[s].kind = "older" =>
    /\ mode # "resyncing"
    /\ calls[s].after <= Len(posts)
    /\ WholeUpTo(calls[s].ch, calls[s].after)
    /\ PageWhole(calls[s])

HeadOK ==
  /\ \A c \in Channels : headCursor[c] <= Len(posts) /\ WholeUpTo(c, headCursor[c])
  /\ \A s \in Slots : OlderOK(s)

IInv == TypeOK /\ LoadOK /\ HeadOK

-----------------------------------------------------------------------------
(* Facts about data.                                                       *)

LEMMA AppendFacts ==
  ASSUME NEW S, NEW s \in Seq(S), NEW e \in S
  PROVE  /\ Append(s, e) \in Seq(S)
         /\ Len(Append(s, e)) = Len(s) + 1 /\ Len(s) \in Nat
         /\ \A i \in 1..Len(s) : Append(s, e)[i] = s[i]
OBVIOUS

\* A set of Messages that is not empty has a last one.  (Were there none, adding one
\* would map the numbers under the set one-to-one into themselves, and so onto
\* themselves: 1 would be the image of 0.)
LEMMA LastOfSet ==
  ASSUME NEW k \in Nat, NEW T \in SUBSET (1..k), T # {}
  PROVE  \E x \in T : \A y \in T : y <= x
<1> SUFFICES ASSUME \A x \in T : \E y \in T : x < y PROVE FALSE
  OBVIOUS
<1> DEFINE U == {y \in 1..k : \E x \in T : y <= x}
           f == [y \in U |-> y + 1]
<1>1. IsFiniteSet(U)
  <2>1. U \in SUBSET (1..k) /\ IsFiniteSet(1..k)
    BY FS_Interval
  <2> QED BY <2>1, FS_Subset
<1>2. ASSUME NEW y \in U PROVE y + 1 \in U
  <2>1. PICK x \in T : y <= x
    OBVIOUS
  <2>2. PICK z \in T : x < z
    OBVIOUS
  <2> QED BY <2>1, <2>2
<1>3. f \in Injection(U, U)
  <2>1. f \in [U -> U]
    BY <1>2
  <2>2. \A y, z \in U : f[y] = f[z] => y = z
    OBVIOUS
  <2> QED BY <2>1, <2>2 DEF Injection, IsInjective
<1>4. f \in Surjection(U, U)
  BY <1>1, <1>3, FS_Injection
<1>5. 1 \in U
  <2>1. PICK x \in T : TRUE
    OBVIOUS
  <2> QED BY <2>1
<1>6. PICK y \in U : f[y] = 1
  BY <1>4, <1>5 DEF Surjection
<1> QED BY <1>6

LEMMA MaxSeqFacts ==
  ASSUME NEW k \in Nat, NEW T \in SUBSET (1..k)
  PROVE  /\ MaxSeq(T) \in 0..k
         /\ \A n \in T : n <= MaxSeq(T)
         /\ T # {} => MaxSeq(T) \in T
<1>1. CASE T = {}
  BY <1>1 DEF MaxSeq
<1>2. CASE T # {}
  <2>1. \E x \in T : \A y \in T : y <= x
    BY <1>2, LastOfSet
  <2>2. MaxSeq(T) = CHOOSE x \in T : \A y \in T : y <= x
    BY <1>2 DEF MaxSeq
  <2>3. MaxSeq(T) \in T /\ \A y \in T : y <= MaxSeq(T)
    BY <2>1, <2>2
  <2>4. MaxSeq(T) \in 1..k
    BY <2>3
  <2>5. MaxSeq(T) \in 0..k
    BY <2>4
  <2> QED BY <2>3, <2>5
<1> QED BY <1>1, <1>2

LEMMA HistoryFacts ==
  ASSUME TypeOK, NEW c \in Channels
  PROVE  /\ Len(posts) \in 0..MaxPosts
         /\ In(c) \in SUBSET (1..Len(posts)) /\ 1..Len(posts) \subseteq Posts
         /\ IsFiniteSet(In(c)) /\ Cardinality(In(c)) \in 0..MaxPosts
<1>1. Len(posts) \in Nat /\ Len(posts) <= MaxPosts
  BY DEF TypeOK
<1>2. In(c) \in SUBSET (1..Len(posts)) /\ 1..Len(posts) \subseteq Posts
  BY <1>1 DEF In, Posts
<1>3. IsFiniteSet(1..Len(posts)) /\ Cardinality(1..Len(posts)) = Len(posts)
  <2> DEFINE len == Len(posts)
  <2>1. len \in Int /\ 1 \in Int
    BY <1>1
  <2> HIDE DEF len
  <2>2. IsFiniteSet(1..len)
        /\ Cardinality(1..len) = (IF 1 > len THEN 0 ELSE len - 1 + 1)
    BY <2>1, FS_Interval
  <2>3. len \in Nat
    BY <1>1 DEF len
  <2>4. Cardinality(1..len) = len
    BY <2>2, <2>3
  <2> QED BY <2>2, <2>4 DEF len
<1>4. IsFiniteSet(In(c)) /\ Cardinality(In(c)) <= Len(posts)
  BY <1>2, <1>3, FS_Subset
<1>5. Cardinality(In(c)) \in Nat
  BY <1>4, FS_CardinalityType
<1> QED BY <1>1, <1>2, <1>4, <1>5

\* What history returns: Messages of the Channel beyond the cursor, without a gap.
LEMMA PageFacts ==
  ASSUME TypeOK, NEW c \in Channels, NEW a \in Nat
  PROVE  /\ PageAfter(c, a) \in SUBSET (1..Len(posts))
         /\ \A n \in In(c) : a < n /\ n <= MaxSeq(PageAfter(c, a)) => n \in PageAfter(c, a)
<1> DEFINE beyond == {n \in In(c) : n > a}
           UpTo(n) == {m \in beyond : m <= n}
           page == PageAfter(c, a)
<1>1. In(c) \in SUBSET (1..Len(posts)) /\ IsFiniteSet(In(c)) /\ Len(posts) \in Nat
  BY HistoryFacts
<1>2. page = {n \in beyond : Cardinality(UpTo(n)) <= HeadPage}
  BY DEF PageAfter, FirstOf
<1>3. page \in SUBSET (1..Len(posts)) /\ page \subseteq beyond
  BY <1>1, <1>2
<1>4. ASSUME NEW n \in In(c), a < n, n <= MaxSeq(page) PROVE n \in page
  <2>1. page # {}
    <3>1. CASE page = {}
      <4>1. MaxSeq(page) = 0
        BY <3>1 DEF MaxSeq
      <4> QED BY <1>1, <1>4, <4>1
    <3> QED BY <3>1
  <2> DEFINE m == MaxSeq(page)
  <2>2. m \in page
    BY <1>1, <1>3, <2>1, MaxSeqFacts
  <2>3. n \in beyond /\ m \in beyond /\ n \in Int /\ m \in Int /\ n <= m
    BY <1>1, <1>3, <1>4, <2>2
  <2> HIDE DEF m
  <2>4. UpTo(n) \subseteq UpTo(m)
    BY <1>1, <2>3
  <2>5. IsFiniteSet(UpTo(m))
    <3>1. UpTo(m) \in SUBSET In(c)
      OBVIOUS
    <3> QED BY <1>1, <3>1, FS_Subset
  <2>6. IsFiniteSet(UpTo(n)) /\ Cardinality(UpTo(n)) <= Cardinality(UpTo(m))
    BY <2>4, <2>5, FS_Subset
  <2>7. Cardinality(UpTo(n)) \in Nat /\ Cardinality(UpTo(m)) \in Nat
    BY <2>5, <2>6, FS_CardinalityType
  <2>8. Cardinality(UpTo(m)) <= HeadPage
    BY <1>2, <2>2
  <2>9. Cardinality(UpTo(n)) <= HeadPage
    BY <2>6, <2>7, <2>8
  <2> QED BY <1>2, <2>3, <2>9
<1> QED BY <1>3, <1>4

LEMMA TailIsHistory ==
  ASSUME TypeOK, NEW c \in Channels
  PROVE  TailOf(c) \in SUBSET (1..Len(posts))
BY HistoryFacts DEF TailOf, LastOf

LEMMA AppendedIsCount ==
  ASSUME NEW old \in SUBSET Posts, NEW new \in SUBSET Posts
  PROVE  Appended(old, new) \in Nat
<1> DEFINE S == {n \in new : n > MaxSeq(old)}
<1>1. IsFiniteSet(1..MaxPosts)
  BY FS_Interval
<1>2. IsFiniteSet(S)
  <2>1. S \subseteq 1..MaxPosts
    BY DEF Posts
  <2> HIDE DEF S
  <2> QED BY <1>1, <2>1, FS_Subset
<1> QED BY <1>2, FS_CardinalityType DEF Appended

-----------------------------------------------------------------------------
(* Facts about parts of a step.                                            *)

LEMMA CallFacts ==
  ASSUME TypeOK, NEW s \in Slots, calls[s].kind # "none"
  PROVE  /\ calls[s] \in Call
         /\ calls[s].ch \in Channels /\ calls[s].after \in 0..MaxPosts
         /\ calls[s].page \in SUBSET Posts /\ calls[s].count \in 0..MaxPosts
<1>1. calls[s] \in Call \cup {Idle}
  BY DEF TypeOK
<1>2. calls[s] # Idle
  BY DEF Idle
<1>3. calls[s] \in Call
  BY <1>1, <1>2
<1> QED BY <1>3 DEF Call

\* No read of older Messages is new or has changed.
OlderKept == \A s \in Slots : calls'[s].kind = "older" => calls'[s] = calls[s]

LEMMA IssueFacts ==
  ASSUME TypeOK, NEW kind \in Kinds, NEW c \in Channels, NEW seq \in 0..MaxPosts,
         Issue(kind, c, seq)
  PROVE  /\ calls' \in [Slots -> Call \cup {Idle}]
         /\ kind # "older" => OlderKept
<1>1. PICK s \in Slots : calls' = [calls EXCEPT ![s] = NewCall(kind, c, seq)]
  BY DEF Issue
<1>2. NewCall(kind, c, seq) \in Call /\ NewCall(kind, c, seq).kind = kind
  BY DEF NewCall, Call
<1>3. calls \in [Slots -> Call \cup {Idle}]
  BY DEF TypeOK
<1> QED BY <1>1, <1>2, <1>3 DEF OlderKept

LEMMA ReturnFacts ==
  ASSUME TypeOK, NEW s \in Slots, Return(s)
  PROVE  calls' \in [Slots -> Call \cup {Idle}] /\ OlderKept
<1>1. calls \in [Slots -> Call \cup {Idle}] /\ calls' = [calls EXCEPT ![s] = Idle]
  BY DEF TypeOK, Return
<1>2. Idle.kind = "none"
  BY DEF Idle
<1> QED BY <1>1, <1>2 DEF OlderKept

LEMMA GenerationFacts ==
  ASSUME TypeOK, NextGeneration
  PROVE  /\ calls' \in [Slots -> Call \cup {Idle}] /\ OlderKept
         /\ \A s \in Slots : calls'[s].kind # "older"
<1>1. calls \in [Slots -> Call \cup {Idle}] /\ Idle.kind = "none"
  BY DEF TypeOK, Idle
<1>2. calls' = [s \in Slots |-> IF calls[s].kind = "send" THEN calls[s] ELSE Idle]
  BY DEF NextGeneration
<1> QED BY <1>1, <1>2 DEF OlderKept

LEMMA MergeFacts ==
  ASSUME TypeOK, NEW c \in Channels, NEW page \in SUBSET Posts, Merge(c, page)
  PROVE  /\ loaded' \subseteq Channels /\ shown' \in [Channels -> SUBSET Posts]
         /\ \A d \in Channels : shown[d] \subseteq shown'[d]
         /\ page \subseteq shown'[c]
BY DEF TypeOK, Merge

LEMMA CountFacts ==
  ASSUME TypeOK, NEW c \in Channels, NEW n \in Nat, CountAppended(c, n)
  PROVE  /\ known' \subseteq Channels /\ total' \in [Channels -> Nat]
         /\ headDone' \subseteq Channels
<1>1. known \subseteq Channels /\ total \in [Channels -> Nat] /\ headDone \subseteq Channels
  BY DEF TypeOK
<1>2. CASE n > 0
  <2>1. known' = known \cup {c} /\ total' = [total EXCEPT ![c] = @ + n]
        /\ SetHeadDone(c, Cardinality(shown'[c]) >= total'[c])
    BY <1>2 DEF CountAppended
  <2>2. headDone' \subseteq Channels
    BY <1>1, <2>1 DEF SetHeadDone
  <2>3. total' \in [Channels -> Nat]
    BY <1>1, <2>1
  <2> QED BY <1>1, <2>1, <2>2, <2>3
<1>3. CASE ~(n > 0)
  BY <1>1, <1>3 DEF CountAppended
<1> QED BY <1>2, <1>3

LEMMA MarkFacts ==
  ASSUME TypeOK, total' \in [Channels -> Nat], NEW c \in Channels,
         MarkRead(c) \/ KeepMarks
  PROVE  marker' \in [Channels -> Nat] /\ unread' \in [Channels -> Nat]
<1>1. marker \in [Channels -> Nat] /\ unread \in [Channels -> Nat]
  BY DEF TypeOK
<1>2. CASE MarkRead(c)
  BY <1>1, <1>2 DEF MarkRead
<1>3. CASE KeepMarks
  BY <1>1, <1>3 DEF KeepMarks
<1> QED BY <1>2, <1>3

LEMMA BadgesFact ==
  ASSUME TypeOK, NEW t \in [Channels -> Nat]
  PROVE  [c \in Channels |-> Badge(t[c], marker[c])] \in [Channels -> Nat]
<1>1. marker \in [Channels -> Nat]
  BY DEF TypeOK
<1>2. ASSUME NEW c \in Channels PROVE Badge(t[c], marker[c]) \in Nat
  BY <1>1 DEF Badge
<1> QED BY <1>2

\* The history of a Channel only grows at its end.
LEMMA OldMessages ==
  ASSUME TypeOK, TypeOK', NEW c \in Channels, Len(posts) <= Len(posts'),
         \A n \in 1..Len(posts) : posts'[n] = posts[n]
  PROVE  /\ In(c) \subseteq In(c)'
         /\ \A n \in In(c)' : n <= Len(posts) => n \in In(c)
<1>1. posts \in Seq(Channels) /\ posts' \in Seq(Channels)
  BY DEF TypeOK
<1>2. Len(posts) \in Nat /\ Len(posts') \in Nat
  BY <1>1
<1> QED BY <1>2 DEF In

\* What a list shows up to its head cursor is kept while lists only grow.
LEMMA CursorKept ==
  ASSUME IInv, TypeOK', Len(posts) <= Len(posts'),
         \A n \in 1..Len(posts) : posts'[n] = posts[n],
         NEW c \in Channels, shown[c] \subseteq shown'[c],
         headCursor'[c] = headCursor[c]
  PROVE  headCursor'[c] <= Len(posts') /\ WholeUpTo(c, headCursor[c])'
<1>1. TypeOK /\ Len(posts) \in Nat /\ Len(posts') \in Nat
  <2>1. TypeOK /\ posts \in Seq(Channels) /\ posts' \in Seq(Channels)
    BY DEF IInv, TypeOK
  <2> QED BY <2>1
<1>2. headCursor[c] \in Nat /\ headCursor[c] <= Len(posts)
      /\ \A n \in In(c) : n <= headCursor[c] => n \in shown[c]
  BY DEF IInv, TypeOK, HeadOK, WholeUpTo
<1>3. \A n \in In(c)' : n \in Nat
  BY <1>1 DEF In
<1>4. \A n \in In(c)' : n <= Len(posts) => n \in In(c)
  BY <1>1, <1>3, OldMessages
<1>5. \A n \in In(c)' : n <= headCursor'[c] => n \in shown'[c]
  BY <1>1, <1>2, <1>3, <1>4
<1> QED BY <1>1, <1>2, <1>5 DEF WholeUpTo

\* So is what a read of older Messages relies on.
LEMMA OlderStays ==
  ASSUME IInv, TypeOK', Len(posts) <= Len(posts'),
         \A n \in 1..Len(posts) : posts'[n] = posts[n],
         \A c \in Channels : shown[c] \subseteq shown'[c],
         mode' = "resyncing" => mode = "resyncing",
         NEW s \in Slots, calls[s].kind = "older", calls'[s] = calls[s]
  PROVE  OlderOK(s)'
<1>1. TypeOK /\ Len(posts) \in Nat /\ Len(posts') \in Nat
  <2>1. TypeOK /\ posts \in Seq(Channels) /\ posts' \in Seq(Channels)
    BY DEF IInv, TypeOK
  <2> QED BY <2>1
<1>2. calls[s].ch \in Channels /\ calls[s].after \in Nat
  BY <1>1, CallFacts
<1>3. mode # "resyncing" /\ calls[s].after <= Len(posts)
      /\ (\A n \in In(calls[s].ch) : n <= calls[s].after => n \in shown[calls[s].ch])
      /\ calls[s].page \in SUBSET (1..Len(posts))
      /\ \A n \in In(calls[s].ch) : calls[s].after < n /\ n <= MaxSeq(calls[s].page)
           => n \in calls[s].page
  BY DEF IInv, HeadOK, OlderOK, WholeUpTo, PageWhole
<1>4. MaxSeq(calls[s].page) \in 0..Len(posts)
  BY <1>1, <1>3, MaxSeqFacts
<1>5. PICK c \in Channels : c = calls[s].ch
  BY <1>2
<1>6. \A n \in In(c)' : n \in Nat
  BY <1>1 DEF In
<1>7. \A n \in In(c)' : n <= Len(posts) => n \in In(c)
  BY <1>1, <1>6, OldMessages
<1>8. \A n \in In(c)' : n <= calls[s].after => n \in shown'[c]
  BY <1>1, <1>2, <1>3, <1>5, <1>6, <1>7
<1>9. \A n \in In(c)' : calls[s].after < n /\ n <= MaxSeq(calls[s].page)
        => n \in calls[s].page
  BY <1>1, <1>3, <1>4, <1>5, <1>6, <1>7
<1>10. calls'[s].ch = c /\ calls'[s].after = calls[s].after /\ calls'[s].page = calls[s].page
  BY <1>5
<1>11. WholeUpTo(calls[s].ch, calls[s].after)'
  BY <1>8, <1>10 DEF WholeUpTo, In
<1>12. PageWhole(calls[s])'
  <2>1. calls'[s].page \subseteq 1..Len(posts')
    BY <1>1, <1>3, <1>10
  <2>2. \A n \in In(calls[s].ch)' : (calls'[s].after < n /\ n <= MaxSeq(calls[s].page)')
          => n \in calls'[s].page
    BY <1>9, <1>10 DEF In, MaxSeq
  <2> QED BY <2>1, <2>2 DEF PageWhole
<1>13. mode' # "resyncing"
  BY <1>3
<1> QED BY <1>1, <1>2, <1>3, <1>10, <1>11, <1>12, <1>13 DEF OlderOK

\* A step that moves no head cursor.
LEMMA HeadKept ==
  ASSUME IInv, TypeOK', Len(posts) <= Len(posts'),
         \A n \in 1..Len(posts) : posts'[n] = posts[n],
         \A c \in Channels : shown[c] \subseteq shown'[c],
         headCursor' = headCursor, OlderKept,
         \/ mode' = "resyncing" => mode = "resyncing"
         \/ \A s \in Slots : calls'[s].kind # "older"
  PROVE  HeadOK'
<1>1. ASSUME NEW c \in Channels
      PROVE  headCursor'[c] <= Len(posts') /\ WholeUpTo(c, headCursor[c])'
  BY CursorKept
<1>2. ASSUME NEW s \in Slots PROVE OlderOK(s)'
  <2>1. CASE calls'[s].kind = "older"
    <3>1. calls'[s] = calls[s] /\ calls[s].kind = "older"
      BY <2>1 DEF OlderKept
    <3>2. mode' = "resyncing" => mode = "resyncing"
      BY <2>1
    <3> QED BY <3>1, <3>2, OlderStays
  <2>2. CASE calls'[s].kind # "older"
    BY <2>2 DEF OlderOK
  <2> QED BY <2>1, <2>2
<1> QED BY <1>1, <1>2 DEF HeadOK

\* The most common case: the host is not touched.
LEMMA HeadUntouched ==
  ASSUME IInv, TypeOK', posts' = posts,
         \A c \in Channels : shown[c] \subseteq shown'[c],
         headCursor' = headCursor, OlderKept,
         \/ mode' = "resyncing" => mode = "resyncing"
         \/ \A s \in Slots : calls'[s].kind # "older"
  PROVE  HeadOK'
<1>1. posts \in Seq(Channels)
  BY DEF IInv, TypeOK
<1>2. Len(posts) <= Len(posts') /\ \A n \in 1..Len(posts) : posts'[n] = posts[n]
  BY <1>1
<1> QED BY <1>2, HeadKept

LEMMA SameCalls ==
  ASSUME calls' = calls
  PROVE  OlderKept
BY DEF OlderKept

-----------------------------------------------------------------------------
(* Each action keeps the invariant.                                        *)

\* TypeOK in parts, so that a step proves those it disturbs.
HostTypes ==
  /\ posts \in Seq(Channels) /\ Len(posts) <= MaxPosts
  /\ at \in 0..Len(posts) /\ cursor \in 0..Len(posts)
LoadTypes ==
  /\ mode \in {"closed", "opening", "live", "resyncing", "down"}
  /\ step \in {"none", "snapshot", "seed", "tail"}
  /\ waiting \subseteq Channels /\ seeded \subseteq Channels
  /\ totals \in [Channels -> 0..MaxPosts]
CallTypes == calls \in [Slots -> Call \cup {Idle}]
ListTypes ==
  /\ active \in Channels \cup {NoChannel}
  /\ loaded \subseteq Channels /\ shown \in [Channels -> SUBSET Posts]
  /\ headCursor \in [Channels -> 0..MaxPosts] /\ headDone \subseteq Channels
CountTypes ==
  /\ known \subseteq Channels /\ total \in [Channels -> Nat]
  /\ marker \in [Channels -> Nat] /\ unread \in [Channels -> Nat]
RestTypes == olderLoading \in BOOLEAN /\ owed \subseteq Channels /\ faults \in 0..MaxFaults

LEMMA TypeParts ==
  TypeOK <=> /\ HostTypes /\ LoadTypes /\ CallTypes
             /\ ListTypes /\ CountTypes /\ RestTypes
BY DEF TypeOK, HostTypes, LoadTypes, CallTypes, ListTypes, CountTypes, RestTypes

LEMMA TypePartsNext ==
  TypeOK' <=> /\ HostTypes' /\ LoadTypes' /\ CallTypes'
              /\ ListTypes' /\ CountTypes' /\ RestTypes'
BY DEF TypeOK, HostTypes, LoadTypes, CallTypes, ListTypes, CountTypes, RestTypes

LEMMA TypesKept ==
  ASSUME TypeOK
  PROVE  /\ UNCHANGED <<posts, at, cursor>> => HostTypes'
         /\ UNCHANGED <<mode, load>> => LoadTypes'
         /\ UNCHANGED calls => CallTypes'
         /\ UNCHANGED <<active, view>> => ListTypes'
         /\ UNCHANGED counts => CountTypes'
         /\ UNCHANGED <<olderLoading, owed, faults>> => RestTypes'
<1>1. HostTypes /\ LoadTypes /\ CallTypes /\ ListTypes /\ CountTypes /\ RestTypes
  BY TypeParts
<1>2. UNCHANGED <<posts, at, cursor>> => HostTypes'
  BY <1>1 DEF HostTypes
<1>3. UNCHANGED <<mode, load>> => LoadTypes'
  BY <1>1 DEF LoadTypes, load
<1>4. UNCHANGED calls => CallTypes'
  BY <1>1 DEF CallTypes
<1>5. UNCHANGED <<active, view>> => ListTypes'
  BY <1>1 DEF ListTypes, view
<1>6. UNCHANGED counts => CountTypes'
  BY <1>1 DEF CountTypes, counts
<1>7. UNCHANGED <<olderLoading, owed, faults>> => RestTypes'
  BY <1>1 DEF RestTypes
<1> QED BY <1>2, <1>3, <1>4, <1>5, <1>6, <1>7

LEMMA FaultTypes ==
  ASSUME TypeOK, Fault, UNCHANGED <<olderLoading, owed>>
  PROVE  RestTypes'
<1>1. RestTypes
  BY TypeParts
<1>2. faults' \in 0..MaxFaults
  BY <1>1 DEF RestTypes, Fault
<1> QED BY <1>1, <1>2 DEF RestTypes

LEMMA InitOK == Init => IInv
<1> SUFFICES ASSUME Init PROVE IInv
  OBVIOUS
<1>1. PICK c \in Channels : posts = [n \in 1..Old |-> c]
  BY DEF Init
<1>2. posts \in Seq(Channels) /\ Len(posts) = Old
  BY <1>1
<1>3. calls = [s \in Slots |-> Idle] /\ Idle.kind = "none"
  BY DEF Init, Idle
<1>4. TypeOK
  <2>1. HostTypes
    BY <1>2 DEF Init, HostTypes
  <2>2. LoadTypes
    BY DEF Init, LoadTypes
  <2>3. CallTypes
    BY <1>3 DEF CallTypes
  <2>4. ListTypes
    BY DEF Init, ListTypes
  <2>5. CountTypes
    BY DEF Init, CountTypes
  <2>6. RestTypes
    <3>1. olderLoading = FALSE /\ owed = {} /\ faults = 0
      BY DEF Init
    <3>2. faults \in 0..MaxFaults /\ owed \subseteq Channels
      BY <3>1
    <3> QED BY <3>1, <3>2 DEF RestTypes
  <2> QED BY <2>1, <2>2, <2>3, <2>4, <2>5, <2>6, TypeParts
<1>5. LoadOK
  BY <1>2 DEF Init, LoadOK
<1>6. HeadOK
  <2>1. ASSUME NEW d \in Channels
        PROVE  headCursor[d] <= Len(posts) /\ WholeUpTo(d, headCursor[d])
    BY <1>2 DEF Init, WholeUpTo, In
  <2>2. \A s \in Slots : OlderOK(s)
    BY <1>3 DEF OlderOK
  <2> QED BY <2>1, <2>2 DEF HeadOK
<1> QED BY <1>4, <1>5, <1>6 DEF IInv

LEMMA OthersPostOK == ASSUME IInv, NEW c \in Channels, OthersPost(c) PROVE IInv'
<1>1. TypeOK /\ HostTypes
  BY TypeParts DEF IInv
<1>2. /\ posts' = Append(posts, c) /\ Len(posts) < MaxPosts
      /\ UNCHANGED <<at, mode, load, calls, active, view, counts, olderLoading,
                     owed, faults>>
  BY DEF OthersPost
<1>3. posts' \in Seq(Channels) /\ Len(posts') = Len(posts) + 1 /\ Len(posts) \in Nat
      /\ \A n \in 1..Len(posts) : posts'[n] = posts[n]
  BY <1>1, <1>2, AppendFacts DEF HostTypes
<1>4. TypeOK'
  <2>1. HostTypes'
    BY <1>1, <1>2, <1>3 DEF HostTypes, load
  <2> QED BY <1>1, <1>2, <2>1, TypesKept, TypePartsNext
<1>5. LoadOK'
  BY <1>2, <1>3 DEF IInv, LoadOK, load
<1>6. HeadOK'
  BY <1>2, <1>3, <1>4, HeadKept, SameCalls DEF view
<1> QED BY <1>4, <1>5, <1>6 DEF IInv

LEMMA ServeSendOK == ASSUME IInv, NEW s \in Slots, ServeSend(s) PROVE IInv'
<1>1. /\ TypeOK /\ HostTypes
      /\ calls[s] \in Call /\ calls[s].ch \in Channels /\ calls[s].kind = "send"
  BY CallFacts, TypeParts DEF IInv, ServeSend
<1>2. posts \in Seq(Channels) /\ calls \in [Slots -> Call \cup {Idle}]
      /\ Len(posts) \in Nat /\ Len(posts) <= MaxPosts
  BY <1>1, TypeParts DEF HostTypes, CallTypes
<1>3. /\ posts' \in Seq(Channels) /\ Len(posts') \in Nat
      /\ Len(posts) <= Len(posts') /\ Len(posts') <= MaxPosts
      /\ \A n \in 1..Len(posts) : posts'[n] = posts[n]
  <2>1. CASE calls[s].page = {}
    <3>1. posts' = Append(posts, calls[s].ch) /\ Len(posts) < MaxPosts
      BY <2>1 DEF ServeSend
    <3>2. /\ posts' \in Seq(Channels) /\ Len(posts') = Len(posts) + 1
          /\ \A n \in 1..Len(posts) : posts'[n] = posts[n]
      BY <1>1, <1>2, <3>1, AppendFacts
    <3> QED BY <1>2, <3>1, <3>2
  <2>2. CASE calls[s].page # {}
    <3>1. posts' = posts
      BY <2>2 DEF ServeSend
    <3> QED BY <1>2, <3>1
  <2> QED BY <2>1, <2>2
<1>4. calls' \in [Slots -> Call \cup {Idle}] /\ OlderKept
  <2>1. CASE calls[s].page = {}
    <3>1. calls' = [calls EXCEPT ![s].served = TRUE, ![s].page = {Len(posts) + 1}]
          /\ Len(posts) < MaxPosts
      BY <2>1 DEF ServeSend
    <3>2. {Len(posts) + 1} \in SUBSET Posts
      BY <1>2, <3>1 DEF Posts
    <3>3. [calls[s] EXCEPT !.served = TRUE, !.page = {Len(posts) + 1}] \in Call
      BY <1>1, <3>2 DEF Call
    <3>4. calls' = [calls EXCEPT ![s] = [calls[s] EXCEPT !.served = TRUE,
                                                    !.page = {Len(posts) + 1}]]
      BY <1>2, <3>1
    <3>5. [calls[s] EXCEPT !.served = TRUE, !.page = {Len(posts) + 1}].kind = "send"
      BY <1>1 DEF Call
    <3> QED BY <1>2, <3>3, <3>4, <3>5 DEF OlderKept
  <2>2. CASE calls[s].page # {}
    <3>1. calls' = [calls EXCEPT ![s].served = TRUE, ![s].replayed = TRUE]
      BY <2>2 DEF ServeSend
    <3>2. [calls[s] EXCEPT !.served = TRUE, !.replayed = TRUE] \in Call
      BY <1>1 DEF Call
    <3>3. calls' = [calls EXCEPT ![s] = [calls[s] EXCEPT !.served = TRUE,
                                                    !.replayed = TRUE]]
      BY <1>2, <3>1
    <3>4. [calls[s] EXCEPT !.served = TRUE, !.replayed = TRUE].kind = "send"
      BY <1>1 DEF Call
    <3> QED BY <1>2, <3>2, <3>3, <3>4 DEF OlderKept
  <2> QED BY <2>1, <2>2
<1>5. UNCHANGED <<at, mode, load, active, view, counts, olderLoading, owed, faults>>
  BY DEF ServeSend
<1>6. TypeOK'
  <2>1. HostTypes'
    BY <1>1, <1>2, <1>3, <1>5 DEF HostTypes, load
  <2>2. CallTypes'
    BY <1>4 DEF CallTypes
  <2> QED BY <1>1, <1>5, <2>1, <2>2, TypesKept, TypePartsNext
<1>7. LoadOK'
  BY <1>2, <1>3, <1>5 DEF IInv, LoadOK, load
<1>8. HeadOK'
  BY <1>3, <1>4, <1>5, <1>6, HeadKept DEF view
<1> QED BY <1>6, <1>7, <1>8 DEF IInv

LEMMA ServeReadOK == ASSUME IInv, NEW s \in Slots, ServeRead(s) PROVE IInv'
<1> USE DEF load, view, counts
<1> DEFINE c == calls[s].ch
<1>1. TypeOK /\ calls[s] \in Call /\ c \in Channels /\ calls[s].after \in 0..MaxPosts
  BY CallFacts DEF IInv, ServeRead, Free
<1>2. posts \in Seq(Channels) /\ calls \in [Slots -> Call \cup {Idle}]
  BY <1>1 DEF TypeOK
<1>3. UNCHANGED <<host, at, mode, load, active, view, counts, olderLoading, owed, faults>>
  BY DEF ServeRead
<1>4. CASE calls[s].kind \in {"tail", "sync"}
  <2>1. calls' = [calls EXCEPT ![s].served = TRUE, ![s].page = TailOf(c),
                               ![s].count = Cardinality(In(c))]
    BY <1>4 DEF ServeRead
  <2> DEFINE new == [calls[s] EXCEPT !.served = TRUE, !.page = TailOf(c),
                                     !.count = Cardinality(In(c))]
  <2>2. TailOf(c) \in SUBSET Posts /\ Cardinality(In(c)) \in 0..MaxPosts
    BY <1>1, TailIsHistory, HistoryFacts
  <2>3. new \in Call
    BY <1>1, <2>2 DEF Call
  <2>4. new.kind # "older"
    BY <1>1, <1>4 DEF Call
  <2>5. calls' = [calls EXCEPT ![s] = new]
    BY <1>2, <2>1
  <2>6. calls' \in [Slots -> Call \cup {Idle}] /\ OlderKept
    <3> HIDE DEF new
    <3> QED BY <1>2, <2>3, <2>4, <2>5 DEF OlderKept
  <2>7. TypeOK'
    BY <1>1, <1>3, <2>6, TypesKept, TypePartsNext DEF CallTypes, host, load
  <2>8. LoadOK'
    BY <1>3 DEF IInv, LoadOK, host
  <2>9. HeadOK'
    BY <1>3, <2>6, <2>7, HeadUntouched DEF host
  <2> QED BY <2>7, <2>8, <2>9 DEF IInv
<1>5. CASE calls[s].kind \in {"frame", "older"}
  <2>1. calls' = [calls EXCEPT ![s].served = TRUE, ![s].page = PageAfter(c, calls[s].after)]
    BY <1>5 DEF ServeRead
  <2> DEFINE new == [calls[s] EXCEPT !.served = TRUE, !.page = PageAfter(c, calls[s].after)]
  <2>2. /\ PageAfter(c, calls[s].after) \in SUBSET (1..Len(posts))
        /\ \A n \in In(c) : calls[s].after < n /\ n <= MaxSeq(PageAfter(c, calls[s].after))
             => n \in PageAfter(c, calls[s].after)
    BY <1>1, PageFacts
  <2>3. PageAfter(c, calls[s].after) \in SUBSET Posts
    BY <1>1, <2>2, HistoryFacts
  <2>4. /\ new \in Call /\ new.kind = calls[s].kind
        /\ new.ch = c /\ new.after = calls[s].after
        /\ new.page = PageAfter(c, calls[s].after)
    BY <1>1, <2>3 DEF Call
  <2>5. calls' = [calls EXCEPT ![s] = new]
    BY <1>2, <2>1
  <2> HIDE DEF new
  <2>6. calls' \in [Slots -> Call \cup {Idle}] /\ calls'[s] = new
        /\ \A t \in Slots : t # s => calls'[t] = calls[t]
    BY <1>2, <2>4, <2>5
  <2>7. TypeOK'
    BY <1>1, <1>3, <2>6, TypesKept, TypePartsNext DEF CallTypes, host, load
  <2>8. LoadOK'
    BY <1>3 DEF IInv, LoadOK, host
  <2>9. ASSUME NEW t \in Slots PROVE OlderOK(t)'
    <3>1. CASE t # s /\ calls[t].kind = "older"
      BY <1>2, <1>3, <2>6, <2>7, <3>1, OlderStays DEF host
    <3>2. CASE t # s /\ calls[t].kind # "older"
      BY <2>6, <3>2 DEF OlderOK
    <3>3. CASE t = s /\ calls[s].kind = "older"
      <4>1. mode # "resyncing" /\ calls[s].after <= Len(posts)
            /\ WholeUpTo(c, calls[s].after)
        BY <3>3 DEF IInv, HeadOK, OlderOK
      <4>2. WholeUpTo(calls[s].ch, calls[s].after)'
        BY <1>3, <2>4, <2>6, <4>1 DEF WholeUpTo, In, host
      <4>3. PageWhole(calls[s])'
        BY <1>3, <2>2, <2>4, <2>6 DEF PageWhole, In, MaxSeq, host
      <4> QED BY <1>3, <2>4, <2>6, <3>3, <4>1, <4>2, <4>3 DEF OlderOK, host
    <3>4. CASE t = s /\ calls[s].kind # "older"
      BY <2>4, <2>6, <3>4 DEF OlderOK
    <3> QED BY <3>1, <3>2, <3>3, <3>4
  <2>10. ASSUME NEW d \in Channels
         PROVE  headCursor'[d] <= Len(posts') /\ WholeUpTo(d, headCursor[d])'
    BY <1>2, <1>3, <2>7, CursorKept DEF host
  <2>11. HeadOK'
    BY <2>9, <2>10 DEF HeadOK
  <2> QED BY <2>7, <2>8, <2>11 DEF IInv
<1> QED BY <1>4, <1>5 DEF ServeRead

LEMMA StartOK == ASSUME IInv, Start PROVE IInv'
<1>1. TypeOK /\ LoadOK /\ HostTypes /\ LoadTypes
  BY TypeParts DEF IInv
<1>2. /\ mode = "closed" /\ mode' = "opening" /\ step' = "snapshot" /\ NextGeneration
      /\ UNCHANGED <<host, at, cursor, waiting, seeded, totals, active, view, counts,
                     olderLoading, owed, faults>>
  BY DEF Start
<1>3. CallTypes' /\ OlderKept
  BY <1>1, <1>2, GenerationFacts DEF CallTypes
<1>4. LoadTypes'
  BY <1>1, <1>2 DEF LoadTypes
<1>5. TypeOK'
  BY <1>1, <1>2, <1>3, <1>4, TypesKept, TypePartsNext DEF host
<1>6. LoadOK'
  BY <1>1, <1>2 DEF LoadOK, host
<1>7. HeadOK'
  BY <1>2, <1>3, <1>5, HeadUntouched DEF view, host
<1> QED BY <1>5, <1>6, <1>7 DEF IInv

LEMMA ResyncRequiredOK == ASSUME IInv, ResyncRequired PROVE IInv'
<1>1. TypeOK /\ LoadOK /\ HostTypes /\ LoadTypes /\ RestTypes
  BY TypeParts DEF IInv
<1>2. /\ mode = "live" /\ mode' = "resyncing" /\ step' = "snapshot" /\ NextGeneration
      /\ faults < MaxFaults /\ faults' = faults + 1
      /\ UNCHANGED <<host, at, cursor, waiting, seeded, totals, active, view, counts,
                     olderLoading, owed>>
  BY DEF ResyncRequired, Fault
<1>3. CallTypes' /\ OlderKept /\ \A s \in Slots : calls'[s].kind # "older"
  BY <1>1, <1>2, GenerationFacts DEF CallTypes
<1>4. LoadTypes'
  BY <1>1, <1>2 DEF LoadTypes
<1>5. RestTypes'
  BY <1>1, <1>2, FaultTypes DEF Fault
<1>6. TypeOK'
  BY <1>1, <1>2, <1>3, <1>4, <1>5, TypesKept, TypePartsNext DEF host
<1>7. LoadOK'
  BY <1>1, <1>2 DEF LoadOK, host
<1>8. HeadOK'
  BY <1>2, <1>3, <1>6, HeadUntouched DEF view, host
<1> QED BY <1>6, <1>7, <1>8 DEF IInv

LEMMA ReadSnapshotOK == ASSUME IInv, ReadSnapshot PROVE IInv'
<1>1. TypeOK /\ LoadOK /\ HostTypes /\ LoadTypes
  BY TypeParts DEF IInv
<1>2. /\ step = "snapshot" /\ step' = "seed" /\ cursor' = Len(posts) /\ waiting' = Channels
      /\ UNCHANGED <<host, at, mode, seeded, totals, calls, active, view, counts,
                     olderLoading, owed, faults>>
  BY DEF ReadSnapshot
<1>3. HostTypes'
  BY <1>1, <1>2 DEF HostTypes, host
<1>4. LoadTypes'
  BY <1>1, <1>2 DEF LoadTypes
<1>5. TypeOK'
  BY <1>1, <1>2, <1>3, <1>4, TypesKept, TypePartsNext
<1>6. LoadOK'
  BY <1>1, <1>2 DEF LoadOK, HostTypes, host
<1>7. HeadOK'
  BY <1>2, <1>5, HeadUntouched, SameCalls DEF view, host
<1> QED BY <1>5, <1>6, <1>7 DEF IInv

LEMMA SeedTotalOK == ASSUME IInv, NEW c \in Channels, SeedTotal(c) PROVE IInv'
<1>1. TypeOK /\ LoadOK /\ HostTypes /\ LoadTypes
  BY TypeParts DEF IInv
<1>2. /\ step = "seed" /\ waiting' = waiting \ {c}
      /\ UNCHANGED <<host, at, mode, step, cursor, calls, active, view, counts,
                     olderLoading, owed>>
  BY DEF SeedTotal
<1>3. seeded' \subseteq Channels /\ totals' \in [Channels -> 0..MaxPosts] /\ RestTypes'
  <2>1. CASE seeded' = seeded \cup {c} /\ UNCHANGED faults
             /\ totals' = [totals EXCEPT ![c] = Cardinality(In(c))]
    <3>1. Cardinality(In(c)) \in 0..MaxPosts
      BY <1>1, HistoryFacts
    <3> QED BY <1>1, <1>2, <2>1, <3>1, TypesKept DEF LoadTypes
  <2>2. CASE Fault /\ UNCHANGED <<seeded, totals>>
    BY <1>1, <1>2, <2>2, FaultTypes DEF LoadTypes
  <2> QED BY <2>1, <2>2 DEF SeedTotal
<1>4. LoadTypes'
  BY <1>1, <1>2, <1>3 DEF LoadTypes
<1>5. TypeOK'
  BY <1>1, <1>2, <1>3, <1>4, TypesKept, TypePartsNext DEF host
<1>6. LoadOK'
  BY <1>1, <1>2 DEF LoadOK, host
<1>7. HeadOK'
  BY <1>2, <1>5, HeadUntouched, SameCalls DEF view, host
<1> QED BY <1>5, <1>6, <1>7 DEF IInv

LEMMA BootstrappedOK == ASSUME IInv, Bootstrapped PROVE IInv'
<1>1. TypeOK /\ LoadOK /\ HostTypes /\ LoadTypes /\ CountTypes /\ ListTypes
  BY TypeParts DEF IInv
<1>2. /\ mode = "opening" /\ mode' = "live" /\ step = "seed" /\ at' = cursor
      /\ known' = seeded /\ total' = totals
      /\ unread' = [c \in Channels |-> Badge(totals[c], marker[c])]
      /\ EndOfLoad
      /\ UNCHANGED <<host, view, marker, olderLoading, owed, faults>>
  BY DEF Bootstrapped
<1>3. PICK c \in Channels : active' = c /\ Issue("tail", c, 0)
  BY DEF Bootstrapped
<1>4. CallTypes' /\ OlderKept
  BY <1>1, <1>3, IssueFacts DEF CallTypes, Kinds
<1>5. HostTypes'
  BY <1>1, <1>2 DEF HostTypes, host, EndOfLoad
<1>6. LoadTypes'
  BY <1>2 DEF LoadTypes, EndOfLoad, NoTotals
<1>7. ListTypes'
  BY <1>1, <1>2, <1>3 DEF ListTypes, view
<1>8. CountTypes'
  <2>1. totals \in [Channels -> Nat]
    BY <1>1 DEF LoadTypes
  <2> QED BY <1>1, <1>2, <2>1, BadgesFact DEF CountTypes, LoadTypes
<1>9. TypeOK'
  BY <1>1, <1>2, <1>4, <1>5, <1>6, <1>7, <1>8, TypesKept, TypePartsNext
<1>10. LoadOK'
  BY <1>1, <1>2, <1>3 DEF LoadOK, HostTypes, host, EndOfLoad
<1>11. HeadOK'
  BY <1>2, <1>4, <1>9, HeadUntouched DEF view, host
<1> QED BY <1>9, <1>10, <1>11 DEF IInv

LEMMA ReplacedOK == ASSUME IInv, Replaced PROVE IInv'
<1>1. TypeOK /\ LoadOK /\ HeadOK /\ HostTypes /\ LoadTypes /\ CountTypes /\ ListTypes /\ RestTypes
  BY TypeParts DEF IInv
<1>2. /\ mode = "resyncing" /\ step = "seed" /\ step' = "tail"
      /\ loaded' = {} /\ shown' = [c \in Channels |-> {}]
      /\ headCursor' = [c \in Channels |-> 0] /\ headDone' = {}
      /\ known' = seeded /\ total' = totals
      /\ owed' \subseteq Channels
      /\ Issue("sync", active, 0) /\ NoTotals
      /\ UNCHANGED <<host, at, mode, cursor, active, marker, unread, olderLoading, faults>>
  BY DEF Replaced
<1>3. active \in Channels
  BY <1>1, <1>2 DEF LoadOK
<1>4. CallTypes' /\ OlderKept
  BY <1>1, <1>2, <1>3, IssueFacts DEF CallTypes, Kinds
<1>5. LoadTypes'
  BY <1>1, <1>2 DEF LoadTypes, NoTotals
<1>6. ListTypes'
  BY <1>1, <1>2 DEF ListTypes
<1>7. CountTypes'
  BY <1>1, <1>2 DEF CountTypes, LoadTypes
<1>8. RestTypes'
  BY <1>1, <1>2 DEF RestTypes
<1>9. TypeOK'
  BY <1>1, <1>2, <1>4, <1>5, <1>6, <1>7, <1>8, TypesKept, TypePartsNext DEF host
<1>10. LoadOK'
  BY <1>1, <1>2 DEF LoadOK, host
<1>11. HeadOK'
  <2>1. posts' = posts /\ Len(posts) \in Nat
    BY <1>1, <1>2 DEF HostTypes, host
  <2>2. ASSUME NEW c \in Channels
        PROVE  headCursor'[c] <= Len(posts') /\ WholeUpTo(c, headCursor[c])'
    BY <1>2, <2>1 DEF WholeUpTo, In
  <2>3. \A s \in Slots : OlderOK(s)'
    <3>1. \A s \in Slots : calls'[s].kind # "older"
      BY <1>1, <1>2, <1>4 DEF HeadOK, OlderOK, OlderKept
    <3> QED BY <3>1 DEF OlderOK
  <2> QED BY <2>2, <2>3 DEF HeadOK
<1> QED BY <1>9, <1>10, <1>11 DEF IInv

LEMMA ResyncedOK == ASSUME IInv, Resynced PROVE IInv'
<1>1. TypeOK /\ LoadOK /\ HostTypes /\ LoadTypes /\ CountTypes
  BY TypeParts DEF IInv
<1>2. /\ step = "tail" /\ mode' = "live" /\ at' = cursor
      /\ unread' = [c \in Channels |-> Badge(total[c], marker[c])]
      /\ EndOfLoad
      /\ UNCHANGED <<host, calls, active, view, known, total, marker, olderLoading, owed,
                     faults>>
  BY DEF Resynced
<1>3. HostTypes'
  BY <1>1, <1>2 DEF HostTypes, host, EndOfLoad
<1>4. LoadTypes'
  BY <1>2 DEF LoadTypes, EndOfLoad, NoTotals
<1>5. CountTypes'
  BY <1>1, <1>2, BadgesFact DEF CountTypes
<1>6. TypeOK'
  BY <1>1, <1>2, <1>3, <1>4, <1>5, TypesKept, TypePartsNext
<1>7. LoadOK'
  BY <1>1, <1>2 DEF LoadOK, HostTypes, host, EndOfLoad
<1>8. HeadOK'
  BY <1>2, <1>6, HeadUntouched, SameCalls DEF view, host
<1> QED BY <1>6, <1>7, <1>8 DEF IInv

LEMMA LoadFailsOK == ASSUME IInv, LoadFails PROVE IInv'
<1>1. TypeOK /\ LoadOK /\ HostTypes /\ LoadTypes
  BY TypeParts DEF IInv
<1>2. /\ step \in {"snapshot", "seed"} /\ Fault
      /\ mode' = (IF mode = "opening" THEN "closed" ELSE "down")
      /\ EndOfLoad
      /\ UNCHANGED <<host, at, calls, active, view, counts, olderLoading, owed>>
  BY DEF LoadFails
<1>3. HostTypes'
  BY <1>1, <1>2 DEF HostTypes, host, EndOfLoad
<1>4. LoadTypes'
  BY <1>2 DEF LoadTypes, EndOfLoad, NoTotals
<1>5. RestTypes'
  BY <1>1, <1>2, FaultTypes
<1>6. TypeOK'
  BY <1>1, <1>2, <1>3, <1>4, <1>5, TypesKept, TypePartsNext
<1>7. LoadOK'
  BY <1>1, <1>2 DEF LoadOK, host, EndOfLoad
<1>8. HeadOK'
  BY <1>2, <1>6, HeadUntouched, SameCalls DEF view, host
<1> QED BY <1>6, <1>7, <1>8 DEF IInv

LEMMA FrameOK == ASSUME IInv, Frame PROVE IInv'
<1>1. TypeOK /\ LoadOK /\ HostTypes /\ LoadTypes /\ CountTypes /\ ListTypes /\ RestTypes
  BY TypeParts DEF IInv
<1> DEFINE c == posts[at + 1]
<1>2. /\ at < Len(posts) /\ at' = at + 1
      /\ UNCHANGED <<host, mode, load, active, view, olderLoading, faults>>
  BY DEF Frame
<1>3. c \in Channels
  <2>1. at + 1 \in 1..Len(posts)
    BY <1>1, <1>2 DEF HostTypes
  <2> QED BY <1>1, <2>1 DEF HostTypes
<1>4. CallTypes' /\ OlderKept /\ CountTypes' /\ owed' \subseteq Channels
  <2>1. CASE /\ Issue("frame", c, MaxSeq(shown[c]))
             /\ owed' = (IF Reaches(c) THEN owed \ {c} ELSE owed \cup {c})
             /\ UNCHANGED counts
    <3>1. MaxSeq(shown[c]) \in 0..MaxPosts
      <4>1. shown[c] \in SUBSET (1..MaxPosts)
        BY <1>1, <1>3 DEF ListTypes, Posts
      <4> QED BY <4>1, MaxSeqFacts
    <3>2. CallTypes' /\ OlderKept
      BY <1>1, <1>3, <2>1, <3>1, IssueFacts DEF CallTypes, Kinds
    <3>3. owed' \subseteq Channels
      BY <1>1, <1>3, <2>1 DEF RestTypes
    <3> QED BY <1>1, <2>1, <3>2, <3>3, TypesKept
  <2>2. CASE /\ total' = (IF c \in known THEN [total EXCEPT ![c] = @ + 1] ELSE total)
             /\ unread' = [unread EXCEPT ![c] =
                  IF c \in known THEN Badge(total'[c], marker[c]) ELSE 0]
             /\ owed' = (IF Opening(c) THEN owed \cup {c} ELSE owed)
             /\ UNCHANGED <<calls, known, marker>>
    <3>1. total' \in [Channels -> Nat]
      BY <1>1, <1>3, <2>2 DEF CountTypes
    <3>2. Badge(total'[c], marker[c]) \in Nat
      BY <1>1, <1>3, <3>1 DEF CountTypes, Badge
    <3>3. CountTypes'
      BY <1>1, <1>3, <2>2, <3>1, <3>2 DEF CountTypes
    <3>4. owed' \subseteq Channels
      BY <1>1, <1>3, <2>2 DEF RestTypes
    <3> QED BY <1>1, <2>2, <3>3, <3>4, TypesKept, SameCalls
  <2> QED BY <2>1, <2>2 DEF Frame
<1>5. HostTypes'
  BY <1>1, <1>2 DEF HostTypes, host, load
<1>6. RestTypes'
  BY <1>1, <1>2, <1>4 DEF RestTypes
<1>7. TypeOK'
  BY <1>1, <1>2, <1>4, <1>5, <1>6, TypesKept, TypePartsNext
<1>8. LoadOK'
  <2>1. mode = "live"
    BY DEF Frame, Connected
  <2> QED BY <1>1, <1>2, <2>1 DEF LoadOK, HostTypes, load, host
<1>9. HeadOK'
  BY <1>2, <1>4, <1>7, HeadUntouched DEF view, host
<1> QED BY <1>7, <1>8, <1>9 DEF IInv

LEMMA SetActiveOK == ASSUME IInv, NEW c \in Channels, SetActive(c) PROVE IInv'
<1>1. TypeOK /\ LoadOK /\ ListTypes
  BY TypeParts DEF IInv
<1>2. /\ active' = c
      /\ UNCHANGED <<host, at, mode, load, view, counts, olderLoading, owed, faults>>
  BY DEF SetActive
<1>3. CallTypes' /\ OlderKept
  <2>1. CASE UNCHANGED calls
    BY <1>1, <2>1, TypesKept, SameCalls
  <2>2. CASE Issue("tail", c, 0)
    BY <1>1, <2>2, IssueFacts DEF CallTypes, Kinds
  <2> QED BY <2>1, <2>2 DEF SetActive
<1>4. ListTypes'
  BY <1>1, <1>2 DEF ListTypes, view
<1>5. TypeOK'
  BY <1>1, <1>2, <1>3, <1>4, TypesKept, TypePartsNext DEF host, load
<1>6. LoadOK'
  BY <1>1, <1>2 DEF LoadOK, host, load
<1>7. HeadOK'
  BY <1>2, <1>3, <1>5, HeadUntouched DEF view, host
<1> QED BY <1>5, <1>6, <1>7 DEF IInv

\* Hydrate and Send only issue a call.
LEMMA OnlyIssuesOK ==
  ASSUME IInv, NEW c \in Channels, NEW kind \in Kinds, kind # "older", Issue(kind, c, 0),
         UNCHANGED <<host, at, mode, load, active, view, counts, olderLoading,
                     owed, faults>>
  PROVE  IInv'
<1>1. TypeOK /\ LoadOK
  BY DEF IInv
<1>2. CallTypes' /\ OlderKept
  BY <1>1, IssueFacts DEF CallTypes
<1>3. TypeOK'
  BY <1>1, <1>2, TypesKept, TypePartsNext DEF host, load
<1>4. LoadOK'
  BY <1>1 DEF LoadOK, host, load
<1>5. HeadOK'
  BY <1>2, <1>3, HeadUntouched DEF view, host
<1> QED BY <1>3, <1>4, <1>5 DEF IInv

LEMMA LoadOlderOK == ASSUME IInv, LoadOlder PROVE IInv'
<1>1. TypeOK /\ LoadOK /\ HeadOK /\ HostTypes /\ ListTypes /\ RestTypes /\ CallTypes
  BY TypeParts DEF IInv
<1>2. /\ mode \in {"live", "down"} /\ olderLoading' = TRUE
      /\ Issue("older", active, headCursor[active])
      /\ UNCHANGED <<host, at, mode, load, active, view, counts, owed, faults>>
  BY DEF LoadOlder
<1>3. active \in Channels /\ headCursor[active] \in 0..MaxPosts /\ Len(posts) \in Nat
  BY <1>1, <1>2 DEF LoadOK, ListTypes, HostTypes
<1>4. PICK s \in Slots : calls' = [calls EXCEPT ![s] = NewCall("older", active, headCursor[active])]
  BY <1>2 DEF Issue
<1>5. CallTypes'
  BY <1>1, <1>2, <1>3, IssueFacts DEF CallTypes, Kinds
<1>6. RestTypes'
  BY <1>1, <1>2 DEF RestTypes
<1>7. TypeOK'
  BY <1>1, <1>2, <1>5, <1>6, TypesKept, TypePartsNext DEF host, load
<1>8. LoadOK'
  BY <1>1, <1>2 DEF LoadOK, host, load
<1>9. ASSUME NEW t \in Slots PROVE OlderOK(t)'
  <2>1. calls \in [Slots -> Call \cup {Idle}]
    BY <1>1 DEF CallTypes
  <2>2. CASE t # s /\ calls[t].kind = "older"
    <3>1. calls'[t] = calls[t]
      BY <1>4, <2>1, <2>2
    <3> QED BY <1>1, <1>2, <1>3, <1>7, <2>2, <3>1, OlderStays DEF host, view
  <2>3. CASE t # s /\ calls[t].kind # "older"
    BY <1>4, <2>1, <2>3 DEF OlderOK
  <2>4. CASE t = s
    <3>1. /\ calls'[s].ch = active /\ calls'[s].after = headCursor[active]
          /\ calls'[s].page = {}
      BY <1>4, <2>1 DEF NewCall
    <3>2. headCursor[active] <= Len(posts) /\ WholeUpTo(active, headCursor[active])
      BY <1>1, <1>3 DEF HeadOK
    <3>3. WholeUpTo(calls[s].ch, calls[s].after)'
      BY <1>2, <3>1, <3>2 DEF WholeUpTo, In, host, view
    <3>4. PageWhole(calls[s])'
      <4>1. MaxSeq({}) = 0
        BY DEF MaxSeq
      <4>2. \A n \in In(active)' : n \in Nat /\ n > 0
        BY <1>2, <1>3 DEF In, host
      <4>3. \A n \in In(calls[s].ch)' : ~(calls'[s].after < n /\ n <= MaxSeq({}))
        BY <1>2, <1>3, <3>1, <4>1, <4>2 DEF In, host
      <4> QED BY <3>1, <4>3 DEF PageWhole, MaxSeq
    <3> QED BY <1>2, <2>4, <3>1, <3>2, <3>3, <3>4 DEF OlderOK, host
  <2> QED BY <2>2, <2>3, <2>4
<1>10. ASSUME NEW d \in Channels
       PROVE  headCursor'[d] <= Len(posts') /\ WholeUpTo(d, headCursor[d])'
  BY <1>2, <1>3, <1>7, CursorKept DEF host, view
<1>11. HeadOK'
  BY <1>9, <1>10 DEF HeadOK
<1> QED BY <1>7, <1>8, <1>11 DEF IInv

LEMMA ApplyTailOK == ASSUME IInv, NEW s \in Slots, ApplyTail(s) PROVE IInv'
<1> DEFINE c == calls[s].ch
<1>1. /\ TypeOK /\ LoadOK /\ HostTypes /\ ListTypes /\ CountTypes
      /\ c \in Channels /\ calls[s].page \in SUBSET Posts /\ calls[s].count \in 0..MaxPosts
  BY CallFacts, TypeParts DEF IInv, ApplyTail, Answered
<1>2. /\ Return(s) /\ Merge(c, calls[s].page) /\ known' = known \cup {c}
      /\ total' = [total EXCEPT ![c] = calls[s].count]
      /\ SetHeadDone(c, Cardinality(shown'[c]) >= calls[s].count)
      /\ MarkRead(c) \/ KeepMarks
      /\ UNCHANGED <<host, at, mode, load, active, headCursor, olderLoading, owed, faults>>
  BY DEF ApplyTail, Answered
<1>3. CallTypes' /\ OlderKept
  BY <1>1, <1>2, ReturnFacts DEF CallTypes
<1>4. /\ loaded' \subseteq Channels /\ shown' \in [Channels -> SUBSET Posts]
      /\ \A d \in Channels : shown[d] \subseteq shown'[d]
  BY <1>1, <1>2, MergeFacts
<1>5. ListTypes'
  BY <1>1, <1>2, <1>4 DEF ListTypes, SetHeadDone
<1>6. CountTypes'
  <2>1. known' \subseteq Channels /\ total' \in [Channels -> Nat]
    BY <1>1, <1>2 DEF CountTypes
  <2> QED BY <1>1, <1>2, <2>1, MarkFacts DEF CountTypes
<1>7. TypeOK'
  BY <1>1, <1>2, <1>3, <1>5, <1>6, TypesKept, TypePartsNext DEF host, load
<1>8. LoadOK'
  BY <1>1, <1>2 DEF LoadOK, host, load
<1>9. HeadOK'
  BY <1>2, <1>3, <1>4, <1>7, HeadUntouched DEF host
<1> QED BY <1>7, <1>8, <1>9 DEF IInv

LEMMA ApplyFrameOK == ASSUME IInv, NEW s \in Slots, ApplyFrame(s) PROVE IInv'
<1> DEFINE c == calls[s].ch
<1>1. /\ TypeOK /\ LoadOK /\ HostTypes /\ ListTypes /\ CountTypes
      /\ c \in Channels /\ calls[s].page \in SUBSET Posts
  BY CallFacts, TypeParts DEF IInv, ApplyFrame, Answered
<1>2. /\ Return(s) /\ Merge(c, calls[s].page)
      /\ CountAppended(c, Appended(shown[c], calls[s].page)) /\ MarkRead(c)
      /\ UNCHANGED <<host, at, mode, load, active, headCursor, olderLoading, owed, faults>>
  BY DEF ApplyFrame, Answered
<1>3. CallTypes' /\ OlderKept
  BY <1>1, <1>2, ReturnFacts DEF CallTypes
<1>4. /\ loaded' \subseteq Channels /\ shown' \in [Channels -> SUBSET Posts]
      /\ \A d \in Channels : shown[d] \subseteq shown'[d]
  BY <1>1, <1>2, MergeFacts
<1>5. /\ known' \subseteq Channels /\ total' \in [Channels -> Nat]
      /\ headDone' \subseteq Channels
  <2>1. Appended(shown[c], calls[s].page) \in Nat
    BY <1>1, AppendedIsCount DEF ListTypes
  <2> QED BY <1>1, <1>2, <2>1, CountFacts
<1>6. ListTypes'
  BY <1>1, <1>2, <1>4, <1>5 DEF ListTypes
<1>7. CountTypes'
  BY <1>1, <1>2, <1>5, MarkFacts DEF CountTypes
<1>8. TypeOK'
  BY <1>1, <1>2, <1>3, <1>6, <1>7, TypesKept, TypePartsNext DEF host, load
<1>9. LoadOK'
  BY <1>1, <1>2 DEF LoadOK, host, load
<1>10. HeadOK'
  BY <1>2, <1>3, <1>4, <1>8, HeadUntouched DEF host
<1> QED BY <1>8, <1>9, <1>10 DEF IInv

LEMMA ApplyOlderOK == ASSUME IInv, NEW s \in Slots, ApplyOlder(s) PROVE IInv'
<1> DEFINE c == calls[s].ch
           page == calls[s].page
           after == calls[s].after
<1>1. /\ TypeOK /\ LoadOK /\ HeadOK /\ HostTypes /\ ListTypes /\ RestTypes /\ CallTypes
      /\ c \in Channels /\ page \in SUBSET Posts /\ after \in 0..MaxPosts
      /\ calls[s].kind = "older"
  BY CallFacts, TypeParts DEF IInv, ApplyOlder, Answered
<1>2. /\ Return(s) /\ Merge(c, page) /\ olderLoading' = FALSE
      /\ headCursor' = [headCursor EXCEPT ![c] = IF page = {} THEN after ELSE MaxSeq(page)]
      /\ SetHeadDone(c, page = {} \/ Cardinality(shown'[c]) >= total[c])
      /\ owed' \in {owed, owed \cup {c}}
      /\ UNCHANGED <<host, at, mode, load, active, counts, faults>>
  BY DEF ApplyOlder, Answered
<1>3. CallTypes' /\ OlderKept
  BY <1>1, <1>2, ReturnFacts DEF CallTypes
<1>4. /\ loaded' \subseteq Channels /\ shown' \in [Channels -> SUBSET Posts]
      /\ page \subseteq shown'[c]
      /\ \A d \in Channels : shown[d] \subseteq shown'[d]
  BY <1>1, <1>2, MergeFacts
<1>5. /\ after <= Len(posts) /\ \A n \in In(c) : n <= after => n \in shown[c]
      /\ page \in SUBSET (1..Len(posts))
      /\ \A n \in In(c) : after < n /\ n <= MaxSeq(page) => n \in page
  BY <1>1 DEF HeadOK, OlderOK, WholeUpTo, PageWhole
<1>6. Len(posts) \in 0..MaxPosts /\ In(c) \in SUBSET (1..Len(posts))
      /\ MaxSeq(page) \in 0..Len(posts)
  <2>1. Len(posts) \in 0..MaxPosts /\ In(c) \in SUBSET (1..Len(posts))
    BY <1>1, HistoryFacts
  <2> QED BY <1>5, <2>1, MaxSeqFacts
<1>7. headCursor' \in [Channels -> 0..MaxPosts]
  BY <1>1, <1>2, <1>6 DEF ListTypes
<1>8. ListTypes'
  BY <1>1, <1>2, <1>4, <1>7 DEF ListTypes, SetHeadDone
<1>9. RestTypes'
  BY <1>1, <1>2 DEF RestTypes
<1>10. TypeOK'
  BY <1>1, <1>2, <1>3, <1>8, <1>9, TypesKept, TypePartsNext DEF host, load
<1>11. LoadOK'
  BY <1>1, <1>2 DEF LoadOK, host, load
<1>12. ASSUME NEW d \in Channels
       PROVE  headCursor'[d] <= Len(posts') /\ WholeUpTo(d, headCursor[d])'
  <2>1. CASE d # c
    <3>1. headCursor'[d] = headCursor[d]
      BY <1>1, <1>2, <2>1 DEF ListTypes
    <3> QED BY <1>2, <1>4, <1>6, <1>10, <3>1, CursorKept DEF host
  <2>2. CASE d = c
    <3>1. headCursor'[c] = (IF page = {} THEN after ELSE MaxSeq(page))
      BY <1>1, <1>2 DEF ListTypes
    <3>2. headCursor'[c] <= Len(posts)
      BY <1>5, <1>6, <3>1
    <3>3. \A n \in In(c) : n <= headCursor'[c] => n \in shown'[c]
      BY <1>1, <1>4, <1>5, <1>6, <3>1
    <3>4. WholeUpTo(d, headCursor[d])'
      BY <1>2, <2>2, <3>3 DEF WholeUpTo, In, host
    <3> QED BY <1>2, <2>2, <3>2, <3>4 DEF host
  <2> QED BY <2>1, <2>2
<1>13. ASSUME NEW t \in Slots PROVE OlderOK(t)'
  <2>1. CASE calls'[t].kind = "older"
    <3>1. calls'[t] = calls[t] /\ calls[t].kind = "older"
      BY <1>3, <2>1 DEF OlderKept
    <3> QED BY <1>2, <1>4, <1>6, <1>10, <3>1, OlderStays DEF host
  <2>2. CASE calls'[t].kind # "older"
    BY <2>2 DEF OlderOK
  <2> QED BY <2>1, <2>2
<1>14. HeadOK'
  BY <1>12, <1>13 DEF HeadOK
<1> QED BY <1>10, <1>11, <1>14 DEF IInv

LEMMA ApplySendOK == ASSUME IInv, NEW s \in Slots, ApplySend(s) PROVE IInv'
<1> DEFINE c == calls[s].ch
<1>1. /\ TypeOK /\ LoadOK /\ HostTypes /\ ListTypes /\ CountTypes
      /\ c \in Channels /\ calls[s].page \in SUBSET Posts
  BY CallFacts, TypeParts DEF IInv, ApplySend, Answered
<1>2. /\ Return(s)
      /\ MarkRead(c) \/ KeepMarks
      /\ UNCHANGED <<host, at, mode, load, active, headCursor, olderLoading, owed, faults>>
  BY DEF ApplySend, Answered
<1>3. CallTypes' /\ OlderKept
  BY <1>1, <1>2, ReturnFacts DEF CallTypes
<1>4. /\ loaded' \subseteq Channels /\ shown' \in [Channels -> SUBSET Posts]
      /\ \A d \in Channels : shown[d] \subseteq shown'[d]
      /\ known' \subseteq Channels /\ total' \in [Channels -> Nat]
      /\ headDone' \subseteq Channels
  <2>1. CASE c \in loaded
    <3>1. Merge(c, calls[s].page) /\ CountAppended(c, Appended(shown[c], calls[s].page))
      BY <2>1 DEF ApplySend
    <3>2. Appended(shown[c], calls[s].page) \in Nat
      BY <1>1, AppendedIsCount DEF ListTypes
    <3>3. /\ known' \subseteq Channels /\ total' \in [Channels -> Nat]
          /\ headDone' \subseteq Channels
      BY <1>1, <3>1, <3>2, CountFacts
    <3> QED BY <1>1, <3>1, <3>3, MergeFacts
  <2>2. CASE c \notin loaded
    <3>1. /\ known' = (IF calls[s].replayed THEN known ELSE known \cup {c})
          /\ total' = (IF calls[s].replayed THEN total ELSE [total EXCEPT ![c] = @ + 1])
          /\ UNCHANGED <<loaded, shown, headDone>>
      BY <2>2 DEF ApplySend
    <3>2. known' \subseteq Channels /\ total' \in [Channels -> Nat]
      BY <1>1, <3>1 DEF CountTypes
    <3> QED BY <1>1, <3>1, <3>2 DEF ListTypes
  <2> QED BY <2>1, <2>2
<1>5. ListTypes'
  BY <1>1, <1>2, <1>4 DEF ListTypes
<1>6. CountTypes'
  BY <1>1, <1>2, <1>4, MarkFacts DEF CountTypes
<1>7. TypeOK'
  BY <1>1, <1>2, <1>3, <1>5, <1>6, TypesKept, TypePartsNext DEF host, load
<1>8. LoadOK'
  BY <1>1, <1>2 DEF LoadOK, host, load
<1>9. HeadOK'
  BY <1>2, <1>3, <1>4, <1>7, HeadUntouched DEF host
<1> QED BY <1>7, <1>8, <1>9 DEF IInv

LEMMA ReadFailsOK == ASSUME IInv, NEW s \in Slots, ReadFails(s) PROVE IInv'
<1>1. /\ TypeOK /\ LoadOK /\ RestTypes
      /\ calls[s].ch \in Channels /\ Return(s) /\ Fault
  BY CallFacts, TypeParts DEF IInv, ReadFails
<1>2. /\ olderLoading' \in {FALSE, olderLoading}
      /\ owed' \in {owed, owed \cup {calls[s].ch}}
      /\ UNCHANGED <<host, at, mode, load, active, view, counts>>
  BY DEF ReadFails
<1>3. CallTypes' /\ OlderKept
  BY <1>1, ReturnFacts DEF CallTypes
<1>4. RestTypes'
  <2>1. faults' \in 0..MaxFaults
    BY <1>1 DEF RestTypes, Fault
  <2>2. owed' \subseteq Channels
    BY <1>1, <1>2 DEF RestTypes
  <2>3. olderLoading' \in BOOLEAN
    BY <1>1, <1>2 DEF RestTypes
  <2> QED BY <2>1, <2>2, <2>3 DEF RestTypes
<1>5. TypeOK'
  BY <1>1, <1>2, <1>3, <1>4, TypesKept, TypePartsNext DEF host, load
<1>6. LoadOK'
  BY <1>1, <1>2 DEF LoadOK, host, load
<1>7. HeadOK'
  BY <1>2, <1>3, <1>5, HeadUntouched DEF host, view
<1> QED BY <1>5, <1>6, <1>7 DEF IInv

LEMMA SendFailsOK == ASSUME IInv, NEW s \in Slots, SendFails(s) PROVE IInv'
<1>1. /\ TypeOK /\ LoadOK /\ CallTypes /\ calls[s] \in Call
      /\ calls[s].kind = "send" /\ Fault
      /\ UNCHANGED <<host, at, mode, load, active, view, counts, olderLoading, owed>>
  BY CallFacts, TypeParts DEF IInv, SendFails
<1>2. CallTypes' /\ OlderKept
  <2>1. CASE Return(s)
    BY <1>1, <2>1, ReturnFacts DEF CallTypes
  <2>2. CASE calls' = [calls EXCEPT ![s].served = FALSE]
    <3>1. [calls[s] EXCEPT !.served = FALSE] \in Call
          /\ [calls[s] EXCEPT !.served = FALSE].kind = "send"
      BY <1>1 DEF Call
    <3>2. calls' = [calls EXCEPT ![s] = [calls[s] EXCEPT !.served = FALSE]]
      BY <1>1, <2>2 DEF CallTypes
    <3> QED BY <1>1, <3>1, <3>2 DEF CallTypes, OlderKept
  <2> QED BY <2>1, <2>2 DEF SendFails
<1>3. RestTypes'
  BY <1>1, FaultTypes
<1>4. TypeOK'
  BY <1>1, <1>2, <1>3, TypesKept, TypePartsNext DEF host, load
<1>5. LoadOK'
  BY <1>1 DEF LoadOK, host, load
<1>6. HeadOK'
  BY <1>1, <1>2, <1>4, HeadUntouched DEF host, view
<1> QED BY <1>4, <1>5, <1>6 DEF IInv

LEMMA StutterOK == ASSUME IInv, UNCHANGED vars PROVE IInv'
<1>1. TypeOK /\ LoadOK
  BY DEF IInv
<1>2. UNCHANGED <<host, at, mode, load, calls, active, view, counts, olderLoading, owed, faults>>
  BY DEF vars
<1>3. TypeOK'
  BY <1>1, <1>2, TypesKept, TypePartsNext DEF host, load
<1>4. LoadOK'
  BY <1>1, <1>2 DEF LoadOK, host, load
<1>5. HeadOK'
  BY <1>2, <1>3, HeadUntouched, SameCalls DEF host, view
<1> QED BY <1>3, <1>4, <1>5 DEF IInv

LEMMA StepOK == IInv /\ [Next]_vars => IInv'
<1> SUFFICES ASSUME IInv, [Next]_vars PROVE IInv'
  OBVIOUS
<1>1. CASE \/ Start \/ ResyncRequired \/ ReadSnapshot \/ Bootstrapped \/ Replaced
           \/ Resynced \/ LoadFails \/ Frame \/ LoadOlder
  BY <1>1, StartOK, ResyncRequiredOK, ReadSnapshotOK, BootstrappedOK, ReplacedOK,
     ResyncedOK, LoadFailsOK, FrameOK, LoadOlderOK
<1>2. ASSUME NEW c \in Channels,
             OthersPost(c) \/ SeedTotal(c) \/ SetActive(c) \/ Hydrate(c) \/ Send(c)
      PROVE  IInv'
  <2>1. CASE Hydrate(c)
    BY <2>1, OnlyIssuesOK DEF Hydrate, Kinds
  <2>2. CASE Send(c)
    BY <2>2, OnlyIssuesOK DEF Send, Kinds
  <2> QED BY <1>2, <2>1, <2>2, OthersPostOK, SeedTotalOK, SetActiveOK
<1>3. ASSUME NEW s \in Slots,
             \/ ServeSend(s) \/ ServeRead(s) \/ ApplyTail(s) \/ ApplyFrame(s)
             \/ ApplyOlder(s) \/ ApplySend(s) \/ ReadFails(s) \/ SendFails(s)
      PROVE  IInv'
  BY <1>3, ServeSendOK, ServeReadOK, ApplyTailOK, ApplyFrameOK, ApplyOlderOK,
     ApplySendOK, ReadFailsOK, SendFailsOK
<1>4. CASE UNCHANGED vars
  BY <1>4, StutterOK
<1> QED BY <1>1, <1>2, <1>3, <1>4 DEF Next

THEOREM Inductive == Spec => []IInv
<1> QED BY InitOK, StepOK, PTL DEF Spec

\* Every variable keeps its type: among others no cursor passes the host's Messages.
THEOREM TypeCorrect == Spec => []TypeOK
<1>1. IInv => TypeOK
  BY DEF IInv
<1> QED BY <1>1, Inductive, PTL

\* Below headCursor a list has no holes, however reads of older Messages, frames,
\* resyncs and own sends interleave (loadOlder, resync of store.ts).
THEOREM HeadAlwaysWhole == Spec => []HeadIsWhole
<1>1. IInv => HeadIsWhole
  BY DEF IInv, HeadOK, WholeUpTo, HeadIsWhole
<1> QED BY <1>1, Inductive, PTL

-----------------------------------------------------------------------------
(* Action properties.                                                      *)

\* Every answer that comes is added to the list as it stands at that moment.
LEMMA NothingForgottenStep ==
  ASSUME IInv, [Next]_vars
  PROVE  Replaced \/ \A c \in Channels : shown[c] \subseteq shown'[c]
<1> TypeOK
  BY DEF IInv
<1>1. ASSUME NEW s \in Slots, ApplyTail(s) \/ ApplyFrame(s) \/ ApplyOlder(s)
      PROVE  \A c \in Channels : shown[c] \subseteq shown'[c]
  <2>1. calls[s].ch \in Channels /\ calls[s].page \in SUBSET Posts
    BY <1>1, CallFacts DEF ApplyTail, ApplyFrame, ApplyOlder, Answered
  <2>2. Merge(calls[s].ch, calls[s].page)
    BY <1>1 DEF ApplyTail, ApplyFrame, ApplyOlder
  <2> QED BY <2>1, <2>2, MergeFacts
<1>2. ASSUME NEW s \in Slots, ApplySend(s)
      PROVE  \A c \in Channels : shown[c] \subseteq shown'[c]
  <2>1. calls[s].ch \in Channels /\ calls[s].page \in SUBSET Posts
    BY <1>2, CallFacts DEF ApplySend, Answered
  <2>2. Merge(calls[s].ch, calls[s].page) \/ UNCHANGED shown
    BY <1>2 DEF ApplySend
  <2> QED BY <2>1, <2>2, MergeFacts
<1>3. ASSUME NEW c \in Channels,
             OthersPost(c) \/ SeedTotal(c) \/ SetActive(c) \/ Hydrate(c) \/ Send(c)
      PROVE  UNCHANGED shown
  BY <1>3 DEF OthersPost, SeedTotal, SetActive, Hydrate, Send, view
<1>4. ASSUME NEW s \in Slots,
             ServeSend(s) \/ ServeRead(s) \/ ReadFails(s) \/ SendFails(s)
      PROVE  UNCHANGED shown
  BY <1>4 DEF ServeSend, ServeRead, ReadFails, SendFails, view
<1>5. CASE \/ Start \/ ResyncRequired \/ ReadSnapshot \/ Bootstrapped
           \/ Resynced \/ LoadFails \/ Frame \/ LoadOlder \/ UNCHANGED vars
  BY <1>5 DEF Start, ResyncRequired, ReadSnapshot, Bootstrapped, Resynced, LoadFails,
     Frame, LoadOlder, view, vars
<1> QED BY <1>1, <1>2, <1>3, <1>4, <1>5 DEF Next

\* A Message once shown stays until a resync replaces everything (mergeMessages).
THEOREM NothingEverForgotten == Spec => NothingForgotten
<1>1. IInv /\ [Next]_vars => [Replaced \/ \A c \in Channels : shown[c] \subseteq shown'[c]]_vars
  BY NothingForgottenStep
<1> QED BY <1>1, Inductive, PTL DEF Spec, NothingForgotten

-----------------------------------------------------------------------------
(* The tab follows the feed as ChangeReplay has it.                        *)

LEMMA FeedInit == Init => Feed!Init
<1> SUFFICES ASSUME Init PROVE Feed!Init
  OBVIOUS
<1>1. Len(posts) = Old /\ at = Old /\ mode = "closed"
  BY DEF Init
<1>2. Len(posts) - Old = 0 /\ at - Old = 0 /\ 1..Len(posts) - Old = {}
  BY <1>1
<1> QED BY <1>1, <1>2 DEF Feed!Init, ToldOf, Following

\* Nothing the feed speaks of has changed.
LEMMA FeedStutters ==
  ASSUME UNCHANGED <<posts, at>>,
         mode' = "live" <=> mode = "live"
  PROVE  UNCHANGED Feed!vars
BY DEF Feed!vars, ToldOf, Following

LEMMA FeedCommits ==
  ASSUME IInv, NEW c \in Channels, posts' = Append(posts, c), UNCHANGED <<at, mode>>
  PROVE  Feed!Commit
<1>1. posts \in Seq(Channels) /\ Old <= Len(posts) /\ Old \in Nat
  BY DEF IInv, TypeOK, LoadOK
<1>2. Len(posts') = Len(posts) + 1 /\ Len(posts) \in Nat
  BY <1>1, AppendFacts
<1>3. Len(posts') - Old = (Len(posts) - Old) + 1
  BY <1>1, <1>2
<1>4. 1..Len(posts') - Old = (1..Len(posts) - Old) \cup {Len(posts') - Old}
  BY <1>1, <1>2, <1>3
<1> QED BY <1>3, <1>4 DEF Feed!Commit, ToldOf, Following

LEMMA FrameTells == ASSUME IInv, Frame PROVE Feed!Tell(Tab)
<1>1. posts \in Seq(Channels) /\ at \in 0..Len(posts) /\ Old <= at /\ Old \in Nat
      /\ Len(posts) \in Nat
  <2>1. posts \in Seq(Channels) /\ at \in 0..Len(posts) /\ Old <= at /\ Old \in Nat
    BY DEF IInv, TypeOK, LoadOK
  <2> QED BY <2>1
<1>2. mode = "live" /\ mode' = mode /\ at < Len(posts) /\ at' = at + 1 /\ posts' = posts
  BY DEF Frame, Connected, host
<1> DEFINE n == at + 1 - Old
<1>3. n \in 1..Len(posts) - Old /\ ToldOf[Tab] < n /\ n = at' - Old
  BY <1>1, <1>2 DEF ToldOf
<1>4. \A m \in 1..Len(posts) - Old : ToldOf[Tab] < m => n <= m
  BY <1>1 DEF ToldOf
<1>5. ToldOf' = [ToldOf EXCEPT ![Tab] = n]
  BY <1>3 DEF ToldOf
<1>6. Tab \in Following
  BY <1>2 DEF Following
<1> HIDE DEF n
<1> QED BY <1>2, <1>3, <1>4, <1>5, <1>6 DEF Feed!Tell, Following

LEMMA LoadReloads ==
  ASSUME IInv, step \in {"seed", "tail"}, mode' = "live", at' = cursor, posts' = posts
  PROVE  Feed!Reload(Tab)
<1>1. /\ posts \in Seq(Channels) /\ at \in 0..Len(posts) /\ cursor \in 0..Len(posts)
      /\ at <= cursor /\ Old \in Nat /\ Old <= at /\ mode # "live"
  BY DEF IInv, TypeOK, LoadOK
<1>2. cursor - Old \in ToldOf[Tab]..Len(posts) - Old
  BY <1>1 DEF ToldOf
<1>3. ToldOf' = [ToldOf EXCEPT ![Tab] = cursor - Old]
  BY DEF ToldOf
<1>4. Following = {} /\ Following' = {Tab}
  BY <1>1 DEF Following
<1> QED BY <1>2, <1>3, <1>4 DEF Feed!Reload

LEMMA FeedStep == IInv /\ [Next]_vars => [Feed!Next]_(Feed!vars)
<1> SUFFICES ASSUME IInv, [Next]_vars PROVE [Feed!Next]_(Feed!vars)
  OBVIOUS
<1>1. ASSUME NEW c \in Channels, OthersPost(c) PROVE Feed!Commit
  BY <1>1, FeedCommits DEF OthersPost
<1>2. ASSUME NEW s \in Slots, ServeSend(s) PROVE Feed!Commit \/ UNCHANGED Feed!vars
  <2>1. calls[s].ch \in Channels /\ UNCHANGED <<at, mode>>
    BY <1>2, CallFacts DEF ServeSend, IInv
  <2>2. posts' = Append(posts, calls[s].ch) \/ posts' = posts
    BY <1>2 DEF ServeSend
  <2> QED BY <2>1, <2>2, FeedCommits, FeedStutters
<1>3. CASE Frame
  BY <1>3, FrameTells DEF Feed!Next
<1>4. CASE Bootstrapped \/ Resynced
  BY <1>4, LoadReloads DEF Bootstrapped, Resynced, Feed!Next, host
<1>5. CASE ResyncRequired
  <2>1. UNCHANGED <<posts, at>> /\ mode = "live" /\ mode' = "resyncing"
    BY <1>5 DEF ResyncRequired, host
  <2>2. Feed!Lose(Tab)
    BY <2>1 DEF Feed!Lose, ToldOf, Following
  <2> QED BY <2>2 DEF Feed!Next
<1>6. CASE Start \/ ReadSnapshot \/ Replaced \/ LoadFails \/ LoadOlder \/ UNCHANGED vars
  <2>1. UNCHANGED <<posts, at>>
    BY <1>6 DEF Start, ReadSnapshot, Replaced, LoadFails, LoadOlder, vars, host
  <2>2. mode' = "live" <=> mode = "live"
    BY <1>6 DEF Start, ReadSnapshot, Replaced, LoadFails, LoadOlder, vars, IInv, LoadOK
  <2> QED BY <2>1, <2>2, FeedStutters
<1>7. ASSUME NEW c \in Channels, SeedTotal(c) \/ SetActive(c) \/ Hydrate(c) \/ Send(c)
      PROVE  UNCHANGED Feed!vars
  BY <1>7, FeedStutters DEF SeedTotal, SetActive, Hydrate, Send, host
<1>8. ASSUME NEW s \in Slots,
             \/ ServeRead(s) \/ ApplyTail(s) \/ ApplyFrame(s)
             \/ ApplyOlder(s) \/ ApplySend(s) \/ ReadFails(s) \/ SendFails(s)
      PROVE  UNCHANGED Feed!vars
  BY <1>8, FeedStutters DEF ServeRead, ApplyTail, ApplyFrame, ApplyOlder, ApplySend,
     ReadFails, SendFails, host
<1> QED BY <1>1, <1>2, <1>3, <1>4, <1>5, <1>6, <1>7, <1>8 DEF Next, Feed!Next

\* A tab gets every frame once and in order while it is connected, and connects only
\* from a snapshot not older than what it has handled (connect in bootstrap and resync).
THEOREM FeedFollowed == Spec => FollowsFeed
<1> QED BY Inductive, FeedInit, FeedStep, PTL DEF Spec, FollowsFeed, Feed!Spec

-----------------------------------------------------------------------------
(* What is shown was posted, and which calls are in flight when.           *)

\* The host's history goes on where it was.
Grown == Len(posts) <= Len(posts') /\ \A n \in 1..Len(posts) : posts'[n] = posts[n]

\* An answer holds Messages of its Channel.
PagePosted(s) == ~Free(s) => calls[s].page \subseteq In(calls[s].ch)

ShownIsPosted ==
  /\ \A c \in Channels : shown[c] \subseteq In(c)
  /\ \A s \in Slots : PagePosted(s)

\* Before the first bootstrap is over the tab has read nothing and asked nothing.
NothingYet == mode \in {"closed", "opening"} => loaded = {} /\ \A s \in Slots : Free(s)

\* Frames are handled by a live tab, for a list it has or else owes; the last step of a
\* resync is its own tail read.
CallOK(s) ==
  /\ calls[s].kind = "sync" => step = "tail"
  /\ calls[s].kind = "frame" => mode = "live" /\ calls[s].ch \in loaded \cup owed

CallsOK == NothingYet /\ \A s \in Slots : CallOK(s)

\* The call in slot s is issued.
IssuedIn(s, kind, c, seq) ==
  /\ Free(s)
  /\ /\ calls'[s].kind = kind /\ calls'[s].ch = c /\ calls'[s].after = seq
     /\ calls'[s].served = FALSE /\ calls'[s].page = {}
  /\ \A t \in Slots : t # s => calls'[t] = calls[t]

\* The call in slot s is over.
ReturnedIn(s) == calls'[s].kind = "none" /\ \A t \in Slots : t # s => calls'[t] = calls[t]

\* A call is issued in a free slot and changes no other.
LEMMA IssueSlot ==
  ASSUME TypeOK, NEW kind, NEW c, NEW seq, Issue(kind, c, seq)
  PROVE  \E s \in Slots : IssuedIn(s, kind, c, seq)
<1>1. PICK s \in Slots : Free(s) /\ calls' = [calls EXCEPT ![s] = NewCall(kind, c, seq)]
  BY DEF Issue
<1>2. calls \in [Slots -> Call \cup {Idle}]
  BY DEF TypeOK
<1>3. calls'[s] = NewCall(kind, c, seq) /\ \A t \in Slots : t # s => calls'[t] = calls[t]
  BY <1>1, <1>2
<1>4. /\ NewCall(kind, c, seq).kind = kind /\ NewCall(kind, c, seq).ch = c
      /\ NewCall(kind, c, seq).after = seq /\ NewCall(kind, c, seq).served = FALSE
      /\ NewCall(kind, c, seq).page = {}
  BY DEF NewCall
<1> QED BY <1>1, <1>3, <1>4 DEF IssuedIn

\* A call that returns frees its slot.
LEMMA ReturnSlot ==
  ASSUME TypeOK, NEW s \in Slots, Return(s)
  PROVE  ReturnedIn(s)
<1>1. calls \in [Slots -> Call \cup {Idle}] /\ calls' = [calls EXCEPT ![s] = Idle]
  BY DEF TypeOK, Return
<1>2. Idle.kind = "none"
  BY DEF Idle
<1> QED BY <1>1, <1>2 DEF ReturnedIn

\* A read that is served keeps what it asked for.
LEMMA ServeSlot ==
  ASSUME TypeOK, NEW s \in Slots, ServeRead(s)
  PROVE  /\ ~Free(s) /\ ~calls[s].served /\ calls[s].ch \in Channels
         /\ calls[s].kind \in {"tail", "sync", "frame", "older"}
         /\ calls[s].after \in Nat
         /\ calls'[s].kind = calls[s].kind /\ calls'[s].ch = calls[s].ch
         /\ calls'[s].after = calls[s].after /\ calls'[s].served = TRUE
         /\ calls[s].kind \in {"tail", "sync"} => calls'[s].page = TailOf(calls[s].ch)
         /\ calls[s].kind \in {"frame", "older"} =>
              calls'[s].page = PageAfter(calls[s].ch, calls[s].after)
         /\ \A t \in Slots : t # s => calls'[t] = calls[t]
<1> DEFINE c == calls[s].ch
           new == [calls[s] EXCEPT !.served = TRUE, !.page = TailOf(c),
                                   !.count = Cardinality(In(c))]
           next == [calls[s] EXCEPT !.served = TRUE, !.page = PageAfter(c, calls[s].after)]
<1>1. ~Free(s) /\ ~calls[s].served
  BY DEF ServeRead
<1>2. calls[s] \in Call /\ c \in Channels /\ calls[s].after \in 0..MaxPosts
  BY <1>1, CallFacts DEF Free
<1>3. calls \in [Slots -> Call \cup {Idle}]
  BY DEF TypeOK
<1>4. CASE calls[s].kind \in {"tail", "sync"}
  <2>1. calls' = [calls EXCEPT ![s] = new]
    BY <1>3, <1>4 DEF ServeRead
  <2>2. /\ new.kind = calls[s].kind /\ new.ch = c /\ new.after = calls[s].after
        /\ new.served = TRUE /\ new.page = TailOf(c)
    BY <1>2 DEF Call
  <2> HIDE DEF new
  <2> QED BY <1>1, <1>2, <1>3, <1>4, <2>1, <2>2
<1>5. CASE calls[s].kind \in {"frame", "older"}
  <2>1. calls' = [calls EXCEPT ![s] = next]
    BY <1>3, <1>5 DEF ServeRead
  <2>2. /\ next.kind = calls[s].kind /\ next.ch = c /\ next.after = calls[s].after
        /\ next.served = TRUE /\ next.page = PageAfter(c, calls[s].after)
    BY <1>2 DEF Call
  <2> HIDE DEF next
  <2> QED BY <1>1, <1>2, <1>3, <1>5, <2>1, <2>2
<1> QED BY <1>4, <1>5 DEF ServeRead

\* A send that is served has committed its Message, now or before.
LEMMA SendSlot ==
  ASSUME TypeOK, NEW s \in Slots, ServeSend(s)
  PROVE  /\ calls[s].kind = "send" /\ calls'[s].kind = "send" /\ calls[s].ch \in Channels
         /\ calls'[s].ch = calls[s].ch
         /\ \/ /\ posts' = Append(posts, calls[s].ch) /\ calls'[s].page = {Len(posts) + 1}
            \/ posts' = posts /\ calls'[s].page = calls[s].page
         /\ \A t \in Slots : t # s => calls'[t] = calls[t]
<1> DEFINE new == [calls[s] EXCEPT !.served = TRUE, !.page = {Len(posts) + 1}]
           next == [calls[s] EXCEPT !.served = TRUE, !.replayed = TRUE]
<1>1. calls[s].kind = "send" /\ calls[s] \in Call /\ calls[s].ch \in Channels
  BY CallFacts DEF ServeSend
<1>2. calls \in [Slots -> Call \cup {Idle}]
  BY DEF TypeOK
<1>3. CASE calls[s].page = {}
  <2>1. calls' = [calls EXCEPT ![s] = new] /\ posts' = Append(posts, calls[s].ch)
    BY <1>2, <1>3 DEF ServeSend
  <2>2. new.kind = "send" /\ new.ch = calls[s].ch /\ new.page = {Len(posts) + 1}
    BY <1>1 DEF Call
  <2> HIDE DEF new
  <2> QED BY <1>1, <1>2, <2>1, <2>2
<1>4. CASE calls[s].page # {}
  <2>1. calls' = [calls EXCEPT ![s] = next] /\ posts' = posts
    BY <1>2, <1>4 DEF ServeSend
  <2>2. next.kind = "send" /\ next.ch = calls[s].ch /\ next.page = calls[s].page
    BY <1>1 DEF Call
  <2> HIDE DEF next
  <2> QED BY <1>1, <1>2, <2>1, <2>2
<1> QED BY <1>3, <1>4

\* A new generation keeps the sends.
LEMMA GenerationSlot ==
  ASSUME NextGeneration, NEW s \in Slots
  PROVE  calls'[s].kind = "none" \/ (calls[s].kind = "send" /\ calls'[s] = calls[s])
<1>1. Idle.kind = "none"
  BY DEF Idle
<1> QED BY <1>1 DEF NextGeneration

\* No step takes a Message back.
LEMMA StepGrown ==
  ASSUME TypeOK, [Next]_vars
  PROVE  Grown
<1>1. posts \in Seq(Channels) /\ Len(posts) \in Nat
  BY DEF TypeOK
<1>2. ASSUME NEW c \in Channels, posts' = Append(posts, c) PROVE Grown
  BY <1>1, <1>2, AppendFacts DEF Grown
<1>3. ASSUME posts' = posts PROVE Grown
  BY <1>1, <1>3 DEF Grown
<1>4. ASSUME NEW s \in Slots, ServeSend(s) PROVE Grown
  BY <1>2, <1>3, <1>4, SendSlot
<1>5. ASSUME NEW c \in Channels, OthersPost(c) PROVE Grown
  BY <1>2, <1>5 DEF OthersPost
<1>6. CASE \/ Start \/ ResyncRequired \/ ReadSnapshot \/ Bootstrapped \/ Replaced \/ Resynced
           \/ LoadFails \/ Frame \/ LoadOlder \/ UNCHANGED vars
  BY <1>3, <1>6 DEF Start, ResyncRequired, ReadSnapshot, Bootstrapped, Replaced, Resynced,
     LoadFails, Frame, LoadOlder, host, vars
<1>7. ASSUME NEW c \in Channels, SeedTotal(c) \/ SetActive(c) \/ Hydrate(c) \/ Send(c)
      PROVE  Grown
  BY <1>3, <1>7 DEF SeedTotal, SetActive, Hydrate, Send, host
<1>8. ASSUME NEW s \in Slots, \/ ServeRead(s) \/ ApplyTail(s) \/ ApplyFrame(s)
                              \/ ApplyOlder(s) \/ ApplySend(s) \/ ReadFails(s) \/ SendFails(s)
      PROVE  Grown
  BY <1>3, <1>8 DEF ServeRead, ApplyTail, ApplyFrame, ApplyOlder, ApplySend, ReadFails,
     SendFails, host
<1> QED BY <1>4, <1>5, <1>6, <1>7, <1>8 DEF Next

\* Nothing is shown that was neither shown before nor in the answer of a call.
ShownFrom(d) ==
  \/ shown'[d] \subseteq shown[d]
  \/ \E s \in Slots : ~Free(s) /\ calls[s].ch = d /\ shown'[d] \subseteq shown[d] \cup calls[s].page

\* An answer put into its list comes from its call.
LEMMA MergeFrom ==
  ASSUME TypeOK, NEW s \in Slots, ~Free(s), Merge(calls[s].ch, calls[s].page), NEW d \in Channels
  PROVE  ShownFrom(d)
<1>1. shown \in [Channels -> SUBSET Posts]
      /\ shown' = [shown EXCEPT ![calls[s].ch] = @ \cup calls[s].page]
  BY DEF TypeOK, Merge
<1> QED BY <1>1 DEF ShownFrom

\* Every step shows only what some call brought.
LEMMA StepShown ==
  ASSUME TypeOK, [Next]_vars, NEW d \in Channels
  PROVE  ShownFrom(d)
<1>1. ASSUME UNCHANGED shown PROVE ShownFrom(d)
  BY <1>1 DEF ShownFrom
<1>2. ASSUME NEW s \in Slots, ApplyTail(s) \/ ApplyFrame(s) \/ ApplyOlder(s) \/ ApplySend(s)
      PROVE  ShownFrom(d)
  <2>1. ~Free(s) /\ (Merge(calls[s].ch, calls[s].page) \/ UNCHANGED shown)
    BY <1>2 DEF ApplyTail, ApplyFrame, ApplyOlder, ApplySend, Answered, Free
  <2> QED BY <1>1, <2>1, MergeFrom
<1>3. CASE \/ Start \/ ResyncRequired \/ ReadSnapshot \/ Bootstrapped \/ Resynced
           \/ LoadFails \/ Frame \/ LoadOlder \/ UNCHANGED vars
  BY <1>1, <1>3 DEF Start, ResyncRequired, ReadSnapshot, Bootstrapped, Resynced,
     LoadFails, Frame, LoadOlder, view, vars
<1>4. CASE Replaced
  <2>1. shown'[d] = {}
    BY <1>4 DEF Replaced
  <2> QED BY <2>1 DEF ShownFrom
<1>5. ASSUME NEW c \in Channels,
             OthersPost(c) \/ SeedTotal(c) \/ SetActive(c) \/ Hydrate(c) \/ Send(c)
      PROVE  ShownFrom(d)
  BY <1>1, <1>5 DEF OthersPost, SeedTotal, SetActive, Hydrate, Send, view
<1>6. ASSUME NEW s \in Slots, ServeSend(s) \/ ServeRead(s) \/ ReadFails(s) \/ SendFails(s)
      PROVE  ShownFrom(d)
  BY <1>1, <1>6 DEF ServeSend, ServeRead, ReadFails, SendFails, view
<1> QED BY <1>2, <1>3, <1>4, <1>5, <1>6 DEF Next

\* A send whose answer is lost is over, or is sent again.
LEMMA FailSlot ==
  ASSUME TypeOK, NEW s \in Slots, SendFails(s)
  PROVE  /\ calls[s].kind = "send" /\ calls'[s].kind \in {"none", "send"}
         /\ calls'[s].kind = "send" => calls'[s].ch = calls[s].ch /\ calls'[s].page = calls[s].page
         /\ \A t \in Slots : t # s => calls'[t] = calls[t]
<1> DEFINE again == [calls[s] EXCEPT !.served = FALSE]
<1>1. calls[s].kind = "send" /\ calls[s] \in Call /\ calls \in [Slots -> Call \cup {Idle}]
  BY CallFacts DEF SendFails, TypeOK
<1>2. CASE Return(s)
  BY <1>1, <1>2, ReturnSlot DEF ReturnedIn
<1>3. CASE calls' = [calls EXCEPT ![s].served = FALSE]
  <2>1. calls' = [calls EXCEPT ![s] = again]
    BY <1>1, <1>3
  <2>2. again.kind = "send" /\ again.ch = calls[s].ch /\ again.page = calls[s].page
    BY <1>1 DEF Call
  <2> HIDE DEF again
  <2> QED BY <1>1, <2>1, <2>2
<1> QED BY <1>2, <1>3 DEF SendFails

\* What becomes of one call in one step.
CallMoves(t) ==
  \/ calls'[t] = calls[t]
  \/ calls'[t].kind = "none"
  \/ Free(t) /\ calls'[t].page = {} /\ ~calls'[t].served /\ calls'[t].kind \in Kinds
  \/ /\ ~Free(t) /\ calls'[t].kind = calls[t].kind /\ calls'[t].ch = calls[t].ch
     /\ \E c \in Channels : c = calls[t].ch /\ calls'[t].page \subseteq calls[t].page \cup In(c)'

\* Calls are issued, served, answered and forgotten.
LEMMA StepCalls ==
  ASSUME TypeOK, [Next]_vars, NEW t \in Slots
  PROVE  CallMoves(t)
<1>1. ASSUME UNCHANGED calls PROVE CallMoves(t)
  BY <1>1 DEF CallMoves
<1>2. ASSUME NEW kind \in Kinds, NEW c, NEW seq, Issue(kind, c, seq) PROVE CallMoves(t)
  <2>1. PICK s \in Slots : IssuedIn(s, kind, c, seq)
    BY <1>2, IssueSlot
  <2>2. CASE t = s
    BY <2>1, <2>2 DEF IssuedIn, CallMoves
  <2>3. CASE t # s
    BY <2>1, <2>3 DEF IssuedIn, CallMoves
  <2> QED BY <2>2, <2>3
<1>3. ASSUME NEW s \in Slots, Return(s) PROVE CallMoves(t)
  BY <1>3, ReturnSlot DEF ReturnedIn, CallMoves
<1>4. CASE NextGeneration
  BY <1>4, GenerationSlot DEF CallMoves
<1>5. CASE Start \/ ResyncRequired
  BY <1>4, <1>5 DEF Start, ResyncRequired
<1>6. CASE ReadSnapshot \/ Resynced \/ LoadFails \/ UNCHANGED vars
  BY <1>1, <1>6 DEF ReadSnapshot, Resynced, LoadFails, vars
<1>7. CASE Bootstrapped \/ Replaced \/ LoadOlder
  BY <1>2, <1>7 DEF Bootstrapped, Replaced, LoadOlder, Kinds
<1>8. CASE Frame
  <2>1. UNCHANGED calls \/ \E seq : Issue("frame", posts[at + 1], seq)
    BY <1>8 DEF Frame
  <2> QED BY <1>1, <1>2, <2>1 DEF Kinds
<1>9. ASSUME NEW c \in Channels, OthersPost(c) \/ SeedTotal(c) PROVE CallMoves(t)
  BY <1>1, <1>9 DEF OthersPost, SeedTotal
<1>10. ASSUME NEW c \in Channels, SetActive(c) \/ Hydrate(c) \/ Send(c) PROVE CallMoves(t)
  BY <1>1, <1>2, <1>10 DEF SetActive, Hydrate, Send, Kinds
<1>11. ASSUME NEW s \in Slots, ServeSend(s) PROVE CallMoves(t)
  <2>1. posts \in Seq(Channels) /\ Len(posts) \in Nat
    BY DEF TypeOK
  <2>2. PICK c \in Channels : c = calls[s].ch
    BY <1>11, SendSlot
  <2>3. ASSUME posts' = Append(posts, c) PROVE Len(posts) + 1 \in In(c)'
    <3>1. Len(posts') = Len(posts) + 1 /\ posts'[Len(posts) + 1] = c
      BY <2>1, <2>3
    <3> QED BY <2>1, <3>1 DEF In
  <2>4. CASE t # s
    BY <1>11, <2>4, SendSlot DEF CallMoves
  <2>5. CASE t = s
    <3>1. calls'[s].page \subseteq calls[s].page \cup In(c)'
      BY <1>11, <2>2, <2>3, SendSlot
    <3>2. calls[s].kind = "send" /\ calls'[s].kind = "send" /\ calls'[s].ch = c
      BY <1>11, <2>2, SendSlot
    <3> QED BY <2>2, <2>5, <3>1, <3>2 DEF CallMoves, Free
  <2> QED BY <2>4, <2>5
<1>12. ASSUME NEW s \in Slots, ServeRead(s) PROVE CallMoves(t)
  <2>1. CASE t # s
    BY <1>12, <2>1, ServeSlot DEF CallMoves
  <2>2. CASE t = s
    <3>1. PICK c \in Channels : c = calls[s].ch
      BY <1>12, ServeSlot
    <3>2. posts' = posts
      BY <1>12 DEF ServeRead, host
    <3>3. TailOf(c) \subseteq In(c) /\ PageAfter(c, calls[s].after) \subseteq In(c)
      BY DEF TailOf, LastOf, PageAfter, FirstOf
    <3>4. In(c)' = In(c)
      BY <3>2 DEF In
    <3>5. calls'[s].page \subseteq In(c)'
      <4>1. calls'[s].page = TailOf(c) \/ calls'[s].page = PageAfter(c, calls[s].after)
        BY <1>12, <3>1, ServeSlot
      <4> QED BY <3>3, <3>4, <4>1
    <3>6. ~Free(s) /\ calls'[s].kind = calls[s].kind /\ calls'[s].ch = calls[s].ch
      BY <1>12, ServeSlot
    <3> QED BY <2>2, <3>1, <3>5, <3>6 DEF CallMoves
  <2> QED BY <2>1, <2>2
<1>13. ASSUME NEW s \in Slots,
              ApplyTail(s) \/ ApplyFrame(s) \/ ApplyOlder(s) \/ ApplySend(s) \/ ReadFails(s)
       PROVE  CallMoves(t)
  BY <1>3, <1>13 DEF ApplyTail, ApplyFrame, ApplyOlder, ApplySend, ReadFails, Answered
<1>14. ASSUME NEW s \in Slots, SendFails(s) PROVE CallMoves(t)
  <2>1. CASE t # s
    BY <1>14, <2>1, FailSlot DEF CallMoves
  <2>2. CASE t = s
    <3>1. PICK c \in Channels : c = calls[s].ch
      BY <1>14, FailSlot, CallFacts
    <3> QED BY <1>14, <2>2, <3>1, FailSlot DEF CallMoves, Free
  <2> QED BY <2>1, <2>2
<1> QED BY <1>5, <1>6, <1>7, <1>8, <1>9, <1>10, <1>11, <1>12, <1>13, <1>14 DEF Next

\* Lists and answers hold Messages of their Channel.
LEMMA StepPosted ==
  ASSUME TypeOK, TypeOK', ShownIsPosted, [Next]_vars
  PROVE  ShownIsPosted'
<1>1. ASSUME NEW c \in Channels PROVE In(c) \subseteq In(c)'
  BY StepGrown, OldMessages DEF Grown
<1>2. ASSUME NEW c \in Channels PROVE shown'[c] \subseteq In(c)'
  <2>1. CASE shown'[c] \subseteq shown[c]
    BY <1>1, <2>1 DEF ShownIsPosted
  <2>2. CASE ~(shown'[c] \subseteq shown[c])
    <3>1. PICK s \in Slots : /\ ~Free(s) /\ calls[s].ch = c
                             /\ shown'[c] \subseteq shown[c] \cup calls[s].page
      BY <2>2, StepShown DEF ShownFrom
    <3>2. calls[s].page \subseteq In(c) /\ shown[c] \subseteq In(c)
      BY <3>1 DEF ShownIsPosted, PagePosted
    <3> QED BY <1>1, <3>1, <3>2
  <2> QED BY <2>1, <2>2
<1>3. ASSUME NEW s \in Slots PROVE PagePosted(s)'
  <2> SUFFICES ASSUME calls'[s].kind # "none"
               PROVE  calls'[s].page \subseteq In(calls[s].ch)'
    BY DEF PagePosted, Free
  <2>1. CASE calls'[s] = calls[s]
    <3>1. calls[s].ch \in Channels /\ calls[s].page \subseteq In(calls[s].ch)
      BY <2>1, CallFacts DEF ShownIsPosted, PagePosted, Free
    <3>2. PICK c \in Channels : c = calls[s].ch
      BY <3>1
    <3>3. calls'[s].page \subseteq In(c)' /\ calls'[s].ch = c
      BY <1>1, <2>1, <3>1, <3>2
    <3> QED BY <3>3 DEF In
  <2>2. CASE calls'[s].page = {}
    BY <2>2
  <2>3. CASE ~Free(s) /\ calls'[s].ch = calls[s].ch
             /\ \E c \in Channels : /\ c = calls[s].ch
                                   /\ calls'[s].page \subseteq calls[s].page \cup In(c)'
    <3>1. PICK c \in Channels : /\ c = calls[s].ch
                                /\ calls'[s].page \subseteq calls[s].page \cup In(c)'
      BY <2>3
    <3>2. calls[s].page \subseteq In(c)
      BY <2>3, <3>1 DEF ShownIsPosted, PagePosted
    <3>3. calls'[s].page \subseteq In(c)'
      BY <1>1, <3>1, <3>2
    <3> QED BY <2>3, <3>1, <3>3 DEF In
  <2> QED BY <2>1, <2>2, <2>3, StepCalls DEF CallMoves
<1> QED BY <1>2, <1>3 DEF ShownIsPosted

-----------------------------------------------------------------------------
(* Where calls stand, step by step.                                        *)

\* A call that goes on in the same surroundings keeps its place.
LEMMA CallStays ==
  ASSUME NEW t \in Slots, CallOK(t), calls'[t].kind = calls[t].kind,
         calls'[t].ch = calls[t].ch, UNCHANGED <<mode, step>>, loaded \subseteq loaded',
         loaded \cup owed \subseteq loaded' \cup owed'
  PROVE  CallOK(t)'
BY DEF CallOK

\* Nothing is asked of a call that is over, of a send or of an opening read.
LEMMA PlainCall ==
  ASSUME NEW t \in Slots, calls'[t].kind \in {"none", "send", "tail"}
  PROVE  CallOK(t)'
BY DEF CallOK

\* A plain call is issued.
LEMMA PlainIssue ==
  ASSUME TypeOK, NEW kind \in {"send", "tail"}, NEW c, NEW seq, Issue(kind, c, seq),
         NEW t \in Slots, calls'[t] = calls[t] => CallOK(t)'
  PROVE  CallOK(t)'
<1>1. PICK s \in Slots : IssuedIn(s, kind, c, seq)
  BY IssueSlot
<1>2. CASE t = s
  BY <1>1, <1>2, PlainCall DEF IssuedIn
<1>3. CASE t # s
  BY <1>1, <1>3 DEF IssuedIn
<1> QED BY <1>2, <1>3

\* Each step leaves every call in its place.
LEMMA StepCallOK ==
  ASSUME TypeOK, LoadOK, HeadOK, CallsOK, [Next]_vars, NEW t \in Slots
  PROVE  CallOK(t)'
<1>0. CallOK(t)
  BY DEF CallsOK
<1>1. CASE Start \/ ResyncRequired
  BY <1>1, GenerationSlot, PlainCall DEF Start, ResyncRequired
<1>2. CASE ReadSnapshot
  BY <1>0, <1>2 DEF ReadSnapshot, CallOK, view
<1>3. CASE Bootstrapped
  <2>1. PICK c \in Channels : Issue("tail", c, 0)
    BY <1>3 DEF Bootstrapped
  <2>2. calls[t].kind = "none"
    BY <1>3 DEF Bootstrapped, CallsOK, NothingYet, Free
  <2> QED BY <2>1, <2>2, PlainIssue, PlainCall
<1>4. CASE Replaced
  <2>1. PICK s \in Slots : IssuedIn(s, "sync", active, 0)
    BY <1>4, IssueSlot DEF Replaced
  <2>2. mode = "resyncing" /\ step = "seed" /\ step' = "tail"
    BY <1>4 DEF Replaced
  <2>3. calls[t].kind \notin {"sync", "frame", "older"}
    BY <1>0, <2>2 DEF CallOK, HeadOK, OlderOK
  <2>4. CASE t = s
    BY <2>1, <2>2, <2>4 DEF IssuedIn, CallOK
  <2>5. CASE t # s
    BY <2>1, <2>3, <2>5 DEF IssuedIn, CallOK
  <2> QED BY <2>4, <2>5
<1>5. CASE Resynced
  <2>1. mode = "resyncing" /\ calls[t].kind # "sync"
    BY <1>5 DEF Resynced, LoadOK
  <2> QED BY <1>0, <1>5, <2>1 DEF Resynced, CallOK, view
<1>6. CASE LoadFails
  <2>1. mode # "live" /\ step # "tail"
    BY <1>6 DEF LoadFails, LoadOK
  <2> QED BY <1>0, <1>6, <2>1 DEF LoadFails, CallOK, view
<1>7. CASE Frame
  <2> DEFINE c == posts[at + 1]
  <2>0. mode = "live" /\ UNCHANGED <<mode, step, loaded>>
    BY <1>7 DEF Frame, Connected, load, view
  <2>1. CASE /\ Issue("frame", c, MaxSeq(shown[c]))
             /\ owed' = IF Reaches(c) THEN owed \ {c} ELSE owed \cup {c}
    <3>1. PICK s \in Slots : IssuedIn(s, "frame", c, MaxSeq(shown[c]))
      BY <2>1, IssueSlot
    <3>2. Reaches(c) => c \in loaded
      BY DEF Reaches
    <3>3. c \in loaded' \cup owed' /\ loaded \cup owed \subseteq loaded' \cup owed'
      BY <2>0, <2>1, <3>2
    <3>4. CASE t = s
      BY <2>0, <3>1, <3>3, <3>4 DEF IssuedIn, CallOK
    <3>5. CASE t # s
      <4>1. calls'[t] = calls[t]
        BY <3>1, <3>5 DEF IssuedIn
      <4> QED BY <1>0, <2>0, <3>3, <4>1, CallStays
    <3> QED BY <3>4, <3>5
  <2>2. CASE UNCHANGED calls /\ owed \subseteq owed'
    BY <1>0, <2>0, <2>2, CallStays
  <2> QED BY <1>7, <2>1, <2>2 DEF Frame
<1>8. CASE LoadOlder
  <2>1. PICK s \in Slots : IssuedIn(s, "older", active, headCursor[active])
    BY <1>8, IssueSlot DEF LoadOlder
  <2>2. UNCHANGED <<mode, step, loaded, owed>>
    BY <1>8 DEF LoadOlder, load, view
  <2>3. CASE t = s
    BY <2>1, <2>2, <2>3 DEF IssuedIn, CallOK
  <2>4. CASE t # s
    <3>1. calls'[t] = calls[t]
      BY <2>1, <2>4 DEF IssuedIn
    <3> QED BY <1>0, <2>2, <3>1, CallStays
  <2> QED BY <2>3, <2>4
<1>9. CASE UNCHANGED vars
  BY <1>0, <1>9, CallStays DEF vars, load, view
<1>10. ASSUME NEW c \in Channels, OthersPost(c) \/ SeedTotal(c) PROVE CallOK(t)'
  BY <1>0, <1>10, CallStays DEF OthersPost, SeedTotal, load, view
<1>11. ASSUME NEW c \in Channels, SetActive(c) \/ Hydrate(c) \/ Send(c) PROVE CallOK(t)'
  <2>1. UNCHANGED <<mode, step, loaded, owed>>
    BY <1>11 DEF SetActive, Hydrate, Send, load, view
  <2>2. calls'[t] = calls[t] => CallOK(t)'
    BY <1>0, <2>1, CallStays
  <2>3. UNCHANGED calls \/ \E kind \in {"send", "tail"} : Issue(kind, c, 0)
    BY <1>11 DEF SetActive, Hydrate, Send
  <2> QED BY <2>2, <2>3, PlainIssue
<1>12. ASSUME NEW s \in Slots, ServeSend(s) PROVE CallOK(t)'
  <2>1. UNCHANGED <<mode, step, loaded, owed>>
    BY <1>12 DEF ServeSend, load, view
  <2>2. CASE t = s
    BY <1>12, <2>2, SendSlot, PlainCall
  <2>3. CASE t # s
    <3>1. calls'[t] = calls[t]
      BY <1>12, <2>3, SendSlot
    <3> QED BY <1>0, <2>1, <3>1, CallStays
  <2> QED BY <2>2, <2>3
<1>13. ASSUME NEW s \in Slots, ServeRead(s) PROVE CallOK(t)'
  <2>1. UNCHANGED <<mode, step, loaded, owed>>
    BY <1>13 DEF ServeRead, load, view
  <2>2. calls'[t].kind = calls[t].kind /\ calls'[t].ch = calls[t].ch
    BY <1>13, ServeSlot
  <2> QED BY <1>0, <2>1, <2>2, CallStays
<1>14. ASSUME NEW s \in Slots, ReturnedIn(s), UNCHANGED <<mode, step>>,
              loaded \subseteq loaded', owed \subseteq owed'
       PROVE  CallOK(t)'
  <2>1. CASE t = s
    BY <1>14, <2>1, PlainCall DEF ReturnedIn
  <2>2. CASE t # s
    <3>1. calls'[t] = calls[t]
      BY <1>14, <2>2 DEF ReturnedIn
    <3>2. loaded \cup owed \subseteq loaded' \cup owed'
      BY <1>14
    <3> QED BY <1>0, <1>14, <3>1, <3>2, CallStays
  <2> QED BY <2>1, <2>2
<1>15. ASSUME NEW s \in Slots, ApplyTail(s) \/ ApplyFrame(s) \/ ApplyOlder(s) \/ ApplySend(s)
       PROVE  CallOK(t)'
  <2>1. ReturnedIn(s)
    BY <1>15, ReturnSlot DEF ApplyTail, ApplyFrame, ApplyOlder, ApplySend, Answered
  <2>2. UNCHANGED <<mode, step>> /\ owed \subseteq owed'
    BY <1>15 DEF ApplyTail, ApplyFrame, ApplyOlder, ApplySend, load
  <2>3. loaded \subseteq loaded'
    BY <1>15 DEF ApplyTail, ApplyFrame, ApplyOlder, ApplySend, Merge
  <2> QED BY <1>14, <2>1, <2>2, <2>3
<1>16. ASSUME NEW s \in Slots, ReadFails(s) PROVE CallOK(t)'
  <2>1. ReturnedIn(s)
    BY <1>16, ReturnSlot DEF ReadFails
  <2>2. UNCHANGED <<mode, step, loaded>> /\ owed \subseteq owed'
    BY <1>16 DEF ReadFails, load, view
  <2> QED BY <1>14, <2>1, <2>2
<1>17. ASSUME NEW s \in Slots, SendFails(s) PROVE CallOK(t)'
  <2>1. UNCHANGED <<mode, step, loaded, owed>>
    BY <1>17 DEF SendFails, load, view
  <2>2. CASE t = s
    BY <1>17, <2>2, FailSlot, PlainCall
  <2>3. CASE t # s
    <3>1. calls'[t] = calls[t]
      BY <1>17, <2>3, FailSlot
    <3> QED BY <1>0, <2>1, <3>1, CallStays
  <2> QED BY <2>2, <2>3
<1> QED BY <1>1, <1>2, <1>3, <1>4, <1>5, <1>6, <1>7, <1>8, <1>9, <1>10, <1>11, <1>12, <1>13,
        <1>15, <1>16, <1>17 DEF Next

\* Nothing is read or asked before the tab is there.
LEMMA StepNothingYet ==
  ASSUME TypeOK, LoadOK, NothingYet, [Next]_vars
  PROVE  NothingYet'
<1> SUFFICES ASSUME mode' \in {"closed", "opening"}
             PROVE  loaded' = {} /\ \A t \in Slots : calls'[t].kind = "none"
  BY DEF NothingYet, Free
<1> DEFINE Before == mode \in {"closed", "opening"}
<1>1. Before => loaded = {} /\ \A t \in Slots : calls[t].kind = "none"
  BY DEF NothingYet, Free
<1>2. CASE Start
  <2>1. mode = "closed" /\ NextGeneration /\ UNCHANGED loaded
    BY <1>2 DEF Start, view
  <2>2. loaded = {} /\ \A t \in Slots : calls[t].kind = "none"
    BY <1>1, <2>1
  <2> QED BY <2>1, <2>2, GenerationSlot
<1>3. ASSUME UNCHANGED <<loaded, calls>>, Before
      PROVE  loaded' = {} /\ \A t \in Slots : calls'[t].kind = "none"
  BY <1>1, <1>3
<1>4. CASE ReadSnapshot \/ LoadFails \/ UNCHANGED vars
  <2>1. UNCHANGED <<loaded, calls>>
    BY <1>4 DEF ReadSnapshot, LoadFails, vars, view
  <2>2. Before
    BY <1>4 DEF ReadSnapshot, LoadFails, vars
  <2> QED BY <1>3, <2>1, <2>2
<1>5. ASSUME NEW c \in Channels, OthersPost(c) \/ SeedTotal(c)
      PROVE  loaded' = {} /\ \A t \in Slots : calls'[t].kind = "none"
  BY <1>3, <1>5 DEF OthersPost, SeedTotal, view
<1>6. ~ResyncRequired /\ ~Bootstrapped /\ ~Resynced /\ ~Replaced /\ ~Frame /\ ~LoadOlder
  BY DEF ResyncRequired, Bootstrapped, Resynced, Replaced, Frame, LoadOlder, Connected
<1>7. ASSUME NEW c \in Channels PROVE ~SetActive(c) /\ ~Hydrate(c) /\ ~Send(c)
  BY DEF SetActive, Hydrate, Send, Usable
<1>8. ASSUME NEW s \in Slots, \/ ServeSend(s) \/ ServeRead(s) \/ ApplyTail(s) \/ ApplyFrame(s)
                              \/ ApplyOlder(s) \/ ApplySend(s) \/ ReadFails(s) \/ SendFails(s)
      PROVE  FALSE
  <2>1. mode' = mode
    BY <1>8 DEF ServeSend, ServeRead, ApplyTail, ApplyFrame, ApplyOlder, ApplySend, ReadFails,
       SendFails
  <2>2. calls[s].kind = "none"
    BY <1>1, <2>1
  <2> QED BY <1>8, <2>2 DEF ServeSend, ServeRead, ApplyTail, ApplyFrame, ApplyOlder, ApplySend,
          ReadFails, SendFails, Answered, Free
<1> QED BY <1>2, <1>4, <1>5, <1>6, <1>7, <1>8 DEF Next

-----------------------------------------------------------------------------
(* Which lists end with the newest Message the tab was told of.            *)

\* How far the tab follows the feed; a resync in its last step goes on from its snapshot.
Position == IF step = "tail" THEN cursor ELSE at

\* m is the newest Message of c that the tab has been told of.
Told(c, m) ==
  m \in In(c) /\ m <= Position /\ \A k \in In(c) : k <= Position => k <= m

\* S holds m or something newer.
Covers(S, m) == \E n \in S : m <= n

\* Between seq and m no more Messages of c were posted than fit a page.
WithinPage(c, seq, m) ==
  seq < m /\ Cardinality({n \in In(c) : seq < n /\ n <= m}) <= HeadPage

\* The reread in slot s has brought m, or will when it is served.
Brings(s, c, m) ==
  /\ calls[s].kind = "frame" /\ calls[s].ch = c
  /\ \/ calls[s].served /\ Covers(calls[s].page, m)
     \/ ~calls[s].served /\ WithinPage(c, calls[s].after, m)

\* A list shows the newest Message it was told of, or a reread under way brings it.
ListOK(c) == c \in loaded \ owed =>
  \A m \in Posts : Told(c, m) => Covers(shown[c], m) \/ \E s \in Slots : Brings(s, c, m)

\* The answer in slot s is that of an opening read of c.
OpeningRead(s, c) ==
  calls[s].kind \in {"tail", "sync"} /\ calls[s].ch = c /\ calls[s].served

\* So does the answer that will make a list.
OpeningOK(c) == c \notin loaded \cup owed =>
  \A s \in Slots : OpeningRead(s, c) =>
    \A m \in Posts : Told(c, m) => Covers(calls[s].page, m)

Followed == mode = "live" \/ step = "tail"
FollowOK == Followed => \A c \in Channels : ListOK(c) /\ OpeningOK(c)

\* Told of nothing more, the newest Message stays the newest.
LEMMA ToldStays ==
  ASSUME TypeOK, TypeOK', Grown, Position' = Position, NEW c \in Channels, NEW m, Told(c, m)'
  PROVE  Told(c, m)
<1>1. Position \in 0..Len(posts) /\ Len(posts) \in Nat
  BY DEF TypeOK, Position
<1>2. In(c) \subseteq In(c)' /\ \A n \in In(c)' : n <= Len(posts) => n \in In(c)
  BY OldMessages DEF Grown
<1>3. m \in In(c)' /\ m <= Position /\ \A k \in In(c)' : k <= Position => k <= m
  BY DEF Told
<1>4. m \in Nat
  BY <1>3, HistoryFacts, TypeOK' DEF In
<1>5. m \in In(c)
  BY <1>1, <1>2, <1>3, <1>4
<1> QED BY <1>2, <1>3, <1>5 DEF Told

\* What was posted up to m does not change.
LEMMA WithinStays ==
  ASSUME TypeOK, TypeOK', Grown, NEW c \in Channels, NEW m \in In(c), NEW seq \in Nat,
         WithinPage(c, seq, m)
  PROVE  WithinPage(c, seq, m)'
<1>1. In(c) \subseteq In(c)' /\ \A n \in In(c)' : n <= Len(posts) => n \in In(c)
  BY OldMessages DEF Grown
<1>2. m \in 1..Len(posts) /\ Len(posts) \in Nat /\ \A n \in In(c)' : n \in Nat
  BY HistoryFacts DEF In
<1>3. {n \in In(c) : seq < n /\ n <= m} = {n \in In(c)' : seq < n /\ n <= m}
  BY <1>1, <1>2
<1> QED BY <1>3 DEF WithinPage

\* The tail of a history holds its last Message.
LEMMA TailCovers ==
  ASSUME TypeOK, NEW c \in Channels, NEW m \in In(c)
  PROVE  Covers(TailOf(c), m)
<1>1. In(c) \in SUBSET (1..Len(posts)) /\ Len(posts) \in Nat
  BY HistoryFacts
<1>2. PICK x \in In(c) : \A y \in In(c) : y <= x
  BY <1>1, LastOfSet
<1>3. {k \in In(c) : k >= x} = {x}
  BY <1>1, <1>2
<1>4. Cardinality({x}) = 1
  BY FS_Singleton
<1>5. Cardinality({k \in In(c) : k >= x}) <= TailPage
  BY <1>3, <1>4
<1>6. x \in TailOf(c)
  BY <1>5 DEF TailOf, LastOf
<1> QED BY <1>2, <1>6 DEF Covers

\* A page holds what it reaches.
LEMMA PageReaches ==
  ASSUME TypeOK, NEW c \in Channels, NEW m \in In(c), NEW seq \in Nat, WithinPage(c, seq, m)
  PROVE  Covers(PageAfter(c, seq), m)
<1> DEFINE beyond == {n \in In(c) : n > seq}
<1>1. \A n \in In(c) : n \in Nat
  BY HistoryFacts
<1>2. {n \in beyond : n <= m} = {n \in In(c) : seq < n /\ n <= m}
  BY <1>1
<1>3. m \in beyond
  BY <1>1 DEF WithinPage
<1>4. Cardinality({n \in beyond : n <= m}) <= HeadPage
  BY <1>2 DEF WithinPage
<1>5. m \in PageAfter(c, seq)
  BY <1>3, <1>4 DEF PageAfter, FirstOf
<1> QED BY <1>1, <1>5 DEF Covers

\* A reread goes on, or is served, or is put into its list.
FrameKept(s, c) ==
  \/ calls'[s] = calls[s]
  \/ ServeRead(s)
  \/ calls[s].served /\ calls[s].page \subseteq shown'[c]

\* A reread that brings m keeps doing so until m is shown.
LEMMA BringsStays ==
  ASSUME TypeOK, TypeOK', Grown, NEW c \in Channels, NEW m \in In(c), NEW s \in Slots,
         Brings(s, c, m), FrameKept(s, c)
  PROVE  Brings(s, c, m)' \/ Covers(shown'[c], m)
<1>1. calls[s].kind = "frame" /\ calls[s].ch = c /\ calls[s].after \in Nat
  <2>1. calls[s].kind = "frame" /\ calls[s].ch = c
    BY DEF Brings
  <2>2. calls[s].after \in 0..MaxPosts
    BY <2>1, CallFacts
  <2> QED BY <2>1, <2>2
<1>2. CASE calls[s].served /\ Covers(calls[s].page, m)
  <2>1. CASE calls'[s] = calls[s]
    BY <1>1, <1>2, <2>1 DEF Brings
  <2>2. CASE ServeRead(s)
    BY <1>2, <2>2, ServeSlot
  <2>3. CASE calls[s].page \subseteq shown'[c]
    BY <1>2, <2>3 DEF Covers
  <2> QED BY <1>2, <2>1, <2>2, <2>3 DEF FrameKept
<1>3. CASE ~calls[s].served /\ WithinPage(c, calls[s].after, m)
  <2>1. CASE calls'[s] = calls[s]
    <3>1. WithinPage(c, calls[s].after, m)'
      <4>1. PICK seq \in Nat : seq = calls[s].after
        BY <1>1
      <4>2. WithinPage(c, seq, m)'
        BY <1>3, <4>1, WithinStays
      <4> QED BY <2>1, <4>1, <4>2 DEF WithinPage
    <3> QED BY <1>1, <1>3, <2>1, <3>1 DEF Brings
  <2>2. CASE ServeRead(s)
    <3>1. calls'[s].page = PageAfter(c, calls[s].after) /\ calls'[s].served
          /\ calls'[s].kind = "frame" /\ calls'[s].ch = c
      BY <1>1, <2>2, ServeSlot
    <3>2. Covers(PageAfter(c, calls[s].after), m)
      BY <1>1, <1>3, PageReaches
    <3>3. Covers(calls'[s].page, m)
      BY <3>1, <3>2
    <3> QED BY <3>1, <3>3 DEF Brings
  <2> QED BY <1>3, <2>1, <2>2 DEF FrameKept
<1> QED BY <1>2, <1>3 DEF Brings

\* A list that was told of nothing more stays as good as it was.
LEMMA ListStays ==
  ASSUME TypeOK, TypeOK', Grown, Position' = Position, NEW c \in Channels, ListOK(c),
         c \in loaded' \ owed' => c \in loaded \ owed, shown[c] \subseteq shown'[c],
         \A s \in Slots : calls[s].kind = "frame" /\ calls[s].ch = c => FrameKept(s, c)
  PROVE  ListOK(c)'
<1> SUFFICES ASSUME c \in loaded' \ owed', NEW m \in Posts, Told(c, m)'
             PROVE  Covers(shown'[c], m) \/ \E s \in Slots : Brings(s, c, m)'
  BY DEF ListOK
<1>1. Told(c, m)
  BY ToldStays
<1>2. m \in In(c)
  BY <1>1 DEF Told
<1>3. CASE Covers(shown[c], m)
  BY <1>3 DEF Covers
<1>4. ASSUME NEW s \in Slots, Brings(s, c, m)
      PROVE  Covers(shown'[c], m) \/ Brings(s, c, m)'
  <2>1. FrameKept(s, c)
    BY <1>4 DEF Brings
  <2> QED BY <1>2, <1>4, <2>1, BringsStays
<1> QED BY <1>1, <1>3, <1>4 DEF ListOK

\* So does the answer of an opening read; one just served has the tail as it is.
LEMMA OpeningStays ==
  ASSUME TypeOK, TypeOK', Grown, Position' = Position, NEW c \in Channels, OpeningOK(c),
         c \notin loaded' \cup owed' => c \notin loaded \cup owed,
         \A s \in Slots : OpeningRead(s, c)' => calls'[s] = calls[s] \/ ServeRead(s)
  PROVE  OpeningOK(c)'
<1> SUFFICES ASSUME c \notin loaded' \cup owed', NEW s \in Slots, OpeningRead(s, c)',
                    NEW m \in Posts, Told(c, m)'
             PROVE  Covers(calls'[s].page, m)
  BY DEF OpeningOK
<1>1. Told(c, m) /\ m \in In(c)
  BY ToldStays DEF Told
<1>2. CASE calls'[s] = calls[s]
  <2>1. OpeningRead(s, c)
    BY <1>2 DEF OpeningRead
  <2>2. Covers(calls[s].page, m)
    BY <1>1, <2>1 DEF OpeningOK
  <2> QED BY <1>2, <2>2
<1>3. CASE ServeRead(s)
  <2>1. calls'[s].kind \in {"tail", "sync"} /\ calls'[s].ch = c
    BY DEF OpeningRead
  <2>2. calls'[s].page = TailOf(c)
    BY <1>3, <2>1, ServeSlot
  <2> QED BY <1>1, <2>2, TailCovers
<1> QED BY <1>2, <1>3

\* Both, of a Channel.
ChannelOK(c) == ListOK(c) /\ OpeningOK(c)

\* Steps that tell the tab nothing and leave each call, or free or fill one slot.
Untold(c) ==
  /\ Position' = Position
  /\ c \in loaded' \ owed' => c \in loaded \ owed
  /\ c \notin loaded' \cup owed' => c \notin loaded \cup owed
  /\ shown[c] \subseteq shown'[c]

\* Nothing but unserved calls, sends and reads of older Messages is new.
LEMMA ChannelStays ==
  ASSUME TypeOK, TypeOK', Grown, NEW c \in Channels, ChannelOK(c), Untold(c),
         \A s \in Slots : calls[s].kind = "frame" /\ calls[s].ch = c => FrameKept(s, c),
         \A s \in Slots : OpeningRead(s, c)' => calls'[s] = calls[s] \/ ServeRead(s)
  PROVE  ChannelOK(c)'
<1>1. ListOK(c)'
  BY ListStays DEF ChannelOK, Untold
<1>2. OpeningOK(c)'
  BY OpeningStays DEF ChannelOK, Untold
<1> QED BY <1>1, <1>2 DEF ChannelOK

\* A call is issued that brings nothing by itself.
LEMMA IssueKeeps ==
  ASSUME TypeOK, TypeOK', Grown, NEW c \in Channels, ChannelOK(c), Untold(c),
         NEW kind, NEW d, NEW seq, Issue(kind, d, seq)
  PROVE  ChannelOK(c)'
<1>1. PICK s \in Slots : IssuedIn(s, kind, d, seq)
  BY IssueSlot
<1>2. ASSUME NEW t \in Slots, calls[t].kind = "frame" PROVE FrameKept(t, c)
  BY <1>1, <1>2 DEF IssuedIn, FrameKept, Free
<1>3. ASSUME NEW t \in Slots, OpeningRead(t, c)' PROVE calls'[t] = calls[t]
  BY <1>1, <1>3 DEF IssuedIn, OpeningRead
<1> QED BY <1>2, <1>3, ChannelStays

\* A call returns whose answer is in its list, or brought nothing.
LEMMA ReturnKeeps ==
  ASSUME TypeOK, TypeOK', Grown, NEW c \in Channels, ChannelOK(c), Untold(c),
         NEW s \in Slots, ReturnedIn(s),
         calls[s].kind = "frame" /\ calls[s].ch = c =>
           calls[s].served /\ calls[s].page \subseteq shown'[c]
  PROVE  ChannelOK(c)'
<1>1. ASSUME NEW t \in Slots, calls[t].kind = "frame", calls[t].ch = c PROVE FrameKept(t, c)
  BY <1>1 DEF ReturnedIn, FrameKept
<1>2. ASSUME NEW t \in Slots, OpeningRead(t, c)' PROVE calls'[t] = calls[t]
  BY <1>2 DEF ReturnedIn, OpeningRead
<1> QED BY <1>1, <1>2, ChannelStays

\* A list is made of the answer that covers what the tab was told of.
LEMMA OpeningMakesList ==
  ASSUME TypeOK, TypeOK', Grown, Position' = Position, NEW s \in Slots, OpeningOK(calls[s].ch),
         calls[s].ch \notin loaded, UNCHANGED owed, NEW c \in Channels, OpeningRead(s, c),
         calls[s].page \subseteq shown'[c], c \in loaded'
  PROVE  ChannelOK(c)'
<1>0. calls[s].ch = c
  BY DEF OpeningRead
<1>1. OpeningOK(c)'
  BY DEF OpeningOK
<1>2. ListOK(c)'
  <2> SUFFICES ASSUME c \notin owed, NEW m \in Posts, Told(c, m)'
               PROVE  Covers(shown'[c], m)
    BY DEF ListOK
  <2>1. Told(c, m)
    BY ToldStays
  <2>2. Covers(calls[s].page, m)
    BY <1>0, <2>1 DEF OpeningOK
  <2> QED BY <2>2 DEF Covers
<1> QED BY <1>1, <1>2 DEF ChannelOK

\* The list of another Channel is not touched by a merge.
LEMMA MergeElsewhere ==
  ASSUME TypeOK, NEW d \in Channels, NEW page, Merge(d, page), NEW c \in Channels, c # d,
         c \in owed' <=> c \in owed, Position' = Position
  PROVE  Untold(c)
BY DEF TypeOK, Merge, Untold

\* A list that is there takes an answer in.
LEMMA MergeIntoList ==
  ASSUME TypeOK, NEW c \in Channels, NEW page, Merge(c, page), c \in loaded \cup owed,
         c \in owed' <=> c \in owed, Position' = Position
  PROVE  Untold(c)
BY DEF TypeOK, Merge, Untold

\* The answers of reads.
LEMMA AnswerFollow ==
  ASSUME TypeOK, TypeOK', Grown, CallsOK, NEW c \in Channels, ChannelOK(c), NEW s \in Slots,
         ApplyTail(s) \/ ApplyFrame(s) \/ ApplyOlder(s)
  PROVE  ChannelOK(c)'
<1>1. /\ ReturnedIn(s) /\ calls[s].served /\ calls[s].kind \in {"tail", "sync", "frame", "older"}
      /\ Merge(calls[s].ch, calls[s].page)
      /\ IF calls[s].kind = "older" /\ calls[s].ch \notin loaded
         THEN owed' = owed \cup {calls[s].ch}
         ELSE UNCHANGED owed
  BY ReturnSlot DEF ApplyTail, ApplyFrame, ApplyOlder, Answered
<1>2. Position' = Position
  BY DEF ApplyTail, ApplyFrame, ApplyOlder, load, Position
<1>3. calls[s].ch \in Channels /\ CallOK(s)
  BY <1>1, CallFacts DEF CallsOK
<1>4. CASE c # calls[s].ch
  <2>1. Untold(c)
    BY <1>1, <1>2, <1>3, <1>4, MergeElsewhere
  <2> QED BY <1>1, <1>4, <2>1, ReturnKeeps
<1>5. CASE c = calls[s].ch
  <2>1. calls[s].page \subseteq shown'[c] /\ c \in loaded'
    BY <1>1, <1>5 DEF TypeOK, Merge
  <2>2. CASE c \in loaded \cup owed
    <3>1. Untold(c)
      BY <1>1, <1>2, <1>5, <2>2, MergeIntoList
    <3> QED BY <1>1, <2>1, <3>1, ReturnKeeps
  <2>3. CASE c \notin loaded \cup owed /\ calls[s].kind # "older"
    <3>1. OpeningRead(s, c)
      BY <1>1, <1>3, <1>5, <2>3 DEF CallOK, OpeningRead
    <3>2. OpeningOK(calls[s].ch)
      BY <1>5 DEF ChannelOK
    <3>3. calls[s].ch \notin loaded /\ UNCHANGED owed
      BY <1>1, <1>5, <2>3
    <3> QED BY <1>1, <1>2, <2>1, <3>1, <3>2, <3>3, OpeningMakesList
  <2>4. CASE c \notin loaded \cup owed /\ calls[s].kind = "older"
    <3>1. c \in owed'
      BY <1>1, <1>5, <2>4
    <3> QED BY <3>1 DEF ChannelOK, ListOK, OpeningOK
  <2> QED BY <2>2, <2>3, <2>4
<1> QED BY <1>4, <1>5

\* The answers of sends, given, repeated and lost.
LEMMA SendFollow ==
  ASSUME TypeOK, TypeOK', Grown, NEW c \in Channels, ChannelOK(c), NEW s \in Slots,
         ServeSend(s) \/ ApplySend(s) \/ SendFails(s)
  PROVE  ChannelOK(c)'
<1>1. Position' = Position /\ UNCHANGED owed
  BY DEF ServeSend, ApplySend, SendFails, load, Position
<1>2. calls[s].kind = "send" /\ calls[s].ch \in Channels
  BY CallFacts DEF ServeSend, ApplySend, SendFails, Answered
<1>3. CASE ApplySend(s)
  <2>1. ReturnedIn(s)
    BY <1>3, ReturnSlot DEF ApplySend, Answered
  <2>2. Untold(c)
    <3>1. CASE calls[s].ch \in loaded
      <4>1. Merge(calls[s].ch, calls[s].page)
        BY <1>3, <3>1 DEF ApplySend
      <4>2. CASE c = calls[s].ch
        BY <1>1, <3>1, <4>1, <4>2, MergeIntoList
      <4>3. CASE c # calls[s].ch
        BY <1>1, <1>2, <4>1, <4>3, MergeElsewhere
      <4> QED BY <4>2, <4>3
    <3>2. CASE calls[s].ch \notin loaded
      BY <1>1, <1>3, <3>2 DEF ApplySend, Untold
    <3> QED BY <3>1, <3>2
  <2> QED BY <1>2, <2>1, <2>2, ReturnKeeps
<1>4. CASE ServeSend(s) \/ SendFails(s)
  <2>1. Untold(c)
    BY <1>1, <1>4 DEF ServeSend, SendFails, view, Untold
  <2>2. /\ calls'[s].kind \in {"none", "send"}
        /\ \A t \in Slots : t # s => calls'[t] = calls[t]
    BY <1>4, SendSlot, FailSlot
  <2>3. ASSUME NEW t \in Slots, calls[t].kind = "frame" PROVE FrameKept(t, c)
    BY <1>2, <2>2, <2>3 DEF FrameKept
  <2>4. ASSUME NEW t \in Slots, OpeningRead(t, c)' PROVE calls'[t] = calls[t]
    BY <2>2, <2>4 DEF OpeningRead
  <2> QED BY <2>1, <2>3, <2>4, ChannelStays
<1> QED BY <1>3, <1>4

\* Reads served and lost.
LEMMA ReadFollow ==
  ASSUME TypeOK, TypeOK', Grown, NEW c \in Channels, ChannelOK(c), NEW s \in Slots,
         ServeRead(s) \/ ReadFails(s)
  PROVE  ChannelOK(c)'
<1>1. CASE ServeRead(s)
  <2>1. Untold(c)
    BY <1>1 DEF ServeRead, load, view, Position, Untold
  <2>2. \A t \in Slots : t # s => calls'[t] = calls[t]
    BY <1>1, ServeSlot
  <2>3. ASSUME NEW t \in Slots PROVE calls'[t] = calls[t] \/ ServeRead(t)
    BY <1>1, <2>2
  <2>4. ASSUME NEW t \in Slots PROVE FrameKept(t, c)
    BY <2>3 DEF FrameKept
  <2> QED BY <2>1, <2>3, <2>4, ChannelStays
<1>2. CASE ReadFails(s)
  <2>1. ReturnedIn(s)
    BY <1>2, ReturnSlot DEF ReadFails
  <2>2. UNCHANGED <<loaded, shown>> /\ Position' = Position /\ owed \subseteq owed'
    BY <1>2 DEF ReadFails, load, view, Position
  <2>3. CASE c \in owed' \ owed
    <3>1. ListOK(c)'
      BY <2>3 DEF ListOK
    <3>2. OpeningOK(c)'
      BY <2>3 DEF OpeningOK
    <3> QED BY <3>1, <3>2 DEF ChannelOK
  <2>4. CASE c \notin owed' \ owed
    <3>1. Untold(c)
      BY <2>2, <2>4 DEF Untold
    <3>2. CASE calls[s].kind = "frame" /\ calls[s].ch = c
      <4>1. c \in owed'
        BY <1>2, <3>2 DEF ReadFails
      <4>2. ListOK(c)'
        BY <4>1 DEF ListOK
      <4>3. OpeningOK(c)'
        BY <4>1 DEF OpeningOK
      <4> QED BY <4>2, <4>3 DEF ChannelOK
    <3>3. CASE ~(calls[s].kind = "frame" /\ calls[s].ch = c)
      BY <2>1, <3>1, <3>3, ReturnKeeps
    <3> QED BY <3>2, <3>3
  <2> QED BY <2>3, <2>4
<1> QED BY <1>1, <1>2

\* No call of c is of a kind that opens its list.
NoneOpens(c) == \A s \in Slots : calls[s].ch = c => calls[s].kind \notin {"tail", "sync"}

\* A frame tells of its Message and of nothing else.
LEMMA FrameIsTold ==
  ASSUME TypeOK, at < Len(posts), mode = "live", LoadOK, Frame, NEW c \in Channels,
         NEW m, Told(c, m)'
  PROVE  /\ In(c)' = In(c) /\ m \in In(c)
         /\ c # posts[at + 1] => Told(c, m)
         /\ c = posts[at + 1] => m = at + 1
<1>1. step = "none" /\ posts' = posts /\ step' = step /\ at' = at + 1
  BY DEF LoadOK, Frame, host, load
<1>2. In(c)' = In(c)
  BY <1>1 DEF In
<1>3. m \in In(c) /\ m <= at + 1 /\ \A k \in In(c) : k <= at + 1 => k <= m
  BY <1>1, <1>2 DEF Told, Position
<1>4. at \in Nat /\ Len(posts) \in Nat /\ \A k \in In(c) : k \in 1..Len(posts)
  <2>1. at \in 0..Len(posts)
    BY DEF TypeOK
  <2>2. Len(posts) \in Nat /\ In(c) \in SUBSET (1..Len(posts))
    BY HistoryFacts
  <2> QED BY <2>1, <2>2
<1>5. CASE c # posts[at + 1]
  <2>1. at + 1 \notin In(c)
    BY <1>5 DEF In
  <2>2. \A k \in In(c) : k <= at + 1 => k <= at
    BY <1>4, <2>1
  <2>3. Told(c, m)
    BY <1>1, <1>3, <1>4, <2>2 DEF Told, Position
  <2> QED BY <1>2, <1>3, <1>5, <2>3
<1>6. CASE c = posts[at + 1]
  <2>1. at + 1 \in In(c)
    BY <1>4, <1>6 DEF In
  <2>2. m = at + 1
    BY <1>3, <1>4, <2>1
  <2> QED BY <1>2, <1>3, <1>6, <2>2
<1> QED BY <1>5, <1>6

\* A reread within reach of the end of its list brings the Message of its frame.
LEMMA FrameReaches ==
  ASSUME TypeOK, ShownIsPosted, NEW c \in Channels, NEW m \in In(c), Reaches(c)
  PROVE  Covers(shown[c], m) \/ WithinPage(c, MaxSeq(shown[c]), m)
<1> DEFINE q == MaxSeq(shown[c])
           beyond == {n \in In(c) : n > q}
           upto == {n \in In(c) : q < n /\ n <= m}
<1>1. /\ Len(posts) \in Nat /\ In(c) \in SUBSET (1..Len(posts)) /\ IsFiniteSet(In(c))
      /\ shown[c] \in SUBSET (1..Len(posts))
  BY HistoryFacts DEF ShownIsPosted
<1>2. q \in 0..Len(posts) /\ (shown[c] # {} => q \in shown[c]) /\ (shown[c] = {} => q = 0)
  BY <1>1, MaxSeqFacts DEF MaxSeq
<1>3. Cardinality(beyond) <= HeadPage
  BY DEF Reaches
<1>4. CASE m <= q
  <2>1. shown[c] # {}
    BY <1>1, <1>2, <1>4
  <2> QED BY <1>2, <1>4, <2>1 DEF Covers
<1>5. CASE q < m
  <2>1. IsFiniteSet(beyond)
    <3>1. beyond \in SUBSET In(c)
      OBVIOUS
    <3> QED BY <1>1, <3>1, FS_Subset
  <2>2. upto \subseteq beyond
    BY <1>1, <1>2
  <2>3. IsFiniteSet(upto) /\ Cardinality(upto) <= Cardinality(beyond)
    <3> HIDE DEF upto, beyond
    <3> QED BY <2>1, <2>2, FS_Subset
  <2>4. Cardinality(upto) \in Nat /\ Cardinality(beyond) \in Nat
    BY <2>1, <2>3, FS_CardinalityType
  <2>5. Cardinality(upto) <= HeadPage
    BY <1>3, <2>3, <2>4
  <2> QED BY <1>5, <2>5 DEF WithinPage
<1> QED BY <1>1, <1>2, <1>4, <1>5

\* A frame keeps every list as good as the new position asks.
LEMMA FrameFollow ==
  ASSUME TypeOK, TypeOK', Grown, LoadOK, ShownIsPosted, CallsOK, Frame,
         NEW c \in Channels, ChannelOK(c)
  PROVE  ChannelOK(c)'
<1> DEFINE d == posts[at + 1]
<1>1. /\ mode = "live" /\ at < Len(posts) /\ UNCHANGED <<loaded, shown>>
      /\ \A e \in Channels \ {d} : e \in owed' <=> e \in owed
  BY DEF Frame, Connected, view
<1>2. ASSUME NEW s \in Slots PROVE calls[s].kind # "sync"
  BY <1>1 DEF CallsOK, CallOK, LoadOK
<1>3. \/ UNCHANGED calls
      \/ d = active \/ d \in loaded
  BY DEF Frame
<1>4. UNCHANGED calls \/ \E s \in Slots : IssuedIn(s, "frame", d, MaxSeq(shown[d]))
  BY IssueSlot DEF Frame
<1>5. ASSUME NEW s \in Slots, calls[s].kind # "none" PROVE calls'[s] = calls[s]
  BY <1>4, <1>5 DEF IssuedIn, Free
<1>6. ASSUME NEW s \in Slots, NEW m \in In(c), Brings(s, c, m)
      PROVE  Brings(s, c, m)' \/ Covers(shown'[c], m)
  <2>1. calls[s].kind = "frame"
    BY <1>6 DEF Brings
  <2>2. FrameKept(s, c)
    BY <1>5, <2>1 DEF FrameKept
  <2> QED BY <1>6, <2>2, BringsStays
<1>7. ASSUME NEW s \in Slots, OpeningRead(s, c)' PROVE OpeningRead(s, c) /\ calls'[s] = calls[s]
  BY <1>4, <1>7 DEF OpeningRead, IssuedIn
<1>8. CASE c # d
  <2>1. ListOK(c)'
    <3> SUFFICES ASSUME c \in loaded \ owed, NEW m \in Posts, Told(c, m)'
                 PROVE  Covers(shown'[c], m) \/ \E s \in Slots : Brings(s, c, m)'
      BY <1>1, <1>8 DEF ListOK
    <3>1. Told(c, m) /\ m \in In(c)
      BY <1>1, <1>8, FrameIsTold
    <3>2. Covers(shown[c], m) \/ \E s \in Slots : Brings(s, c, m)
      BY <3>1 DEF ChannelOK, ListOK
    <3> QED BY <1>1, <1>6, <3>1, <3>2
  <2>2. OpeningOK(c)'
    <3> SUFFICES ASSUME c \notin loaded \cup owed, NEW s \in Slots, OpeningRead(s, c)',
                        NEW m \in Posts, Told(c, m)'
                 PROVE  Covers(calls'[s].page, m)
      BY <1>1, <1>8 DEF OpeningOK
    <3>1. Told(c, m)
      BY <1>1, <1>8, FrameIsTold
    <3>2. OpeningRead(s, c) /\ calls'[s] = calls[s]
      BY <1>7
    <3>3. Covers(calls[s].page, m)
      BY <3>1, <3>2 DEF ChannelOK, OpeningOK
    <3> QED BY <3>2, <3>3
  <2> QED BY <2>1, <2>2 DEF ChannelOK
<1>9. CASE c = d
  <2>1. CASE /\ Issue("frame", d, MaxSeq(shown[d]))
             /\ owed' = IF Reaches(d) THEN owed \ {d} ELSE owed \cup {d}
    <3>1. CASE ~Reaches(c)
      <4>1. c \in owed'
        BY <1>9, <2>1, <3>1
      <4>2. ListOK(c)'
        BY <4>1 DEF ListOK
      <4>3. OpeningOK(c)'
        BY <4>1 DEF OpeningOK
      <4> QED BY <4>2, <4>3 DEF ChannelOK
    <3>2. CASE Reaches(c)
      <4>1. c \in loaded'
        BY <1>1, <3>2 DEF Reaches
      <4>2. OpeningOK(c)'
        BY <4>1 DEF OpeningOK
      <4>3. PICK s \in Slots : IssuedIn(s, "frame", c, MaxSeq(shown[c]))
        BY <1>9, <2>1, IssueSlot
      <4>4. ListOK(c)'
        <5> SUFFICES ASSUME NEW m \in Posts, Told(c, m)'
                     PROVE  Covers(shown'[c], m) \/ Brings(s, c, m)'
          BY DEF ListOK
        <5>1. In(c)' = In(c) /\ m \in In(c)
          BY <1>1, FrameIsTold
        <5>2. CASE Covers(shown[c], m)
          BY <1>1, <5>2
        <5>3. CASE WithinPage(c, MaxSeq(shown[c]), m)
          <6>1. PICK seq : seq = MaxSeq(shown[c])
            OBVIOUS
          <6>2. WithinPage(c, seq, m)'
            BY <5>1, <5>3, <6>1 DEF WithinPage
          <6>3. calls'[s].kind = "frame" /\ calls'[s].ch = c /\ calls'[s].after = seq
                /\ calls'[s].served = FALSE
            BY <4>3, <6>1 DEF IssuedIn
          <6> QED BY <6>2, <6>3 DEF Brings, WithinPage
        <5> QED BY <3>2, <5>1, <5>2, <5>3, FrameReaches
      <4> QED BY <4>2, <4>4 DEF ChannelOK
    <3> QED BY <3>1, <3>2
  <2>2. CASE /\ d \notin loaded /\ UNCHANGED calls
             /\ owed' = IF Opening(d) THEN owed \cup {d} ELSE owed
    <3>1. ListOK(c)'
      BY <1>1, <1>9, <2>2 DEF ListOK
    <3>2. OpeningOK(c)'
      <4> SUFFICES ASSUME c \notin owed', NEW s \in Slots, OpeningRead(s, c)'
                   PROVE  FALSE
        BY DEF OpeningOK
      <4>1. ~Opening(c)
        BY <1>9, <2>2
      <4>2. calls[s].kind = "tail" /\ calls[s].ch = c
        BY <1>2, <1>7 DEF OpeningRead
      <4> QED BY <4>1, <4>2 DEF Opening, InFlight, Free
    <3> QED BY <3>1, <3>2 DEF ChannelOK
  <2> QED BY <2>1, <2>2 DEF Frame
<1> QED BY <1>8, <1>9

\* Where a load ends or is replaced there is no list, and no answer but an unserved one.
LEMMA LoadFollow ==
  ASSUME TypeOK, CallsOK, NEW c \in Channels, Bootstrapped \/ Replaced
  PROVE  ChannelOK(c)'
<1>1. CASE Bootstrapped
  <2>1. loaded' = {} /\ \A t \in Slots : calls[t].kind = "none"
    BY <1>1 DEF Bootstrapped, view, CallsOK, NothingYet, Free
  <2>2. PICK d \in Channels : Issue("tail", d, 0)
    BY <1>1 DEF Bootstrapped
  <2>3. PICK s \in Slots : IssuedIn(s, "tail", d, 0)
    BY <2>2, IssueSlot
  <2>4. ASSUME NEW t \in Slots, OpeningRead(t, c)' PROVE FALSE
    BY <2>1, <2>3, <2>4 DEF OpeningRead, IssuedIn
  <2> QED BY <2>1, <2>4 DEF ChannelOK, ListOK, OpeningOK
<1>2. CASE Replaced
  <2>1. loaded' = {} /\ step = "seed" /\ owed' = {e \in Channels : Opening(e)}
    BY <1>2 DEF Replaced
  <2>2. PICK s \in Slots : IssuedIn(s, "sync", active, 0)
    BY <1>2, IssueSlot DEF Replaced
  <2>3. ASSUME NEW t \in Slots, OpeningRead(t, c)' PROVE c \in owed'
    <3>1. calls'[t] = calls[t] /\ calls[t].kind \in {"tail", "sync"} /\ calls[t].ch = c
      BY <2>2, <2>3 DEF OpeningRead, IssuedIn
    <3>2. calls[t].kind = "tail"
      BY <2>1, <3>1 DEF CallsOK, CallOK
    <3> QED BY <2>1, <3>1, <3>2 DEF Opening, InFlight, Free
  <2> QED BY <2>1, <2>3 DEF ChannelOK, ListOK, OpeningOK
<1> QED BY <1>1, <1>2

\* Every step keeps the lists of a tab that follows the feed.
LEMMA StepFollow ==
  ASSUME TypeOK, TypeOK', LoadOK, ShownIsPosted, CallsOK, FollowOK, [Next]_vars
  PROVE  FollowOK'
<1> SUFFICES ASSUME Followed', NEW c \in Channels PROVE ChannelOK(c)'
  BY DEF FollowOK, ChannelOK
<1>0. Grown
  BY StepGrown
<1>1. Followed => ChannelOK(c)
  BY DEF FollowOK, ChannelOK
<1>2. ASSUME UNCHANGED <<mode, step>> PROVE ChannelOK(c)
  BY <1>1, <1>2 DEF Followed
<1>3. CASE Start \/ ResyncRequired \/ ReadSnapshot \/ LoadFails
  BY <1>3 DEF Followed, Start, ResyncRequired, ReadSnapshot, LoadFails, EndOfLoad, LoadOK
<1>4. CASE Bootstrapped \/ Replaced
  BY <1>4, LoadFollow
<1>5. CASE Resynced
  <2>1. Position' = Position /\ ChannelOK(c)
    BY <1>1, <1>5 DEF Resynced, EndOfLoad, Followed, Position
  <2>2. UNCHANGED <<calls, loaded, shown, owed>>
    BY <1>5 DEF Resynced, view
  <2>3. Untold(c) /\ \A s \in Slots : FrameKept(s, c)
    BY <2>1, <2>2 DEF Untold, FrameKept
  <2> QED BY <1>0, <2>1, <2>2, <2>3, ChannelStays
<1>6. CASE Frame
  <2>1. ChannelOK(c)
    BY <1>2, <1>6 DEF Frame, load
  <2> QED BY <1>0, <1>6, <2>1, FrameFollow
<1>7. CASE LoadOlder
  <2>1. ChannelOK(c) /\ Untold(c)
    BY <1>2, <1>7 DEF LoadOlder, load, view, Untold, Position
  <2>2. Issue("older", active, headCursor[active])
    BY <1>7 DEF LoadOlder
  <2> QED BY <1>0, <2>1, <2>2, IssueKeeps
<1>8. ASSUME UNCHANGED <<calls, loaded, shown, owed, mode, step, at, cursor>> PROVE ChannelOK(c)'
  <2>1. ChannelOK(c) /\ Untold(c) /\ \A s \in Slots : FrameKept(s, c)
    BY <1>2, <1>8 DEF Untold, Position, FrameKept
  <2> QED BY <1>0, <1>8, <2>1, ChannelStays
<1>9. CASE UNCHANGED vars
  BY <1>8, <1>9 DEF vars, load, view
<1>10. ASSUME NEW d \in Channels, OthersPost(d) PROVE ChannelOK(c)'
  BY <1>8, <1>10 DEF OthersPost, load, view
<1>11. ASSUME NEW d \in Channels, SeedTotal(d) PROVE FALSE
  BY <1>11 DEF SeedTotal, LoadOK, Followed
<1>12. ASSUME NEW d \in Channels, SetActive(d) \/ Hydrate(d) \/ Send(d) PROVE ChannelOK(c)'
  <2>1. ChannelOK(c) /\ Untold(c)
    BY <1>2, <1>12 DEF SetActive, Hydrate, Send, load, view, Untold, Position
  <2>2. CASE UNCHANGED calls
    <3>1. UNCHANGED <<calls, loaded, shown, owed, mode, step, at, cursor>>
      BY <1>12, <2>2 DEF SetActive, Hydrate, Send, load, view
    <3> QED BY <1>8, <3>1
  <2>3. CASE \E kind \in {"send", "tail"} : Issue(kind, d, 0)
    BY <1>0, <2>1, <2>3, IssueKeeps
  <2> QED BY <1>12, <2>2, <2>3 DEF SetActive, Hydrate, Send
<1>13. ASSUME NEW s \in Slots, ApplyTail(s) \/ ApplyFrame(s) \/ ApplyOlder(s)
       PROVE  ChannelOK(c)'
  <2>1. ChannelOK(c)
    BY <1>2, <1>13 DEF ApplyTail, ApplyFrame, ApplyOlder, load
  <2> QED BY <1>0, <1>13, <2>1, AnswerFollow
<1>14. ASSUME NEW s \in Slots, ServeSend(s) \/ ApplySend(s) \/ SendFails(s)
       PROVE  ChannelOK(c)'
  <2>1. ChannelOK(c)
    BY <1>2, <1>14 DEF ServeSend, ApplySend, SendFails, load
  <2> QED BY <1>0, <1>14, <2>1, SendFollow
<1>15. ASSUME NEW s \in Slots, ServeRead(s) \/ ReadFails(s) PROVE ChannelOK(c)'
  <2>1. ChannelOK(c)
    BY <1>2, <1>15 DEF ServeRead, ReadFails, load
  <2> QED BY <1>0, <1>15, <2>1, ReadFollow
<1> QED BY <1>3, <1>4, <1>5, <1>6, <1>7, <1>9, <1>10, <1>11, <1>12, <1>13, <1>14, <1>15 DEF Next

FollowInv == IInv /\ ShownIsPosted /\ CallsOK /\ FollowOK

\* The initial states satisfy it.
LEMMA FollowInit ==
  ASSUME Init
  PROVE  FollowInv
<1>1. IInv
  BY InitOK
<1>2. /\ loaded = {} /\ mode = "closed" /\ step = "none"
      /\ \A s \in Slots : calls[s].kind = "none"
      /\ \A c \in Channels : shown[c] = {}
  BY DEF Init, Idle
<1>3. ShownIsPosted /\ CallsOK /\ FollowOK
  BY <1>2 DEF ShownIsPosted, PagePosted, CallsOK, CallOK, NothingYet, Free, FollowOK, Followed
<1> QED BY <1>1, <1>3 DEF FollowInv

\* An open list that owes nothing ends, once nothing is under way, with the newest
\* Message of its Channel.
LEMMA FollowedIsNewest ==
  ASSUME FollowInv
  PROVE  NewestShown
<1> SUFFICES ASSUME Quiet, NEW c \in loaded \ owed, In(c) # {}
             PROVE  MaxSeq(In(c)) \in shown[c]
  BY DEF NewestShown
<1>1. TypeOK /\ LoadOK /\ c \in Channels
  BY DEF FollowInv, IInv, TypeOK
<1> DEFINE m == MaxSeq(In(c))
<1>2. /\ Len(posts) \in Nat /\ In(c) \in SUBSET (1..Len(posts)) /\ 1..Len(posts) \subseteq Posts
      /\ m \in In(c) /\ \A k \in In(c) : k <= m
  BY <1>1, HistoryFacts, MaxSeqFacts
<1>3. Position = Len(posts)
  BY <1>1 DEF Quiet, LoadOK, Position
<1> HIDE DEF m
<1>4. Told(c, m) /\ m \in Posts
  BY <1>2, <1>3 DEF Told
<1>5. ListOK(c)
  BY <1>1 DEF Quiet, FollowInv, FollowOK, Followed
<1>6. ASSUME NEW s \in Slots, Brings(s, c, m) PROVE FALSE
  BY <1>6 DEF Quiet, InFlight, Free, Brings
<1>7. PICK n \in shown[c] : m <= n
  BY <1>4, <1>5, <1>6 DEF ListOK, Covers
<1>8. n \in In(c)
  BY <1>1, <1>7 DEF FollowInv, ShownIsPosted
<1>9. n = m
  BY <1>2, <1>7, <1>8
<1> QED BY <1>7, <1>9 DEF m

\* Whatever order frames, tails, reloads, answers and own sends come in, an open list
\* ends with the newest Message of its Channel once nothing is under way, unless only the
\* next frame can bring it (handleMessageCreated, activateChannel, resync).
THEOREM NewestAlwaysShown == Spec => []NewestShown
<1>1. Init => FollowInv
  BY FollowInit
<1>2. FollowInv /\ [Next]_vars => FollowInv'
  <2> SUFFICES ASSUME FollowInv, [Next]_vars PROVE FollowInv'
    OBVIOUS
  <2>1. TypeOK /\ LoadOK /\ HeadOK /\ ShownIsPosted /\ CallsOK /\ FollowOK
    BY DEF FollowInv, IInv
  <2>2. IInv' /\ TypeOK'
    <3>1. IInv'
      BY StepOK DEF FollowInv
    <3> QED BY <3>1 DEF IInv
  <2>3. ShownIsPosted'
    BY <2>1, <2>2, StepPosted
  <2>4. CallsOK'
    <3>1. NothingYet'
      BY <2>1, StepNothingYet DEF CallsOK
    <3>2. \A t \in Slots : CallOK(t)'
      BY <2>1, StepCallOK
    <3> QED BY <3>1, <3>2 DEF CallsOK
  <2>5. FollowOK'
    BY <2>1, <2>2, StepFollow
  <2> QED BY <2>2, <2>3, <2>4, <2>5 DEF FollowInv
<1>3. FollowInv => NewestShown
  BY FollowedIsNewest
<1> QED BY <1>1, <1>2, <1>3, PTL DEF Spec
=============================================================================
