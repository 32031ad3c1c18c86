----------------------- MODULE IncrementalSyncProofs -----------------------
(***************************************************************************)
(* Proofs about IncrementalSync, for any number of objects and writers,    *)
(* any contents and filters, and any page size.                            *)
(*                                                                         *)
(* The argument: of every clean object, the client's copy is right, or the *)
(* refresh in progress has yet to tell of its last change, or the next     *)
(* refresh will.  Bound is the date that separates the last two: a change  *)
(* dated Bound or later is in the range of the next refresh.               *)
(***************************************************************************)
EXTENDS IncrementalSync, FiniteSetTheorems, TLAPS

-----------------------------------------------------------------------------
(***************************************************************************)
(* The inductive invariant.                                                *)
(***************************************************************************)

\* The request in progress has chosen its timestamp_end.
Chosen == sync.pc \in {"removed", "page", "next"} \/ sync.page > 0

\* The timestamp_start of the next refresh, as far as it is known.
Bound == IF Chosen THEN sync.end ELSE since

\* Dates come from the clock.
Dates ==
    /\ now >= 1 /\ since <= now /\ sync.end <= now
    /\ \A x \in DOMAIN rows : rows[x].stamp <= now
    /\ \A d \in deleted : d.stamp <= now

\* The shape of the request in progress.
Session ==
    /\ sync.pc = "idle" => sync.page = 0
    /\ sync.pc = "next" => sync.page > 0
    /\ sync.page = 0 => sync.got = {}
    /\ Chosen => since <= sync.end /\ sync.end >= 1
    /\ since = 0 => DOMAIN client \subseteq sync.got

\* A write that no request crossed is dated in the range of the next refresh.
Stamps ==
    \A w \in Writers : writer[w].pc = "stamped" =>
        /\ writer[w].stamp <= now
        /\ ~writer[w].crossed =>
             writer[w].stamp >= since /\ writer[w].stamp >= sync.end

\* A creation date belongs to one object, in the table and in the updates
\* that loaded it.
Updates(w) == writer[w].pc # "idle" /\ writer[w].op = "update"
Births ==
    /\ \A x \in DOMAIN rows : rows[x].born < births
    /\ \A x, y \in DOMAIN rows : rows[x].born = rows[y].born => x = y
    /\ \A w \in Writers : Updates(w) =>
         /\ writer[w].born < births
         /\ \A y \in DOMAIN rows :
              rows[y].born = writer[w].born => y = writer[w].uid
    /\ \A v, w \in Writers :
         Updates(v) /\ Updates(w) /\ writer[v].born = writer[w].born =>
           writer[v].uid = writer[w].uid

\* A row is younger than the deletions of its uid.
Younger(x) ==
    x \in DOMAIN rows => \A d \in deleted : d.uid = x => d.stamp <= rows[x].stamp

Holds(x) == x \in DOMAIN client /\ client[x] = rows[x].content

\* The refresh in progress has still to drop x, or is about to.
Dropping(x) == sync.pc = "page" => x \in sync.removed

\* An object of the list.
Listing(x) ==
    x \in Listed =>
      /\ \/ rows[x].stamp >= Bound
         \/ rows[x].stamp < since /\ Holds(x)
         \/ Chosen /\ since <= rows[x].stamp /\ x \in sync.got /\ Holds(x)
         \/ /\ Chosen /\ since <= rows[x].stamp /\ x \notin sync.got
            /\ Offset(x) >= sync.page * PageSize
      /\ sync.pc = "page" /\ rows[x].stamp < since => x \notin sync.removed

\* An object that the client may see and that does not match the filters.
Unlisting(x) ==
    x \in All /\ rows[x].content \notin Matching =>
      /\ \/ rows[x].stamp >= Bound
         \/ /\ x \notin sync.got
            /\ \/ x \notin DOMAIN client
               \/ Chosen /\ sync.page = 0 /\ rows[x].stamp >= since /\ Dropping(x)
      /\ sync.pc \in {"end", "removed"} /\ (Chosen => rows[x].stamp < sync.end) =>
           x \notin sync.pk

\* An object that is not in the client's sight, or not in the table.
Absent(x) ==
    x \notin All =>
      \/ x \notin DOMAIN client
      \/ \E d \in deleted : d.uid = x /\ d.stamp >= Bound
      \/ /\ Chosen /\ sync.page = 0 /\ Dropping(x)
         /\ \E d \in deleted : d.uid = x /\ d.stamp >= since

Knows(x) == Younger(x) /\ Listing(x) /\ Unlisting(x) /\ Absent(x)

\* TypeOK, but for the creation dates.
Typed ==
    /\ now \in Nat /\ since \in Nat /\ writes \in Nat
    /\ DOMAIN rows \subseteq Objects /\ rows \in [DOMAIN rows -> Row]
    /\ births \in Nat
    /\ visible \subseteq Objects /\ dirty \subseteq Objects
    /\ deleted \subseteq Tombstone
    /\ writer \in [Writers -> WriterState]
    /\ sync \in SyncState
    /\ DOMAIN client \subseteq Objects /\ client \in [DOMAIN client -> Contents]

Frame == Typed /\ Dates /\ Session /\ Stamps /\ Births
IInv == Frame /\ \A x \in Objects \ dirty : Knows(x)

\* The properties of the runs follow.
LEMMA TypedSuffices ==
    Typed /\ Births => TypeOK
  BY DEF Typed, Births, TypeOK

LEMMA KnowledgeSuffices ==
    IInv => SyncedWhenClean
  <1>1. SUFFICES ASSUME IInv, sync.pc = "idle",
                        NEW x \in Objects \ dirty, Settled(x)
                 PROVE  Agrees(x)
    BY DEF SyncedWhenClean
  <1>2. ~Chosen /\ Bound = since /\ sync.got = {}
    BY <1>1 DEF IInv, Frame, Session, Typed, SyncState, Chosen, Bound
  <1>3. Knows(x)
    BY <1>1 DEF IInv
  <1>4. /\ since \in Nat
        /\ x \in DOMAIN rows => rows[x].stamp \in Nat
        /\ \A d \in deleted : d.stamp \in Nat
    BY <1>1 DEF IInv, Frame, Typed, Row, Tombstone
  <1>5. CASE x \in Listed
    <2>1. x \in DOMAIN rows
      BY <1>5 DEF Listed, All
    <2>2. ~(rows[x].stamp >= since)
      BY <1>1, <1>4, <2>1 DEF Settled
    <2>3. Holds(x)
      BY <1>2, <1>3, <1>5, <2>2 DEF Knows, Listing
    <2>4. QED
      BY <1>5, <2>3 DEF Holds, Agrees
  <1>6. CASE x \in All /\ x \notin Listed
    <2>1. x \in DOMAIN rows /\ rows[x].content \notin Matching
      BY <1>6 DEF Listed, All
    <2>2. ~(rows[x].stamp >= since)
      BY <1>1, <1>4, <2>1 DEF Settled
    <2>3. x \notin DOMAIN client
      BY <1>2, <1>3, <1>6, <2>1, <2>2 DEF Knows, Unlisting
    <2>4. QED
      BY <1>6, <2>3 DEF Agrees
  <1>7. CASE x \notin All
    <2>1. \A d \in deleted : d.uid = x => ~(d.stamp >= since)
      BY <1>1, <1>4 DEF Settled
    <2>2. x \notin DOMAIN client
      BY <1>2, <1>3, <1>7, <2>1 DEF Knows, Absent
    <2>3. QED
      BY <1>7, <2>2 DEF Agrees, Listed
  <1>8. QED
    BY <1>5, <1>6, <1>7 DEF Listed

\* The initial state satisfies it.
LEMMA InitIInv ==
    Init => IInv
  <1>1. SUFFICES ASSUME Init PROVE IInv
    OBVIOUS
  <1>2. /\ now = 1 /\ since = 0 /\ writes = 0 /\ births = 0
        /\ DOMAIN rows = {} /\ DOMAIN client = {} /\ visible = {}
        /\ deleted = {} /\ dirty = {}
        /\ sync = IdleSync /\ \A w \in Writers : writer[w] = IdleWriter
    BY <1>1 DEF Init
  <1>3. /\ sync.pc = "idle" /\ sync.end = 0 /\ sync.page = 0 /\ sync.got = {}
        /\ ~Chosen
    BY <1>2 DEF IdleSync, Chosen
  <1>4. Typed
    <2>1. rows \in [DOMAIN rows -> Row] /\ client \in [DOMAIN client -> Contents]
      BY <1>1, <1>2 DEF Init
    <2>2. writer \in [Writers -> WriterState]
      BY <1>1 DEF Init, WriterState
    <2>3. sync \in SyncState
      BY <1>2 DEF IdleSync, SyncState
    <2>4. QED
      BY <1>2, <2>1, <2>2, <2>3 DEF Typed
  <1>5. Dates /\ Session
    BY <1>2, <1>3 DEF Dates, Session
  <1>6. Stamps /\ Births
    <2>1. \A w \in Writers : writer[w].pc = "idle"
      BY <1>2 DEF IdleWriter
    <2>2. QED
      BY <1>2, <2>1 DEF Stamps, Births, Updates
  <1>7. ASSUME NEW x \in Objects PROVE Knows(x)
    <2>1. x \notin DOMAIN rows /\ x \notin DOMAIN client /\ deleted = {}
      BY <1>1 DEF Init
    <2>2. x \notin All /\ x \notin Listed
      BY <2>1 DEF All, Listed
    <2>3. QED
      BY <2>1, <2>2 DEF Knows, Younger, Listing, Unlisting, Absent
  <1>8. QED
    BY <1>4, <1>5, <1>6, <1>7 DEF IInv, Frame
-----------------------------------------------------------------------------
(***************************************************************************)
(* Lemmas about the state.                                                 *)
(***************************************************************************)

\* What a writer slot and the request in progress hold.
LEMMA WriterTypes ==
    ASSUME Typed, NEW w \in Writers
    PROVE  /\ writer[w].pc = "idle" => writer[w] = IdleWriter
           /\ writer[w].pc # "idle" =>
                /\ writer[w] \in [pc: {"loaded", "stamped"},
                                  op: {"insert", "update", "delete"},
                                  uid: Objects, content: Contents, stamp: Nat,
                                  born: Nat, crossed: BOOLEAN]
                /\ writer[w].pc \in {"loaded", "stamped"}
                /\ writer[w].op \in {"insert", "update", "delete"}
                /\ writer[w].uid \in Objects /\ writer[w].content \in Contents
                /\ writer[w].stamp \in Nat /\ writer[w].born \in Nat
                /\ writer[w].crossed \in BOOLEAN
  <1>1. writer[w] \in WriterState
    BY DEF Typed
  <1>2. CASE writer[w] = IdleWriter
    BY <1>2 DEF IdleWriter
  <1>3. CASE writer[w] \in [pc: {"loaded", "stamped"},
                            op: {"insert", "update", "delete"},
                            uid: Objects, content: Contents, stamp: Nat,
                            born: Nat, crossed: BOOLEAN]
    BY <1>3
  <1>4. QED
    BY <1>1, <1>2, <1>3 DEF WriterState

LEMMA RowTypes ==
    ASSUME Typed
    PROVE  /\ \A x \in DOMAIN rows :
                /\ rows[x].content \in Contents
                /\ rows[x].stamp \in Nat /\ rows[x].born \in Nat
           /\ \A d \in deleted : d.uid \in Objects /\ d.stamp \in Nat
  BY DEF Typed, Row, Tombstone

LEMMA SyncTypes ==
    ASSUME Typed
    PROVE  /\ sync.pc \in {"idle", "next", "end", "removed", "page"}
           /\ sync.end \in Nat /\ sync.page \in Nat
           /\ sync.pk \subseteq Objects /\ sync.removed \subseteq Objects
           /\ sync.got \subseteq Objects
           /\ sync = [pc |-> sync.pc, end |-> sync.end, pk |-> sync.pk,
                      removed |-> sync.removed, page |-> sync.page,
                      got |-> sync.got]
  BY DEF Typed, SyncState

LEMMA BoundTypes ==
    ASSUME Typed
    PROVE  Bound \in Nat /\ since \in Nat
  BY SyncTypes DEF Bound, Typed

\* The objects of the list are finitely many, and a page number is a number.
LEMMA OffsetTypes ==
    ASSUME Typed, NEW x
    PROVE  /\ IsFiniteSet(Window) /\ Window \subseteq Objects
           /\ Cardinality(Window) \in Nat /\ Offset(x) \in Nat
           /\ sync.page * PageSize \in Nat /\ (sync.page + 1) * PageSize \in Nat
           /\ (sync.page + 1) * PageSize = sync.page * PageSize + PageSize
           /\ PageSize \in Nat \ {0}
  <1> DEFINE Before == {y \in Window : rows[y].born > rows[x].born}
  <1>1. Window \subseteq Objects
    BY DEF Window, Listed, All, Typed
  <1>2. IsFiniteSet(Window) /\ IsFiniteSet(Before)
    BY <1>1, FinitenessAssumption, FS_Subset
  <1>3. Cardinality(Window) \in Nat /\ Cardinality(Before) \in Nat
    BY <1>2, FS_CardinalityType
  <1>4. sync.page \in Nat /\ PageSize \in Nat \ {0}
    BY SyncTypes, ConstantsAssumption
  <1>5. /\ sync.page * PageSize \in Nat /\ (sync.page + 1) * PageSize \in Nat
        /\ (sync.page + 1) * PageSize = sync.page * PageSize + PageSize
    BY <1>4
  <1>6. QED
    BY <1>1, <1>2, <1>3, <1>4, <1>5 DEF Offset
-----------------------------------------------------------------------------
(***************************************************************************)
(* Steps of a writer that leave the tables and the client alone.           *)
(***************************************************************************)

Becomes(w, n) == writer' = [writer EXCEPT ![w] = n]

LEMMA BecomesAt ==
    ASSUME Typed, NEW w \in Writers, NEW n \in WriterState, Becomes(w, n)
    PROVE  /\ writer' \in [Writers -> WriterState]
           /\ writer'[w] = n
           /\ \A v \in Writers : v # w => writer'[v] = writer[v]
  <1>1. writer \in [Writers -> WriterState]
    BY DEF Typed
  <1>2. QED
    BY <1>1 DEF Becomes

\* What the client knows depends on the tables and the client only.
Still == UNCHANGED <<rows, visible, deleted, sync, client, since>>

LEMMA StillViews ==
    ASSUME Still
    PROVE  /\ All' = All /\ Listed' = Listed /\ Window' = Window
           /\ (Chosen' <=> Chosen) /\ Bound' = Bound
           /\ \A x : Offset(x)' = Offset(x)
  <1>1. All' = All
    BY DEF Still, All
  <1>2. Listed' = Listed
    BY <1>1 DEF Still, Listed
  <1>3. Window' = Window
    BY <1>2 DEF Still, Window, InRange
  <1>4. (Chosen' <=> Chosen) /\ Bound' = Bound
    BY DEF Still, Chosen, Bound
  <1>5. ASSUME NEW x PROVE Offset(x)' = Offset(x)
    BY <1>3 DEF Still, Offset
  <1>6. QED
    BY <1>1, <1>2, <1>3, <1>4, <1>5

LEMMA StillKnows ==
    ASSUME Still, NEW x, Knows(x)
    PROVE  Knows(x)'
  <1>1. Younger(x)'
    BY DEF Still, Knows, Younger
  <1>2. Listing(x)'
    BY StillViews DEF Still, Knows, Listing, Holds
  <1>3. Unlisting(x)'
    BY StillViews DEF Still, Knows, Unlisting, Dropping
  <1>4. Absent(x)'
    BY StillViews DEF Still, Knows, Absent, Dropping
  <1>5. QED
    BY <1>1, <1>2, <1>3, <1>4 DEF Knows

\* The new state of a writer keeps to the dates of the request in progress.
Dated(n) ==
    n.pc = "stamped" =>
      /\ n.stamp <= now
      /\ ~n.crossed => n.stamp >= since /\ n.stamp >= sync.end

\* The new state of a writer is an update only with a creation date that it
\* has just loaded, or had already.
Loads(w, n) ==
    n.pc # "idle" /\ n.op = "update" =>
      \/ n.uid \in DOMAIN rows /\ n.born = rows[n.uid].born
      \/ Updates(w) /\ n.uid = writer[w].uid /\ n.born = writer[w].born

LEMMA LoadsBirths ==
    ASSUME Births, NEW w \in Writers, NEW n, Loads(w, n),
           writer'[w] = n, \A v \in Writers : v # w => writer'[v] = writer[v],
           UNCHANGED <<rows, births>>
    PROVE  Births'
  <1> DEFINE Owner(v, b, u) == Updates(v) /\ b = writer[v].born /\ u = writer[v].uid
  <1>1. \A v \in Writers : v # w => (Updates(v)' <=> Updates(v))
    BY DEF Updates
  <1>2. Updates(w)' <=> n.pc # "idle" /\ n.op = "update"
    BY DEF Updates
  <1>3. ASSUME NEW v \in Writers, Updates(v)'
        PROVE  \/ /\ writer'[v].uid \in DOMAIN rows
                  /\ writer'[v].born = rows[writer'[v].uid].born
               \/ \E o \in Writers : /\ Updates(o)
                                     /\ writer'[v].uid = writer[o].uid
                                     /\ writer'[v].born = writer[o].born
    <2>1. CASE v = w
      BY <1>2, <1>3, <2>1 DEF Loads
    <2>2. CASE v # w
      BY <1>1, <1>3, <2>2
    <2>3. QED
      BY <2>1, <2>2
  <1>4. \A x \in DOMAIN rows' : rows'[x].born < births'
    BY DEF Births
  <1>5. \A x, y \in DOMAIN rows' : rows'[x].born = rows'[y].born => x = y
    BY DEF Births
  <1>6. ASSUME NEW v \in Writers, Updates(v)'
        PROVE  /\ writer'[v].born < births'
               /\ \A y \in DOMAIN rows' :
                    rows'[y].born = writer'[v].born => y = writer'[v].uid
    BY <1>3, <1>6 DEF Births
  <1>7. ASSUME NEW u \in Writers, NEW v \in Writers, Updates(u)', Updates(v)',
               writer'[u].born = writer'[v].born
        PROVE  writer'[u].uid = writer'[v].uid
    <2>1. CASE /\ writer'[u].uid \in DOMAIN rows
               /\ writer'[u].born = rows[writer'[u].uid].born
      BY <1>6, <1>7, <2>1
    <2>2. CASE /\ writer'[v].uid \in DOMAIN rows
               /\ writer'[v].born = rows[writer'[v].uid].born
      <3>1. writer'[v].uid = writer'[u].uid
        BY <1>6, <1>7, <2>2
      <3>2. QED
        BY <3>1
    <2>3. CASE /\ \E o \in Writers : /\ Updates(o)
                                     /\ writer'[u].uid = writer[o].uid
                                     /\ writer'[u].born = writer[o].born
               /\ \E o \in Writers : /\ Updates(o)
                                     /\ writer'[v].uid = writer[o].uid
                                     /\ writer'[v].born = writer[o].born
      <3>1. PICK o \in Writers : /\ Updates(o)
                                 /\ writer'[u].uid = writer[o].uid
                                 /\ writer'[u].born = writer[o].born
        BY <2>3
      <3>2. PICK q \in Writers : /\ Updates(q)
                                 /\ writer'[v].uid = writer[q].uid
                                 /\ writer'[v].born = writer[q].born
        BY <2>3
      <3>3. writer[o].born = writer[q].born
        BY <1>7, <3>1, <3>2
      <3>4. writer[o].uid = writer[q].uid
        BY <3>1, <3>2, <3>3 DEF Births
      <3>5. QED
        BY <3>1, <3>2, <3>4
    <2>4. QED
      BY <1>3, <1>7, <2>1, <2>2, <2>3
  <1>8. QED
    BY <1>4, <1>5, <1>6, <1>7 DEF Births

LEMMA WriterOnly ==
    ASSUME IInv, NEW w \in Writers, NEW n \in WriterState, Becomes(w, n),
           UNCHANGED <<now, db, sync, client, since, dirty>>, writes' \in Nat,
           Dated(n), Loads(w, n)
    PROVE  IInv'
  <1>1. Typed /\ Dates /\ Session /\ Stamps /\ Births
    BY DEF IInv, Frame
  <1>2. /\ writer' \in [Writers -> WriterState] /\ writer'[w] = n
        /\ \A v \in Writers : v # w => writer'[v] = writer[v]
    BY <1>1, BecomesAt
  <1>3. /\ Still /\ now' = now /\ births' = births /\ dirty' = dirty
        /\ rows' = rows /\ visible' = visible /\ deleted' = deleted
        /\ sync' = sync /\ client' = client /\ since' = since
    BY DEF db, Still
  <1>4. Typed'
    BY <1>1, <1>2, <1>3 DEF Typed
  <1>5. Dates'
    BY <1>1, <1>3 DEF Dates
  <1>6. Session'
    BY <1>1, <1>3 DEF Session, Chosen
  <1>7. Stamps'
    BY <1>1, <1>2, <1>3 DEF Stamps, Dated
  <1>8. Births'
    BY <1>1, <1>2, <1>3, LoadsBirths
  <1>9. ASSUME NEW x \in Objects \ dirty' PROVE Knows(x)'
    <2>1. Knows(x)
      BY <1>3 DEF IInv
    <2>2. QED
      BY <1>3, <2>1, StillKnows
  <1>10. QED
    BY <1>4, <1>5, <1>6, <1>7, <1>8, <1>9 DEF IInv, Frame

LEMMA BeginStep ==
    ASSUME IInv, NEW w \in Writers, NEW op \in {"insert", "update", "delete"},
           NEW x \in Objects, NEW c \in Contents, NEW b \in Nat,
           Begin(w, op, x, c, b),
           op = "update" => x \in DOMAIN rows /\ b = rows[x].born
    PROVE  IInv'
  <1>1. PICK n : n = [IdleWriter EXCEPT !.pc = "loaded", !.op = op, !.uid = x,
                                        !.content = c, !.born = b]
    OBVIOUS
  <1>2. n.pc = "loaded" /\ n.op = op /\ n.uid = x /\ n.born = b
    BY <1>1 DEF IdleWriter
  <1>3. n \in WriterState
    BY <1>1 DEF WriterState, IdleWriter
  <1>4. Becomes(w, n) /\ UNCHANGED <<now, db, sync, client, since, dirty>>
        /\ writes' \in Nat
    BY <1>1 DEF Begin, Becomes, IInv, Frame, Typed
  <1>5. Dated(n) /\ Loads(w, n)
    BY <1>2 DEF Dated, Loads
  <1>6. QED
    BY <1>3, <1>4, <1>5, WriterOnly

LEMMA StampStep ==
    ASSUME IInv, NEW w \in Writers, Stamp(w)
    PROVE  IInv'
  <1>1. Typed /\ Dates
    BY DEF IInv, Frame
  <1>2. PICK n : n = [writer[w] EXCEPT !.pc = "stamped", !.stamp = now]
    OBVIOUS
  <1>3. /\ writer[w].pc = "loaded" /\ now \in Nat
        /\ writer[w] \in [pc: {"loaded", "stamped"},
                          op: {"insert", "update", "delete"},
                          uid: Objects, content: Contents, stamp: Nat,
                          born: Nat, crossed: BOOLEAN]
    BY <1>1, WriterTypes DEF Stamp, Typed
  <1>4. n \in WriterState
    BY <1>2, <1>3 DEF WriterState
  <1>5. /\ n.stamp = now /\ n.op = writer[w].op /\ n.uid = writer[w].uid
        /\ n.born = writer[w].born
    BY <1>2, <1>3
  <1>6. writer' = [writer EXCEPT ![w] = n]
    BY <1>1, <1>2 DEF Stamp, Typed
  <1>7. Becomes(w, n) /\ UNCHANGED <<now, db, sync, client, since, dirty>>
        /\ writes' \in Nat
    BY <1>1, <1>6 DEF Stamp, Becomes, Typed
  <1>8. Dated(n) /\ Loads(w, n)
    <2>1. now >= since /\ now >= sync.end /\ now <= now
      BY <1>1, <1>3, SyncTypes DEF Dates, Typed
    <2>2. QED
      BY <1>3, <1>5, <2>1 DEF Dated, Loads, Updates
  <1>9. QED
    BY <1>4, <1>7, <1>8, WriterOnly

\* A creation that finds its uid in the table changes nothing.
LEMMA FinishStep ==
    ASSUME IInv, NEW w \in Writers, Finish(w),
           UNCHANGED <<now, db, sync, client, since, dirty, writes>>
    PROVE  IInv'
  <1>1. Becomes(w, IdleWriter) /\ IdleWriter \in WriterState
        /\ UNCHANGED <<now, db, sync, client, since, dirty>> /\ writes' \in Nat
    BY DEF Finish, Becomes, WriterState, IInv, Frame, Typed
  <1>2. Dated(IdleWriter) /\ Loads(w, IdleWriter)
    BY DEF Dated, Loads, IdleWriter
  <1>3. QED
    BY <1>1, <1>2, WriterOnly

\* An update whose object was deleted meanwhile goes on to an insertion.
LEMMA RestartStep ==
    ASSUME IInv, NEW w \in Writers, writer[w].pc = "stamped",
           writer' = [writer EXCEPT ![w].op = "insert", ![w].stamp = now,
                                    ![w].crossed = FALSE],
           UNCHANGED <<now, db, sync, client, since, dirty, writes>>
    PROVE  IInv'
  <1>1. Typed /\ Dates
    BY DEF IInv, Frame
  <1>2. PICK n : n = [writer[w] EXCEPT !.op = "insert", !.stamp = now,
                                       !.crossed = FALSE]
    OBVIOUS
  <1>3. /\ now \in Nat
        /\ writer[w] \in [pc: {"loaded", "stamped"},
                          op: {"insert", "update", "delete"},
                          uid: Objects, content: Contents, stamp: Nat,
                          born: Nat, crossed: BOOLEAN]
    BY <1>1, WriterTypes DEF Typed
  <1>4. n \in WriterState
    BY <1>2, <1>3 DEF WriterState
  <1>5. n.stamp = now /\ n.op = "insert"
    BY <1>2, <1>3
  <1>6. writer' = [writer EXCEPT ![w] = n]
    BY <1>1, <1>2 DEF Typed
  <1>7. Becomes(w, n) /\ writes' \in Nat
    BY <1>1, <1>6 DEF Becomes, Typed
  <1>8. Dated(n) /\ Loads(w, n)
    <2>1. now >= since /\ now >= sync.end /\ now <= now
      BY <1>1, <1>3, SyncTypes DEF Dates, Typed
    <2>2. QED
      BY <1>5, <2>1 DEF Dated, Loads
  <1>9. QED
    BY <1>4, <1>7, <1>8, WriterOnly

LEMMA TickStep ==
    ASSUME IInv, Tick
    PROVE  IInv'
  <1>1. Typed /\ Dates /\ Session /\ Stamps /\ Births
    BY DEF IInv, Frame
  <1>2. /\ Still /\ births' = births /\ dirty' = dirty /\ now' = now + 1
        /\ rows' = rows /\ visible' = visible /\ deleted' = deleted
        /\ sync' = sync /\ client' = client /\ since' = since
        /\ writer' = writer /\ writes' = writes
    BY DEF Tick, db, Still
  <1>3. /\ now \in Nat /\ since \in Nat /\ sync.end \in Nat
        /\ \A w \in Writers : writer[w].pc = "stamped" => writer[w].stamp \in Nat
    BY <1>1, SyncTypes, WriterTypes DEF Typed
  <1>4. Typed'
    BY <1>1, <1>2, <1>3 DEF Typed
  <1>5. Dates'
    BY <1>1, <1>2, <1>3, RowTypes DEF Dates
  <1>6. Session'
    BY <1>1, <1>2 DEF Session, Chosen
  <1>7. Stamps'
    BY <1>1, <1>2, <1>3 DEF Stamps
  <1>8. Births'
    BY <1>1, <1>2 DEF Births, Updates
  <1>9. ASSUME NEW x \in Objects \ dirty' PROVE Knows(x)'
    <2>1. Knows(x)
      BY <1>2 DEF IInv
    <2>2. QED
      BY <1>2, <2>1, StillKnows
  <1>10. QED
    BY <1>4, <1>5, <1>6, <1>7, <1>8, <1>9 DEF IInv, Frame
-----------------------------------------------------------------------------
(***************************************************************************)
(* Steps that change the tables: one object at a time.                     *)
(***************************************************************************)

\* Only x changes.
Touches(x) ==
    /\ \A y : y # x => /\ y \in DOMAIN rows' <=> y \in DOMAIN rows
                       /\ y \in DOMAIN rows => rows'[y] = rows[y]
                       /\ y \in visible' <=> y \in visible
    /\ deleted \subseteq deleted'
    /\ \A d \in deleted' : d.uid # x => d \in deleted
    /\ sync' = sync /\ client' = client /\ since' = since

LEMMA TouchedViews ==
    ASSUME NEW x, Touches(x)
    PROVE  /\ (Chosen' <=> Chosen) /\ Bound' = Bound
           /\ \A y : y # x =>
                /\ y \in All' <=> y \in All
                /\ y \in Listed' <=> y \in Listed
                /\ y \in Window' <=> y \in Window
                /\ Dropping(y)' <=> Dropping(y)
  <1>1. (Chosen' <=> Chosen) /\ Bound' = Bound
    BY DEF Touches, Chosen, Bound
  <1>2. ASSUME NEW y, y # x
        PROVE  /\ y \in All' <=> y \in All
               /\ y \in Listed' <=> y \in Listed
               /\ y \in Window' <=> y \in Window
               /\ Dropping(y)' <=> Dropping(y)
    <2>1. y \in All' <=> y \in All
      BY <1>2 DEF Touches, All
    <2>2. y \in Listed' <=> y \in Listed
      BY <1>2, <2>1 DEF Touches, Listed, All
    <2>3. y \in Window' <=> y \in Window
      BY <1>2, <2>2 DEF Touches, Window, InRange, Listed, All
    <2>4. Dropping(y)' <=> Dropping(y)
      BY DEF Touches, Dropping
    <2>5. QED
      BY <2>1, <2>2, <2>3, <2>4
  <1>3. QED
    BY <1>1, <1>2

\* When x was not in the window, as many objects as before come before y.
LEMMA OffsetGrows ==
    ASSUME Typed, Typed', NEW x, NEW y, y # x, Touches(x),
           x \notin Window, y \in Window
    PROVE  Offset(y)' \in Nat /\ Offset(y)' >= Offset(y)
  <1> DEFINE A == {z \in Window : rows[z].born > rows[y].born}
             B == {z \in Window' : rows'[z].born > rows'[y].born}
  <1>1. \A z \in Window : z # x /\ z \in DOMAIN rows /\ z \in Window'
    BY TouchedViews DEF Window, Listed, All
  <1>2. A \subseteq B
    BY <1>1 DEF Touches
  <1>3. Window' \subseteq Objects
    BY DEF Window, Listed, All, Typed
  <1>4. B \subseteq Objects
    BY <1>3
  <1>5. IsFiniteSet(B)
    BY <1>4, FinitenessAssumption, FS_Subset
  <1>6. Cardinality(A) <= Cardinality(B) /\ IsFiniteSet(A)
    BY <1>2, <1>5, FS_Subset
  <1>7. Cardinality(A) \in Nat /\ Cardinality(B) \in Nat
    BY <1>5, <1>6, FS_CardinalityType
  <1>8. Offset(y) = Cardinality(A) /\ Offset(y)' = Cardinality(B)
    BY DEF Offset
  <1>9. QED
    BY <1>6, <1>7, <1>8

LEMMA OffsetNext ==
    ASSUME Typed', NEW y
    PROVE  Offset(y)' \in Nat
  <1> DEFINE B == {z \in Window' : rows'[z].born > rows'[y].born}
  <1>1. Window' \subseteq Objects
    BY DEF Window, Listed, All, Typed
  <1>2. B \subseteq Objects
    BY <1>1
  <1>3. IsFiniteSet(B)
    BY <1>2, FinitenessAssumption, FS_Subset
  <1>4. QED
    BY <1>3, FS_CardinalityType DEF Offset

\* A change of x leaves what the client knows of the others, but for the
\* objects that it can move to a page already served.
LEMMA OthersKnow ==
    ASSUME Typed, Typed', NEW x, NEW y, y # x, Touches(x),
           y \notin Shifted(x), Knows(y)
    PROVE  Knows(y)'
  <1>1. /\ y \in DOMAIN rows' <=> y \in DOMAIN rows
        /\ y \in DOMAIN rows => rows'[y] = rows[y]
        /\ \A d : d.uid = y => (d \in deleted' <=> d \in deleted)
        /\ sync' = sync /\ client' = client /\ since' = since
    BY DEF Touches
  <1>2. /\ (Chosen' <=> Chosen) /\ Bound' = Bound
        /\ y \in All' <=> y \in All
        /\ y \in Listed' <=> y \in Listed
        /\ y \in Window' <=> y \in Window
        /\ Dropping(y)' <=> Dropping(y)
    BY TouchedViews
  <1>3. Younger(y)'
    BY <1>1 DEF Knows, Younger
  <1>4. Listing(y)'
    <2>1. SUFFICES ASSUME y \in Listed PROVE Listing(y)'
      BY <1>2 DEF Listing
    <2>2. y \in DOMAIN rows /\ Listing(y)
      BY <2>1 DEF Listed, All, Knows
    <2>3. rows'[y] = rows[y] /\ (Holds(y)' <=> Holds(y))
      BY <1>1, <2>2 DEF Holds
    <2>4. rows[y].stamp \in Nat /\ sync.end \in Nat /\ sync.page \in Nat
          /\ PageSize \in Nat
      BY <2>2, RowTypes, SyncTypes, ConstantsAssumption
    <2>5. ASSUME Chosen, since <= rows[y].stamp, y \notin sync.got,
                 Offset(y) >= sync.page * PageSize, ~(rows[y].stamp >= Bound)
          PROVE  Offset(y)' >= sync.page * PageSize
      <3>1. rows[y].stamp <= sync.end
        BY <2>4, <2>5 DEF Bound
      <3>2. y \in Window
        BY <2>1, <2>5, <3>1 DEF Window, InRange
      <3>3. CASE sync.page = 0
        BY <3>3, <2>4, OffsetNext
      <3>4. CASE sync.page > 0
        <4>1. x \notin Window
          BY <2>5, <3>2, <3>4 DEF Shifted
        <4>2. Offset(y)' \in Nat /\ Offset(y)' >= Offset(y)
          BY <3>2, <4>1, OffsetGrows
        <4>3. Offset(y) \in Nat /\ sync.page * PageSize \in Nat
          BY OffsetTypes
        <4>4. QED
          BY <2>5, <4>2, <4>3
      <3>5. QED
        BY <2>4, <3>3, <3>4
    <2>6. QED
      BY <1>1, <1>2, <2>1, <2>2, <2>3, <2>5 DEF Listing
  <1>5. Unlisting(y)'
    <2>1. SUFFICES ASSUME y \in All PROVE Unlisting(y)'
      BY <1>2 DEF Unlisting
    <2>2. y \in DOMAIN rows /\ rows'[y] = rows[y]
      BY <1>1, <2>1 DEF All
    <2>3. QED
      BY <1>1, <1>2, <2>1, <2>2 DEF Knows, Unlisting
  <1>6. Absent(y)'
    BY <1>1, <1>2 DEF Knows, Absent
  <1>7. QED
    BY <1>3, <1>4, <1>5, <1>6 DEF Knows

\* A row written with a date in the range of the next refresh.
LEMMA FreshRow ==
    ASSUME Typed, Session, NEW x, Touches(x),
           x \in DOMAIN rows', rows'[x].stamp \in Nat, rows'[x].stamp >= Bound,
           deleted' = deleted,
           \A d \in deleted : d.uid = x => d.stamp <= rows'[x].stamp,
           ~(sync.pc = "end" /\ sync.page = 0),
           x \notin visible' => x \notin All /\ Absent(x)
    PROVE  Knows(x)'
  <1>1. /\ sync' = sync /\ client' = client /\ since' = since
        /\ (Chosen' <=> Chosen) /\ Bound' = Bound
        /\ Dropping(x)' <=> Dropping(x)
    BY TouchedViews DEF Touches, Dropping
  <1>2. /\ sync.end \in Nat /\ since \in Nat /\ sync.page \in Nat
    BY SyncTypes DEF Typed
  <1>3. Younger(x)'
    BY DEF Younger
  <1>4. sync.pc = "page" => ~(rows'[x].stamp < since)
    BY <1>2 DEF Bound, Chosen, Session
  <1>5. Listing(x)'
    BY <1>1, <1>4 DEF Listing
  <1>6. sync.pc \in {"end", "removed"} => Chosen /\ ~(rows'[x].stamp < sync.end)
    BY <1>2 DEF Bound, Chosen
  <1>7. Unlisting(x)'
    BY <1>1, <1>6 DEF Unlisting
  <1>8. Absent(x)'
    <2>1. x \notin All' => x \notin visible'
      BY DEF All
    <2>2. QED
      BY <1>1, <2>1 DEF Absent
  <1>9. QED
    BY <1>3, <1>5, <1>7, <1>8 DEF Knows

\* A deletion with a date in the range of the next refresh.
LEMMA FreshStone ==
    ASSUME NEW x, Touches(x), x \notin DOMAIN rows',
           NEW t, t >= Bound, [uid |-> x, stamp |-> t] \in deleted'
    PROVE  Knows(x)'
  <1>1. x \notin All' /\ x \notin Listed'
    BY DEF All, Listed
  <1>2. \E d \in deleted' : d.uid = x /\ d.stamp >= Bound'
    BY TouchedViews
  <1>3. QED
    BY <1>1, <1>2 DEF Knows, Younger, Listing, Unlisting, Absent

\* Every other clean object is still known, and x is when it is clean.
LEMMA TouchedKnow ==
    ASSUME IInv, Typed', NEW x, Touches(x),
           \A y : y # x /\ y \notin dirty' => y \notin dirty /\ y \notin Shifted(x),
           x \in Objects \ dirty' => Knows(x)'
    PROVE  \A y \in Objects \ dirty' : Knows(y)'
  <1>1. ASSUME NEW y \in Objects \ dirty', y # x PROVE Knows(y)'
    <2>1. y \notin dirty /\ y \notin Shifted(x)
      BY <1>1
    <2>2. Knows(y) /\ Typed
      BY <2>1 DEF IInv, Frame
    <2>3. QED
      BY <1>1, <2>1, <2>2, OthersKnow
  <1>2. QED
    BY <1>1

\* Writers that a step leaves alone, or whose request it ends.
Ends == /\ writer' \in [Writers -> WriterState]
        /\ \A v \in Writers : writer'[v] = writer[v] \/ writer'[v] = IdleWriter

LEMMA FinishEnds ==
    ASSUME Typed, NEW w \in Writers, Finish(w)
    PROVE  /\ Ends /\ writer'[w] = IdleWriter
           /\ \A v \in Writers : v # w => writer'[v] = writer[v]
  <1>1. Becomes(w, IdleWriter) /\ IdleWriter \in WriterState
    BY DEF Finish, Becomes, WriterState
  <1>2. QED
    BY <1>1, BecomesAt DEF Ends

LEMMA TouchedFrame ==
    ASSUME Frame, NEW x, Touches(x), Ends, now' = now, writes' \in Nat,
           DOMAIN rows' \subseteq Objects, rows' \in [DOMAIN rows' -> Row],
           births' \in Nat, visible' \subseteq Objects, dirty' \subseteq Objects,
           deleted' \subseteq Tombstone,
           x \in DOMAIN rows' => rows'[x].stamp <= now,
           \A d \in deleted' : d.stamp <= now,
           Births'
    PROVE  Frame'
  <1>1. Typed /\ Dates /\ Session /\ Stamps
    BY DEF Frame
  <1>2. sync' = sync /\ client' = client /\ since' = since
    BY DEF Touches
  <1>3. Typed'
    BY <1>1, <1>2 DEF Typed, Ends
  <1>4. Dates'
    <2>1. ASSUME NEW y \in DOMAIN rows' PROVE rows'[y].stamp <= now
      BY <1>1 DEF Touches, Dates
    <2>2. QED
      BY <1>1, <1>2, <2>1 DEF Dates
  <1>5. Session'
    BY <1>1, <1>2 DEF Session, Chosen
  <1>6. Stamps'
    <2>1. IdleWriter.pc # "stamped"
      BY DEF IdleWriter
    <2>2. QED
      BY <1>1, <1>2, <2>1 DEF Stamps, Ends
  <1>7. QED
    BY <1>3, <1>4, <1>5, <1>6 DEF Frame

\* Creation dates: of a new row, of a row written again, after a deletion.
LEMMA EndsUpdates ==
    ASSUME Ends, NEW v \in Writers, Updates(v)'
    PROVE  Updates(v) /\ writer'[v] = writer[v]
  BY DEF Ends, Updates, IdleWriter

LEMMA InsertBirths ==
    ASSUME Typed, Births, Ends, NEW x, Touches(x),
           x \in DOMAIN rows', rows'[x].born = births, births' = births + 1
    PROVE  Births'
  <1>1. /\ births \in Nat
        /\ \A y \in DOMAIN rows : rows[y].born \in Nat
        /\ \A v \in Writers : Updates(v) => writer[v].born \in Nat
    BY RowTypes, WriterTypes DEF Typed, Updates
  <1>2. \A y \in DOMAIN rows' : y # x => y \in DOMAIN rows /\ rows'[y] = rows[y]
    BY DEF Touches
  <1>3. \A y \in DOMAIN rows' : y # x => rows'[y].born < births
    BY <1>2 DEF Births
  <1>4. \A y \in DOMAIN rows' : rows'[y].born < births'
    BY <1>1, <1>2, <1>3
  <1>5. \A y, z \in DOMAIN rows' : rows'[y].born = rows'[z].born => y = z
    BY <1>1, <1>2, <1>3 DEF Births
  <1>6. ASSUME NEW v \in Writers, Updates(v)'
        PROVE  /\ writer'[v].born < births'
               /\ \A y \in DOMAIN rows' :
                    rows'[y].born = writer'[v].born => y = writer'[v].uid
    <2>1. Updates(v) /\ writer'[v] = writer[v]
      BY <1>6, EndsUpdates
    <2>2. writer[v].born < births /\ writer[v].born \in Nat
      BY <1>1, <2>1 DEF Births
    <2>3. QED
      BY <1>1, <1>2, <2>1, <2>2 DEF Births
  <1>7. \A u, v \in Writers :
          Updates(u)' /\ Updates(v)' /\ writer'[u].born = writer'[v].born =>
            writer'[u].uid = writer'[v].uid
    BY EndsUpdates DEF Births
  <1>8. QED
    BY <1>4, <1>5, <1>6, <1>7 DEF Births

LEMMA UpdateBirths ==
    ASSUME Births, Ends, NEW w \in Writers, Updates(w), Touches(writer[w].uid),
           writer[w].uid \in DOMAIN rows,
           rows'[writer[w].uid].born = writer[w].born,
           births' = births
    PROVE  Births'
  <1>1. PICK x : x = writer[w].uid
    OBVIOUS
  <1>2. \A y \in DOMAIN rows' :
          /\ y \in DOMAIN rows
          /\ y # x => rows'[y] = rows[y]
          /\ y = x => rows'[y].born = writer[w].born
    BY <1>1 DEF Touches
  <1>3. \A y \in DOMAIN rows' : rows'[y].born < births'
    BY <1>2 DEF Births
  <1>4. \A y, z \in DOMAIN rows' : rows'[y].born = rows'[z].born => y = z
    BY <1>1, <1>2 DEF Births
  <1>5. ASSUME NEW v \in Writers, Updates(v)'
        PROVE  /\ writer'[v].born < births'
               /\ \A y \in DOMAIN rows' :
                    rows'[y].born = writer'[v].born => y = writer'[v].uid
    <2>1. Updates(v) /\ writer'[v] = writer[v]
      BY <1>5, EndsUpdates
    <2>2. writer[v].born = writer[w].born => writer[v].uid = x
      BY <1>1, <2>1 DEF Births
    <2>3. QED
      BY <1>2, <2>1, <2>2 DEF Births
  <1>6. \A u, v \in Writers :
          Updates(u)' /\ Updates(v)' /\ writer'[u].born = writer'[v].born =>
            writer'[u].uid = writer'[v].uid
    BY EndsUpdates DEF Births
  <1>7. QED
    BY <1>3, <1>4, <1>5, <1>6 DEF Births

\* A deletion, or a change of what the client may see, adds no row.
LEMMA FewerBirths ==
    ASSUME Births, Ends, births' = births,
           \A y \in DOMAIN rows' : y \in DOMAIN rows /\ rows'[y] = rows[y]
    PROVE  Births'
  <1>1. /\ \A y \in DOMAIN rows' : rows'[y].born < births'
        /\ \A y, z \in DOMAIN rows' : rows'[y].born = rows'[z].born => y = z
    BY DEF Births
  <1>2. ASSUME NEW v \in Writers, Updates(v)'
        PROVE  /\ writer'[v].born < births'
               /\ \A y \in DOMAIN rows' :
                    rows'[y].born = writer'[v].born => y = writer'[v].uid
    <2>1. Updates(v) /\ writer'[v] = writer[v]
      BY <1>2, EndsUpdates
    <2>2. QED
      BY <2>1 DEF Births
  <1>3. \A u, v \in Writers :
          Updates(u)' /\ Updates(v)' /\ writer'[u].born = writer'[v].born =>
            writer'[u].uid = writer'[v].uid
    BY EndsUpdates DEF Births
  <1>4. QED
    BY <1>1, <1>2, <1>3 DEF Births

\* A write that no list request crosses is in the range of the next refresh.
LEMMA CleanWrite ==
    ASSUME Frame, NEW w \in Writers, writer[w].pc = "stamped", ~Late(w)
    PROVE  /\ writer[w].stamp \in Nat /\ writer[w].stamp >= Bound
           /\ ~(sync.pc = "end" /\ sync.page = 0)
  <1>1. writer[w].stamp >= since /\ writer[w].stamp >= sync.end
    BY DEF Frame, Stamps, Late
  <1>2. QED
    BY <1>1, WriterTypes DEF Frame, Bound, Late

LEMMA InsertStep ==
    ASSUME IInv, NEW w \in Writers, writer[w].pc = "stamped",
           writer[w].uid \notin DOMAIN rows,
           visible' \in {visible \ {writer[w].uid}, visible \cup {writer[w].uid}},
           Insert(w, writer[w].uid),
           UNCHANGED <<now, deleted, sync, client, since, writes>>
    PROVE  IInv'
  <1>1. Frame /\ Typed /\ Dates /\ Session /\ Stamps /\ Births
    BY DEF IInv, Frame
  <1>2. PICK x : x = writer[w].uid
    OBVIOUS
  <1>3. PICK r : r = NewRow(w, births)
    OBVIOUS
  <1>4. /\ r \in Row /\ r.stamp = writer[w].stamp /\ r.born = births
        /\ x \in Objects /\ writer[w].stamp <= now
    BY <1>1, <1>2, <1>3, WriterTypes DEF NewRow, Row, Typed, Stamps
  <1>5. /\ DOMAIN rows' = DOMAIN rows \cup {x} /\ rows'[x] = r
        /\ \A y \in DOMAIN rows : y # x => rows'[y] = rows[y]
        /\ rows' \in [DOMAIN rows' -> Row]
    BY <1>1, <1>2, <1>3, <1>4 DEF Insert, Typed
  <1>6. Ends
    BY <1>1, FinishEnds DEF Insert
  <1>7. Touches(x)
    BY <1>2, <1>5 DEF Touches
  <1>8. /\ \A y : y # x /\ y \notin dirty' => y \notin dirty /\ y \notin Shifted(x)
        /\ x \notin dirty' => ~Late(w) /\ ~Predated(w, x)
        /\ x \notin visible' /\ x \notin dirty' => x \notin dirty
    BY <1>2 DEF Insert, Written
  <1>9. Births'
    BY <1>1, <1>4, <1>5, <1>6, <1>7, InsertBirths DEF Insert
  <1>10. Frame'
    <2>1. /\ births' \in Nat /\ visible' \subseteq Objects
          /\ dirty' \subseteq Objects
      BY <1>1, <1>2, <1>4, OffsetTypes DEF Insert, Written, Shifted, Typed
    <2>2. /\ deleted' \subseteq Tombstone /\ writes' \in Nat /\ now' = now
          /\ \A d \in deleted' : d.stamp <= now
      BY <1>1 DEF Typed, Dates
    <2>3. DOMAIN rows' \subseteq Objects /\ rows'[x].stamp <= now
      BY <1>1, <1>4, <1>5 DEF Typed
    <2>4. QED
      BY <1>1, <1>5, <1>6, <1>7, <1>9, <2>1, <2>2, <2>3, TouchedFrame
  <1>11. ASSUME x \in Objects \ dirty' PROVE Knows(x)'
    <2>1. /\ writer[w].stamp \in Nat /\ writer[w].stamp >= Bound
          /\ ~(sync.pc = "end" /\ sync.page = 0)
      BY <1>1, <1>8, <1>11, CleanWrite
    <2>2. \A d \in deleted : d.uid = x => d.stamp <= writer[w].stamp
      BY <1>1, <1>8, <1>11, <2>1, RowTypes DEF Predated
    <2>3. x \notin visible' => x \notin All /\ Absent(x)
      BY <1>2, <1>8, <1>11 DEF IInv, Knows, All
    <2>4. QED
      BY <1>1, <1>4, <1>5, <1>7, <2>1, <2>2, <2>3, FreshRow
  <1>12. QED
    BY <1>7, <1>8, <1>10, <1>11, TouchedKnow DEF IInv, Frame

LEMMA UpdateStep ==
    ASSUME IInv, NEW w \in Writers,
           writer[w].pc = "stamped", writer[w].op = "update",
           writer[w].uid \in DOMAIN rows,
           rows' = [rows EXCEPT ![writer[w].uid] = NewRow(w, writer[w].born)],
           Finish(w), Written(w, writer[w].uid, writer[w].uid \notin visible),
           UNCHANGED <<now, births, visible, deleted, sync, client, since, writes>>
    PROVE  IInv'
  <1>1. Frame /\ Typed /\ Dates /\ Session /\ Stamps /\ Births
    BY DEF IInv, Frame
  <1>2. PICK x : x = writer[w].uid
    OBVIOUS
  <1>3. PICK r : r = NewRow(w, writer[w].born)
    OBVIOUS
  <1>4. /\ r \in Row /\ r.stamp = writer[w].stamp /\ r.born = writer[w].born
        /\ x \in Objects /\ writer[w].stamp <= now
    BY <1>1, <1>2, <1>3, WriterTypes DEF NewRow, Row, Stamps
  <1>5. /\ DOMAIN rows' = DOMAIN rows /\ rows'[x] = r
        /\ \A y \in DOMAIN rows : y # x => rows'[y] = rows[y]
        /\ rows' \in [DOMAIN rows' -> Row]
    BY <1>1, <1>2, <1>3, <1>4 DEF Typed
  <1>6. Ends
    BY <1>1, FinishEnds
  <1>7. Touches(x)
    BY <1>5 DEF Touches
  <1>8. /\ \A y : y # x /\ y \notin dirty' => y \notin dirty /\ y \notin Shifted(x)
        /\ x \notin dirty' => ~Late(w) /\ ~Predated(w, x)
        /\ x \notin visible /\ x \notin dirty' => x \notin dirty
    BY <1>2 DEF Written
  <1>9. Births'
    BY <1>1, <1>2, <1>4, <1>5, <1>6, <1>7, UpdateBirths DEF Updates
  <1>10. Frame'
    <2>1. dirty' \subseteq Objects
      BY <1>1, <1>2, <1>4, OffsetTypes DEF Written, Shifted, Typed
    <2>2. /\ deleted' \subseteq Tombstone /\ writes' \in Nat /\ now' = now
          /\ births' \in Nat /\ visible' \subseteq Objects
          /\ \A d \in deleted' : d.stamp <= now
      BY <1>1 DEF Typed, Dates
    <2>3. DOMAIN rows' \subseteq Objects /\ rows'[x].stamp <= now
      BY <1>1, <1>4, <1>5 DEF Typed
    <2>4. QED
      BY <1>1, <1>5, <1>6, <1>7, <1>9, <2>1, <2>2, <2>3, TouchedFrame
  <1>11. ASSUME x \in Objects \ dirty' PROVE Knows(x)'
    <2>1. /\ writer[w].stamp \in Nat /\ writer[w].stamp >= Bound
          /\ ~(sync.pc = "end" /\ sync.page = 0)
      BY <1>1, <1>8, <1>11, CleanWrite
    <2>2. \A d \in deleted : d.uid = x => d.stamp <= writer[w].stamp
      BY <1>1, <1>8, <1>11, <2>1, RowTypes DEF Predated
    <2>3. x \notin visible' => x \notin All /\ Absent(x)
      BY <1>8, <1>11 DEF IInv, Knows, All
    <2>4. QED
      BY <1>1, <1>2, <1>4, <1>5, <1>7, <2>1, <2>2, <2>3, FreshRow
  <1>12. QED
    BY <1>7, <1>8, <1>10, <1>11, TouchedKnow DEF IInv, Frame

LEMMA DeleteStep ==
    ASSUME IInv, NEW w \in Writers, CommitDelete(w)
    PROVE  IInv'
  <1>1. Frame /\ Typed /\ Dates /\ Session /\ Stamps /\ Births
    BY DEF IInv, Frame
  <1>2. PICK x : x = writer[w].uid
    OBVIOUS
  <1>3. PICK t : t = writer[w].stamp
    OBVIOUS
  <1>4. writer[w].pc = "stamped" /\ x \in Objects /\ t \in Nat /\ t <= now
    BY <1>1, <1>2, <1>3, WriterTypes DEF CommitDelete, Stamps
  <1>5. /\ rows' = [y \in DOMAIN rows \ {x} |-> rows[y]]
        /\ deleted' = deleted \cup {[uid |-> x, stamp |-> t]}
        /\ Written(w, x, FALSE) /\ Finish(w)
        /\ now' = now /\ births' = births /\ visible' = visible /\ writes' = writes
        /\ sync' = sync /\ client' = client /\ since' = since
    BY <1>2, <1>3 DEF CommitDelete
  <1>6. /\ DOMAIN rows' = DOMAIN rows \ {x}
        /\ \A y \in DOMAIN rows' : y \in DOMAIN rows /\ rows'[y] = rows[y]
        /\ rows' \in [DOMAIN rows' -> Row]
    BY <1>1, <1>5 DEF Typed
  <1>7. Ends
    BY <1>1, <1>5, FinishEnds
  <1>8. Touches(x)
    BY <1>5, <1>6 DEF Touches
  <1>9. /\ \A y : y # x /\ y \notin dirty' => y \notin dirty /\ y \notin Shifted(x)
        /\ x \notin dirty' => ~Late(w)
    BY <1>5 DEF Written
  <1>10. Births'
    BY <1>1, <1>5, <1>6, <1>7, FewerBirths
  <1>11. Frame'
    <2>1. dirty' \subseteq Objects
      BY <1>1, <1>4, <1>5, OffsetTypes DEF Written, Shifted, Typed
    <2>2. [uid |-> x, stamp |-> t] \in Tombstone
      BY <1>4 DEF Tombstone
    <2>3. /\ deleted' \subseteq Tombstone /\ writes' \in Nat
          /\ births' \in Nat /\ visible' \subseteq Objects
          /\ \A d \in deleted' : d.stamp <= now
      BY <1>1, <1>4, <1>5, <2>2 DEF Typed, Dates
    <2>4. DOMAIN rows' \subseteq Objects /\ x \notin DOMAIN rows'
      BY <1>1, <1>6 DEF Typed
    <2>5. QED
      BY <1>1, <1>5, <1>6, <1>7, <1>8, <1>10, <2>1, <2>3, <2>4, TouchedFrame
  <1>12. ASSUME x \in Objects \ dirty' PROVE Knows(x)'
    <2>1. t >= Bound
      BY <1>1, <1>3, <1>4, <1>9, <1>12, CleanWrite
    <2>2. [uid |-> x, stamp |-> t] \in deleted' /\ x \notin DOMAIN rows'
      BY <1>5, <1>6
    <2>3. QED
      BY <1>8, <2>1, <2>2, FreshStone
  <1>13. QED
    BY <1>8, <1>9, <1>11, <1>12, TouchedKnow DEF IInv, Frame

LEMMA RescopeStep ==
    ASSUME IInv, NEW x \in Objects, Rescope(x)
    PROVE  IInv'
  <1>1. Frame /\ Typed /\ Dates /\ Session /\ Stamps /\ Births
    BY DEF IInv, Frame
  <1>2. /\ visible' = visible \ {x} \/ visible' = visible \cup {x}
        /\ dirty' = dirty \cup {x} \cup Shifted(x)
        /\ rows' = rows /\ births' = births /\ deleted' = deleted
        /\ writer' = writer /\ now' = now /\ writes' = writes + 1
        /\ sync' = sync /\ client' = client /\ since' = since
    BY DEF Rescope
  <1>3. Touches(x)
    BY <1>2 DEF Touches
  <1>4. Ends
    BY <1>1, <1>2 DEF Ends, Typed
  <1>5. Births'
    BY <1>1, <1>2, <1>4, FewerBirths
  <1>6. Frame'
    <2>1. dirty' \subseteq Objects /\ visible' \subseteq Objects
      BY <1>1, <1>2, OffsetTypes DEF Shifted, Typed
    <2>2. /\ deleted' \subseteq Tombstone /\ births' \in Nat /\ writes' \in Nat
          /\ DOMAIN rows' \subseteq Objects /\ rows' \in [DOMAIN rows' -> Row]
      BY <1>1, <1>2 DEF Typed
    <2>3. /\ x \in DOMAIN rows' => rows'[x].stamp <= now
          /\ \A d \in deleted' : d.stamp <= now
      BY <1>1, <1>2 DEF Dates
    <2>4. QED
      BY <1>1, <1>2, <1>3, <1>4, <1>5, <2>1, <2>2, <2>3, TouchedFrame
  <1>7. QED
    BY <1>2, <1>3, <1>6, TouchedKnow DEF IInv, Frame
-----------------------------------------------------------------------------
(***************************************************************************)
(* Steps of the list request: the tables stay as they are.                 *)
(***************************************************************************)

LEMMA ListViews ==
    ASSUME UNCHANGED <<rows, visible>>
    PROVE  /\ All' = All /\ Listed' = Listed
           /\ since' = since /\ sync'.end = sync.end =>
                Window' = Window /\ \A x : Offset(x)' = Offset(x)
  <1>1. All' = All
    BY DEF All
  <1>2. Listed' = Listed
    BY <1>1 DEF Listed
  <1>3. ASSUME since' = since, sync'.end = sync.end
        PROVE  Window' = Window
    BY <1>2, <1>3 DEF Window, InRange
  <1>4. ASSUME since' = since, sync'.end = sync.end, NEW x
        PROVE  Offset(x)' = Offset(x)
    BY <1>3, <1>4 DEF Offset
  <1>5. QED
    BY <1>1, <1>2, <1>3, <1>4

\* A writer keeps its request; the list request may have crossed it.
Keeps ==
    /\ writer' \in [Writers -> WriterState]
    /\ \A v \in Writers :
         /\ writer'[v].pc = writer[v].pc /\ writer'[v].op = writer[v].op
         /\ writer'[v].uid = writer[v].uid /\ writer'[v].born = writer[v].born

LEMMA ListFrame ==
    ASSUME Frame, UNCHANGED <<now, db, dirty, writes>>, Keeps,
           sync' \in SyncState, since' \in Nat, DOMAIN client' \subseteq Objects,
           client' \in [DOMAIN client' -> Contents],
           since' <= now, sync'.end <= now, Session', Stamps'
    PROVE  Frame'
  <1>1. /\ now' = now /\ rows' = rows /\ births' = births /\ visible' = visible
        /\ deleted' = deleted /\ dirty' = dirty /\ writes' = writes
    BY DEF db
  <1>2. Typed'
    BY <1>1 DEF Frame, Typed, Keeps
  <1>3. Dates'
    BY <1>1 DEF Frame, Dates
  <1>4. Births'
    <2>1. \A v \in Writers : Updates(v)' <=> Updates(v)
      BY DEF Updates, Keeps
    <2>2. QED
      BY <1>1, <2>1 DEF Frame, Births, Keeps
  <1>5. QED
    BY <1>2, <1>3, <1>4 DEF Frame

LEMMA UnchangedKeeps ==
    ASSUME Typed, writer' = writer
    PROVE  Keeps
  BY DEF Typed, Keeps

LEMMA ReadMatchingStep ==
    ASSUME IInv, ReadMatching
    PROVE  IInv'
  <1>1. Frame /\ Typed /\ Dates /\ Session /\ Stamps
    BY DEF IInv, Frame
  <1>2. PICK s : s = [sync EXCEPT !.pc = "end", !.pk = Listed]
    OBVIOUS
  <1>3. /\ sync' = s /\ UNCHANGED <<now, db, dirty, writes>>
        /\ rows' = rows /\ visible' = visible /\ deleted' = deleted
        /\ client' = client /\ since' = since /\ writer' = writer /\ now' = now
        /\ dirty' = dirty
        /\ sync.pc = "idle" \/ sync.pc = "next"
    BY <1>2 DEF ReadMatching, db
  <1>4. Listed \in SUBSET Objects
    BY <1>1 DEF Listed, All, Typed
  <1>5. /\ s \in SyncState /\ s.pc = "end" /\ s.pk = Listed /\ s.end = sync.end
        /\ s.page = sync.page /\ s.got = sync.got
    BY <1>1, <1>2, <1>4 DEF Typed, SyncState
  <1>6. (Chosen' <=> Chosen) /\ (Chosen => sync.page > 0) /\ Bound' = Bound
    BY <1>1, <1>3, <1>5, SyncTypes DEF Chosen, Bound, Session
  <1>7. Frame'
    <2>1. Session'
      BY <1>1, <1>3, <1>5, <1>6 DEF Session
    <2>2. Stamps'
      BY <1>1, <1>3, <1>5 DEF Stamps
    <2>3. since' <= now /\ sync'.end <= now
      BY <1>1, <1>3, <1>5 DEF Dates
    <2>4. /\ since' \in Nat /\ DOMAIN client' \subseteq Objects
          /\ client' \in [DOMAIN client' -> Contents]
      BY <1>1, <1>3 DEF Typed
    <2>5. QED
      BY <1>1, <1>3, <1>5, <2>1, <2>2, <2>3, <2>4, UnchangedKeeps, ListFrame
  <1>8. ASSUME NEW x \in Objects \ dirty' PROVE Knows(x)'
    <2>1. Knows(x)
      BY <1>3 DEF IInv
    <2>2. /\ All' = All /\ Listed' = Listed /\ Offset(x)' = Offset(x)
          /\ (Holds(x)' <=> Holds(x)) /\ Dropping(x)'
      BY <1>3, <1>5, ListViews DEF Holds, Dropping
    <2>3. Younger(x)'
      BY <1>3, <2>1 DEF Knows, Younger
    <2>4. Listing(x)'
      BY <1>3, <1>5, <1>6, <2>1, <2>2 DEF Knows, Listing
    <2>5. Unlisting(x)'
      <3>1. rows[x].content \notin Matching => x \notin Listed
        BY DEF Listed
      <3>2. QED
        BY <1>3, <1>5, <1>6, <2>1, <2>2, <3>1 DEF Knows, Unlisting
    <2>6. Absent(x)'
      BY <1>3, <1>5, <1>6, <2>1, <2>2 DEF Knows, Absent
    <2>7. QED
      BY <2>3, <2>4, <2>5, <2>6 DEF Knows
  <1>9. QED
    BY <1>7, <1>8 DEF IInv

\* The first page of a refresh chooses the end of the range.
LEMMA ChooseNowStep ==
    ASSUME IInv, sync.pc = "end", sync.page = 0,
           sync' = [sync EXCEPT !.pc = "removed", !.end = now],
           writer' = [w \in Writers |->
                        IF writer[w].pc = "stamped"
                        THEN [writer[w] EXCEPT !.crossed = TRUE] ELSE writer[w]],
           UNCHANGED <<now, db, client, since, dirty, writes>>
    PROVE  IInv'
  <1>1. Frame /\ Typed /\ Dates /\ Session /\ Stamps
    BY DEF IInv, Frame
  <1>2. PICK s : s = [sync EXCEPT !.pc = "removed", !.end = now]
    OBVIOUS
  <1>3. /\ sync' = s
        /\ rows' = rows /\ visible' = visible /\ deleted' = deleted
        /\ client' = client /\ since' = since /\ now' = now /\ dirty' = dirty
    BY <1>2 DEF db
  <1>4. now \in Nat /\ since \in Nat /\ since <= now /\ now >= 1
    BY <1>1 DEF Typed, Dates
  <1>5. /\ s \in SyncState /\ s.pc = "removed" /\ s.pk = sync.pk /\ s.end = now
        /\ s.page = 0 /\ s.got = {} /\ sync.got = {}
    BY <1>1, <1>2, <1>4 DEF Typed, SyncState, Session
  <1>6. ~Chosen /\ Bound = since /\ Chosen' /\ Bound' = now
    BY <1>3, <1>4, <1>5 DEF Chosen, Bound
  <1>7. ASSUME NEW v \in Writers
        PROVE  /\ writer'[v] \in WriterState
               /\ writer'[v].pc = writer[v].pc /\ writer'[v].op = writer[v].op
               /\ writer'[v].uid = writer[v].uid
               /\ writer'[v].born = writer[v].born
               /\ writer'[v].stamp = writer[v].stamp
               /\ writer'[v].pc = "stamped" => writer'[v].crossed = TRUE
    <2>1. CASE writer[v].pc = "stamped"
      <3>1. writer'[v] = [writer[v] EXCEPT !.crossed = TRUE]
        BY <2>1
      <3>2. writer[v] \in [pc: {"loaded", "stamped"},
                           op: {"insert", "update", "delete"},
                           uid: Objects, content: Contents, stamp: Nat,
                           born: Nat, crossed: BOOLEAN]
        BY <1>1, <2>1, WriterTypes
      <3>3. QED
        BY <3>1, <3>2 DEF WriterState
    <2>2. CASE writer[v].pc # "stamped"
      BY <1>1, <2>2 DEF Typed
    <2>3. QED
      BY <2>1, <2>2
  <1>8. Keeps
    <2>1. writer' \in [Writers -> WriterState]
      <3>1. DOMAIN writer' = Writers
        OBVIOUS
      <3>2. QED
        BY <1>7
    <2>2. QED
      BY <1>7, <2>1 DEF Keeps
  <1>9. Frame'
    <2>1. Session'
      BY <1>1, <1>3, <1>4, <1>5, <1>6 DEF Session
    <2>2. Stamps'
      BY <1>1, <1>3, <1>7 DEF Stamps
    <2>3. since' <= now /\ sync'.end <= now
      BY <1>3, <1>4, <1>5
    <2>4. /\ since' \in Nat /\ DOMAIN client' \subseteq Objects
          /\ client' \in [DOMAIN client' -> Contents]
      BY <1>1, <1>3 DEF Typed
    <2>5. QED
      BY <1>1, <1>3, <1>5, <1>8, <2>1, <2>2, <2>3, <2>4, ListFrame
  <1>10. ASSUME NEW x \in Objects \ dirty' PROVE Knows(x)'
    <2>1. Knows(x)
      BY <1>3 DEF IInv
    <2>2. /\ All' = All /\ Listed' = Listed
          /\ (Holds(x)' <=> Holds(x)) /\ Dropping(x)'
      BY <1>3, <1>5, ListViews DEF Holds, Dropping
    <2>3. x \in DOMAIN rows => rows[x].stamp \in Nat
      BY <1>1, RowTypes
    <2>4. Younger(x)'
      BY <1>3, <2>1 DEF Knows, Younger
    <2>5. Listing(x)'
      <3>1. Offset(x)' >= 0 * PageSize
        BY <1>9, OffsetNext, ConstantsAssumption DEF Frame
      <3>2. x \in Listed => x \in DOMAIN rows
        BY DEF Listed, All
      <3>3. QED
        BY <1>3, <1>4, <1>5, <1>6, <2>1, <2>2, <2>3, <3>1, <3>2
           DEF Knows, Listing
    <2>6. Unlisting(x)'
      <3>1. x \in All => x \in DOMAIN rows
        BY DEF All
      <3>2. QED
        BY <1>3, <1>4, <1>5, <1>6, <2>1, <2>2, <2>3, <3>1 DEF Knows, Unlisting
    <2>7. Absent(x)'
      BY <1>3, <1>5, <1>6, <2>1, <2>2 DEF Knows, Absent
    <2>8. QED
      BY <2>4, <2>5, <2>6, <2>7 DEF Knows
  <1>11. QED
    BY <1>9, <1>10 DEF IInv

\* A later page has the end of the first.
LEMMA KeepEndStep ==
    ASSUME IInv, sync.pc = "end", sync.page > 0,
           sync' = [sync EXCEPT !.pc = "removed"], UNCHANGED writer,
           UNCHANGED <<now, db, client, since, dirty, writes>>
    PROVE  IInv'
  <1>1. Frame /\ Typed /\ Dates /\ Session /\ Stamps
    BY DEF IInv, Frame
  <1>2. PICK s : s = [sync EXCEPT !.pc = "removed"]
    OBVIOUS
  <1>3. /\ sync' = s
        /\ rows' = rows /\ visible' = visible /\ deleted' = deleted
        /\ client' = client /\ since' = since /\ now' = now /\ dirty' = dirty
    BY <1>2 DEF db
  <1>4. /\ s \in SyncState /\ s.pc = "removed" /\ s.pk = sync.pk
        /\ s.end = sync.end /\ s.page = sync.page /\ s.got = sync.got
    BY <1>1, <1>2 DEF Typed, SyncState
  <1>5. Chosen /\ Chosen' /\ Bound' = Bound
    BY <1>3, <1>4 DEF Chosen, Bound
  <1>6. Frame'
    <2>1. Session'
      BY <1>1, <1>3, <1>4, <1>5 DEF Session
    <2>2. Stamps'
      BY <1>1, <1>3, <1>4 DEF Stamps
    <2>3. since' <= now /\ sync'.end <= now
      BY <1>1, <1>3, <1>4 DEF Dates
    <2>4. /\ since' \in Nat /\ DOMAIN client' \subseteq Objects
          /\ client' \in [DOMAIN client' -> Contents]
      BY <1>1, <1>3 DEF Typed
    <2>5. QED
      BY <1>1, <1>3, <1>4, <2>1, <2>2, <2>3, <2>4, UnchangedKeeps, ListFrame
  <1>7. ASSUME NEW x \in Objects \ dirty' PROVE Knows(x)'
    <2>1. Knows(x)
      BY <1>3 DEF IInv
    <2>2. /\ All' = All /\ Listed' = Listed /\ Offset(x)' = Offset(x)
          /\ (Holds(x)' <=> Holds(x)) /\ Dropping(x)'
      BY <1>3, <1>4, ListViews DEF Holds, Dropping
    <2>3. Younger(x)'
      BY <1>3, <2>1 DEF Knows, Younger
    <2>4. Listing(x)'
      BY <1>3, <1>4, <1>5, <2>1, <2>2 DEF Knows, Listing
    <2>5. Unlisting(x)'
      BY <1>3, <1>4, <1>5, <2>1, <2>2 DEF Knows, Unlisting
    <2>6. Absent(x)'
      BY <1>3, <1>4, <1>5, <2>1, <2>2 DEF Knows, Absent
    <2>7. QED
      BY <2>3, <2>4, <2>5, <2>6 DEF Knows
  <1>8. QED
    BY <1>6, <1>7 DEF IInv

\* deleted_uids has every clean object to drop, and none to keep.
LEMMA ReadRemovedStep ==
    ASSUME IInv, ReadRemoved
    PROVE  IInv'
  <1>1. Frame /\ Typed /\ Dates /\ Session /\ Stamps
    BY DEF IInv, Frame
  <1>2. PICK gone :
          gone = IF since = 0 THEN {}
                 ELSE {d.uid : d \in {e \in deleted : InRange(e.stamp, sync.end)}}
                      \cup {x \in All \ sync.pk : InRange(rows[x].stamp, sync.end)}
    OBVIOUS
  <1>3. PICK s : s = [sync EXCEPT !.pc = "page", !.removed = gone]
    OBVIOUS
  <1>4. /\ sync' = s /\ sync.pc = "removed"
        /\ UNCHANGED <<now, db, dirty, writes>>
        /\ rows' = rows /\ visible' = visible /\ deleted' = deleted
        /\ client' = client /\ since' = since /\ now' = now /\ dirty' = dirty
        /\ writer' = writer
    BY <1>2, <1>3 DEF ReadRemoved, db
  <1>5. gone \in SUBSET Objects
    BY <1>1, <1>2, RowTypes DEF Typed, All
  <1>6. /\ s \in SyncState /\ s.pc = "page" /\ s.pk = sync.pk
        /\ s.end = sync.end /\ s.page = sync.page /\ s.got = sync.got
        /\ s.removed = gone
    BY <1>1, <1>3, <1>5 DEF Typed, SyncState
  <1>7. /\ Chosen /\ Chosen' /\ Bound' = Bound /\ Bound = sync.end
    BY <1>4, <1>6 DEF Chosen, Bound
  <1>8. since \in Nat /\ sync.end \in Nat
    BY <1>1, SyncTypes DEF Typed
  <1>9. Frame'
    <2>1. Session'
      BY <1>1, <1>4, <1>6, <1>7 DEF Session
    <2>2. Stamps'
      BY <1>1, <1>4, <1>6 DEF Stamps
    <2>3. since' <= now /\ sync'.end <= now
      BY <1>1, <1>4, <1>6 DEF Dates
    <2>4. /\ since' \in Nat /\ DOMAIN client' \subseteq Objects
          /\ client' \in [DOMAIN client' -> Contents]
      BY <1>1, <1>4 DEF Typed
    <2>5. QED
      BY <1>1, <1>4, <1>6, <2>1, <2>2, <2>3, <2>4, UnchangedKeeps, ListFrame
  <1>10. ASSUME NEW x \in Objects \ dirty' PROVE Knows(x)'
    <2>1. Knows(x)
      BY <1>4 DEF IInv
    <2>2. /\ All' = All /\ Listed' = Listed /\ Offset(x)' = Offset(x)
          /\ Holds(x)' <=> Holds(x)
      BY <1>4, <1>6, ListViews DEF Holds
    <2>3. /\ x \in DOMAIN rows => rows[x].stamp \in Nat
          /\ \A d \in deleted : d.stamp \in Nat
          /\ x \in Listed => x \in DOMAIN rows
          /\ x \in All => x \in DOMAIN rows
      BY <1>1, RowTypes DEF Listed, All
    <2>4. Younger(x)'
      BY <1>4, <2>1 DEF Knows, Younger
    <2>5. Listing(x)'
      <3>1. ASSUME x \in Listed, rows[x].stamp < since PROVE x \notin gone
        <4>1. \A d \in deleted : d.uid = x => ~InRange(d.stamp, sync.end)
          BY <1>8, <2>1, <2>3, <3>1 DEF Knows, Younger, InRange
        <4>2. ~InRange(rows[x].stamp, sync.end)
          BY <1>8, <2>3, <3>1 DEF InRange
        <4>3. QED
          BY <1>2, <4>1, <4>2
      <3>2. QED
        BY <1>4, <1>6, <1>7, <2>1, <2>2, <3>1 DEF Knows, Listing
    <2>6. Unlisting(x)'
      <3>1. ASSUME x \in All, x \notin sync.pk, since # 0,
                   rows[x].stamp >= since, ~(rows[x].stamp >= sync.end)
            PROVE  x \in gone
        <4>1. InRange(rows[x].stamp, sync.end)
          BY <1>8, <2>3, <3>1 DEF InRange
        <4>2. QED
          BY <1>2, <3>1, <4>1
      <3>2. since = 0 /\ x \notin sync.got => x \notin DOMAIN client
        BY <1>1 DEF Session
      <3>3. ASSUME x \in All, rows[x].content \notin Matching,
                   ~(rows[x].stamp >= sync.end)
            PROVE  /\ x \notin sync.pk /\ x \notin sync.got
                   /\ \/ x \notin DOMAIN client
                      \/ sync.page = 0 /\ rows[x].stamp >= since
        BY <1>4, <1>7, <1>8, <2>1, <2>3, <3>3 DEF Knows, Unlisting
      <3>4. QED
        BY <1>4, <1>6, <1>7, <2>2, <3>1, <3>2, <3>3 DEF Unlisting, Dropping
    <2>7. Absent(x)'
      <3>1. ASSUME NEW d \in deleted, d.uid = x, d.stamp >= since,
                   ~(d.stamp >= sync.end), since # 0
            PROVE  x \in gone
        <4>1. InRange(d.stamp, sync.end)
          BY <1>8, <2>3, <3>1 DEF InRange
        <4>2. QED
          BY <1>2, <3>1, <4>1
      <3>2. since = 0 /\ sync.page = 0 => x \notin DOMAIN client
        BY <1>1 DEF Session
      <3>3. x \notin All =>
              \/ x \notin DOMAIN client
              \/ \E d \in deleted : d.uid = x /\ d.stamp >= sync.end
              \/ sync.page = 0 /\ \E d \in deleted : d.uid = x /\ d.stamp >= since
        BY <1>7, <2>1 DEF Knows, Absent
      <3>4. QED
        BY <1>4, <1>6, <1>7, <2>2, <3>1, <3>2, <3>3 DEF Absent, Dropping
    <2>8. QED
      BY <2>4, <2>5, <2>6, <2>7 DEF Knows
  <1>11. QED
    BY <1>9, <1>10 DEF IInv

\* What the client holds after a page: Results is the page, gone what it drops.
Results == Page(sync.page + 1)

Serves ==
    client' = [x \in (DOMAIN client \ (sync.removed \ sync.got)) \cup Results |->
                 IF x \in Results THEN rows[x].content ELSE client[x]]

\* Fewer objects come before x than the window has.
LEMMA OffsetBelow ==
    ASSUME Typed, NEW x, x \in Window
    PROVE  Offset(x) < Cardinality(Window)
  <1> DEFINE Before == {y \in Window : rows[y].born > rows[x].born}
  <1>1. IsFiniteSet(Window)
    BY OffsetTypes
  <1>2. rows[x].born \in Nat
    BY RowTypes DEF Window, Listed, All
  <1>3. Before \subseteq Window /\ x \notin Before
    BY <1>2
  <1>4. IsFiniteSet(Before) /\ Cardinality(Before) <= Cardinality(Window)
        /\ (Cardinality(Window) = Cardinality(Before) => Window = Before)
    BY <1>1, <1>3, FS_Subset
  <1>5. Cardinality(Before) # Cardinality(Window)
    BY <1>3, <1>4
  <1>6. Cardinality(Before) \in Nat /\ Cardinality(Window) \in Nat
    BY <1>1, <1>4, FS_CardinalityType
  <1>7. Offset(x) = Cardinality(Before)
    BY DEF Offset
  <1>8. QED
    BY <1>4, <1>5, <1>6, <1>7

LEMMA ServedCopy ==
    ASSUME Typed, Serves, rows' = rows
    PROVE  /\ DOMAIN client' \subseteq Objects
           /\ client' \in [DOMAIN client' -> Contents]
           /\ DOMAIN client' \subseteq DOMAIN client \cup Results
           /\ Results \subseteq Window
           /\ \A x \in Results : Holds(x)'
           /\ \A x : Holds(x) /\ x \notin Results
                     /\ (x \in sync.got \/ x \notin sync.removed) => Holds(x)'
           /\ \A x : x \in sync.removed /\ x \notin sync.got /\ x \notin Results =>
                       x \notin DOMAIN client'
  <1>1. Results \subseteq Window
    BY DEF Results, Page
  <1>2. \A x \in Results : x \in Objects /\ x \in DOMAIN rows
    BY <1>1 DEF Window, Listed, All, Typed
  <1>3. /\ DOMAIN client' = (DOMAIN client \ (sync.removed \ sync.got)) \cup Results
        /\ \A x \in DOMAIN client' :
             client'[x] = IF x \in Results THEN rows[x].content ELSE client[x]
        /\ client' = [x \in DOMAIN client' |-> client'[x]]
    BY DEF Serves
  <1>4. ASSUME NEW x \in DOMAIN client' PROVE client'[x] \in Contents
    <2>1. CASE x \in Results
      BY <1>2, <1>3, <2>1, RowTypes
    <2>2. CASE x \notin Results
      BY <1>3, <2>2 DEF Typed
    <2>3. QED
      BY <2>1, <2>2
  <1>5. DOMAIN client' \subseteq Objects /\ client' \in [DOMAIN client' -> Contents]
    BY <1>2, <1>3, <1>4 DEF Typed
  <1>6. \A x \in Results : Holds(x)'
    BY <1>3 DEF Holds
  <1>7. ASSUME NEW x, Holds(x), x \notin Results,
               x \in sync.got \/ x \notin sync.removed
        PROVE  Holds(x)'
    BY <1>3, <1>7 DEF Holds
  <1>8. \A x : x \in sync.removed /\ x \notin sync.got /\ x \notin Results =>
              x \notin DOMAIN client'
    BY <1>3
  <1>9. DOMAIN client' \subseteq DOMAIN client \cup Results
    BY <1>3
  <1>10. QED
    BY <1>1, <1>5, <1>6, <1>7, <1>8, <1>9

\* What the client knows of a clean object after a page.
LEMMA ServedKnow ==
    ASSUME Frame, NEW x, Knows(x), Serves, sync.pc = "page",
           UNCHANGED <<rows, visible, deleted>>
    PROVE  /\ x \in Listed =>
                \/ rows[x].stamp >= sync.end
                \/ rows[x].stamp < since /\ Holds(x)'
                \/ /\ since <= rows[x].stamp /\ x \in sync.got \cup Results
                   /\ Holds(x)'
                \/ /\ since <= rows[x].stamp /\ x \notin sync.got \cup Results
                   /\ x \in Window
                   /\ Offset(x) >= (sync.page + 1) * PageSize
           /\ x \in All /\ rows[x].content \notin Matching =>
                \/ rows[x].stamp >= sync.end
                \/ x \notin sync.got \cup Results /\ x \notin DOMAIN client'
           /\ x \notin All =>
                \/ x \notin DOMAIN client'
                \/ \E d \in deleted : d.uid = x /\ d.stamp >= sync.end
  <1>1. Typed /\ Session
    BY DEF Frame
  <1>2. Chosen /\ Bound = sync.end
    BY DEF Chosen, Bound
  <1>3. since \in Nat /\ sync.end \in Nat /\ sync.page \in Nat
    BY <1>1, SyncTypes DEF Typed
  <1>4. Results \subseteq Window
    BY <1>1, ServedCopy
  <1>5. x \in Results <=> /\ x \in Window
                          /\ sync.page * PageSize <= Offset(x)
                          /\ Offset(x) < (sync.page + 1) * PageSize
    <2>1. (sync.page + 1) - 1 = sync.page
      BY <1>3
    <2>2. ((sync.page + 1) - 1) * PageSize = sync.page * PageSize
      BY <2>1
    <2>3. x \in Results <=> /\ x \in Window
                            /\ ((sync.page + 1) - 1) * PageSize <= Offset(x)
                            /\ Offset(x) < (sync.page + 1) * PageSize
      BY DEF Results, Page
    <2>4. QED
      BY <2>2, <2>3
  <1>6. ASSUME x \in Listed
        PROVE  \/ rows[x].stamp >= sync.end
               \/ rows[x].stamp < since /\ Holds(x)'
               \/ /\ since <= rows[x].stamp /\ x \in sync.got \cup Results
                  /\ Holds(x)'
               \/ /\ since <= rows[x].stamp /\ x \notin sync.got \cup Results
                  /\ x \in Window
                  /\ Offset(x) >= (sync.page + 1) * PageSize
    <2>1. x \in DOMAIN rows
      BY <1>6 DEF Listed, All
    <2>2. rows[x].stamp \in Nat
      BY <1>1, <2>1, RowTypes
    <2>3. CASE rows[x].stamp < since /\ Holds(x)
      <3>1. x \notin sync.removed
        BY <1>6, <2>3 DEF Knows, Listing
      <3>2. x \notin Results
        BY <1>3, <1>4, <2>2, <2>3 DEF Window, InRange
      <3>3. QED
        BY <1>1, <2>3, <3>1, <3>2, ServedCopy
    <2>4. CASE since <= rows[x].stamp /\ x \in sync.got /\ Holds(x)
      <3>1. Holds(x)'
        BY <1>1, <2>4, ServedCopy
      <3>2. QED
        BY <2>4, <3>1
    <2>5. CASE /\ since <= rows[x].stamp /\ x \notin sync.got
               /\ Offset(x) >= sync.page * PageSize
               /\ ~(rows[x].stamp >= sync.end)
      <3>1. x \in Window
        BY <1>3, <1>6, <2>2, <2>5 DEF Window, InRange
      <3>2. CASE x \in Results
        BY <1>1, <2>5, <3>2, ServedCopy
      <3>3. CASE x \notin Results
        <4>1. /\ Offset(x) \in Nat /\ (sync.page + 1) * PageSize \in Nat
              /\ sync.page * PageSize \in Nat
          BY <1>1, OffsetTypes
        <4>2. Offset(x) >= (sync.page + 1) * PageSize
          BY <1>5, <2>5, <3>1, <3>3, <4>1
        <4>3. QED
          BY <2>5, <3>1, <3>3, <4>2
      <3>4. QED
        BY <3>2, <3>3
    <2>6. QED
      BY <1>2, <1>6, <2>3, <2>4, <2>5 DEF Knows, Listing
  <1>7. x \notin Listed => x \notin Results
    BY <1>4 DEF Window
  <1>8. x \notin Results /\ x \notin DOMAIN client => x \notin DOMAIN client'
    BY <1>1, ServedCopy
  <1>9. x \notin Results /\ x \in sync.removed /\ x \notin sync.got =>
          x \notin DOMAIN client'
    BY <1>1, ServedCopy
  <1>10. ASSUME x \in All, rows[x].content \notin Matching
         PROVE  \/ rows[x].stamp >= sync.end
                \/ x \notin sync.got \cup Results /\ x \notin DOMAIN client'
    <2>1. x \notin Results
      BY <1>7, <1>10 DEF Listed
    <2>2. QED
      BY <1>2, <1>8, <1>9, <1>10, <2>1 DEF Knows, Unlisting, Dropping
  <1>11. ASSUME x \notin All
         PROVE  \/ x \notin DOMAIN client'
                \/ \E d \in deleted : d.uid = x /\ d.stamp >= sync.end
    <2>1. x \notin Results
      BY <1>7, <1>11 DEF Listed
    <2>2. sync.page = 0 => x \notin sync.got
      BY <1>1 DEF Session
    <2>3. QED
      BY <1>2, <1>8, <1>9, <1>11, <2>1, <2>2 DEF Knows, Absent, Dropping
  <1>12. QED
    BY <1>6, <1>10, <1>11

LEMMA ServeNextStep ==
    ASSUME IInv, sync.pc = "page", Serves,
           sync' = [sync EXCEPT !.pc = "next", !.page = sync.page + 1,
                                !.pk = {}, !.removed = {},
                                !.got = @ \cup Results],
           since' = since, UNCHANGED <<now, db, writer, dirty, writes>>
    PROVE  IInv'
  <1>1. Frame /\ Typed /\ Dates /\ Session /\ Stamps
    BY DEF IInv, Frame
  <1>2. PICK s : s = [sync EXCEPT !.pc = "next", !.page = sync.page + 1,
                                  !.pk = {}, !.removed = {},
                                  !.got = sync.got \cup Results]
    OBVIOUS
  <1>3. /\ sync' = s
        /\ rows' = rows /\ visible' = visible /\ deleted' = deleted
        /\ now' = now /\ dirty' = dirty
    BY <1>2 DEF db
  <1>4. Results \subseteq Objects /\ sync.page \in Nat
    BY <1>1, <1>3, SyncTypes, OffsetTypes, ServedCopy
  <1>5. /\ s \in SyncState /\ s.pc = "next" /\ s.end = sync.end
        /\ s.page = sync.page + 1 /\ s.got = sync.got \cup Results
    <2>1. sync \in SyncState /\ sync.got \cup Results \in SUBSET Objects
          /\ sync.page + 1 \in Nat /\ {} \in SUBSET Objects
      BY <1>1, <1>4, SyncTypes DEF Typed
    <2>2. s \in SyncState
      BY <1>2, <2>1 DEF SyncState
    <2>3. s.pc = "next" /\ s.end = sync.end /\ s.page = sync.page + 1
      BY <1>2, <2>1 DEF SyncState
    <2>4. s.got = sync.got \cup Results
      BY <1>2, <2>1 DEF SyncState
    <2>5. QED
      BY <2>2, <2>3, <2>4
  <1>6. /\ Chosen /\ Chosen' /\ Bound = sync.end /\ Bound' = sync.end
    BY <1>3, <1>5 DEF Chosen, Bound
  <1>7. /\ DOMAIN client' \subseteq Objects
        /\ client' \in [DOMAIN client' -> Contents]
        /\ DOMAIN client' \subseteq DOMAIN client \cup Results
    BY <1>1, <1>3, ServedCopy
  <1>8. Frame'
    <2>1. Session'
      BY <1>1, <1>3, <1>4, <1>5, <1>6, <1>7 DEF Session
    <2>2. Stamps'
      BY <1>1, <1>3, <1>5 DEF Stamps
    <2>3. since' <= now /\ sync'.end <= now /\ since' \in Nat
      BY <1>1, <1>3, <1>5 DEF Dates, Typed
    <2>4. QED
      BY <1>1, <1>3, <1>5, <1>7, <2>1, <2>2, <2>3, UnchangedKeeps, ListFrame
  <1>9. ASSUME NEW x \in Objects \ dirty' PROVE Knows(x)'
    <2>1. Knows(x)
      BY <1>3 DEF IInv
    <2>2. /\ All' = All /\ Listed' = Listed /\ Offset(x)' = Offset(x)
      BY <1>3, <1>5, ListViews
    <2>3. Younger(x)'
      BY <1>3, <2>1 DEF Knows, Younger
    <2>4. /\ x \in Listed =>
                \/ rows[x].stamp >= sync.end
                \/ rows[x].stamp < since /\ Holds(x)'
                \/ /\ since <= rows[x].stamp /\ x \in s.got
                   /\ Holds(x)'
                \/ /\ since <= rows[x].stamp /\ x \notin s.got
                   /\ Offset(x) >= (sync.page + 1) * PageSize
          /\ x \in All /\ rows[x].content \notin Matching =>
                \/ rows[x].stamp >= sync.end
                \/ x \notin s.got /\ x \notin DOMAIN client'
          /\ x \notin All =>
                \/ x \notin DOMAIN client'
                \/ \E d \in deleted : d.uid = x /\ d.stamp >= sync.end
      BY <1>1, <1>3, <1>5, <2>1, ServedKnow
    <2>5. Listing(x)'
      BY <1>3, <1>5, <1>6, <2>2, <2>4 DEF Listing
    <2>6. Unlisting(x)'
      BY <1>3, <1>5, <1>6, <2>2, <2>4 DEF Unlisting
    <2>7. Absent(x)'
      BY <1>3, <1>5, <1>6, <2>2, <2>4 DEF Absent
    <2>8. QED
      BY <2>3, <2>5, <2>6, <2>7 DEF Knows
  <1>10. QED
    BY <1>8, <1>9 DEF IInv

\* After the last page, or none, every clean object of the range was served.
LEMMA ServeLastStep ==
    ASSUME IInv, sync.pc = "page", Serves, ~HasNext(sync.page + 1),
           sync' = IdleSync, since' = sync.end,
           UNCHANGED <<now, db, writer, dirty, writes>>
    PROVE  IInv'
  <1>1. Frame /\ Typed /\ Dates /\ Session /\ Stamps
    BY DEF IInv, Frame
  <1>2. /\ rows' = rows /\ visible' = visible /\ deleted' = deleted
        /\ now' = now /\ dirty' = dirty
    BY DEF db
  <1>3. /\ sync' \in SyncState /\ sync'.pc = "idle" /\ sync'.end = 0
        /\ sync'.page = 0 /\ sync'.got = {}
    BY DEF SyncState, IdleSync
  <1>4. /\ Chosen /\ Bound = sync.end /\ ~Chosen' /\ Bound' = sync.end
        /\ sync.end \in Nat /\ sync.end >= 1 /\ sync.end <= now /\ now \in Nat
        /\ since <= sync.end /\ since \in Nat
    BY <1>1, <1>3, SyncTypes DEF Chosen, Bound, Session, Dates, Typed
  <1>5. /\ DOMAIN client' \subseteq Objects
        /\ client' \in [DOMAIN client' -> Contents]
    BY <1>1, <1>2, ServedCopy
  <1>6. Frame'
    <2>1. Session'
      BY <1>3, <1>4 DEF Session
    <2>2. Stamps'
      BY <1>1, <1>2, <1>3, <1>4, WriterTypes DEF Stamps
    <2>3. since' <= now /\ sync'.end <= now /\ since' \in Nat
      BY <1>3, <1>4
    <2>4. QED
      BY <1>1, <1>2, <1>3, <1>5, <2>1, <2>2, <2>3, UnchangedKeeps, ListFrame
  <1>7. ASSUME NEW x \in Objects \ dirty' PROVE Knows(x)'
    <2>1. Knows(x)
      BY <1>2 DEF IInv
    <2>2. All' = All /\ Listed' = Listed
      BY <1>2, ListViews
    <2>3. Younger(x)'
      BY <1>2, <2>1 DEF Knows, Younger
    <2>4. /\ x \in Listed =>
                \/ rows[x].stamp >= sync.end
                \/ rows[x].stamp < since /\ Holds(x)'
                \/ Holds(x)'
                \/ x \in Window /\ Offset(x) >= (sync.page + 1) * PageSize
          /\ x \in All /\ rows[x].content \notin Matching =>
                rows[x].stamp >= sync.end \/ x \notin DOMAIN client'
          /\ x \notin All =>
                \/ x \notin DOMAIN client'
                \/ \E d \in deleted : d.uid = x /\ d.stamp >= sync.end
      BY <1>1, <1>2, <2>1, ServedKnow
    <2>5. ~(x \in Window /\ Offset(x) >= (sync.page + 1) * PageSize)
      <3>1. /\ Offset(x) \in Nat /\ Cardinality(Window) \in Nat
            /\ (sync.page + 1) * PageSize \in Nat
        BY <1>1, OffsetTypes
      <3>2. Cardinality(Window) <= (sync.page + 1) * PageSize
        BY <3>1 DEF HasNext
      <3>3. x \in Window => Offset(x) < Cardinality(Window)
        BY <1>1, OffsetBelow
      <3>4. QED
        BY <3>1, <3>2, <3>3
    <2>6. x \in Listed => \/ rows[x].stamp >= sync.end
                          \/ rows[x].stamp < sync.end /\ Holds(x)'
      <3>1. x \in Listed => rows[x].stamp \in Nat
        BY <1>1, RowTypes DEF Listed, All
      <3>2. QED
        BY <1>4, <2>4, <2>5, <3>1
    <2>7. Listing(x)'
      BY <1>2, <1>3, <1>4, <2>2, <2>6 DEF Listing
    <2>8. Unlisting(x)'
      BY <1>2, <1>3, <1>4, <2>2, <2>4 DEF Unlisting
    <2>9. Absent(x)'
      BY <1>2, <1>3, <1>4, <2>2, <2>4 DEF Absent
    <2>10. QED
      BY <2>3, <2>7, <2>8, <2>9 DEF Knows
  <1>8. QED
    BY <1>6, <1>7 DEF IInv
-----------------------------------------------------------------------------
(***************************************************************************)
(* Every step preserves the invariant.                                     *)
(***************************************************************************)
LEMMA WriterIInv ==
    ASSUME IInv, NEW w \in Writers, WriterStep(w)
    PROVE  IInv'
  <1>1. Typed
    BY DEF IInv, Frame
  <1>2. CASE \E x \in Objects, c \in Contents : BeginCreate(w, x, c)
    <2>1. births \in Nat
      BY <1>1 DEF Typed
    <2>2. QED
      BY <1>2, <2>1, BeginStep DEF BeginCreate
  <1>3. CASE \E x \in Objects, c \in Contents : BeginUpdate(w, x, c)
    <2>1. PICK x \in Objects, c \in Contents : BeginUpdate(w, x, c)
      BY <1>3
    <2>2. PICK b : b = rows[x].born
      OBVIOUS
    <2>3. x \in DOMAIN rows /\ b \in Nat /\ Begin(w, "update", x, c, b)
      BY <1>1, <2>1, <2>2, RowTypes DEF BeginUpdate
    <2>4. QED
      BY <2>2, <2>3, BeginStep
  <1>4. CASE \E x \in Objects : BeginDelete(w, x)
    <2>1. PICK x \in Objects : BeginDelete(w, x)
      BY <1>4
    <2>2. PICK b, c : b = rows[x].born /\ c = rows[x].content
      OBVIOUS
    <2>3. b \in Nat /\ c \in Contents /\ Begin(w, "delete", x, c, b)
      BY <1>1, <2>1, <2>2, RowTypes DEF BeginDelete
    <2>4. QED
      BY <2>3, BeginStep
  <1>5. CASE Stamp(w)
    BY <1>5, StampStep
  <1>6. CASE CommitInsert(w)
    <2>1. CASE writer[w].uid \notin DOMAIN rows
      BY <1>6, <2>1, InsertStep DEF CommitInsert
    <2>2. CASE writer[w].uid \in DOMAIN rows
      <3>1. Finish(w) /\ UNCHANGED <<now, db, sync, client, since, dirty, writes>>
        BY <1>6, <2>2 DEF CommitInsert, db
      <3>2. QED
        BY <3>1, FinishStep
    <2>3. QED
      BY <2>1, <2>2
  <1>7. CASE CommitUpdate(w)
    <2>1. CASE writer[w].uid \in DOMAIN rows
      BY <1>7, <2>1, UpdateStep DEF CommitUpdate
    <2>2. CASE writer[w].uid \notin DOMAIN rows
      <3>1. /\ writer[w].pc = "stamped"
            /\ writer' = [writer EXCEPT ![w].op = "insert", ![w].stamp = now,
                                        ![w].crossed = FALSE]
            /\ UNCHANGED <<now, db, sync, client, since, dirty, writes>>
        BY <1>7, <2>2 DEF CommitUpdate, db
      <3>2. QED
        BY <3>1, RestartStep
    <2>3. QED
      BY <2>1, <2>2
  <1>8. CASE CommitDelete(w)
    BY <1>8, DeleteStep
  <1>9. QED
    BY <1>2, <1>3, <1>4, <1>5, <1>6, <1>7, <1>8 DEF WriterStep

LEMMA ListIInv ==
    ASSUME IInv, ListStep
    PROVE  IInv'
  <1>1. CASE ReadMatching
    BY <1>1, ReadMatchingStep
  <1>2. CASE ChooseEnd
    BY <1>2, ChooseNowStep, KeepEndStep DEF ChooseEnd
  <1>3. CASE ReadRemoved
    BY <1>3, ReadRemovedStep
  <1>4. CASE ServePage
    <2>1. sync.pc = "page" /\ Serves /\ UNCHANGED <<now, db, writer, dirty, writes>>
      BY <1>4 DEF ServePage, Serves, Results
    <2>2. \/ /\ sync' = [sync EXCEPT !.pc = "next", !.page = sync.page + 1,
                                     !.pk = {}, !.removed = {},
                                     !.got = @ \cup Results]
             /\ since' = since
          \/ /\ ~HasNext(sync.page + 1)
             /\ sync' = IdleSync /\ since' = sync.end
      BY <1>4 DEF ServePage, Results
    <2>3. QED
      BY <2>1, <2>2, ServeNextStep, ServeLastStep
  <1>5. QED
    BY <1>1, <1>2, <1>3, <1>4 DEF ListStep

LEMMA NextIInv ==
    IInv /\ [Next]_vars => IInv'
  <1>1. SUFFICES ASSUME IInv, [Next]_vars PROVE IInv'
    OBVIOUS
  <1>2. CASE \E w \in Writers : WriterStep(w)
    BY <1>1, <1>2, WriterIInv
  <1>3. CASE \E x \in Objects : Rescope(x)
    BY <1>1, <1>3, RescopeStep
  <1>4. CASE ListStep
    BY <1>1, <1>4, ListIInv
  <1>5. CASE Tick
    BY <1>1, <1>5, TickStep
  <1>6. CASE UNCHANGED vars
    <2>1. /\ Still /\ now' = now /\ rows' = rows /\ births' = births
          /\ visible' = visible /\ deleted' = deleted /\ writer' = writer
          /\ sync' = sync /\ client' = client /\ since' = since
          /\ dirty' = dirty /\ writes' = writes
      BY <1>6 DEF vars, db, Still
    <2>2. Typed' /\ Dates' /\ Session' /\ Stamps' /\ Births'
      BY <1>1, <2>1
         DEF IInv, Frame, Typed, Dates, Session, Chosen, Stamps, Births, Updates
    <2>3. QED
      BY <1>1, <2>1, <2>2, StillKnows DEF IInv, Frame
  <1>7. QED
    BY <1>1, <1>2, <1>3, <1>4, <1>5, <1>6 DEF Next

THEOREM Invariant ==
    Spec => []IInv
  <1>1. Init => IInv
    BY InitIInv
  <1>2. IInv /\ [Next]_vars => IInv'
    BY NextIInv
  <1>3. QED
    BY <1>1, <1>2, PTL DEF Spec

\* Every variable keeps its type, and no two rows have the same creation date,
\* whichever updates, deletions and insertions of an object overlap.
THEOREM TypesAndOrder ==
    Spec => []TypeOK
  <1>1. IInv => TypeOK
    BY TypedSuffices DEF IInv, Frame
  <1>2. QED
    BY <1>1, Invariant, PTL

\* Between two refreshes the client's copy of every clean object whose last
\* change precedes the last refresh is what the server would list, for any
\* number of objects, writers and pages: the answers of get_paginated_response
\* lose no change but in the ways that Late, Predated, Shifted and Rescope name.
THEOREM RefreshKeepsInSync ==
    Spec => []SyncedWhenClean
  <1>1. IInv => SyncedWhenClean
    BY KnowledgeSuffices
  <1>2. QED
    BY <1>1, Invariant, PTL
=============================================================================
