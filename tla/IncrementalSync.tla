-------------------------- MODULE IncrementalSync --------------------------
(***************************************************************************)
(* The incremental list of concrete-datastore: a client keeps a copy of    *)
(* the objects of a model that match its filters, and refreshes it with    *)
(* timestamp_start and timestamp_end.  Each answer carries the objects     *)
(* modified in that range and the uids that left the list; the             *)
(* timestamp_end of one answer is the timestamp_start of the next.         *)
(*                                                                         *)
(* Writers create, update and delete objects meanwhile.  Their             *)
(* modification_date is taken in Python and reaches the database later, in *)
(* a query of its own; a list request makes several queries, with no       *)
(* transaction around them, and a large list is served page by page.       *)
(***************************************************************************)
EXTENDS Integers, FiniteSets

CONSTANTS
    Objects,    \* uids that objects of the model can have
    Contents,   \* what the fields of an object can hold
    Matching,   \* the contents that satisfy the client's filters
    Writers,    \* request slots that create, update or delete an object
    PageSize,   \* objects per page of an answer
    MaxClock,   \* bound of the model on the clock
    MaxWrites,  \* bound of the model on the changes of the table
    NoObject, NoContent   \* values of an idle slot

ASSUME ConstantsAssumption ==
    /\ Matching \subseteq Contents
    /\ PageSize \in Nat \ {0} /\ MaxClock \in Nat /\ MaxWrites \in Nat
    /\ NoObject \notin Objects /\ NoContent \notin Contents

\* A table holds finitely many objects.
ASSUME FinitenessAssumption == IsFiniteSet(Objects)

VARIABLES
    now,      \* the clock, in microseconds since long ago
    rows,     \* the table of the model: a function on the uids that have a row
    births,   \* rows inserted so far: the creation date of the next one
    visible,  \* the uids that get_queryset lets the client see
    deleted,  \* the DeletedModel table
    writer,   \* writer[w]: the state of writer slot w
    sync,     \* the list request that the client is making
    client,   \* the client's copy: a function on the uids that it holds
    since,    \* the timestamp_end of its last complete answer, 0 at first
    dirty,    \* history: objects whose last change the protocol may lose
    writes    \* changes begun so far

db == <<rows, births, visible, deleted>>
vars == <<now, db, writer, sync, client, since, dirty, writes>>

\* The creation date is what the list is ordered by, newest first; overlapping
\* creations are ordered by their commits, and no two have the same date.
Row == [content: Contents, stamp: Nat, born: Nat]
Tombstone == [uid: Objects, stamp: Nat]

IdleWriter == [pc |-> "idle", op |-> "none", uid |-> NoObject,
               content |-> NoContent, stamp |-> 0, born |-> 0, crossed |-> FALSE]
WriterState ==
    {IdleWriter} \cup
    [pc: {"loaded", "stamped"}, op: {"insert", "update", "delete"},
     uid: Objects, content: Contents, stamp: Nat,
     born: Nat,           \* the creation date that an update loaded
     crossed: BOOLEAN]   \* history: a list request chose its end meanwhile

IdleSync == [pc |-> "idle", end |-> 0, pk |-> {}, removed |-> {}, page |-> 0,
             got |-> {}]
SyncState ==
    [pc: {"idle", "next", "end", "removed", "page"},
     end: Nat,                 \* timestamp_end
     pk: SUBSET Objects,       \* pks matching the filters, read first
     removed: SUBSET Objects,  \* deleted_uids
     page: Nat,                \* pages served
     got: SUBSET Objects]      \* uids in the pages served

Init ==
    /\ now = 1
    /\ rows = [x \in {} |-> 0] /\ births = 0
    /\ visible = {} /\ deleted = {}
    /\ writer = [w \in Writers |-> IdleWriter]
    /\ sync = IdleSync
    /\ client = [x \in {} |-> 0]
    /\ since = 0 /\ dirty = {} /\ writes = 0
-----------------------------------------------------------------------------
(***************************************************************************)
(* What the list request sees.                                             *)
(***************************************************************************)
All == {x \in DOMAIN rows : x \in visible}           \* get_queryset
Listed == {x \in All : rows[x].content \in Matching}  \* filter_queryset

\* apply_filter_since: both ends belong to the range.
InRange(t, end) == since <= t /\ t <= end

\* The objects of the answer, over all its pages.
Window == {x \in Listed : InRange(rows[x].stamp, sync.end)}

\* How many objects of the answer come before x.
Offset(x) == Cardinality({y \in Window : rows[y].born > rows[x].born})

\* The slice that makes page p.
Page(p) == {x \in Window : (p - 1) * PageSize <= Offset(x)
                            /\ Offset(x) < p * PageSize}

HasNext(p) == Cardinality(Window) > p * PageSize
-----------------------------------------------------------------------------
(***************************************************************************)
(* History.  An object becomes dirty when the protocol may not tell the    *)
(* client of its last change, and clean again when it is written in a way  *)
(* that the next list request cannot miss.                                 *)
(***************************************************************************)

\* Objects that can slip to a page already served when x leaves the window.
Shifted(x) == IF sync.page > 0 /\ x \in Window THEN Window \ sync.got ELSE {}

\* A write of x that was stamped before a list request chose its end and
\* commits after the request has read the matching pks.
Late(w) == writer[w].crossed \/ (sync.pc = "end" /\ sync.page = 0)

\* A write of x dated before a deletion of x that is already recorded.
Predated(w, x) == \E d \in deleted : d.uid = x /\ d.stamp > writer[w].stamp

\* hidden: the write leaves x in the table, out of the client's sight.
Written(w, x, hidden) ==
    dirty' = (IF Late(w) \/ Predated(w, x) \/ (hidden /\ x \in dirty)
              THEN dirty \cup {x} ELSE dirty \ {x})
             \cup (Shifted(x) \ {x})
-----------------------------------------------------------------------------
(***************************************************************************)
(* Writers.                                                                *)
(***************************************************************************)
Begin(w, op, x, c, born) ==
    /\ writer[w].pc = "idle"
    /\ writes < MaxWrites /\ writes' = writes + 1
    /\ writer' = [writer EXCEPT ![w] =
                    [IdleWriter EXCEPT !.pc = "loaded", !.op = op, !.uid = x,
                                       !.content = c, !.born = born]]
    /\ UNCHANGED <<now, db, sync, client, since, dirty>>

\* POST: a fresh uid.
BeginCreate(w, x, c) ==
    /\ x \notin DOMAIN rows
    /\ \A d \in deleted : d.uid # x
    /\ \A v \in Writers : writer[v].uid # x
    /\ Begin(w, "insert", x, c, births)

\* PUT, PATCH and DELETE load the object first (get_object).
BeginUpdate(w, x, c) ==
    x \in DOMAIN rows /\ Begin(w, "update", x, c, rows[x].born)
BeginDelete(w, x) ==
    x \in DOMAIN rows /\ Begin(w, "delete", x, rows[x].content, rows[x].born)

\* auto_now: the modification date is taken from the clock of the process.
Stamp(w) ==
    /\ writer[w].pc = "loaded"
    /\ writer' = [writer EXCEPT ![w].pc = "stamped", ![w].stamp = now]
    /\ UNCHANGED <<now, db, sync, client, since, dirty, writes>>

Finish(w) == writer' = [writer EXCEPT ![w] = IdleWriter]

NewRow(w, born) ==
    [content |-> writer[w].content, stamp |-> writer[w].stamp, born |-> born]

\* Faulty variant: the creation date has no more precision than the day.
InsertSameDay(w, x) ==
    /\ rows' = [y \in DOMAIN rows \cup {x} |->
                  IF y = x THEN NewRow(w, births) ELSE rows[y]]
    /\ births' = births
    /\ Finish(w)
    /\ Written(w, x, x \notin visible')

Insert(w, x) ==
    /\ rows' = [y \in DOMAIN rows \cup {x} |->
                  IF y = x THEN NewRow(w, births) ELSE rows[y]]
    /\ births' = births + 1
    /\ Finish(w)
    /\ Written(w, x, x \notin visible')

\* INSERT of a new object, which the client may see or not, or of one that was
\* deleted while its update was in progress.
CommitInsert(w) ==
    /\ writer[w].pc = "stamped" /\ writer[w].op = "insert"
    /\ LET x == writer[w].uid IN
       \/ /\ x \notin DOMAIN rows
          /\ visible' \in {visible \ {x}, visible \cup {x}}
          /\ Insert(w, x)
       \/ /\ x \in DOMAIN rows
          /\ Finish(w)
          /\ UNCHANGED <<rows, births, visible, dirty>>
    /\ UNCHANGED <<now, deleted, sync, client, since, writes>>

\* Model.save: an UPDATE of every column; when no row matches, the object was
\* deleted meanwhile and save goes on to an INSERT with a date of its own.
CommitUpdate(w) ==
    /\ writer[w].pc = "stamped" /\ writer[w].op = "update"
    /\ LET x == writer[w].uid IN
       \/ /\ x \in DOMAIN rows
          /\ rows' = [rows EXCEPT ![x] = NewRow(w, writer[w].born)]
          /\ Finish(w)
          /\ Written(w, x, x \notin visible)
       \/ /\ x \notin DOMAIN rows
          /\ writer' = [writer EXCEPT ![w].op = "insert", ![w].stamp = now,
                                      ![w].crossed = FALSE]
          /\ UNCHANGED <<rows, dirty>>
    /\ UNCHANGED <<now, births, visible, deleted, sync, client, since, writes>>

\* Model.delete: on_pre_delete makes the DeletedModel row, in the transaction
\* that deletes the object.
CommitDelete(w) ==
    /\ writer[w].pc = "stamped" /\ writer[w].op = "delete"
    /\ LET x == writer[w].uid IN
       /\ rows' = [y \in DOMAIN rows \ {x} |-> rows[y]]
       /\ deleted' = deleted \cup {[uid |-> x, stamp |-> writer[w].stamp]}
       /\ Written(w, x, FALSE)
    /\ Finish(w)
    /\ UNCHANGED <<now, births, visible, sync, client, since, writes>>

\* Scopes, groups and the can_view relations decide what get_queryset shows;
\* changing them leaves the modification date of the objects alone.
Rescope(x) ==
    /\ x \in DOMAIN rows
    /\ writes < MaxWrites /\ writes' = writes + 1
    /\ visible' = IF x \in visible THEN visible \ {x} ELSE visible \cup {x}
    /\ dirty' = dirty \cup {x} \cup Shifted(x)
    /\ UNCHANGED <<now, rows, births, deleted, writer, sync, client, since>>
-----------------------------------------------------------------------------
(***************************************************************************)
(* The client's list request: one action per query of get_paginated_       *)
(* response, in their order.                                               *)
(***************************************************************************)

\* list(queryset.values_list('pk')), for the first page of a refresh or for a
\* page that the next link asks for: what matches the filters.
ReadMatching ==
    /\ sync.pc \in {"idle", "next"}
    /\ sync' = [sync EXCEPT !.pc = "end", !.pk = Listed]
    /\ UNCHANGED <<now, db, writer, client, since, dirty, writes>>

\* Faulty variant: the end of the range is chosen anew for every page.
ChooseEndEachPage ==
    /\ sync.pc = "end"
    /\ sync' = [sync EXCEPT !.pc = "removed", !.end = now]
    /\ writer' = [w \in Writers |->
                    IF writer[w].pc = "stamped"
                    THEN [writer[w] EXCEPT !.crossed = TRUE] ELSE writer[w]]
    /\ UNCHANGED <<now, db, client, since, dirty, writes>>

\* timestamp_end is now, or what the next link of an earlier page carries.
ChooseEnd ==
    /\ sync.pc = "end"
    /\ \/ /\ sync.page = 0
          /\ sync' = [sync EXCEPT !.pc = "removed", !.end = now]
          /\ writer' = [w \in Writers |->
                          IF writer[w].pc = "stamped"
                          THEN [writer[w] EXCEPT !.crossed = TRUE]
                          ELSE writer[w]]
       \/ /\ sync.page > 0
          /\ sync' = [sync EXCEPT !.pc = "removed"]
          /\ UNCHANGED writer
    /\ UNCHANGED <<now, db, client, since, dirty, writes>>

\* Faulty variant: modified objects that no longer match are forgotten.
ReadDeletedOnly ==
    /\ sync.pc = "removed"
    /\ sync' = [sync EXCEPT !.pc = "page", !.removed =
                  {d.uid : d \in {e \in deleted : InRange(e.stamp, sync.end)}}]
    /\ UNCHANGED <<now, db, writer, client, since, dirty, writes>>

\* deleted_uids: the DeletedModel rows of the range, and the objects of the
\* range that the first query did not match; nothing on a first load.
ReadRemoved ==
    /\ sync.pc = "removed"
    /\ sync' = [sync EXCEPT !.pc = "page", !.removed =
                  IF since = 0 THEN {}
                  ELSE {d.uid : d \in {e \in deleted :
                                         InRange(e.stamp, sync.end)}}
                       \cup {x \in All \ sync.pk :
                               InRange(rows[x].stamp, sync.end)}]
    /\ UNCHANGED <<now, db, writer, client, since, dirty, writes>>

\* paginate_queryset, and the client's use of the answer: it drops the
\* deleted_uids that no page of the refresh returned (an object deleted and
\* inserted again is in both), then stores the results; after the last page it
\* keeps timestamp_end for its next refresh.  When the list has shrunk under
\* the page the answer is 404, and the client takes the refresh as complete.
ServePage ==
    /\ sync.pc = "page"
    /\ LET p == sync.page + 1
           results == Page(p) IN
       /\ client' = [x \in (DOMAIN client \ (sync.removed \ sync.got)) \cup results |->
                       IF x \in results THEN rows[x].content ELSE client[x]]
       /\ \/ /\ HasNext(p)
             /\ sync' = [sync EXCEPT !.pc = "next", !.page = p,
                                     !.pk = {}, !.removed = {},
                                     !.got = @ \cup results]
             /\ UNCHANGED since
          \/ /\ ~HasNext(p)
             /\ sync' = IdleSync
             /\ since' = sync.end
    /\ UNCHANGED <<now, db, writer, dirty, writes>>

Tick ==
    /\ now < MaxClock
    /\ now' = now + 1
    /\ UNCHANGED <<db, writer, sync, client, since, dirty, writes>>

WriterStep(w) ==
    \/ \E x \in Objects, c \in Contents :
         BeginCreate(w, x, c) \/ BeginUpdate(w, x, c)
    \/ \E x \in Objects : BeginDelete(w, x)
    \/ Stamp(w)
    \/ CommitInsert(w) \/ CommitUpdate(w) \/ CommitDelete(w)

ListStep ==
    ReadMatching \/ ChooseEnd \/ ReadRemoved \/ ServePage

Next ==
    \/ \E w \in Writers : WriterStep(w)
    \/ \E x \in Objects : Rescope(x)
    \/ ListStep
    \/ Tick

Spec == Init /\ [][Next]_vars

\* A list request runs to its end, and the client goes on refreshing.
FairSpec == Spec /\ WF_vars(ListStep)
-----------------------------------------------------------------------------
(***************************************************************************)
(* Properties.                                                             *)
(***************************************************************************)

\* Every variable keeps its type; the default ordering is total.
TypeOK ==
    /\ now \in Nat /\ since \in Nat /\ writes \in Nat
    /\ DOMAIN rows \subseteq Objects /\ rows \in [DOMAIN rows -> Row]
    /\ births \in Nat
    /\ \A x, y \in DOMAIN rows : rows[x].born = rows[y].born => x = y
    /\ visible \subseteq Objects /\ dirty \subseteq Objects
    /\ deleted \subseteq Tombstone
    /\ writer \in [Writers -> WriterState]
    /\ sync \in SyncState
    /\ DOMAIN client \subseteq Objects /\ client \in [DOMAIN client -> Contents]

\* The client's copy of x is what the server would list.
Agrees(x) ==
    /\ x \in DOMAIN client <=> x \in Listed
    /\ x \in Listed => client[x] = rows[x].content

\* The last change of x is older than the client's last refresh, so that the
\* next refresh does not report it.
Settled(x) ==
    /\ x \in DOMAIN rows => rows[x].stamp < since
    /\ \A d \in deleted : d.uid = x => d.stamp < since

\* Between two refreshes the client agrees with the server on every object
\* whose last change precedes the last refresh, but for the objects that
\* changed in one of the ways that Late, Predated, Shifted and Rescope name.
SyncedWhenClean ==
    sync.pc = "idle" =>
        \A x \in Objects \ dirty : Settled(x) => Agrees(x)

\* Once the tables stop changing, a client that goes on refreshing comes to
\* agree with the server on every clean object, and stays so.
CleanObjectsConverge ==
    <>[][FALSE]_<<db, dirty>> => <>[](\A x \in Objects \ dirty : Agrees(x))
=============================================================================
