----------------------------- MODULE KeyNotices -----------------------------
(***************************************************************************)
(* How a student's page learns of a key: the events handler of              *)
(* internal/api/http/events.go over ReadEvents (cache/store.go:333), the    *)
(* reconnecting reader of frontend/src/api/client.ts and the page of        *)
(* frontend/src/views/student/StudentKeys.vue, composed with KeyLifecycle.  *)
(*                                                                         *)
(* The server reads two streams of Redis with one last id, first the        *)
(* student's, then the one of the catalog, and takes Count events of each   *)
(* at most; Redis forgets the oldest events of a stream that is longer than *)
(* StreamMaxLength.  Ids are times; here an id is                           *)
(* the place in the order of all events, so that no two streams use one     *)
(* millisecond.  The page takes an event as a hint: it reads all keys again *)
(* and, when the status of one was another, opens its details.  Its reads   *)
(* are answered in any order.                                               *)
(***************************************************************************)
EXTENDS KeyLifecycle, FiniteSets

CONSTANTS
    Loads,              \* what the page may be reading at one time
    Count,              \* COUNT of XREAD: what one read returns of each stream
    StreamMaxLength,    \* MAXLEN of XADD: what a stream keeps at least
    MaxCatalogEvents,   \* how often the catalog changes
    MaxDrops            \* how often a connection breaks

ASSUME NoticesAssumption ==
    /\ Count \in Nat \ {0}
    /\ StreamMaxLength \in Nat \ {0}
    /\ MaxCatalogEvents \in Nat
    /\ MaxDrops \in Nat

VARIABLES
    trimmed,    \* of each stream: its events with an id up to this one are gone
    server,     \* the handler of the connection: its step, its last id, where its read begins
    pipe,       \* the ids written and not yet read by the page
    lastEventId,\* of the page
    heard,      \* the events the page was told of
    shown,      \* keys: the statuses on the page
    load,       \* a read of the page: its step, the key to open after it, the answer
    asking,     \* the handler of the page's claim
    secret,     \* the key whose secret is on the page
    copied,     \* the student has copied a secret
    drops       \* connections that broke

page == <<shown, load, secret, copied>>
feed == <<server, pipe, lastEventId, heard, drops>>
allVars == <<vars, trimmed, feed, page, asking>>

NoLoad == [at |-> "none", changed |-> NoKey, got |-> [k \in Keys |-> "none"]]

NoticesInit ==
    /\ Init
    /\ trimmed = [student |-> 0, catalog |-> 0]
    /\ server = [at |-> "closed", last |-> 0, from |-> 0]
    /\ pipe = <<>> /\ lastEventId = 0 /\ heard = {}
    /\ shown = [k \in Keys |-> "none"]
    /\ load = [l \in Loads |-> NoLoad]
    /\ asking = NoOne
    /\ secret = NoKey
    /\ copied = FALSE
    /\ drops = 0

\* A catalog event is of no key.
CatalogEvent == [key |-> NoKey, status |-> "none"]
CatalogIds == {i \in DOMAIN stream : stream[i] = CatalogEvent}
StudentIds == DOMAIN stream \ CatalogIds

-------------------------------------------------------------------------------
(* The two streams. *)

\* XADD with MAXLEN ~: of a stream of these ids, the oldest may go, up to this one.
Removable(ids, gone) ==
    {gone} \cup {i \in ids : i > gone /\ Cardinality({j \in ids : j > i}) >= StreamMaxLength}

\* The student's stream, when a step of a handler has published an event.
Trim ==
    IF stream' = stream
    THEN UNCHANGED trimmed
    ELSE \E i \in Removable(StudentIds', trimmed.student) :
            trimmed' = [trimmed EXCEPT !.student = i]

\* PublishGlobalEvent after a change of the common models.
CatalogChanges ==
    /\ Cardinality(CatalogIds) < MaxCatalogEvents
    /\ stream' = Append(stream, CatalogEvent)
    /\ \E i \in Removable(CatalogIds', trimmed.catalog) :
          trimmed' = [trimmed EXCEPT !.catalog = i]
    /\ UNCHANGED <<row, audits, adjustments, lock, step, task, handed, feed, page, asking>>

-------------------------------------------------------------------------------
(* The server's side of the connection. *)

\* Where a read begins: after the last id, or with what comes from now on.
Begins == IF server.last = 0 THEN Len(stream) ELSE server.last

\* XREAD is sent.
ServerReads ==
    /\ server.at = "top"
    /\ server' = [server EXCEPT !.at = "waiting", !.from = Begins]
    /\ UNCHANGED <<vars, trimmed, pipe, lastEventId, heard, drops, page, asking>>

\* A set of ids as a sequence: the n-th is the one that n of them do not exceed.
InOrder(ids) ==
    [n \in 1..Cardinality(ids) |-> CHOOSE i \in ids : Cardinality({j \in ids : j <= i}) = n]

\* COUNT: the oldest of these ids.
Oldest(ids) == {i \in ids : Cardinality({j \in ids : j < i}) < Count}

\* What a read from this id returns of each stream.
StudentPart(from) == InOrder(Oldest({i \in StudentIds : i > from /\ i > trimmed.student}))
CatalogPart(from) == InOrder(Oldest({i \in CatalogIds : i > from /\ i > trimmed.catalog}))

\* Mutant: the stream of the catalog is asked for first.
BatchCatalogFirst(from) == CatalogPart(from) \o StudentPart(from)

\* What XREAD returns: the next events of the student, then those of the catalog.
Batch(from) == StudentPart(from) \o CatalogPart(from)

\* The events are written one by one, and the last one's id begins the next read.
ServerDelivers ==
    LET events == Batch(server.from) IN
    /\ server.at = "waiting"
    /\ events # <<>>
    /\ pipe' = pipe \o events
    /\ server' = [server EXCEPT !.at = "top", !.last = events[Len(events)], !.from = 0]
    /\ UNCHANGED <<vars, trimmed, lastEventId, heard, drops, page, asking>>

\* Nothing came for a while: a heartbeat, and the next read.
Heartbeat ==
    /\ server.at = "waiting"
    /\ Batch(server.from) = <<>>
    /\ server' = [server EXCEPT !.at = "top", !.from = 0]
    /\ UNCHANGED <<vars, trimmed, pipe, lastEventId, heard, drops, page, asking>>

\* The connection breaks, with what was on the way: the network, Redis or the process.
Drop ==
    /\ server.at # "closed"
    /\ drops < MaxDrops
    /\ drops' = drops + 1
    /\ server' = [at |-> "closed", last |-> 0, from |-> 0]
    /\ pipe' = <<>>
    /\ UNCHANGED <<vars, trimmed, lastEventId, heard, page, asking>>

-------------------------------------------------------------------------------
(* The page. *)

\* load(): the page asks for its keys again, to open one of them when they are there.
StartLoad(changed) ==
    \E l \in Loads :
        /\ load[l] = NoLoad
        /\ load' = [load EXCEPT ![l] = [NoLoad EXCEPT !.at = "asked", !.changed = changed]]

\* The server answers the read with the rows of now.
LoadRead(l) ==
    /\ load[l].at = "asked"
    /\ load' = [load EXCEPT ![l].at = "read", ![l].got = [k \in Keys |-> row[k].status]]
    /\ UNCHANGED <<vars, trimmed, feed, shown, secret, copied, asking>>

\* The answer arrives, whatever has arrived before it; then show(), if a key has changed.
LoadArrives(l) ==
    /\ load[l].at = "read"
    /\ shown' = load[l].got
    /\ load' = [load EXCEPT ![l] = IF load[l].changed = NoKey THEN NoLoad
                                   ELSE [NoLoad EXCEPT !.at = "show", !.changed = load[l].changed]]
    /\ UNCHANGED <<vars, trimmed, feed, secret, copied, asking>>

\* show(): the details of a key are on the page, and no secret.
ShowArrives(l) ==
    /\ load[l].at = "show"
    /\ load' = [load EXCEPT ![l] = NoLoad]
    /\ secret' = NoKey
    /\ copied' = FALSE
    /\ UNCHANGED <<vars, trimmed, feed, shown, asking>>

\* openEvents: the page connects with the last id it has read, and reads its keys.
Connect ==
    /\ server.at = "closed"
    /\ server' = [at |-> "top", last |-> lastEventId, from |-> 0]
    /\ StartLoad(NoKey)
    /\ UNCHANGED <<vars, trimmed, pipe, lastEventId, heard, drops, shown, secret, copied, asking>>

\* The page is told of an event, and remembers its id.
Hear ==
    /\ pipe # <<>>
    /\ LET id == Head(pipe)
           key == stream[id].key
           isNew == key # NoKey /\ shown[key] \notin {"none", stream[id].status}
       IN  /\ lastEventId' = id
           /\ heard' = heard \cup {id}
           /\ StartLoad(IF isNew THEN key ELSE NoKey)
    /\ pipe' = Tail(pipe)
    /\ UNCHANGED <<vars, trimmed, server, drops, shown, secret, copied, asking>>

\* claim(): the student asks for the secret of a key the page shows as approved.
AskForSecret(h, k) ==
    /\ asking = NoOne
    /\ secret = NoKey
    /\ shown[k] = "approved"
    /\ ClaimAPIKey(h, k)
    /\ asking' = h
    /\ UNCHANGED <<trimmed, feed, page>>

\* The answer arrives: the secret is shown, and the keys are read again.
SecretArrives(h) ==
    /\ asking = h
    /\ Answer(h)
    /\ secret' = Key(h)
    /\ asking' = NoOne
    /\ StartLoad(NoKey)
    /\ UNCHANGED <<trimmed, feed, shown, copied>>

\* The handler has given up: the page says that the request failed.
ClaimFails ==
    /\ asking # NoOne
    /\ step[asking] = "idle"
    /\ asking' = NoOne
    /\ UNCHANGED <<vars, trimmed, feed, page>>

CopySecret ==
    /\ secret # NoKey
    /\ ~copied
    /\ copied' = TRUE
    /\ UNCHANGED <<vars, trimmed, feed, shown, load, secret, asking>>

\* closeSecret(): without a copy the student is asked first, and closes it all the same.
CloseSecret(confirmed) ==
    /\ secret # NoKey
    /\ copied \/ confirmed
    /\ secret' = NoKey
    /\ UNCHANGED <<vars, trimmed, feed, shown, load, copied, asking>>

Reader == ServerReads \/ ServerDelivers \/ Heartbeat \/ Drop \/ Connect \/ Hear

Page ==
    \/ \E l \in Loads : LoadRead(l) \/ LoadArrives(l) \/ ShowArrives(l)
    \/ \E h \in Handlers :
        \/ \E k \in Keys : AskForSecret(h, k)
        \/ SecretArrives(h)
    \/ ClaimFails
    \/ CopySecret
    \/ \E confirmed \in BOOLEAN : CloseSecret(confirmed)

\* A handler that serves the page's claim is not free for another before the page has noticed.
NoticesNext ==
    \/ CatalogChanges
    \/ Reader
    \/ Page
    \/ /\ \/ \E h \in Handlers : h # asking /\ Serve(h)
          \/ asking # NoOne /\ (Publish(asking) \/ Abandon(asking))
       /\ Trim
       /\ UNCHANGED <<feed, page, asking>>

NoticesSpec == NoticesInit /\ [][NoticesNext]_allVars

-------------------------------------------------------------------------------
(* Properties. *)

\* A read that began somewhere before i found more than Count of these ids up to i: it returned
\* the oldest of them, which are all told, and left i behind.
LeftBehind(i, ids, told) ==
    \E from \in 0..i :
        LET unread == {s \in ids : from < s /\ s <= i} IN
        i \in unread \ Oldest(unread) /\ Oldest(unread) \subseteq told

\* The read that left an event of the student behind ended with a later one of the catalog, and
\* the next began after that one.
BehindFullBatch(i, told) ==
    LeftBehind(i, StudentIds, told) /\ \E c \in told \cap CatalogIds : c > i

\* From the first event it hears, however often the connection breaks and begins again with
\* Last-Event-ID, a page misses an event of its student in two cases alone: the stream has been
\* trimmed of it, or a read with a full batch left it behind and the one last id has passed it
\* with an event of the catalog (store.go:333-359, 382, events.go:24;
\* docs/API_DOCUMENTATION.md:196).
NothingSkipped ==
    \A i \in StudentIds :
        i <= lastEventId /\ (\E j \in heard : j <= i) =>
            \/ i \in heard
            \/ i <= trimmed.student
            \/ BehindFullBatch(i, heard)

\* A secret stays on the page until the student closes it (closeSecret, StudentKeys.vue:34, asks
\* before one that was not copied is lost; docs/TESTING_AND_TROUBLESHOOTING.md:147).
SecretStaysUntilClosed ==
    [][secret # NoKey /\ secret' = NoKey => \E confirmed \in BOOLEAN : CloseSecret(confirmed)]_allVars

===============================================================================
