----------------------------- MODULE Catalogue -----------------------------
(* One event and its organizers, as the admins' services manage them and the  *)
(* members' attendance uses them. Every write locks the row it changes and is *)
(* one transaction; publish, an update that names another organizer, and      *)
(* archiving an organizer also read the other table, without a lock, so they  *)
(* are two steps here.                                                        *)
EXTENDS Pictures

CONSTANTS
    Organizers, Admins,
    LastDay      \* bound: the last day, and the scheduling horizon

ASSUME CatalogueAssumption ==
    /\ IsFiniteSet(Organizers) /\ IsFiniteSet(Admins) /\ Organizers # {}
    /\ LastDay \in Nat

VARIABLES
    day,         \* today, in India
    event,       \* the event's row (NoEvent: not created, or deleted)
    deleted,     \* remove() has deleted it
    organizers,  \* status, badge and public identity of each organizer's row
    work,        \* per admin: the transaction between its read of the other table and its commit
    attending,   \* the member's attendance: none, checked (between assertOpen() and the write), kept
    vouched      \* what the admin who verified the event, or an organizer, vouched for

catalogueVars == <<day, event, deleted, organizers, work, attending, vouched>>

NoEvent == [status |-> "none", organizer |-> "none", date |-> 0, venue |-> 0,
            verified |-> FALSE, everPublished |-> FALSE]
Nobody == [status |-> "none", verified |-> FALSE, identity |-> 0]
NoWork == [op |-> "none"]

\* MATERIAL_FIELDS: what clears the event's badge when it changes.
MaterialWithoutDate(e) == <<e.organizer, e.venue>>
Material(e) == <<e.organizer, e.date, e.venue>>

\* What members see of the event beside its badge.
Displayed(e) == <<e.organizer, e.date, e.venue>>

CatalogueInit ==
    /\ day = 0
    /\ event = NoEvent
    /\ deleted = FALSE
    /\ organizers = [o \in Organizers |-> Nobody]
    /\ work = [a \in Admins |-> NoWork]
    /\ attending = "none"
    /\ vouched = [event |-> Displayed(event), organizer |-> [o \in Organizers |-> 0]]

-----------------------------------------------------------------------------
(* What the transactions look at *)

Ended(date) == date < day
Schedulable(date) == date >= day                       \* assertSchedule()
Usable(o) == organizers[o].status = "active"           \* assertUsableOrganizer()
UpcomingPublished(o) == event.status = "published" /\ event.organizer = o /\ ~Ended(event.date)

EventUnlocked == \A a \in Admins : work[a].op \notin {"publish", "update"}
OrganizerUnlocked(o) == \A a \in Admins : ~(work[a].op = "archive" /\ work[a].organizer = o)

\* lockEditable().
Editable == EventUnlocked /\ event.status \in {"draft", "published"}

\* The event as update() writes it.
Changed(e, new) ==
    LET next == [e EXCEPT !.organizer = new.organizer, !.date = new.date, !.venue = new.venue] IN
    [next EXCEPT !.verified = @ /\ Material(next) = Material(e)]

-----------------------------------------------------------------------------
(* AdminEventsService *)

\* create(): the organizer is checked, then the draft inserted.
CreateEvent(o, date) ==
    /\ event = NoEvent /\ ~deleted
    /\ Schedulable(date) /\ Usable(o)
    /\ event' = [NoEvent EXCEPT !.status = "draft", !.organizer = o, !.date = date]
    /\ UNCHANGED <<day, deleted, organizers, work, attending, vouched, pictureVars>>

\* update(), up to the checks: an unchanged organizer or date is not checked.
BeginUpdate(a, new) ==
    /\ work[a] = NoWork /\ Editable
    /\ <<new.organizer, new.date, new.venue>> # <<event.organizer, event.date, event.venue>>
    /\ new.organizer # event.organizer => Usable(new.organizer)
    /\ new.date # event.date => Schedulable(new.date)
    /\ work' = [work EXCEPT ![a] = [op |-> "update", new |-> new]]
    /\ UNCHANGED <<day, event, deleted, organizers, attending, vouched, pictureVars>>

\* A row that names another organizer waits for that organizer's lock (its foreign key).
CommitUpdate(a) ==
    /\ work[a].op = "update"
    /\ work[a].new.organizer # event.organizer => OrganizerUnlocked(work[a].new.organizer)
    /\ event' = Changed(event, work[a].new)
    /\ work' = [work EXCEPT ![a] = NoWork]
    /\ UNCHANGED <<day, deleted, organizers, attending, vouched, pictureVars>>

\* publish(), up to the read of the organizer.
BeginPublish(a) ==
    /\ work[a] = NoWork /\ EventUnlocked
    /\ event.status = "draft" /\ ~Ended(event.date)
    /\ Usable(event.organizer)
    /\ work' = [work EXCEPT ![a] = [op |-> "publish"]]
    /\ UNCHANGED <<day, event, deleted, organizers, attending, vouched, pictureVars>>

CommitPublish(a) ==
    /\ work[a].op = "publish"
    /\ event' = [event EXCEPT !.status = "published", !.everPublished = TRUE]
    /\ work' = [work EXCEPT ![a] = NoWork]
    /\ UNCHANGED <<day, deleted, organizers, attending, vouched, pictureVars>>

Unpublish ==
    /\ EventUnlocked /\ event.status = "published"
    /\ event' = [event EXCEPT !.status = "draft"]
    /\ UNCHANGED <<day, deleted, organizers, work, attending, vouched, pictureVars>>

ArchiveEvent ==
    /\ Editable
    /\ event' = [event EXCEPT !.status = "archived"]
    /\ UNCHANGED <<day, deleted, organizers, work, attending, vouched, pictureVars>>

\* A restored event is a draft.
RestoreEvent ==
    /\ EventUnlocked /\ event.status = "archived"
    /\ event' = [event EXCEPT !.status = "draft"]
    /\ UNCHANGED <<day, deleted, organizers, work, attending, vouched, pictureVars>>

VerifyEvent ==
    /\ Editable /\ ~event.verified
    /\ event' = [event EXCEPT !.verified = TRUE]
    /\ vouched' = [vouched EXCEPT !.event = Displayed(event)]
    /\ UNCHANGED <<day, deleted, organizers, work, attending, pictureVars>>

UnverifyEvent ==
    /\ EventUnlocked /\ event.verified
    /\ event' = [event EXCEPT !.verified = FALSE]
    /\ UNCHANGED <<day, deleted, organizers, work, attending, vouched, pictureVars>>

\* remove(): only an event that was never published; its image goes with it.
RemoveEvent ==
    /\ EventUnlocked /\ event # NoEvent /\ ~event.everPublished
    /\ event' = NoEvent /\ deleted' = TRUE
    /\ IF image = NoPicture THEN UNCHANGED pictureVars ELSE ClearPicture
    /\ UNCHANGED <<day, organizers, work, attending, vouched>>

\* uploadImage(): the event may be archived or removed while the file is being stored.
UploadEventImage(fails) ==
    /\ event.status \in {"draft", "published"}
    /\ MediaUpload(fails)
    /\ UNCHANGED catalogueVars

SaveEventImage(u) ==
    /\ EventUnlocked
    /\ IF Editable THEN SavePicture(u) ELSE SaveRefused(u)
    /\ UNCHANGED catalogueVars

DeleteEventImage == Editable /\ ClearPicture /\ UNCHANGED catalogueVars

-----------------------------------------------------------------------------
(* AdminOrganizersService *)

CreateOrganizer(o) ==
    /\ organizers[o] = Nobody
    /\ organizers' = [organizers EXCEPT ![o] = [status |-> "active", verified |-> FALSE, identity |-> 0]]
    /\ UNCHANGED <<day, event, deleted, work, attending, vouched, pictureVars>>

\* update() of a PUBLIC_IDENTITY_FIELD clears the badge.
RenameOrganizer(o, identity) ==
    /\ OrganizerUnlocked(o) /\ organizers[o].status = "active" /\ organizers[o].identity # identity
    /\ organizers' = [organizers EXCEPT ![o].identity = identity, ![o].verified = FALSE]
    /\ UNCHANGED <<day, event, deleted, work, attending, vouched, pictureVars>>

VerifyOrganizer(o) ==
    /\ OrganizerUnlocked(o) /\ organizers[o].status = "active" /\ ~organizers[o].verified
    /\ organizers' = [organizers EXCEPT ![o].verified = TRUE]
    /\ vouched' = [vouched EXCEPT !.organizer[o] = organizers[o].identity]
    /\ UNCHANGED <<day, event, deleted, work, attending, pictureVars>>

UnverifyOrganizer(o) ==
    /\ OrganizerUnlocked(o) /\ organizers[o].verified
    /\ organizers' = [organizers EXCEPT ![o].verified = FALSE]
    /\ UNCHANGED <<day, event, deleted, work, attending, vouched, pictureVars>>

\* archive(), up to the count of upcoming published events.
BeginArchiveOrganizer(a, o) ==
    /\ work[a] = NoWork /\ OrganizerUnlocked(o)
    /\ organizers[o].status = "active" /\ ~UpcomingPublished(o)
    /\ work' = [work EXCEPT ![a] = [op |-> "archive", organizer |-> o]]
    /\ UNCHANGED <<day, event, deleted, organizers, attending, vouched, pictureVars>>

CommitArchiveOrganizer(a) ==
    /\ work[a].op = "archive"
    /\ organizers' = [organizers EXCEPT ![work[a].organizer].status = "archived"]
    /\ work' = [work EXCEPT ![a] = NoWork]
    /\ UNCHANGED <<day, event, deleted, attending, vouched, pictureVars>>

RestoreOrganizer(o) ==
    /\ OrganizerUnlocked(o) /\ organizers[o].status = "archived"
    /\ organizers' = [organizers EXCEPT ![o].status = "active"]
    /\ UNCHANGED <<day, event, deleted, work, attending, vouched, pictureVars>>

\* A transaction is rolled back.
RollBack(a) ==
    /\ work[a] # NoWork
    /\ work' = [work EXCEPT ![a] = NoWork]
    /\ UNCHANGED <<day, event, deleted, organizers, attending, vouched, pictureVars>>

-----------------------------------------------------------------------------
(* Members *)

\* assertOpen(), for set() and clear().
CheckOpen ==
    /\ attending # "checked"
    /\ event.status = "published" /\ ~Ended(event.date)
    /\ attending' = "checked"
    /\ UNCHANGED <<day, event, deleted, organizers, work, vouched, pictureVars>>

\* set() writes the attendance; clear() removes it.
WriteAttendance(kept) ==
    /\ attending = "checked"
    /\ attending' = IF kept THEN "kept" ELSE "none"
    /\ UNCHANGED <<day, event, deleted, organizers, work, vouched, pictureVars>>

NextDay ==
    /\ day < LastDay
    /\ day' = day + 1
    /\ UNCHANGED <<event, deleted, organizers, work, attending, vouched, pictureVars>>

CatalogueNext ==
    \/ \E o \in Organizers : \E date \in 0..LastDay : CreateEvent(o, date)
    \/ \E a \in Admins : \E o \in Organizers : \E date \in 0..LastDay : \E venue \in {0, 1} :
          BeginUpdate(a, [organizer |-> o, date |-> date, venue |-> venue])
    \/ \E a \in Admins : CommitUpdate(a) \/ BeginPublish(a) \/ CommitPublish(a) \/ RollBack(a)
    \/ Unpublish \/ ArchiveEvent \/ RestoreEvent \/ VerifyEvent \/ UnverifyEvent \/ RemoveEvent
    \/ \E fails \in BOOLEAN : UploadEventImage(fails)
    \/ \E u \in uploads : SaveEventImage(u) \/ (SaveRefused(u) /\ UNCHANGED catalogueVars)
    \/ \E u \in uploads : \E fails \in BOOLEAN : DestroyQuietly(u, fails) /\ UNCHANGED catalogueVars
    \/ DeleteEventImage
    \/ StopUploads /\ UNCHANGED catalogueVars
    \/ \E o \in Organizers : CreateOrganizer(o) \/ VerifyOrganizer(o) \/ UnverifyOrganizer(o)
    \/ \E o \in Organizers : \E identity \in {0, 1} : RenameOrganizer(o, identity)
    \/ \E a \in Admins : \E o \in Organizers : BeginArchiveOrganizer(a, o)
    \/ \E a \in Admins : CommitArchiveOrganizer(a)
    \/ \E o \in Organizers : RestoreOrganizer(o)
    \/ CheckOpen
    \/ \E kept \in BOOLEAN : WriteAttendance(kept)
    \/ NextDay

-----------------------------------------------------------------------------
(* Properties *)

\* A badge vouches for what it shows: where, when and by whom a verified event is held, and
\* the identity of a verified organizer, are what the admin who verified them saw in the row,
\* through any edits, publishing, archiving and restoring (admin-events.service.ts,
\* admin-organizers.service.ts).
BadgesTrue ==
    /\ event.verified => Displayed(event) = vouched.event
    /\ \A o \in Organizers : organizers[o].verified => organizers[o].identity = vouched.organizer[o]

\* An upcoming published event has an active organizer. Does not hold: publish() and archive()
\* read each other's table without a lock, and update() can give an ended event a new date.
UpcomingHasOrganizer == \A o \in Organizers : UpcomingPublished(o) => Usable(o)

=============================================================================
