------------------------------ MODULE WebPages ------------------------------
(* What each page of the member app reads (cached queries), what its buttons  *)
(* do (mutations) and where its links lead; what each mutation changes on the *)
(* API and what its hook then refreshes in the query cache.                   *)

\* A page or a component of pages.
Part(reads, acts, links) == [reads |-> reads, acts |-> acts, links |-> links]

Join(parts) ==
    [reads |-> UNION {p.reads : p \in parts}, acts |-> UNION {p.acts : p \in parts},
     links |-> UNION {p.links : p \in parts}]

-----------------------------------------------------------------------------
(* Query keys: invalidateQueries() reaches every key with the given prefix. *)

Connections == {"received", "sent", "matches", "match"}
Partners == {"partnerList", "partner"}
Attendance == {"attendance", "myEvents"}
Chats == {"chats", "chat", "messages", "unread"}
Inbox == {"notifications", "notificationUnread"}
Notifications == Inbox \cup {"notificationPreferences"}

\* The queries refetchInterval polls while they are shown.
WebPolled == {"unread", "notificationUnread", "safety", "booking"}

\* The queries the socket's events refresh (messages are inserted).
Pushed == Chats \cup Connections \cup Inbox

-----------------------------------------------------------------------------
(* Mutations. writes: the queries whose answer the API changes; refreshes:    *)
(* those the hook invalidates; sets: those it fills from the answer; lags:    *)
(* those it leaves to the stale time or to the socket; then: the page it      *)
(* opens.                                                                     *)

Mutation(writes, refreshes, sets, lags, then) ==
    [writes |-> writes, refreshes |-> refreshes, sets |-> sets, lags |-> lags, then |-> then]

ProfileMutation(then) ==
    Mutation({"mine", "preview"} \cup Partners, {"preview"}, {"mine"}, Partners, then)
ConnectionMutation(writes, lags, then) ==
    Mutation(writes \cup Partners, Connections \cup Partners, {}, lags, then)
\* The API also removes the notifications between the two members, and a report may block as
\* well: the hook refreshes neither the notifications nor the list of blocked members.
SafetyMutation ==
    Mutation(Partners \cup Connections \cup Chats \cup Inbox \cup {"blocked"},
             Partners \cup Connections \cup Chats, {}, Inbox \cup {"blocked"}, "stay")
\* An interest that crosses the other member's own makes a match: a conversation and, for the
\* sender as well, a notification, both told by the socket only.
SendInterestMutation ==
    ConnectionMutation({"sent", "received", "matches"} \cup {"chats"} \cup Inbox,
                       {"chats"} \cup Inbox, "stay")
AttendanceMutation ==
    Mutation(Attendance \cup Partners, Attendance \cup Partners, {"attendance"}, {}, "stay")
\* A conversation's own query holds its last message and its unread count as the list does.
SendMutation ==
    Mutation({"messages", "chats", "chat"}, {"chats"}, {"messages"}, {"chat"}, "stay")
MarkReadMutation ==
    Mutation({"unread", "chats", "chat"} \cup Inbox, {"unread", "chats"} \cup Notifications, {},
             {"chat"}, "stay")
NotificationMutation == Mutation(Inbox, Notifications, {}, {}, "stay")
NotificationPreferenceMutation ==
    Mutation({"notificationPreferences"}, {}, {"notificationPreferences"}, {}, "stay")
AcknowledgeMutation == Mutation({"safety"}, {"safety"}, {}, {}, "stay")
UnblockMutationForgets ==
    Mutation({"blocked"} \cup Partners, Partners, {}, {}, "stay")
UnblockMutation ==
    Mutation({"blocked"} \cup Partners, {"blocked"} \cup Partners, {}, {}, "stay")
\* The hook refreshes ["events", ...], the list; what a sale changes is the page, ["event", ...],
\* with the passes left, the member's bookings and the notification of the booking.
BuyPassMutation ==
    Mutation({"event", "bookings"} \cup Inbox, {"eventList"}, {}, {"event", "bookings"} \cup Inbox,
             "booking")

WebMutation ==
    [createProfile |-> ProfileMutation("stay"), updateProfile |-> ProfileMutation("stay"),
     uploadImage |-> ProfileMutation("stay"), deleteImage |-> ProfileMutation("stay"),
     updatePreferences |-> ProfileMutation("stay"),
     sendInterest |-> SendInterestMutation,
     accept |-> ConnectionMutation({"received", "matches", "chats"}, {"chats"}, "match"),
     reject |-> ConnectionMutation({"received"}, {}, "stay"),
     withdraw |-> ConnectionMutation({"sent"}, {}, "stay"),
     unmatch |-> ConnectionMutation({"matches", "match"} \cup Chats, Chats, "matches"),
     block |-> SafetyMutation, report |-> SafetyMutation,
     unblock |-> UnblockMutation, acknowledge |-> AcknowledgeMutation,
     saveAttendance |-> AttendanceMutation, send |-> SendMutation, markRead |-> MarkReadMutation,
     markNotification |-> NotificationMutation, markAll |-> NotificationMutation,
     updateNotificationPreferences |-> NotificationPreferenceMutation,
     buyPass |-> BuyPassMutation]

-----------------------------------------------------------------------------
(* Components *)

Navbar == Part({"unread"}, {}, {"home", "events", "discover", "interests", "matches", "chats",
                                "profile", "bookings", "safetyCentre", "login"})
NotificationBell == Part({"notificationUnread"}, {}, {"notifications"})
SafetyNotices == Part({"safety"}, {"acknowledge"}, {"guidelines"})
Footer == Part({}, {}, {"events", "safetyCentre", "guidelines", "privacy", "terms", "discover",
                        "bookings"})
AppShell == Join({Navbar, NotificationBell, SafetyNotices, Footer})

ReportForm == Part({}, {"report"}, {"guidelines"})
SafetyActions == Join({Part({}, {"block"}, {}), ReportForm})
InterestActions == Part({}, {"sendInterest", "accept", "reject", "withdraw"}, {"match"})
MemberRow == Part({}, {}, {"partner"})
PartnerCard == Part({}, {}, {"partner"})
EventCard == Part({}, {}, {"event"})
BuyPass == Part({}, {"buyPass"}, {"login", "booking"})
ProfileForm == Part({"cities", "areas"}, {}, {"terms", "privacy", "guidelines"})
ImageUpload == Part({}, {"uploadImage", "deleteImage"}, {})
PreferencesForm == Part({}, {"updatePreferences"}, {})
NotificationSettings == Part({"notificationPreferences"}, {"updateNotificationPreferences"}, {})

-----------------------------------------------------------------------------
(* Pages *)

LandingHero == Part({}, {}, {"login", "events"})
LandingClosing == Part({}, {}, {"events", "safetyCentre", "guidelines", "login"})
HomePage ==
    Join({Part({"mine", "unread", "eventList"}, {},
               {"discover", "editProfile", "onboarding", "events", "interests", "matches", "chats"}),
          EventCard, LandingHero, LandingClosing})
EventFilters == Part({"cities"}, {}, {"login"})
EventsPage == Join({EventFilters, Part({"eventList"}, {}, {}), EventCard})
EventActions == Join({Part({}, {}, {"findPartner"}), BuyPass})
EventDetailPage == Join({Part({"event"}, {}, {"events"}), EventActions})
AttendanceForm == Part({}, {"saveAttendance"}, {"discover"})
FindPartnerPage ==
    Join({Part({"event", "mine", "attendance"}, {}, {"events", "editProfile"}), AttendanceForm})
DiscoverFilters == Part({"mine", "cities", "myEvents"}, {}, {})
DiscoverResults == Part({"partnerList"}, {}, {"preferences", "editProfile"})
DiscoverPage == Join({DiscoverFilters, DiscoverResults, PartnerCard})
PartnerProfilePage ==
    Join({Part({"partner"}, {}, {"discover", "event"}), InterestActions, SafetyActions})
ReceivedInterests == Join({Part({"received"}, {"accept", "reject"}, {"match"}), MemberRow})
SentInterests == Join({Part({"sent"}, {"withdraw"}, {}), MemberRow})
InterestsPage == Join({ReceivedInterests, SentInterests, Part({}, {}, {"discover"})})
MatchesPage == Part({"matches"}, {}, {"discover", "match", "chat"})
MatchPage ==
    Join({Part({"match"}, {"unmatch"}, {"matches", "chat", "event"}), SafetyActions})
ChatsPage == Part({"chats"}, {}, {"discover", "chat"})
ChatConversation == Part({"chat", "messages", "safety"}, {"send", "markRead"}, {"chats", "partner"})
ChatComposer == Join({Part({}, {}, {"guidelines"}), SafetyActions, ReportForm})
ChatPage == Join({ChatConversation, ChatComposer})
NotificationList ==
    Part({"notifications"}, {"markNotification", "markAll"},
         {"discover", "interests", "matches", "match", "chats", "chat", "profile", "events", "event",
          "safetyCentre", "guidelines", "bookings", "booking"})
NotificationsPage == Join({NotificationSettings, NotificationList})
OnboardingPage ==
    Join({Part({"mine"}, {"createProfile"}, {"profile"}), ProfileForm, ImageUpload, PreferencesForm})
ProfilePage == Part({"mine", "preview"}, {}, {"editProfile", "preferences", "bookings", "blocked"})
EditProfilePage == Join({Part({"mine"}, {"updateProfile"}, {"profile"}), ImageUpload, ProfileForm})
PreferencesPage == Join({Part({"mine"}, {}, {"profile"}), PreferencesForm})
BlockedMembersPage == Part({"blocked"}, {"unblock"}, {"profile"})
BookingsPage == Part({"bookings"}, {}, {"events", "booking"})
BookingPage == Part({"booking"}, {}, {"bookings", "event"})
LoginPage == Part({}, {}, {"verify", "terms", "privacy", "guidelines"})
VerifyOtpPage == Part({}, {}, {"login", "home"})
LegalPage == Part({}, {}, {"privacy", "terms", "guidelines", "safetyCentre"})
SafetyCenterPage == Part({}, {}, {"guidelines", "blocked"})
CommunityGuidelinesPage == Part({}, {}, {"safetyCentre"})

-----------------------------------------------------------------------------
(* Routes *)

GuestPages == {"login", "verify"}
OpenPages == {"events", "event", "safetyCentre", "guidelines", "privacy", "terms", "home"}
ProfilePages ==
    {"home", "profile", "editProfile", "preferences", "blocked", "findPartner", "discover",
     "partner", "interests", "matches", "match", "chats", "chat", "notifications", "bookings",
     "booking"}

InShell(part) == Join({part, AppShell})

WebPage ==
    [login |-> LoginPage, verify |-> VerifyOtpPage,
     events |-> InShell(EventsPage), event |-> InShell(EventDetailPage),
     safetyCentre |-> InShell(SafetyCenterPage), guidelines |-> InShell(CommunityGuidelinesPage),
     privacy |-> InShell(LegalPage), terms |-> InShell(LegalPage), home |-> InShell(HomePage),
     onboarding |-> InShell(OnboardingPage), profile |-> InShell(ProfilePage),
     editProfile |-> InShell(EditProfilePage), preferences |-> InShell(PreferencesPage),
     blocked |-> InShell(BlockedMembersPage), findPartner |-> InShell(FindPartnerPage),
     discover |-> InShell(DiscoverPage), partner |-> InShell(PartnerProfilePage),
     interests |-> InShell(InterestsPage), matches |-> InShell(MatchesPage),
     match |-> InShell(MatchPage), chats |-> InShell(ChatsPage), chat |-> InShell(ChatPage),
     notifications |-> InShell(NotificationsPage), bookings |-> InShell(BookingsPage),
     booking |-> InShell(BookingPage)]

=============================================================================
