----------------------------- MODULE AdminPages -----------------------------
(* The same tables for the admin app: what each page reads, does and links    *)
(* to, what each mutation changes and refreshes, and which permission a route *)
(* needs.                                                                     *)
EXTENDS WebPages

Permission ==
    {"dashboard:view", "users:view", "reports:manage", "events:view", "events:manage",
     "payments:view", "audit:view", "safety_logs:view"}

ROLE_PERMISSIONS ==
    [super_admin |-> Permission,
     moderator |-> {"dashboard:view", "users:view", "reports:manage", "safety_logs:view",
                    "events:view"},
     event_manager |-> {"dashboard:view", "events:view", "events:manage", "payments:view"}]

Roles == DOMAIN ROLE_PERMISSIONS

-----------------------------------------------------------------------------
(* Mutations *)

\* What almost every write of an administrator changes beside its subject, refreshed by
\* nobody: the log pages, and the dashboard, which is polled.
Logs == {"auditLogs", "safetyLogs", "summary", "trends", "eventStats"}
AdminPolled == {"summary", "reports", "deliveryStats"}

AdminMutation(writes, refreshes, sets, lags, then) ==
    Mutation(writes \cup Logs, refreshes, sets, lags \cup Logs, then)

CloseMatchMutation ==
    AdminMutation({"userMatches", "user"}, {"userMatches", "user"}, {}, {}, "stay")
RestrictionMutation == AdminMutation({"user"}, {}, {"user"}, {}, "stay")
\* The reports show the account's status as well, a ban ends matches, and the member's
\* notification is counted.
Sanctioned == {"report", "reports", "userMatches", "deliveryStats"}
SanctionMutation ==
    AdminMutation({"user", "users"} \cup Sanctioned, {"users"}, {"user"}, Sanctioned, "stay")
ConversationMutation == AdminMutation({"report", "reports"}, {"report", "reports"}, {}, {}, "stay")
ReportMutation(lags) ==
    AdminMutation({"report", "reports"} \cup lags, {"report", "reports"}, {"report"}, lags, "stay")
\* Bookings and orders name their event and its time, an organizer's page counts its events.
EventMutation(lags, then) ==
    AdminMutation({"adminEvent", "adminEvents"} \cup lags, {"adminEvents"}, {"adminEvent"}, lags, then)
CreateEventMutation ==
    AdminMutation({"adminEvents", "organizer"}, {"adminEvents"}, {}, {"organizer"}, "adminEvent")
\* The page of a deleted event is left.
DeleteEventMutation ==
    AdminMutation({"adminEvents", "organizer"}, {"adminEvents"}, {}, {"organizer"}, "adminEvents")
PassMutation == AdminMutation({"adminEvent"}, {}, {"adminEvent"}, {}, "stay")
\* Events and their list name the organizer and show its badge.
OrganizerMutation(then) ==
    AdminMutation({"organizer", "organizers", "organizerOptions", "adminEvent", "adminEvents"},
                  {"organizers", "organizerOptions"}, {"organizer"}, {"adminEvent", "adminEvents"},
                  then)
CreateOrganizerMutation ==
    AdminMutation({"organizers", "organizerOptions"}, {"organizers", "organizerOptions"}, {}, {},
                  "organizer")
\* A refund gives the event's seats back, and the buyer is told.
RefundMutation ==
    AdminMutation({"payBooking", "payBookings", "payOrders", "adminEvent", "deliveryStats"},
                  {"payBookings"}, {"payBooking"}, {"payOrders", "adminEvent", "deliveryStats"}, "stay")

AdminMutations ==
    [closeMatch |-> CloseMatchMutation, restrict |-> RestrictionMutation,
     sanction |-> SanctionMutation, lift |-> SanctionMutation,
     conversation |-> ConversationMutation, assign |-> ReportMutation({}),
     resolve |-> ReportMutation({"user", "users", "userMatches", "deliveryStats"}),
     createEvent |-> CreateEventMutation,
     updateEvent |-> EventMutation({"organizer", "payBooking", "payBookings", "payOrders"}, "adminEvent"),
     eventAction |-> EventMutation({"organizer"}, "stay"), eventImage |-> EventMutation({}, "stay"),
     deleteEvent |-> DeleteEventMutation, updatePass |-> PassMutation,
     createOrganizer |-> CreateOrganizerMutation,
     updateOrganizer |-> OrganizerMutation("organizer"), organizerAction |-> OrganizerMutation("stay"),
     refund |-> RefundMutation]

-----------------------------------------------------------------------------
(* Pages *)

AdminLayout ==
    Part({}, {}, {"dashboard", "notificationsMonitor", "reports", "safetyLogs", "users",
                  "adminEvents", "organizers", "payments", "auditLogs"})
DashboardSummary == Part({"summary"}, {}, {"users", "adminEvents", "reports", "payments"})
DashboardEvents == Part({"eventStats"}, {}, {"adminEvent"})
DashboardTrends == Part({"cities", "trends"}, {}, {})
DashboardPage == Join({DashboardSummary, DashboardEvents, DashboardTrends})
NotificationsMonitorPage == Part({"deliveryStats"}, {}, {})
UsersPage == Part({"users"}, {}, {"user"})
ConnectionsPanel == Part({"userMatches"}, {"closeMatch", "restrict"}, {"user"})
SanctionForm == Part({}, {"sanction", "lift"}, {})
ModerationPanel == Join({SanctionForm, Part({}, {}, {"report"})})
UserDetailPage == Join({Part({"user"}, {}, {"users"}), ConnectionsPanel, ModerationPanel})
ReportsPage == Part({"reports"}, {}, {"report"})
ResolveForm == Part({}, {"resolve"}, {})
ReportDetailPage ==
    Join({Part({"report"}, {"conversation", "assign"}, {"reports", "user", "report"}), ResolveForm})
SafetyLogsPage == Part({"safetyLogs"}, {}, {"user"})
AuditLogPage == Part({"auditLogs"}, {}, {"user", "report"})
BookingsPanel == Part({"payBookings"}, {}, {"payBooking", "user"})
OrdersPanel == Part({"payOrders"}, {}, {"payBooking"})
PaymentsPage == Join({BookingsPanel, OrdersPanel})
PaymentBookingPage == Part({"payBooking"}, {"refund"}, {"payments"})
AdminEventsPage == Part({"cities", "adminEvents"}, {}, {"newEvent", "adminEvent"})
EventLifecycle == Part({}, {"eventAction", "deleteEvent"}, {"editEvent"})
EventImagePanel == Part({}, {"eventImage"}, {})
PassSettings == Part({}, {"updatePass"}, {})
AdminEventDetailPage ==
    Join({Part({"adminEvent"}, {}, {"adminEvents", "organizer"}), EventLifecycle, EventImagePanel,
          PassSettings})
EventForm == Part({"organizerOptions", "cities", "areas"}, {}, {})
NewEventPage == Join({Part({}, {"createEvent"}, {"adminEvents"}), EventForm})
EditEventPage == Join({Part({"adminEvent"}, {"updateEvent"}, {"adminEvent"}), EventForm})
OrganizersPage == Part({"organizers"}, {}, {"newOrganizer", "organizer"})
OrganizerActions == Part({}, {"organizerAction"}, {"editOrganizer"})
OrganizerDetailPage ==
    Join({Part({"organizer"}, {}, {"organizers", "adminEvents"}), OrganizerActions})
NewOrganizerPage == Part({}, {"createOrganizer"}, {"organizers"})
EditOrganizerPage == Part({"organizer"}, {"updateOrganizer"}, {"organizer"})

InLayout(part) == Join({part, AdminLayout})

AdminPage ==
    [adminLogin |-> Part({}, {}, {}), dashboard |-> InLayout(DashboardPage),
     notificationsMonitor |-> InLayout(NotificationsMonitorPage),
     users |-> InLayout(UsersPage), user |-> InLayout(UserDetailPage),
     reports |-> InLayout(ReportsPage), report |-> InLayout(ReportDetailPage),
     safetyLogs |-> InLayout(SafetyLogsPage), auditLogs |-> InLayout(AuditLogPage),
     payments |-> InLayout(PaymentsPage), payBooking |-> InLayout(PaymentBookingPage),
     adminEvents |-> InLayout(AdminEventsPage), adminEvent |-> InLayout(AdminEventDetailPage),
     newEvent |-> InLayout(NewEventPage), editEvent |-> InLayout(EditEventPage),
     organizers |-> InLayout(OrganizersPage), organizer |-> InLayout(OrganizerDetailPage),
     newOrganizer |-> InLayout(NewOrganizerPage), editOrganizer |-> InLayout(EditOrganizerPage)]

\* The permission of each route; "/login" is for nobody who is signed in.
Needs(page) ==
    CASE page \in {"dashboard", "notificationsMonitor"} -> "dashboard:view"
      [] page \in {"users", "user"} -> "users:view"
      [] page \in {"reports", "report"} -> "reports:manage"
      [] page = "safetyLogs" -> "safety_logs:view"
      [] page \in {"payments", "payBooking"} -> "payments:view"
      [] page = "auditLogs" -> "audit:view"
      [] page \in {"adminEvents", "adminEvent", "organizers", "organizer"} -> "events:view"
      [] OTHER -> "events:manage"

=============================================================================
