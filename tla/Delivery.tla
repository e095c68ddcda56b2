------------------------------ MODULE Delivery ------------------------------
(***************************************************************************)
(* A page: who is told of an incident (internal/notification:              *)
(* dispatcher.go, contact.go and the channels).  The dispatcher reads the  *)
(* route, its policies, their groups and the contacts one query after the  *)
(* other, without a transaction, while administrators edit them; it sends  *)
(* and then logs, bucket after bucket.                                     *)
(*                                                                         *)
(* An address book is the value of those rows.  "room" stands for          *)
(* DingTalk, Feishu and Slack, whose webhooks contacts may share.          *)
(***************************************************************************)
EXTENDS Naturals, FiniteSets

CONSTANTS Policies, Groups, Contacts, Rooms, Severities,
          Books,            \* the address books there may be
          Messages          \* the pages, each an incident with a severity

Providers == {"email", "voice", "sms"}   \* those with a configuration of the system
NoRoom == "(no room)"

ASSUME DeliveryAssumption ==
  /\ NoRoom \notin Rooms
  /\ Books \subseteq [route : SUBSET Policies, routed : BOOLEAN,
                      policy : [Policies -> [on : BOOLEAN, severities : SUBSET Severities,
                                             groups : SUBSET Groups, contacts : SUBSET Contacts]],
                      group : [Groups -> SUBSET Contacts],
                      contact : [Contacts -> [there : BOOLEAN, room : Rooms \cup {NoRoom},
                                              email : BOOLEAN, phone : BOOLEAN]],
                      provider : SUBSET Providers]
  /\ Books # {} /\ "P0" \in Severities

VARIABLES book,       \* the address book of the moment
          page        \* page[m]: how far the dispatch of m is, what it has read and done

deliveryVars == <<book, page>>

(* A bucket is a channel with an address; its members are contacts. *)
Buckets == {<<"room", r>> : r \in Rooms} \cup {<<p, "system">> : p \in Providers}

Unsent == [at |-> "new", policies |-> {}, ids |-> {}, groups |-> {}, contacts |-> <<>>, todo |-> {},
           addressed |-> {}, reached |-> {}, unlogged |-> {}, log |-> {}, dropped |-> "",
           meant |-> {}, edits |-> 0, faulty |-> FALSE]

DeliveryInit == book \in Books /\ page = [m \in DOMAIN Messages |-> Unsent]

At(m, at) == page[m].at = at
Underway(m) == page[m].at \notin {"new", "done", "cut"}
Set(m, p) == page' = [page EXCEPT ![m] = p]
Drops(m, reason) == Set(m, [page[m] EXCEPT !.at = "done", !.dropped = reason])
Fault(m, reason) == Set(m, [page[m] EXCEPT !.at = "done", !.dropped = reason, !.faulty = TRUE])

(* Whom a book says a page goes to, and by what. *)
Means(b, severity) ==
  {t \in Contacts \X Buckets :
     /\ b.routed /\ b.contact[t[1]].there
     /\ \E q \in b.route :
          /\ b.policy[q].on
          /\ b.policy[q].severities = {} \/ severity \in b.policy[q].severities
          /\ t[1] \in b.policy[q].contacts \cup UNION {b.group[g] : g \in b.policy[q].groups}
     /\ \/ t[2] = <<"room", b.contact[t[1]].room>>
        \/ t[2] = <<"email", "system">> /\ b.contact[t[1]].email /\ "email" \in b.provider
        \/ t[2][1] \in {"voice", "sms"} \cap b.provider /\ b.contact[t[1]].phone /\ severity = "P0"}

(* loadRouteForIncident and channelIDsToPolicyIDs. *)
LoadRoute(m) ==
  /\ At(m, "new")
  /\ LET p == [page[m] EXCEPT !.at = "routed", !.meant = {Means(book, Messages[m])}, !.policies = book.route] IN
       IF ~book.routed THEN Set(m, [p EXCEPT !.at = "done", !.dropped = "no_route"])
       ELSE IF book.route = {} THEN Set(m, [p EXCEPT !.at = "done", !.dropped = "no_policy"])
       ELSE Set(m, p)
  /\ UNCHANGED book

LoadRouteFails(m) == At(m, "new") /\ Fault(m, "no_route") /\ UNCHANGED book

(* Mutant: a policy that lists no severity covers none. *)
severityMatches_Listed(q, m) == Messages[m] \in book.policy[q].severities

(* A policy that lists no severity covers them all. *)
severityMatches(q, m) ==
  book.policy[q].severities = {} \/ Messages[m] \in book.policy[q].severities

LoadPolicies(m) ==
  /\ At(m, "routed")
  /\ LET matched == {q \in page[m].policies : book.policy[q].on /\ severityMatches(q, m)} IN
       IF matched = {} THEN Drops(m, "no_severity_match")
       ELSE Set(m, [page[m] EXCEPT !.at = "matched", !.policies = matched,
                      !.ids = UNION {book.policy[q].contacts : q \in matched},
                      !.groups = UNION {book.policy[q].groups : q \in matched}])
  /\ UNCHANGED book

LoadPoliciesFails(m) == At(m, "routed") /\ Fault(m, "policy_lookup_failed") /\ UNCHANGED book

(* loadAndDecryptContacts: the groups, whose failure is passed over ... *)
LoadGroups(m) ==
  /\ At(m, "matched")
  /\ Set(m, [page[m] EXCEPT !.at = "expanded", !.ids = @ \cup UNION {book.group[g] : g \in page[m].groups}])
  /\ UNCHANGED book

LoadGroupsFails(m) ==
  /\ At(m, "matched") /\ page[m].groups # {}
  /\ Set(m, [page[m] EXCEPT !.at = "expanded", !.faulty = TRUE])
  /\ UNCHANGED book

(* ... and the rows of the contacts. *)
LoadContacts(m) ==
  /\ At(m, "expanded")
  /\ LET found == {c \in page[m].ids : book.contact[c].there} IN
       IF found = {} THEN Drops(m, "no_contacts")
       ELSE Set(m, [page[m] EXCEPT !.at = "loaded", !.contacts = [c \in found |-> book.contact[c]]])
  /\ UNCHANGED book

LoadContactsFails(m) ==
  /\ At(m, "expanded") /\ page[m].ids # {}
  /\ Fault(m, "no_contacts") /\ UNCHANGED book

(* The buckets of a contact: only a P0 rings a phone. *)
BucketsOf(c, severity, providers) ==
  {<<"room", r>> : r \in {c.room} \ {NoRoom}}
  \cup {<<p, "system">> : p \in providers \cap (IF c.email THEN {"email"} ELSE {})}
  \cup {<<p, "system">> : p \in providers \cap (IF c.phone /\ severity = "P0" THEN {"voice", "sms"} ELSE {})}

(* The providers are asked for when a contact needs them; one that has no  *)
(* configuration, or whose row cannot be read, is passed over.             *)
loadProviderConfig(unreadable) == book.provider \ unreadable

(* resolveRecipients and groupByChannelTarget.  If nobody can be reached   *)
(* at all, the page ends here, and only a debug line tells.                *)
Resolve(m, unreadable) ==
  /\ At(m, "loaded") /\ unreadable \subseteq book.provider
  /\ LET cs == page[m].contacts
         to == UNION {{<<c, b>> : b \in BucketsOf(cs[c], Messages[m], loadProviderConfig(unreadable))} : c \in DOMAIN cs}
     IN Set(m, [page[m] EXCEPT !.at = IF to = {} THEN "done" ELSE "sending", !.addressed = to,
                               !.todo = {t[2] : t \in to}, !.faulty = @ \/ unreadable # {}])
  /\ UNCHANGED book

Members(m, b) == {c \in DOMAIN page[m].contacts : <<c, b>> \in page[m].addressed}

(* dispatchBuckets: a bucket is sent, and then the rows of its log are to  *)
(* be written.  Who has been reached after an error is not known: an       *)
(* answer may have been lost.                                              *)
Sends(m, b, reached, ok) ==
  /\ At(m, "sending") /\ page[m].unlogged = {} /\ b \in page[m].todo
  /\ reached \subseteq Members(m, b) /\ (ok => reached = Members(m, b))
  /\ Set(m, [page[m] EXCEPT !.todo = @ \ {b}, !.reached = @ \cup {<<c, b>> : c \in reached},
                 !.unlogged = {<<c, b, IF ok THEN "sent" ELSE "failed">> : c \in Members(m, b)}])
  /\ UNCHANGED book

(* One call for a room, and one mail to all ... *)
PostRoom(m, r, reached, ok) ==
  reached \in {{}, Members(m, <<"room", r>>)} /\ Sends(m, <<"room", r>>, reached, ok)
SendMail(m, reached, ok) ==
  reached \in {{}, Members(m, <<"email", "system">>)} /\ Sends(m, <<"email", "system">>, reached, ok)
(* ... but one for each phone: the others are called after a failure, and  *)
(* the failure of one is logged for all.                                   *)
CallPhones(m, p, reached, ok) ==
  p \in {"voice", "sms"} /\ Sends(m, <<p, "system">>, reached, ok)

(* logNotification: an error is passed over. *)
logNotification(m, written) ==
  /\ At(m, "sending")
  /\ \E e \in page[m].unlogged :
       LET rest == page[m].unlogged \ {e} IN
         Set(m, [page[m] EXCEPT !.unlogged = rest, !.log = IF written THEN @ \cup {e} ELSE @,
                                !.at = IF rest = {} /\ page[m].todo = {} THEN "done" ELSE @])
  /\ UNCHANGED book

(* The process ends; nothing takes the page up again. *)
Cut(m) == Underway(m) /\ Set(m, [page[m] EXCEPT !.at = "cut"]) /\ UNCHANGED book

(* An administrator changes one row. *)
Rows(b) ==
  [r \in {<<"route", "">>, <<"provider", "">>} \cup ({"policy"} \X Policies)
           \cup ({"group"} \X Groups) \cup ({"contact"} \X Contacts) |->
     CASE r[1] = "route" -> <<b.route, b.routed>>
       [] r[1] = "provider" -> b.provider
       [] OTHER -> b[r[1]][r[2]]]
OneRow(b, c) == \E r \in DOMAIN Rows(b) : /\ Rows(b)[r] # Rows(c)[r]
                                         /\ \A x \in DOMAIN Rows(b) \ {r} : Rows(b)[x] = Rows(c)[x]
Neighbours == [b \in Books |-> {c \in Books : OneRow(b, c)}]

EditBook ==
  \E c \in Neighbours[book] :
    /\ book' = c
    /\ page' = [m \in DOMAIN page |->
         IF Underway(m) THEN [page[m] EXCEPT !.edits = @ + 1, !.meant = @ \cup {Means(c, Messages[m])}] ELSE page[m]]

-----------------------------------------------------------------------------
DeliveryTypeOK ==
  /\ book \in Books
  /\ \A m \in DOMAIN page : /\ page[m].todo \subseteq Buckets
                            /\ page[m].reached \subseteq page[m].addressed
                            /\ At(m, "done") => page[m].unlogged = {} /\ page[m].todo = {}

(* dispatcher.go: unless a query failed, a page is addressed to exactly    *)
(* those the address book names, before or after one edit that came        *)
(* meanwhile; the log says "sent" only of who was reached; and a page that *)
(* is addressed to nobody is counted as dropped, unless it had contacts    *)
(* and there was no way to reach them.                                     *)
PagesExplained ==
  \A m \in DOMAIN page :
    /\ page[m].at \in {"sending", "done"} /\ ~page[m].faulty /\ page[m].edits <= 1 =>
         page[m].addressed \in page[m].meant
    /\ \A e \in page[m].log : e[3] = "sent" => <<e[1], e[2]>> \in page[m].reached
    /\ At(m, "done") /\ page[m].addressed = {} /\ page[m].dropped = "" => DOMAIN page[m].contacts # {}
=============================================================================
