----------------------------- MODULE SavedHosts -----------------------------
(***************************************************************************)
(* The saved connections and their order (static/js/profile-manager.js,    *)
(* profile-launcher-utils.js), against the server that keeps them          *)
(* (app/profile_manager.py).  A connection has a group, may be a favourite *)
(* and has a place in its group; old ones have none.  The list shows       *)
(* favourites apart, so a place in the list is not a place in the group.   *)
(* Another browser of the user may change the list unseen.                 *)
(***************************************************************************)
EXTENDS Naturals, Sequences, FiniteSets, SequencesExt

CONSTANTS Hosts,       \* the ids of connections
          Groups,      \* group names
          Ungrouped,
          NoHost,
          MaxHostActs  \* bound: what the user and the other browser do

VARIABLES kept,       \* profiles.json of the user
          shown,      \* ProfileManager.profiles
          busyHosts,  \* organizationPending
          askMove,    \* pendingProfileMove: the move that needs a confirmation
          editing,    \* the editor: NoHost when closed, "new", or an id
          hostsOut, hostsIn,
          unseen,     \* history: the server's list changed unseen
          astray,     \* history: a dropped connection landed elsewhere
          hostActs

hostVars == <<kept, shown, busyHosts, askMove, editing, hostsOut, hostsIn,
              unseen, astray, hostActs>>

AllGroups == Groups \cup {Ungrouped}
NoOrder == 99
Ids(s) == {s[i].id : i \in DOMAIN s}
Entry(s, h) == s[SelectInSeq(s, LAMBDA e : e.id = h)]
Least(m, n) == IF m < n THEN m ELSE n
PlaceIn(q, h) == SelectInSeq(q, LAMBDA x : x = h) - 1   \* counts from 0, like the code

HostTypeOK ==
    /\ \A s \in {kept, shown} : \A i \in DOMAIN s :
           s[i].id \in Hosts /\ s[i].group \in AllGroups /\ s[i].fav \in BOOLEAN
    /\ busyHosts \subseteq Hosts
    /\ editing \in Hosts \cup {NoHost, "new"}

-----------------------------------------------------------------------------
(* The order of a group, the same rule in compareProfileOrder and in         *)
(* _ordered_group: by sort_order when all have one, else as listed.          *)

Ordered(s, g, without) ==
    LET at == {i \in DOMAIN s : s[i].group = g /\ s[i].id # without}
        complete == \A i \in at : s[i].order # NoOrder
        Before(i, j) == IF complete /\ s[i].order # s[j].order
                        THEN s[i].order < s[j].order ELSE i < j
        sorted == SetToSortSeq(at, Before)
    IN [k \in DOMAIN sorted |-> s[sorted[k]].id]

\* buildProfileSections: what the list shows of a group
Section(s, g) == SelectSeq(Ordered(s, g, NoHost), LAMBDA h : ~Entry(s, h).fav)

\* A mutant: the place in the list is taken for the place in the group.
ResolveVisible(s, h, g, boundary) ==
    LET visible == Section(s, g)
        top == Least(boundary, Len(visible))
        same == Entry(s, h).group = g
        place == IF same /\ PlaceIn(visible, h) < top THEN top - 1 ELSE top
    IN IF same /\ (h \notin Range(visible) \/ PlaceIn(visible, h) = place) THEN NoOrder ELSE place

\* resolveProfileDrop: the index in the group of a drop at a boundary of the
\* list, or NoOrder for a drop that changes nothing.
ResolveProfileDrop(s, h, g, boundary) ==
    LET visible == Section(s, g)
        top == Least(boundary, Len(visible))
        same == Entry(s, h).group = g
        place == IF same /\ PlaceIn(visible, h) < top THEN top - 1 ELSE top
        rest == SelectSeq(Ordered(s, g, NoHost), LAMBDA x : x # h)
        seen == SelectSeq(rest, LAMBDA x : ~Entry(s, x).fav)
    IN IF same /\ (h \notin Range(visible) \/ PlaceIn(visible, h) = place) THEN NoOrder
       ELSE IF seen = <<>> THEN Len(rest)
       ELSE IF place < Len(seen) THEN PlaceIn(rest, seen[place + 1])
       ELSE PlaceIn(rest, Last(seen)) + 1

\* What the user means by the drop: the connection between the two the slot lies between.
Meant(s, h, g, boundary) ==
    LET visible == Section(s, g)
        NotH(x) == x # h
    IN SelectSeq(SubSeq(visible, 1, boundary), NotH) \o <<h>>
       \o SelectSeq(SubSeq(visible, boundary + 1, Len(visible)), NotH)

\* move_profile, from where it is allowed
Placed(s, h, g, index) ==
    LET from == Entry(s, h).group
        target == Ordered(s, g, h)
        new == InsertAt(target, Least(index, Len(target)) + 1, h)
        old == Ordered(s, from, h)
    IN [i \in DOMAIN s |->
           LET e == s[i] IN
           IF e.id \in Range(new) THEN [e EXCEPT !.group = g, !.order = PlaceIn(new, e.id)]
           ELSE IF from # g /\ e.id \in Range(old) THEN [e EXCEPT !.order = PlaceIn(old, e.id)]
           ELSE e]

\* upsert_profile of an existing connection or a new one
Saved(s, h, g) ==
    IF h \in Ids(s)
    THEN LET e == Entry(s, h)
             order == IF e.group # g THEN Len(Ordered(s, g, h))
                      ELSE IF e.order # NoOrder THEN e.order
                      ELSE PlaceIn(Ordered(s, g, NoHost), h)
         IN [i \in DOMAIN s |-> IF s[i].id = h THEN [e EXCEPT !.group = g, !.order = order] ELSE s[i]]
    ELSE Append(s, [id |-> h, group |-> g, fav |-> FALSE, order |-> Len(Ordered(s, g, NoHost))])

Without(s, h) == SelectSeq(s, LAMBDA e : e.id # h)

\* upsertProfile
Upserted(s, e) == IF e.id \in Ids(s) THEN [i \in DOMAIN s |-> IF s[i].id = e.id THEN e ELSE s[i]]
                  ELSE Append(s, e)

\* applyOrganizationPatch
Patched(s, all) == [i \in DOMAIN s |-> IF s[i].id \in Ids(all)
                                       THEN [s[i] EXCEPT !.group = Entry(all, s[i].id).group,
                                                         !.order = Entry(all, s[i].id).order]
                                       ELSE s[i]]

-----------------------------------------------------------------------------
(* What the user does.  A row that waits for an answer cannot be dragged or  *)
(* made a favourite.                                                         *)

HostAct == hostActs < MaxHostActs /\ hostActs' = hostActs + 1
Request(m) == hostsOut' = Append(hostsOut, m)

\* requestProfileMove
RequestProfileMove(move, confirmed) ==
    /\ move.id \in Ids(shown) \ busyHosts
    /\ busyHosts' = busyHosts \cup {move.id}
    /\ Request([move EXCEPT !.confirmed = confirmed])

\* The drop handler of the management list: the drag began on a card that is no
\* favourite, the slot is one of a group's section.
DropProfile(h, g, boundary) ==
    /\ HostAct /\ askMove = NoHost /\ editing = NoHost
    /\ h \in Ids(shown) /\ ~Entry(shown, h).fav
    /\ boundary \in 0 .. Len(Section(shown, g))
    /\ LET index == ResolveProfileDrop(shown, h, g, boundary) IN
       /\ index # NoOrder
       /\ RequestProfileMove([op |-> "move", id |-> h, from |-> Entry(shown, h).group, to |-> g,
                              index |-> index, confirmed |-> FALSE,
                              view |-> shown, meant |-> Meant(shown, h, g, boundary)], FALSE)
    /\ UNCHANGED <<kept, shown, askMove, editing, hostsIn, unseen, astray>>

\* toggleFavorite
ToggleFavorite(h) ==
    /\ HostAct /\ editing = NoHost
    /\ h \in Ids(shown) \ busyHosts
    /\ busyHosts' = busyHosts \cup {h}
    /\ Request([op |-> "favorite", id |-> h, fav |-> ~Entry(shown, h).fav])
    /\ UNCHANGED <<kept, shown, askMove, editing, hostsIn, unseen, astray>>

\* confirmPendingProfileMove, cancelPendingProfileMove
AnswerMoveConfirmation(yes) ==
    /\ askMove # NoHost
    /\ askMove' = NoHost
    /\ IF yes /\ askMove.id \in Ids(shown) \ busyHosts THEN RequestProfileMove(askMove, TRUE)
       ELSE UNCHANGED <<busyHosts, hostsOut>>
    /\ UNCHANGED <<kept, shown, editing, hostsIn, unseen, astray, hostActs>>

\* openEditor, also to duplicate; showManagementList by Cancel
OpenEditor(h) ==
    /\ editing = NoHost /\ askMove = NoHost
    /\ h = "new" \/ h \in Ids(shown)
    /\ editing' = h
    /\ UNCHANGED <<kept, shown, busyHosts, askMove, hostsOut, hostsIn, unseen, astray, hostActs>>

CancelEditor ==
    /\ editing # NoHost
    /\ editing' = NoHost
    /\ UNCHANGED <<kept, shown, busyHosts, askMove, hostsOut, hostsIn, unseen, astray, hostActs>>

\* saveFromEditor: the editor stays open until the answer.
SaveFromEditor(g) ==
    /\ HostAct
    /\ editing # NoHost
    /\ Request([op |-> "save", id |-> editing, group |-> g])
    /\ UNCHANGED <<kept, shown, busyHosts, askMove, editing, hostsIn, unseen, astray>>

\* deleteProfile, once the user agreed
DeleteProfile(h) ==
    /\ HostAct /\ editing = NoHost
    /\ h \in Ids(shown)
    /\ Request([op |-> "delete", id |-> h])
    /\ UNCHANGED <<kept, shown, busyHosts, askMove, editing, hostsIn, unseen, astray>>

\* openManagement loads the list anew.
OpenManagement ==
    /\ HostAct
    /\ editing' = NoHost
    /\ Request([op |-> "list"])
    /\ UNCHANGED <<kept, shown, busyHosts, askMove, hostsIn, unseen, astray>>

-----------------------------------------------------------------------------
(* The server's handlers, one at a time; each answers by an event, an       *)
(* acknowledgement or both, in this order.                                  *)

Serve(op) == /\ hostsOut # <<>>
             /\ Head(hostsOut).op = op
             /\ hostsOut' = Tail(hostsOut)
Answer(ms) == hostsIn' = hostsIn \o ms
Ack(op, id, ok, what) == [type |-> "ack", op |-> op, id |-> id, ok |-> ok, what |-> what,
                          ask |-> NoHost]

\* The organization in an answer to a move: a connection that has no place is
\* answered with place 0, and stays without one in the store.
Organization(s) == [i \in DOMAIN s |-> [s[i] EXCEPT !.order = IF @ = NoOrder THEN 0 ELSE @]]

\* handle_move_profile, move_profile
ServeMove ==
    /\ Serve("move")
    /\ LET m == Head(hostsOut)
           there == m.id \in Ids(kept)
           fresh == there /\ Entry(kept, m.id).group = m.from
           removes == m.from # Ungrouped /\ m.from # m.to /\ Len(Ordered(kept, m.from, NoHost)) = 1
           new == Placed(kept, m.id, m.to, m.index)
       IN
       /\ IF fresh /\ ~(removes /\ ~m.confirmed)
          THEN /\ kept' = new
               /\ astray' = (\/ astray
                             \/ /\ m.view = kept /\ Entry(kept, m.id).order # NoOrder
                                /\ Section(new, m.to) # m.meant)
               /\ Answer(<<Ack("move", m.id, TRUE, Organization(new))>>)
          ELSE /\ Answer(<<IF ~there THEN Ack("move", m.id, FALSE, <<>>)
                           ELSE IF fresh THEN [Ack("move", m.id, FALSE, <<>>) EXCEPT !.ask = m]
                           ELSE Ack("move", m.id, FALSE, Organization(kept))>>)
               /\ UNCHANGED <<kept, astray>>
    /\ UNCHANGED <<shown, busyHosts, askMove, editing, unseen, hostActs>>

\* handle_update_profile_organization
ServeFavorite ==
    /\ Serve("favorite")
    /\ LET m == Head(hostsOut) IN
       IF m.id \in Ids(kept)
       THEN LET e == [Entry(kept, m.id) EXCEPT !.fav = m.fav]
            IN kept' = Upserted(kept, e) /\ Answer(<<Ack("favorite", m.id, TRUE, e)>>)
       ELSE Answer(<<Ack("favorite", m.id, FALSE, <<>>)>>) /\ UNCHANGED kept
    /\ UNCHANGED <<shown, busyHosts, askMove, editing, unseen, astray, hostActs>>

\* handle_save_profile, upsert_profile: a new connection gets a new id.
ServeSave(fresh) ==
    /\ Serve("save")
    /\ LET m == Head(hostsOut)
           h == IF m.id = "new" THEN fresh ELSE m.id
       IN
       /\ m.id = "new" => fresh \notin Ids(kept) \cup Ids(shown)
       /\ IF m.id = "new" \/ h \in Ids(kept)
          THEN LET new == Saved(kept, h, m.group) IN
               /\ kept' = new
               /\ Answer(<<[type |-> "saved", what |-> Entry(new, h)], Ack("save", h, TRUE, Entry(new, h))>>)
          ELSE Answer(<<Ack("save", h, FALSE, <<>>)>>) /\ UNCHANGED kept
    /\ UNCHANGED <<shown, busyHosts, askMove, editing, unseen, astray, hostActs>>

\* handle_delete_profile
ServeDelete ==
    /\ Serve("delete")
    /\ kept' = Without(kept, Head(hostsOut).id)
    /\ IF Head(hostsOut).id \in Ids(kept) THEN Answer(<<[type |-> "deleted", id |-> Head(hostsOut).id]>>)
       ELSE UNCHANGED hostsIn
    /\ UNCHANGED <<shown, busyHosts, askMove, editing, unseen, astray, hostActs>>

\* handle_list_profiles
ServeList ==
    /\ Serve("list")
    /\ Answer(<<[type |-> "list", what |-> kept]>>)
    /\ unseen' = FALSE
    /\ UNCHANGED <<kept, shown, busyHosts, askMove, editing, astray, hostActs>>

-----------------------------------------------------------------------------
(* What the client does with the answers.                                   *)

Hear(type, op) == /\ hostsIn # <<>>
                  /\ Head(hostsIn).type = type
                  /\ type = "ack" => Head(hostsIn).op = op
                  /\ hostsIn' = Tail(hostsIn)

OnMoveAck ==
    /\ Hear("ack", "move")
    /\ LET m == Head(hostsIn) IN
       /\ busyHosts' = busyHosts \ {m.id}
       /\ shown' = Patched(shown, m.what)
       /\ askMove' = IF m.ask # NoHost THEN m.ask ELSE askMove
    /\ UNCHANGED <<kept, editing, hostsOut, unseen, astray, hostActs>>

OnFavoriteAck ==
    /\ Hear("ack", "favorite")
    /\ LET m == Head(hostsIn) IN
       /\ busyHosts' = busyHosts \ {m.id}
       /\ shown' = IF m.ok /\ m.id \in Ids(shown) THEN Upserted(shown, m.what) ELSE shown
    /\ UNCHANGED <<kept, askMove, editing, hostsOut, unseen, astray, hostActs>>

\* The saved connection moves to the end, and the editor closes, whatever it
\* is open for now.
OnSaveAck ==
    /\ Hear("ack", "save")
    /\ LET m == Head(hostsIn) IN
       IF m.ok THEN shown' = Append(Without(shown, m.id), m.what) /\ editing' = NoHost
       ELSE UNCHANGED <<shown, editing>>
    /\ UNCHANGED <<kept, busyHosts, askMove, hostsOut, unseen, astray, hostActs>>

\* The profile_saved handler: upsertProfile
OnSaved ==
    /\ Hear("saved", "")
    /\ shown' = Upserted(shown, Head(hostsIn).what)
    /\ UNCHANGED <<kept, busyHosts, askMove, editing, hostsOut, unseen, astray, hostActs>>

\* The profile_deleted handler: removeProfile
OnDeleted ==
    /\ Hear("deleted", "")
    /\ shown' = Without(shown, Head(hostsIn).id)
    /\ UNCHANGED <<kept, busyHosts, askMove, editing, hostsOut, unseen, astray, hostActs>>

\* setProfiles
OnProfilesList ==
    /\ Hear("list", "")
    /\ shown' = Head(hostsIn).what
    /\ UNCHANGED <<kept, busyHosts, askMove, editing, hostsOut, unseen, astray, hostActs>>

-----------------------------------------------------------------------------
\* Another browser of the user moves a connection.
OtherBrowserMoves(h, g, index) ==
    /\ HostAct
    /\ h \in Ids(kept)
    /\ g # Entry(kept, h).group
    /\ kept' = Placed(kept, h, g, index)
    /\ unseen' = TRUE
    /\ UNCHANGED <<shown, busyHosts, askMove, editing, hostsOut, hostsIn, astray>>

\* The socket drops and comes back: requests and answers under way are lost.
HostSocketDrops ==
    /\ HostAct
    /\ hostsOut # <<>> \/ hostsIn # <<>>
    /\ hostsOut' = <<>> /\ hostsIn' = <<>>
    /\ unseen' = TRUE
    /\ UNCHANGED <<kept, shown, busyHosts, askMove, editing, astray>>

HostInit(list) ==
    /\ kept = list /\ shown = list /\ busyHosts = {} /\ askMove = NoHost /\ editing = NoHost
    /\ hostsOut = <<>> /\ hostsIn = <<>>
    /\ unseen = FALSE /\ astray = FALSE /\ hostActs = 0

HostNext ==
    \/ \E h \in Hosts, g \in AllGroups, b \in 0 .. Cardinality(Hosts) : DropProfile(h, g, b)
    \/ \E h \in Hosts : ToggleFavorite(h) \/ DeleteProfile(h) \/ ServeSave(h)
    \/ \E yes \in BOOLEAN : AnswerMoveConfirmation(yes)
    \/ \E h \in Hosts \cup {"new"} : OpenEditor(h)
    \/ CancelEditor \/ OpenManagement
    \/ \E g \in AllGroups : SaveFromEditor(g)
    \/ ServeMove \/ ServeFavorite \/ ServeDelete \/ ServeList
    \/ OnMoveAck \/ OnFavoriteAck \/ OnSaveAck \/ OnSaved \/ OnDeleted \/ OnProfilesList
    \/ \E h \in Hosts, g \in AllGroups : OtherBrowserMoves(h, g, 0)
    \/ HostSocketDrops

-----------------------------------------------------------------------------
\* A connection that is dropped between two others of the list is there after
\* the move, favourites in between or not, when nothing overtook the move: the
\* index of resolveProfileDrop and the insertion of move_profile fit together.
\* They do not for an old connection without a place in a group where the
\* others have one, nor while the browser holds a place 0 the server does not:
\* the client orders such a group in another way than the server.
DropLandsWhereMeant == ~astray

\* The places the browser may hold for a connection: the server's, and 0 for one
\* without a place, once an answer to a move has named it (Organization).
PlacesShown(order) == {order} \cup (IF order = NoOrder THEN {0} ELSE {})

\* When every answer is in, the client's list has the server's connections, each
\* in its group, favourite or not as on the server, and with its place there:
\* acknowledgements, events and lists overlap, and each is applied in its own
\* way.  A connection without a place on the server may have got place 0, and
\* the browser then orders its group by the places where the server keeps the
\* order of the list.  Left out is what another browser did, or a lost
\* connection hid, until the next list.
ListsAgree == hostsOut = <<>> /\ hostsIn = <<>> /\ ~unseen =>
    /\ Ids(shown) = Ids(kept) /\ Len(shown) = Len(kept)
    /\ \A h \in Ids(kept) :
          LET mine == Entry(shown, h)
              theirs == Entry(kept, h)
          IN /\ mine.group = theirs.group /\ mine.fav = theirs.fav
             /\ mine.order \in PlacesShown(theirs.order)

\* What the list of saved connections promises: a drop lands where it was
\* dropped, and the lists of browser and server agree (profile-manager.js).
HostsInPlace == HostTypeOK /\ DropLandsWhereMeant /\ ListsAgree
=============================================================================
