------------------------------ MODULE GameSync ------------------------------
(***************************************************************************)
(* One game and the pages that show it: class GameClient of                *)
(* src/protocol/client.ts in every browser, and the handlers of class Game *)
(* of src/server/server.ts that answer it (hello, update, reset, dispose,  *)
(* broadcast, rename, destroy).  Table is the engine on both sides.        *)
(*                                                                         *)
(* A page talks to the server over one websocket at a time, an ordered     *)
(* channel each way.  A connection may break at any moment: what was on    *)
(* its way to the page is lost, the page connects anew, and the server     *)
(* learns of it later, after any part of what was on its way to it.        *)
(*                                                                         *)
(* A definition marked "Slip" is no part of the specification: it is what  *)
(* the definition after it would be under a plausible bug.                 *)
(***************************************************************************)
EXTENDS Table

CONSTANTS
  Pages,        \* browser tabs with the game in them
  UserOf,       \* whose tab it is
  Openings,     \* states of the engine the game may be found in
  Habits,       \* which of the optional things below the users do
  MaxAttempts,  \* bound on the requests of a page
  MaxEvents     \* bound on broken connections, pages left, new nicknames and expiry

ASSUME GameSyncAssumption ==
  /\ UserOf \in [Pages -> Users] /\ Openings \subseteq States
  /\ MaxAttempts \in Nat /\ MaxEvents \in Nat
ASSUME HabitsAssumption == Habits \subseteq {"undo", "stand up"}

VARIABLES
  server,      \* the Game object, and the wires out of it
  up,          \* what is on its way to the server on each connection
  page,        \* the GameClient of each page
  events,      \* how many of these have happened
  seen,        \* history: how many commits each page's copy includes, or NULL
  overtaken    \* history: pages with a prediction that something else overtook

vars == <<server, up, page, events, seen, overtaken>>

\* The connections of each page, numbered: one more than may break.
Conns == Pages \X (1..(MaxEvents + 1))
Who(c) == UserOf[c[1]]

\* server.users lists everybody seen; clients, greeted and synced are the
\* Client objects, those with a user and those with sync set.  down holds what
\* was sent, lost the connections whose page has gone, and committed counts
\* the updates broadcast (it is history, as is the number `at` in a message).
Server(st) ==
  [st |-> st, users |-> [i \in DOMAIN st.players |-> [id |-> st.players[i], nick |-> 0]],
   clients |-> <<>>, greeted |-> {}, synced |-> {}, zombie |-> FALSE,
   down |-> [c \in Conns |-> <<>>], lost |-> {}, committed |-> 0]

Page == [status |-> "pending-reset", sock |-> 0, conns |-> 0, state |-> NULL,
         users |-> <<>>, me |-> NULL, nick |-> 0, next_tx |-> 0, pending |-> {}]

Init ==
  /\ \E st \in Openings : server = Server(st)
  /\ up = [c \in Conns |-> <<>>]
  /\ page = [b \in Pages |-> Page]
  /\ events = 0
  /\ seen = [b \in Pages |-> NULL]
  /\ overtaken = {}

-----------------------------------------------------------------------------
(* class Game *)

\* Put msg on the wire to every connection in cs that still is one.
Send(s, cs, msg) ==
  [s EXCEPT !.down = [c \in Conns |-> IF c \in cs \ s.lost THEN Append(s.down[c], msg)
                                      ELSE s.down[c]]]

\* Slip: an update only goes to those at the table.
Audience_players(s) == {c \in s.synced : Who(c) \in Seated(s.st)}
\* Slip: everybody who has said hello is told, synced or not.
Audience_greeted(s) == s.greeted
Audience(s) == s.synced

\* Send an update to every synced client, and count it: cmds has what each is to
\* see of it, and tx is for the source, if there is one.
Publish(s, cmds, source, tx) ==
  LET at == s.committed + 1
      update(c) == [verb |-> "update", tx |-> IF c = source THEN tx ELSE NULL,
                    cmd |-> cmds[c], at |-> at]
      hears == Audience(s) \ s.lost
  IN  [s EXCEPT !.committed = at,
                !.down = [c \in Conns |-> IF c \in hears THEN Append(s.down[c], update(c))
                                          ELSE s.down[c]]]

\* The part of update() after larp committed the effect e.
Committed(s, source, tx, e) ==
  LET cmds == [c \in Conns |-> [kind |-> "engine", effect |-> EffectFor(e, Who(c))]]
      sent == Publish(s, cmds, source, tx)
  IN  [sent EXCEPT !.st = Commit(s.st, e)]

\* Slip: a reject says nothing.
Rejected_silent(s, source, tx) == s
Rejected(s, source, tx) ==
  IF source \in s.synced
  THEN Send(s, {source}, [verb |-> "reject", tx |-> tx])
  ELSE s

\* update: everything it may come to, as a start shuffles the seats.
Updated(s, source, tx, m) ==
  LET effects == Larp(s.st, m)
  IN  IF effects = {} THEN {Rejected(s, source, tx)}
      ELSE {Committed(s, source, tx, e) : e \in effects}

\* broadcast: the protocol action, then what translate makes of it.
Broadcast(s, source, verb, who) ==
  LET cmd  == [kind |-> "protocol", verb |-> verb, who |-> who]
      told == Publish(s, [c \in Conns |-> cmd], NULL, NULL)
      m == IF verb = "user:part" THEN Translate(s.st, who.id) ELSE NULL
  IN  IF m # NULL /\ Allowed(s.st, m) THEN Committed(told, source, NULL, m) ELSE told

Known(s, u) == \E i \in DOMAIN s.users : s.users[i].id = u
Renamed(users, u, nick) ==
  [i \in DOMAIN users |-> IF users[i].id = u THEN [users[i] EXCEPT !.nick = nick] ELSE users[i]]

\* Slip: those who come back are announced as if they were new.
Greeting_anew(s, c, who, known) == Broadcast(s, c, "user:join", who)
Greeting(s, c, who, known) ==
  Broadcast(s, c, IF known THEN "user:rejoin" ELSE "user:join", who)

Hello(s, c, nick) ==
  LET u     == Who(c)
      known == Known(s, u)
      who   == [id |-> u, nick |-> nick]
      met   == [s EXCEPT !.users = IF known THEN Renamed(s.users, u, nick)
                                   ELSE Append(s.users, who),
                         !.greeted = s.greeted \cup {c}]
  IN  Greeting(Send(met, {c}, [verb |-> "hello", you |-> who]), c, who, known)

\* reset: the state of this moment, and every update from here on.
Reset(s, c) ==
  [Send(s, {c},
        [verb |-> "reset", state |-> s.st, who |-> s.users, at |-> s.committed])
   EXCEPT !.synced = s.synced \cup {c}]

\* A client off the list, at its indexOf.
Spliced(clients, c) == RemoveAt(clients, CHOOSE i \in DOMAIN clients : clients[i] = c)

\* dispose: a connection that never said hello leaves without a word.
Dispose(s, c) ==
  LET rest == [s EXCEPT !.clients = Spliced(s.clients, c),
                        !.synced = s.synced \ {c}, !.greeted = s.greeted \ {c}]
  IN  IF c \in s.greeted THEN Broadcast(rest, c, "user:part", [id |-> Who(c), nick |-> 0])
      ELSE rest

\* bye: 'bye', then dispose.
Bye(s, c) == Dispose(Send(s, {c}, [verb |-> "bye"]), c)

\* destroy, up to its callback: bye to the first client until there is none.
Destroyed(s) ==
  LET left[n \in 0..Len(s.clients)] ==
        IF n = 0 THEN [s EXCEPT !.zombie = TRUE] ELSE Bye(left[n - 1], left[n - 1].clients[1])
  IN  left[Len(s.clients)]

-----------------------------------------------------------------------------
(* class GameClient *)

\* The connection of page b.
Sock(b) == <<b, page[b].sock>>
Connected(b) == page[b].sock # 0

\* Slip: every answer to a request is taken for the echo of a prediction.
Predicted_any(pg, tx) == \E p \in pg.pending : p.tx = tx
Predicted(pg, tx) == \E p \in pg.pending : p.tx = tx /\ p.predicted

Settled(pg, tx) == {p \in pg.pending : p.tx # tx}

\* The list of users after a protocol action.
UsersAfter(users, cmd) ==
  CASE cmd.verb = "user:join" -> Append(users, cmd.who)
    [] cmd.verb \in {"user:rejoin", "user:nick"} -> Renamed(users, cmd.who.id, cmd.who.nick)
    [] cmd.verb = "user:part" -> users

\* update: pg after an update; a copy that cannot apply it trips an assertion
\* and stays as it was, with the request pending.
PageUpdated(pg, b, m) ==
  IF Predicted(pg, m.tx) THEN [pg EXCEPT !.pending = Settled(pg, m.tx)]
  ELSE IF m.cmd.kind = "protocol"
  THEN [pg EXCEPT !.users = UsersAfter(pg.users, m.cmd),
                  !.nick = IF m.cmd.verb = "user:nick" /\ m.cmd.who.id = pg.me
                           THEN m.cmd.who.nick ELSE pg.nick]
  ELSE LET state == Apply(pg.state, m.cmd.effect, UserOf[b])
       IN  IF state = NULL THEN pg
           ELSE [pg EXCEPT !.state = state, !.pending = Settled(pg, m.tx)]

\* attempt: what m makes of pg, predicted or not.  An intent that the page
\* itself can tell is an error is not sent, and is no step here.
Attempted(pg, m) ==
  [pg EXCEPT !.state = IF m.kind \in Predictable THEN Commit(pg.state, m) ELSE pg.state,
             !.next_tx = pg.next_tx + 1,
             !.pending = pg.pending \cup
               {[tx |-> pg.next_tx, predicted |-> m.kind \in Predictable, conn |-> pg.sock]}]

Request(pg, m) == [verb |-> "req:update", tx |-> pg.next_tx, intent |-> m]

\* What the user interface offers to user u, given the page's copy; the door is
\* add_player or rm_player.
Offered(pg, u) ==
  {m \in {Call("start_game", u, NULL), Call("draw_card", u, NULL), Call("lead_play", u, Lead),
          Call("collect_trick", u, NULL), Call("add_player", u, NULL)}
         \cup {Call("follow_lead", u, play) : play \in Follows}
         \cup (IF "undo" \in Habits THEN {Call("undo_play", u, NULL)} ELSE {})
         \cup (IF "stand up" \in Habits THEN {Call("rm_player", u, NULL)} ELSE {}) :
     Allowed(pg.state, m)}

Attempt(b) ==
  /\ page[b].status = "sync" /\ Connected(b)
  /\ page[b].next_tx < MaxAttempts
  /\ \E m \in Offered(page[b], UserOf[b]) :
       /\ page' = [page EXCEPT ![b] = Attempted(page[b], m)]
       /\ up' = [up EXCEPT ![Sock(b)] = Append(up[Sock(b)], Request(page[b], m))]
  /\ UNCHANGED <<server, events, seen, overtaken>>

-----------------------------------------------------------------------------
(* The page's end of the connection *)

\* connect, onopen and Game.connect.
Connect(b) ==
  /\ ~Connected(b) /\ page[b].status = "pending-reset" /\ ~server.zombie
  /\ LET k == page[b].conns + 1
     IN  /\ page' = [page EXCEPT ![b].sock = k, ![b].conns = k]
         /\ server' = [server EXCEPT !.clients = Append(server.clients, <<b, k>>)]
         /\ up' = [up EXCEPT ![<<b, k>>] = <<[verb |-> "req:hello", nick |-> page[b].nick]>>]
  /\ UNCHANGED <<events, seen, overtaken>>

\* Slip: the copy outlives the connection.
Closed_keeping(pg) == [pg EXCEPT !.sock = 0, !.users = <<>>, !.me = NULL]

\* onclose.
Closed(pg) == [pg EXCEPT !.sock = 0, !.state = NULL, !.users = <<>>, !.me = NULL]

Forget(b) ==
  /\ seen' = [seen EXCEPT ![b] = NULL]
  /\ overtaken' = overtaken \ {b}

\* The connection breaks: the page tries again.
Break(b) ==
  /\ Connected(b)
  /\ events < MaxEvents /\ events' = events + 1
  /\ page' = [page EXCEPT ![b] = [Closed(page[b]) EXCEPT !.status = "pending-reset"]]
  /\ server' = [server EXCEPT !.lost = server.lost \cup {Sock(b)},
                              !.down[Sock(b)] = <<>>]
  /\ Forget(b)
  /\ UNCHANGED up

\* The page is left: close() with the code DONE, which the server takes for
\* its own and does not act on.
LeavePage(b) ==
  /\ Connected(b)
  /\ events < MaxEvents /\ events' = events + 1
  /\ page' = [page EXCEPT ![b] = [Closed(page[b]) EXCEPT !.status = "disconnect"]]
  /\ server' = [server EXCEPT !.lost = server.lost \cup {Sock(b)},
                              !.down[Sock(b)] = <<>>]
  /\ Forget(b)
  /\ UNCHANGED up

\* Whether a message on its way to a page changes its copy for something that
\* the page did not predict.
Foreign(m) ==
  /\ m.verb = "update" /\ m.cmd.kind = "engine"
  /\ m.tx = NULL \/ m.cmd.effect.kind \notin Predictable

\* History: a prediction is overtaken when the server commits something else
\* after the page made it and before the server hears of it.  What was
\* committed is then still on its way to the page, or it arrives while the
\* request is on its way to the server.  A game that has ended hears no more.
OvertakenInFlight(b) == \E i \in DOMAIN server.down[Sock(b)] : Foreign(server.down[Sock(b)][i])
OvertakenOnArrival(b) ==
  /\ Sock(b) \in Range(server.clients)
  /\ Foreign(Head(server.down[Sock(b)]))
  /\ \E i \in DOMAIN up[Sock(b)] : LET m == up[Sock(b)][i] IN
       m.verb = "req:update" /\ m.intent.kind \in Predictable

\* onmessage takes the next message m off the wire.
Takes(b, verb) ==
  /\ Connected(b) /\ server.down[Sock(b)] # <<>>
  /\ Head(server.down[Sock(b)]).verb = verb
  /\ server' = [server EXCEPT !.down[Sock(b)] = Tail(@)]
  /\ UNCHANGED events

PageHello(b) ==
  /\ Takes(b, "hello")
  /\ page' = [page EXCEPT ![b].me = Head(server.down[Sock(b)]).you.id]
  /\ up' = [up EXCEPT ![Sock(b)] = Append(up[Sock(b)], [verb |-> "req:reset"])]
  /\ UNCHANGED <<seen, overtaken>>

\* With Game.onReset, which takes a seat if there is one to take.
PageReset(b) ==
  /\ Takes(b, "reset")
  /\ LET m    == Head(server.down[Sock(b)])
         pg   == [page[b] EXCEPT !.state = m.state, !.users = m.who, !.status = "sync"]
         join == Call("add_player", UserOf[b], NULL)
     IN  /\ IF Allowed(m.state, join)
            THEN /\ page' = [page EXCEPT ![b] = Attempted(pg, join)]
                 /\ up' = [up EXCEPT ![Sock(b)] = Append(up[Sock(b)], Request(pg, join))]
            ELSE /\ page' = [page EXCEPT ![b] = pg]
                 /\ UNCHANGED up
         /\ seen' = [seen EXCEPT ![b] = m.at]
  /\ UNCHANGED overtaken

PageUpdate(b) ==
  /\ Takes(b, "update")
  /\ LET m == Head(server.down[Sock(b)])
     IN  /\ page' = [page EXCEPT ![b] = PageUpdated(page[b], b, m)]
         /\ seen' = [seen EXCEPT ![b] = m.at]
  /\ overtaken' = IF OvertakenOnArrival(b) THEN overtaken \cup {b} ELSE overtaken
  /\ UNCHANGED up

\* A reject takes nothing back.
PageReject(b) ==
  /\ Takes(b, "reject")
  /\ page' = [page EXCEPT ![b].pending = Settled(page[b], Head(server.down[Sock(b)]).tx)]
  /\ UNCHANGED <<up, seen, overtaken>>

\* 'bye': close() and onclose.
PageBye(b) ==
  /\ Takes(b, "bye")
  /\ page' = [page EXCEPT ![b] = [Closed(page[b]) EXCEPT !.status = "disconnect"]]
  /\ Forget(b)
  /\ UNCHANGED up

-----------------------------------------------------------------------------
(* The server's end of the connection *)

\* A client's message is handled as long as there is a client.
Hears(c, verb) ==
  /\ c \in Range(server.clients) /\ up[c] # <<>>
  /\ Head(up[c]).verb = verb
  /\ up' = [up EXCEPT ![c] = Tail(up[c])]
  /\ UNCHANGED <<page, events, seen>>

HearHello(c) ==
  /\ Hears(c, "req:hello")
  /\ server' = Hello(server, c, Head(up[c]).nick)
  /\ UNCHANGED overtaken

HearReset(c) ==
  /\ Hears(c, "req:reset")
  /\ server' = Reset(server, c)
  /\ UNCHANGED overtaken

HearUpdate(c) ==
  /\ Hears(c, "req:update")
  /\ LET m == Head(up[c])
     IN  /\ server' \in Updated(server, c, m.tx, m.intent)
         /\ overtaken' = IF /\ c = Sock(c[1]) /\ m.intent.kind \in Predictable
                            /\ OvertakenInFlight(c[1])
                         THEN overtaken \cup {c[1]} ELSE overtaken

\* The 'close' event, with whatever was left to hear.
HearClose(c) ==
  /\ c \in Range(server.clients) /\ c \in server.lost
  /\ page[c[1]].status # "disconnect" \/ page[c[1]].conns # c[2]
  /\ server' = Dispose(server, c)
  /\ up' = [up EXCEPT ![c] = <<>>]
  /\ UNCHANGED <<page, events, seen, overtaken>>

\* GameServer.rename and rename, for somebody who takes part.
Rename(u) ==
  /\ events < MaxEvents /\ events' = events + 1
  /\ \E c \in server.greeted : Who(c) = u
  /\ LET c   == CHOOSE d \in Range(server.clients) : Who(d) = u
         who == [id |-> u, nick |-> events + 1]
     IN  server' = Broadcast([server EXCEPT !.users = Renamed(server.users, u, events + 1)],
                             c, "user:nick", who)
  /\ UNCHANGED <<up, page, seen, overtaken>>

\* The game expires.  What its clients have yet to say would find a game with nobody left to tell.
Expire ==
  /\ ~server.zombie
  /\ events < MaxEvents /\ events' = events + 1
  /\ server' = Destroyed(server)
  /\ up' = [c \in Conns |-> <<>>]
  /\ UNCHANGED <<page, seen, overtaken>>

-----------------------------------------------------------------------------

PageHears(b) == PageHello(b) \/ PageReset(b) \/ PageUpdate(b) \/ PageReject(b) \/ PageBye(b)
ServerHears(c) == HearHello(c) \/ HearReset(c) \/ HearUpdate(c)

Next ==
  \/ \E b \in Pages : Connect(b) \/ Attempt(b) \/ Break(b) \/ LeavePage(b) \/ PageHears(b)
  \/ \E c \in Conns : ServerHears(c) \/ HearClose(c)
  \/ \E u \in Users : Rename(u)
  \/ Expire

Spec == Init /\ [][Next]_vars

\* What is on a wire arrives, and a page that lost its connection tries again.
FairSpec ==
  /\ Spec
  /\ \A b \in Pages : /\ WF_vars(PageHears(b) \/ Connect(b))
                      /\ WF_vars(\E c \in Conns : c[1] = b /\ ServerHears(c))

-----------------------------------------------------------------------------
(* Properties *)

\* The types of what the pages and the server hold, with the legal statuses of
\* client.ts:46-50 ("pending-update" is compared and never assigned).
TypeOK ==
  /\ server.synced \subseteq server.greeted /\ server.greeted \subseteq Range(server.clients)
  /\ Range(server.clients) \subseteq Conns /\ server.committed \in Nat
  /\ \A b \in Pages :
       /\ page[b].status \in {"pending-reset", "sync", "disconnect"}
       /\ page[b].sock \in 0..page[b].conns
       /\ page[b].state # NULL <=> page[b].status = "sync"
       /\ page[b].me \in {NULL, UserOf[b]}

\* What page b knows is up to date: it is synced, nothing is on its way to it,
\* and none of its own requests is on its way.
Quiet(b) ==
  /\ page[b].status = "sync" /\ server.down[Sock(b)] = <<>>
  /\ \A i \in DOMAIN up[Sock(b)] : up[Sock(b)][i].verb # "req:update"

\* An update or a reject reaches a page only after its reset: the assertions of
\* onmessage (client.ts:189 and 203) never fail, whatever was broadcast between
\* a page's hello and its reset.
NothingBeforeReset ==
  \A b \in Pages : Connected(b) => LET d == server.down[Sock(b)] IN
    d # <<>> /\ Head(d).verb \in {"update", "reject"} => page[b].status = "sync"

\* The diagram of src/protocol/engine.ts commutes wherever no prediction was
\* overtaken: once everything has arrived, a page shows the server's state.
SyncUnlessOvertaken ==
  \A b \in Pages \ overtaken : Quiet(b) => page[b].state = server.st

\* "sync: we are up to date" (client.ts:39), without the exception.
UpToDate == \A b \in Pages : Quiet(b) => page[b].state = server.st

\* The list of users a page keeps is the server's, names included, although it
\* is sent once and changed by announcements since.
UsersAgree == \A b \in Pages : Quiet(b) => page[b].users = server.users

\* A request that is pending on the present connection is on its way, or its
\* one answer is, unless the game is saying bye; what else is pending was lost
\* with an earlier connection.
RequestsAnswered ==
  \A b \in Pages \ overtaken : page[b].status = "sync" =>
    \A p \in page[b].pending : p.conn = page[b].sock =>
      \/ \E i \in DOMAIN up[Sock(b)] :
           up[Sock(b)][i].verb = "req:update" /\ up[Sock(b)][i].tx = p.tx
      \/ \E i \in DOMAIN server.down[Sock(b)] : LET m == server.down[Sock(b)][i] IN
           m.verb = "bye" \/ (m.verb \in {"update", "reject"} /\ m.tx = p.tx)

\* Only in the lobby, and by an undo, can a prediction be overtaken: leads,
\* follows, collected tricks and draws go by turns, and turns keep predictions
\* right however slow the wires are.  The one exception is a user's own request
\* that was heard on a connection they had lost.
TurnsKeepPredictions ==
  [][\A b \in overtaken' \ overtaken : \E i \in DOMAIN server.down[Sock(b)] :
       LET m == server.down[Sock(b)][i]
       IN  /\ Foreign(m)
           /\ \/ m.cmd.effect.kind \in
                   {"add_player", "rm_player", "init_game", "observe_undo"}
              \/ m.cmd.effect.p = UserOf[b]]_vars

\* The protocol as the server and the pages run it gives every page the one
\* history, entry by entry, and under fairness all of it.
History == INSTANCE OneHistory WITH Readers <- Pages, committed <- server.committed
OneHistorySpec == History!Spec
=============================================================================
