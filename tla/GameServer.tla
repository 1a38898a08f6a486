----------------------------- MODULE GameServer -----------------------------
(***************************************************************************)
(* The life of games on the server (src/server/server.ts): the registry    *)
(* that class GameServer keeps, requests for a websocket that wait for the *)
(* database on their way to a Game object, who takes part in which game,   *)
(* expiry and deletion, snapshots at a shutdown and what a restart finds.  *)
(*                                                                         *)
(* A step is what the event loop runs without giving way: a handler up to  *)
(* its next await.  A query takes effect and returns in one step, or fails *)
(* in one.  An exception that nobody catches, in a handler or in an async  *)
(* function, ends the process (default.nix asks for the latest node), and  *)
(* the service is started again at once.                                   *)
(*                                                                         *)
(* What is said over the connections is in GameSync.  Here a game's state  *)
(* is its phase and its players, and a user is a number (their uid).       *)
(***************************************************************************)
EXTENDS Integers, SequencesExt, FiniteSetsExt, Functions

CONSTANTS
  Principals,    \* sessions
  Games,         \* game ids
  NULL,
  MaxGames,      \* options.max_games
  MaxConns,      \* bound on requests for a websocket
  MaxByes,       \* bound on connections that are told bye
  MaxTroubles    \* bound on shutdowns, crashes from outside and queries that fail

\* The values of a user map, of a game's state as far as this module sees it, and
\* of a snapshot under way.
UserMaps == UNION {[S -> Nat] : S \in SUBSET Principals}
States   == [phase : {"INIT", "DRAW"}, players : SUBSET Nat]
Snaps    == [stage : {"game", "users"}, obj : Nat, st : States, users : UserMaps]

ASSUME GameServerAssumption ==
  /\ NULL \notin Principals /\ NULL \notin Snaps /\ \A S \in SUBSET Games : S # NULL
  /\ MaxGames \in Nat \ {0} /\ MaxConns \in Nat
  /\ MaxByes \in Nat /\ MaxTroubles \in Nat

VARIABLES
  mem,         \* what the process has in memory
  rows,        \* table games: the state of each game, or NULL
  prtc,        \* table participation: for each game, uids by principal
  conns,       \* requests and the connections they become, in order
  begun,       \* ids that were given out
  stops, failures,
  torn         \* history: games that a step which failed left half saved or half deleted

vars == <<mem, rows, prtc, conns, begun, stops, failures, torn>>

\* Game objects are numbered as they are made, and games maps an id to the
\* number of its object, or 0; participation is NULL where the record has no
\* entry; deleting holds ids whose deletion waits for the database, and snaps
\* the snapshots under way.
Boot == [objects |-> <<>>, games |-> [g \in Games |-> 0],
         participation |-> [p \in Principals |-> NULL],
         deleting |-> {}, stopping |-> FALSE, snaps |-> [g \in Games |-> NULL]]

\* Users are a record from principals to their numbers; Merged has the entries of
\* both, and u's where they disagree.
NoUsers == [p \in {} |-> 0]
Merged(u, v) ==
  [p \in DOMAIN u \cup DOMAIN v |-> IF p \in DOMAIN u THEN u[p] ELSE v[p]]
Lobby == [phase |-> "INIT", players |-> {}]

\* The constructor of Game; next_uid starts at 0 whoever the users are.
Game(id, st, users) ==
  [id |-> id, zombie |-> FALSE, timer |-> TRUE, st |-> st, users |-> users,
   next_uid |-> 0, clients |-> <<>>]

Init ==
  /\ mem = Boot
  /\ rows = [g \in Games |-> NULL]
  /\ prtc = [g \in Games |-> NoUsers]
  /\ conns = <<>> /\ begun = {}
  /\ stops = 0 /\ failures = 0
  /\ torn = {}

-----------------------------------------------------------------------------
(* Steps on the memory: what a method leaves, or NULL if it throws *)

object(c) == mem.objects[conns[c].obj]

\* The end of the process takes all connections and requests with it.
Ended == [c \in DOMAIN conns |-> [conns[c] EXCEPT !.stage = "closed", !.bye = "no"]]
HalfSaved == {g \in Games : mem.snaps[g] # NULL /\ mem.snaps[g].stage = "users"}
Crashed == mem' = Boot /\ conns' = Ended /\ torn' = torn \cup HalfSaved

\* A handler came to m and cs, or it threw.
Runs(m, cs) ==
  IF m = NULL THEN Crashed ELSE mem' = m /\ conns' = cs /\ UNCHANGED torn

\* rm_player, when somebody parts from a game in the lobby.
Parted(o, c) ==
  LET p == conns[c].p
  IN  IF conns[c].greeted /\ o.st.phase = "INIT" /\ o.users[p] \in o.st.players
      THEN [o EXCEPT !.st.players = @ \ {o.users[p]}, !.timer = TRUE]
      ELSE o

\* clients.splice(clients.indexOf(victim), 1): for somebody who is not in the
\* list any more the index is -1, and the last one goes.
Spliced(clients, c) ==
  IF c \in Range(clients) THEN RemoveAt(clients, CHOOSE i \in DOMAIN clients : clients[i] = c)
  ELSE IF clients = <<>> THEN <<>> ELSE Front(clients)

\* Slip: the principal leaves the game with any of their clients.
Left_any(clients, p) == TRUE
\* Whether none of the clients is p's.
Left(clients, p) == \A d \in Range(clients) : conns[d].p # p

\* dispose; participation[sid].delete throws if there is no entry.
Dispose(m, n, c) ==
  LET p    == conns[c].p
      rest == Spliced(m.objects[n].clients, c)
      left == Left(rest, p)
  IN  IF left /\ m.participation[p] = NULL THEN NULL
      ELSE [m EXCEPT !.objects[n] = Parted([@ EXCEPT !.clients = rest], c),
                     !.participation[p] = IF left THEN @ \ {m.objects[n].id} ELSE @]

\* Slip: known is who takes part in this life of the server.
Known_here(m, o, p) == m.participation[p] # NULL /\ o.id \in m.participation[p] /\ p \in DOMAIN o.users
Known(m, o, p) == p \in DOMAIN o.users

Hello(m, n, p) ==
  LET o == m.objects[n]
      known == Known(m, o, p)
  IN  [m EXCEPT !.objects[n].users = IF known THEN @ ELSE Merged([q \in {p} |-> o.next_uid], @),
                !.objects[n].next_uid = IF known THEN @ ELSE @ + 1,
                !.participation[p] = (IF @ = NULL THEN {} ELSE @) \cup {o.id}]

\* Slip: the game is deleted although it is gone already, as it is when the timer
\* of a zombie goes off that a last departure had set again.
Delete_again(m, g) ==
  IF m.games[g] # 0 /\ m.objects[m.games[g]].clients # <<>> THEN m
  ELSE [m EXCEPT !.deleting = @ \cup {g}]
\* delete_game up to the query.
Delete(m, g) ==
  IF m.games[g] = 0 \/ m.objects[m.games[g]].clients # <<>> THEN m
  ELSE [m EXCEPT !.deleting = @ \cup {g}]

\* Dispose of all clients but the rest; the lobby's last words set the timer again.
Byes(m, n, rest) ==
  LET o       == m.objects[n]
      victims == Range(o.clients) \ Range(rest)
      parted  == {p \in {conns[c].p : c \in victims} : Left(rest, p)}
      seats   == IF o.st.phase # "INIT" THEN {}
                 ELSE o.st.players \cap {o.users[conns[c].p] : c \in {d \in victims : conns[d].greeted}}
  IN  IF \E p \in parted : m.participation[p] = NULL THEN NULL
      ELSE [m EXCEPT !.objects[n] = [o EXCEPT !.zombie = TRUE, !.timer = seats # {},
                                              !.clients = rest, !.st.players = @ \ seats],
                     !.participation = [p \in Principals |->
                       IF p \in parted THEN m.participation[p] \ {o.id} ELSE m.participation[p]]]

\* Slip: destroy iterates the list that dispose changes, and skips every other.
Destroy_skipping(m, n) ==
  LET cs == m.objects[n].clients IN Byes(m, n, [i \in 1..(Len(cs) \div 2) |-> cs[2 * i]])
\* destroy up to its callback: bye to the first client until there is none.
Destroy(m, n) == Byes(m, n, <<>>)

-----------------------------------------------------------------------------
(* Requests *)

\* begin_game; uuids do not come back.
BeginGame(g) ==
  /\ g \notin begun
  /\ begun' = begun \cup {g}
  /\ mem' = [mem EXCEPT !.objects = Append(@, Game(g, Lobby, NoUsers)),
                        !.games[g] = Len(mem.objects) + 1]
  /\ UNCHANGED <<rows, prtc, conns, stops, failures, torn>>

\* An upgrade request: fetch_game as far as it goes without the database.
Upgrade(p, g) ==
  /\ Len(conns) < MaxConns
  /\ g \in begun
  /\ conns' = Append(conns,
       [p |-> p, id |-> g, obj |-> mem.games[g], row |-> NULL, greeted |-> FALSE, heard |-> FALSE,
        bye |-> "no", stage |-> IF mem.games[g] # 0 THEN "session" ELSE "game"])
  /\ UNCHANGED <<mem, rows, prtc, begun, stops, failures, torn>>

\* A query may fail.
Fails == stops + failures < MaxTroubles /\ failures' = failures + 1

\* SELECT * FROM games: no row and no answer both end the request.
FetchRow(c) ==
  /\ conns[c].stage = "game"
  /\ \/ /\ conns' = [conns EXCEPT ![c].row = rows[conns[c].id],
                                  ![c].stage = IF rows[conns[c].id] = NULL THEN "closed" ELSE "users"]
        /\ UNCHANGED failures
     \/ Fails /\ conns' = [conns EXCEPT ![c].stage = "closed"]
  /\ UNCHANGED <<mem, rows, prtc, begun, stops, torn>>

\* Slip: what was true before the queries is not looked at again.
Present_before(m, id) == FALSE
\* Whether another request has made the object in the meantime.
Present(m, id) == m.games[id] # 0

\* SELECT * FROM participation, and the object if there is still none.  A
\* failure is not the null it is tested for, and reading its rows throws.
FetchUsers(c) ==
  LET g == conns[c].id IN
  /\ conns[c].stage = "users"
  /\ \/ /\ IF Present(mem, g)
           THEN /\ conns' = [conns EXCEPT ![c].stage = "session", ![c].obj = mem.games[g],
                                          ![c].row = NULL]
                /\ UNCHANGED mem
           ELSE /\ mem' = [mem EXCEPT !.objects = Append(@, Game(g, conns[c].row, prtc[g])),
                                      !.games[g] = Len(mem.objects) + 1]
                /\ conns' = [conns EXCEPT ![c].stage = "session", ![c].obj = Len(mem.objects) + 1,
                                          ![c].row = NULL]
        /\ UNCHANGED <<failures, torn>>
     \/ Fails /\ Crashed
  /\ UNCHANGED <<rows, prtc, begun, stops>>

\* Slip: the handlers are set up before the limit is looked at.
Kicked_heard(conn) == [conn EXCEPT !.stage = "open", !.heard = TRUE]
\* A client over the limit is told bye, and none of its events are heard.
Kicked(conn) == [conn EXCEPT !.stage = "open"]

\* Session.get, then Game.connect: a zombie does nothing with the socket.
Connect(c) ==
  LET p == conns[c].p
      n == conns[c].obj
      met == [mem EXCEPT !.objects[n].clients = Append(@, c)]
  IN
  /\ conns[c].stage = "session"
  /\ \/ /\ IF object(c).zombie
           THEN conns' = [conns EXCEPT ![c].stage = "open"] /\ UNCHANGED <<mem, torn>>
           ELSE IF mem.participation[p] # NULL /\ Cardinality(mem.participation[p]) >= MaxGames
           THEN Runs(Dispose(met, n, c), [conns EXCEPT ![c] = Kicked(@)])
           ELSE Runs(met, [conns EXCEPT ![c].stage = "open", ![c].heard = TRUE])
        /\ UNCHANGED failures
     \/ Fails /\ conns' = [conns EXCEPT ![c].stage = "closed"] /\ UNCHANGED <<mem, torn>>
  /\ UNCHANGED <<rows, prtc, begun, stops>>

-----------------------------------------------------------------------------
(* Connections *)

Heard(c) == conns[c].stage = "open" /\ conns[c].heard

HearHello(c) ==
  /\ Heard(c) /\ ~conns[c].greeted
  /\ mem' = Hello(mem, conns[c].obj, conns[c].p)
  /\ conns' = [conns EXCEPT ![c].greeted = TRUE]
  /\ UNCHANGED <<rows, prtc, begun, stops, failures, torn>>

\* update, for an intent that the engine accepts: add_player and start_game in the
\* lobby, and in a game that has begun a move, which may be the one that ends the
\* round and leads back to the lobby.  The expiry timer starts anew.
HearUpdate(c) ==
  LET n == conns[c].obj
      o == object(c)
      u == o.users[conns[c].p]
      Accepts(st) == mem' = [mem EXCEPT !.objects[n].st = st, !.objects[n].timer = TRUE]
  IN
  /\ Heard(c) /\ conns[c].greeted
  /\ \/ o.st.phase = "INIT" /\ u \notin o.st.players /\ Accepts([o.st EXCEPT !.players = @ \cup {u}])
     \/ o.st.phase = "INIT" /\ u \in o.st.players /\ Accepts([o.st EXCEPT !.phase = "DRAW"])
     \/ o.st.phase = "DRAW" /\ \E ph \in {"INIT", "DRAW"} : Accepts([o.st EXCEPT !.phase = ph])
  /\ UNCHANGED <<rows, prtc, conns, begun, stops, failures, torn>>

\* What dispose does to connection c once more if it was told bye already.
Told(cs, c) == [cs EXCEPT ![c].bye = IF @ = "no" THEN "told" ELSE "again"]

\* bye, for req:bye and for a message that does not decode (kick): the client is
\* disposed of at once, but its messages and its end are still heard.
Bye(c) ==
  /\ Heard(c) /\ conns[c].greeted
  /\ Cardinality({d \in DOMAIN conns : d = c \/ conns[d].bye # "no"}) <= MaxByes
  /\ Runs(Dispose(mem, conns[c].obj, c), Told(conns, c))
  /\ UNCHANGED <<rows, prtc, begun, stops, failures>>

\* A page is closed or loses its connection: dispose, if anybody listens.
Lose(c) ==
  LET closed == [conns EXCEPT ![c].stage = "closed"] IN
  /\ conns[c].stage = "open"
  /\ IF Heard(c) THEN Runs(Dispose(mem, conns[c].obj, c),
                          IF conns[c].bye = "no" THEN closed ELSE Told(closed, c))
     ELSE conns' = closed /\ UNCHANGED <<mem, torn>>
  /\ UNCHANGED <<rows, prtc, begun, stops, failures>>

\* A page says close() itself, on its own account or after a bye: the code is
\* DONE, and the client, if it is one, stays in the list.
CloseDone(c) ==
  /\ conns[c].stage = "open"
  /\ conns' = [conns EXCEPT ![c].stage = "closed"]
  /\ UNCHANGED <<mem, rows, prtc, begun, stops, failures, torn>>

-----------------------------------------------------------------------------
(* The end of a game *)

\* The expiry timer goes off.  No query takes as long as options.game_expiry: no
\* fetch of the game is under way that began before the object was there, nor
\* the deletion of an earlier expiry.
Expire(n) ==
  LET o == mem.objects[n]
      m == Destroy(mem, n)
  IN
  /\ o.timer /\ o.id \notin mem.deleting
  /\ \A c \in DOMAIN conns : conns[c].id = o.id => conns[c].stage \notin {"game", "users"}
  /\ Runs(IF m = NULL THEN NULL ELSE Delete(m, o.id), conns)
  /\ UNCHANGED <<rows, prtc, begun, stops, failures>>

\* delete_game after the query, which takes the participation along; users who
\* have not said hello since the restart have no entry, and that throws.
Deleted(g) ==
  LET users == DOMAIN mem.objects[mem.games[g]].users
      gone  == [mem EXCEPT !.deleting = @ \ {g}, !.games[g] = 0,
                           !.participation = [p \in Principals |->
                             IF p \in users THEN mem.participation[p] \ {g}
                             ELSE mem.participation[p]]]
  IN
  /\ g \in mem.deleting
  /\ \E failed \in {{}, {g}} :
       /\ IF failed = {}
          THEN /\ rows' = [rows EXCEPT ![g] = NULL] /\ prtc' = [prtc EXCEPT ![g] = NoUsers]
               /\ UNCHANGED failures
          ELSE Fails /\ UNCHANGED <<rows, prtc>>
       /\ IF \E p \in users : mem.participation[p] = NULL
          THEN mem' = Boot /\ conns' = Ended /\ torn' = torn \cup HalfSaved \cup failed
          ELSE mem' = gone /\ UNCHANGED conns /\ torn' = torn \cup failed
  /\ UNCHANGED <<begun, stops>>

-----------------------------------------------------------------------------
(* The end of the server *)

\* SIGTERM: every game begins its snapshot with the state of this moment, a game
\* whose deletion waits for the database as well.
Shutdown ==
  /\ ~mem.stopping /\ stops + failures < MaxTroubles
  /\ stops' = stops + 1
  /\ mem' = [mem EXCEPT !.stopping = TRUE,
                        !.snaps = [g \in Games |->
                          IF mem.games[g] = 0 THEN NULL
                          ELSE [stage |-> "game", obj |-> mem.games[g],
                                st |-> mem.objects[mem.games[g]].st, users |-> NoUsers]]]
  /\ UNCHANGED <<rows, prtc, conns, begun, failures, torn>>

\* Slip: only the users who are connected are written.
UserRows_connected(o) == Restrict(o.users, {conns[c].p : c \in Range(o.clients)} \cap DOMAIN o.users)
\* The users of the moment in which the first query has returned.
UserRows(o) == o.users

SnapshotGame(g) ==
  LET snap == mem.snaps[g]
      users == UserRows(mem.objects[snap.obj])
  IN
  /\ snap # NULL /\ snap.stage = "game"
  /\ \/ /\ rows' = [rows EXCEPT ![g] = snap.st]
        /\ mem' = IF DOMAIN users = {} THEN [mem EXCEPT !.snaps[g] = NULL]
                  ELSE [mem EXCEPT !.snaps[g].stage = "users", !.snaps[g].users = users]
        /\ UNCHANGED failures
     \/ Fails /\ mem' = [mem EXCEPT !.snaps[g] = NULL] /\ UNCHANGED rows
  /\ UNCHANGED <<prtc, conns, begun, stops, torn>>

\* ON CONFLICT DO NOTHING; and the rows refer to that of the game, so that the
\* query fails, and leaves nothing half done, if the game has been deleted since.
SnapshotUsers(g) ==
  LET snap == mem.snaps[g] IN
  /\ snap # NULL /\ snap.stage = "users"
  /\ mem' = [mem EXCEPT !.snaps[g] = NULL]
  /\ \/ /\ prtc' = [prtc EXCEPT ![g] = IF rows[g] = NULL THEN @ ELSE Merged(@, snap.users)]
        /\ UNCHANGED <<failures, torn>>
     \/ Fails /\ torn' = torn \cup {g} /\ UNCHANGED prtc
  /\ UNCHANGED <<rows, conns, begun, stops>>

\* process.exit once all snapshots are done or given up, and a new start.
Exit ==
  /\ mem.stopping /\ \A g \in Games : mem.snaps[g] = NULL
  /\ mem' = Boot /\ conns' = Ended
  /\ UNCHANGED <<rows, prtc, begun, stops, failures, torn>>

\* The process is killed.
Crash ==
  /\ stops + failures < MaxTroubles /\ stops' = stops + 1
  /\ Crashed
  /\ UNCHANGED <<rows, prtc, begun, failures>>

-----------------------------------------------------------------------------

Queries(c) == FetchRow(c) \/ FetchUsers(c) \/ Connect(c)
Clients(c) == HearHello(c) \/ HearUpdate(c) \/ Bye(c) \/ Lose(c) \/ CloseDone(c)
Snapshots(g) == SnapshotGame(g) \/ SnapshotUsers(g)

Next ==
  \/ \E g \in Games : BeginGame(g) \/ Deleted(g) \/ Snapshots(g)
  \/ \E p \in Principals, g \in Games : Upgrade(p, g)
  \/ \E c \in DOMAIN conns : Queries(c) \/ Clients(c)
  \/ \E n \in DOMAIN mem.objects : Expire(n)
  \/ Shutdown \/ Exit \/ Crash

Spec == Init /\ [][Next]_vars

\* What the event loop has to do by itself, without anybody who comes, says
\* something or leaves: answers of the database, timers and the exit.  While
\* some of it is due, some of it is done.
Due ==
  \/ \E g \in Games : Deleted(g) \/ Snapshots(g)
  \/ \E c \in DOMAIN conns : Queries(c)
  \/ \E n \in DOMAIN mem.objects : Expire(n)
  \/ Exit

FairSpec == Spec /\ WF_vars(Due)

-----------------------------------------------------------------------------
(* Properties *)

TypeOK ==
  /\ \A n \in DOMAIN mem.objects : LET o == mem.objects[n] IN
       /\ o.id \in begun /\ o.zombie \in BOOLEAN /\ o.timer \in BOOLEAN
       /\ DOMAIN o.users \subseteq Principals
       /\ Range(o.clients) \subseteq DOMAIN conns /\ IsInjective(o.clients)
  /\ \A g \in Games : mem.games[g] \in 0..Len(mem.objects)
  /\ \A p \in Principals : mem.participation[p] \in (SUBSET Games) \cup {NULL}
  /\ mem.deleting \subseteq {g \in Games : mem.games[g] # 0}

\* Games that a shutdown brings back: one that is deleted when its snapshot has
\* begun is in the table again, and whoever asks for it until the process ends
\* gets an object of its own beside the one the snapshot is of.
Risen == {g \in Games : mem.stopping /\ \E m, n \in DOMAIN mem.objects :
                         m # n /\ mem.objects[m].id = g /\ mem.objects[n].id = g}
\* Games of which neither that is said nor that all their queries went through.
Spoilt == torn \cup Risen

\* The clients of an object that dispose was run for twice; the second time it
\* takes somebody else off the list.
Twice(n) == {c \in DOMAIN conns : conns[c].obj = n /\ conns[c].bye = "again"}

\* Everybody who is connected to a game is connected to one and the same
\* object, the one that new connections get, although requests wait for the
\* database between looking for the object and using it, games are deleted
\* while requests are on their way to them, and a deletion waits as well
\* (fetch_game, connect, delete_game).
OneObject ==
  \A n \in DOMAIN mem.objects : LET o == mem.objects[n] IN
    o.clients # <<>> => o.id \in Spoilt \/ (mem.games[o.id] = n /\ ~o.zombie)

\* Whoever said hello to a game and has a client there takes part in it, with
\* however many tabs, and whoever takes part in a game has a client there or
\* was one when it came to its end (hello, dispose and delete_game keep this
\* record, connect counts it); whoever lost their place in the list to a client
\* that was disposed of twice may have lost the first, and keep the second.
ParticipationExact ==
  \A p \in Principals, g \in Games \ Spoilt :
    LET mine == {c \in DOMAIN conns : conns[c].p = p /\ conns[c].id = g /\ conns[c].obj \in DOMAIN mem.objects}
        client(c) == c \in Range(object(c).clients)
        takesPart == mem.participation[p] # NULL /\ g \in mem.participation[p]
    IN  /\ (\E c \in mine : client(c) /\ conns[c].greeted) => takesPart
        /\ takesPart => \E c \in mine : client(c) \/ (object(c).zombie /\ conns[c].greeted)
                                        \/ Twice(conns[c].obj) # {}

\* Every player of a game is a user of it, also after a restart and although a
\* snapshot is two queries and users come and go between them; unless the
\* second query failed or the process died before it.
PlayersKnown ==
  \A n \in DOMAIN mem.objects : LET o == mem.objects[n] IN
    o.id \in Spoilt \/ o.st.players \subseteq Range(o.users)

\* A principal is the same user for as long as the game goes on, in the object
\* and in what was saved of it, through restarts and crashes.
SameUser ==
  \A g \in Games \ Risen : mem.games[g] # 0 =>
    LET users == mem.objects[mem.games[g]].users IN
    \A p \in DOMAIN users \cap DOMAIN prtc[g] : users[p] = prtc[g][p]

\* No two principals are one user: next_uid (server.ts:113), "next user id to
\* allocate", is one that is free.
OwnUser == \A n \in DOMAIN mem.objects : IsInjective(mem.objects[n].users)

\* A hang-up ends no process: dispose is meant for clients that never said hello
\* as well, as its comment at server.ts:318 has it, "if no user was assigned yet,
\* there's no reason to broadcast a part".
HangUpHarmless == [][\A c \in DOMAIN conns : Lose(c) => mem' # Boot]_vars

\* A client leaves the list of a live game when its own connection ends or is
\* told bye, and for nobody else's sake; unless dispose has been run twice for a
\* client of that game, as it is for one that was told bye and then loses its
\* connection or says something more that is answered by a bye.
OthersStay ==
  [][\A n \in DOMAIN mem.objects :
       n \in DOMAIN mem'.objects /\ ~mem'.objects[n].zombie /\ Twice(n)' = {} =>
         \A c \in Range(mem.objects[n].clients) \ Range(mem'.objects[n].clients) :
           conns'[c].stage = "closed" \/ conns'[c].bye # "no"]_vars

\* The same without the exception: "remove the victim client" (server.ts:302).
VictimOnly ==
  [][\A n \in DOMAIN mem.objects :
       n \in DOMAIN mem'.objects /\ ~mem'.objects[n].zombie =>
         \A c \in Range(mem.objects[n].clients) \ Range(mem'.objects[n].clients) :
           conns'[c].stage = "closed" \/ conns'[c].bye # "no"]_vars

\* No game stays for ever in the memory of a server whose users have left it or
\* do nothing any more: the timer of every object, a restored one as well, comes
\* to a deletion that goes through.
Playing == \E c \in DOMAIN conns : HearUpdate(c)
GamesEnd == []<><<Playing>>_vars \/ \A g \in Games : []<>(mem.games[g] = 0)
=============================================================================
