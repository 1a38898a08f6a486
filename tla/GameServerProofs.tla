-------------------------- MODULE GameServerProofs --------------------------
(***************************************************************************)
(* Proofs about the life of games on the server, for any sessions, games,  *)
(* connections, shutdowns and failures.                                    *)
(***************************************************************************)
EXTENDS GameServer, SequenceTheorems, TLAPS

-----------------------------------------------------------------------------
(* Types *)

Objects  == [id : Games, zombie : BOOLEAN, timer : BOOLEAN, st : States, users : UserMaps,
             next_uid : Nat, clients : Seq(Nat)]
Mems     == [objects : Seq(Objects), games : [Games -> Nat],
             participation : [Principals -> (SUBSET Games) \cup {NULL}],
             deleting : SUBSET Games, stopping : BOOLEAN, snaps : [Games -> Snaps \cup {NULL}]]
Waiting  == {"game", "users", "session"}
Conns    == [p : Principals, id : Games, obj : Nat, row : States \cup {NULL},
             greeted : BOOLEAN, heard : BOOLEAN, bye : {"no", "told", "again"},
             stage : Waiting \cup {"open", "closed"}]

-----------------------------------------------------------------------------
(* Users of a game *)

Within(u, v) == DOMAIN u \subseteq DOMAIN v /\ \A p \in DOMAIN u : u[p] = v[p]

LEMMA UserMap ==
  ASSUME NEW u \in UserMaps
  PROVE  DOMAIN u \subseteq Principals /\ u \in [DOMAIN u -> Nat] /\ Range(u) \subseteq Nat
<1>1. PICK S \in SUBSET Principals : u \in [S -> Nat]
  BY DEF UserMaps
<1> QED
  BY <1>1 DEF Range

LEMMA NoUsersMap == NoUsers \in UserMaps /\ DOMAIN NoUsers = {} /\ Range(NoUsers) = {}
<1>1. NoUsers \in [{} -> Nat]
  BY DEF NoUsers
<1> QED
  BY <1>1 DEF UserMaps, NoUsers, Range

\* What becomes of two records of users.
LEMMA Joined ==
  ASSUME NEW u \in UserMaps, NEW v \in UserMaps
  PROVE  /\ Merged(u, v) \in UserMaps
         /\ DOMAIN Merged(u, v) = DOMAIN u \cup DOMAIN v
         /\ Within(u, Merged(u, v))
         /\ \A p \in DOMAIN v \ DOMAIN u : Merged(u, v)[p] = v[p]
<1>1. u \in [DOMAIN u -> Nat] /\ v \in [DOMAIN v -> Nat] /\ DOMAIN u \cup DOMAIN v \subseteq Principals
  BY UserMap
<1>2. Merged(u, v) \in [DOMAIN u \cup DOMAIN v -> Nat]
  BY <1>1 DEF Merged
<1> QED
  BY <1>1, <1>2 DEF UserMaps, Merged, Within

LEMMA Newcomer ==
  ASSUME NEW u \in UserMaps, NEW p \in Principals, NEW k \in Nat, p \notin DOMAIN u
  PROVE  LET v == Merged([q \in {p} |-> k], u)
         IN  v \in UserMaps /\ DOMAIN v = DOMAIN u \cup {p} /\ Within(u, v)
<1> DEFINE new == [q \in {p} |-> k]
<1>1. new \in [{p} -> Nat] /\ DOMAIN new = {p}
  OBVIOUS
<1>2. new \in UserMaps
  BY <1>1 DEF UserMaps
<1> HIDE DEF new
<1>3. /\ Merged(new, u) \in UserMaps /\ DOMAIN Merged(new, u) = DOMAIN u \cup {p}
      /\ \A q \in DOMAIN u : Merged(new, u)[q] = u[q]
  BY <1>1, <1>2, Joined
<1> QED
  BY <1>3 DEF Within, new

LEMMA WithinRange ==
  ASSUME NEW u \in UserMaps, NEW v \in UserMaps, Within(u, v)
  PROVE  Range(u) \subseteq Range(v)
BY DEF Within, Range

-----------------------------------------------------------------------------
(* Lists of clients *)

LEMMA ShortenedBy ==
  ASSUME NEW s \in Seq(Nat), NEW i \in DOMAIN s
  PROVE  /\ RemoveAt(s, i) \in Seq(Nat)
         /\ Range(RemoveAt(s, i)) \subseteq Range(s)
         /\ \A x \in Range(s) : x # s[i] => x \in Range(RemoveAt(s, i))
         /\ IsInjective(s) => IsInjective(RemoveAt(s, i))
<1> DEFINE r == RemoveAt(s, i)
           a == SubSeq(s, 1, i - 1)
           b == SubSeq(s, i + 1, Len(s))
<1>1. Len(s) \in Nat /\ i \in 1..Len(s) /\ DOMAIN s = 1..Len(s)
  OBVIOUS
<1>2. a \in Seq(Nat) /\ Len(a) = i - 1 /\ \A j \in 1..(i - 1) : a[j] = s[j]
  BY <1>1
<1>3. b \in Seq(Nat) /\ Len(b) = Len(s) - i /\ \A j \in 1..(Len(s) - i) : b[j] = s[i + j]
  <2>1. b \in Seq(Nat) /\ Len(b) = (IF i + 1 <= Len(s) THEN Len(s) - (i + 1) + 1 ELSE 0)
    BY <1>1, SubSeqProperties
  <2>2. Len(b) = Len(s) - i
    BY <1>1, <2>1
  <2>3. ASSUME NEW j \in 1..(Len(s) - i) PROVE b[j] = s[i + j]
    BY <1>1, <2>2, SubSeqProperties
  <2> QED BY <2>1, <2>2, <2>3
<1>4. r = a \o b
  BY DEF RemoveAt
<1> HIDE DEF r, a, b
<1>5. /\ r \in Seq(Nat) /\ Len(r) = Len(s) - 1
      /\ \A j \in 1..(Len(s) - 1) : r[j] = IF j <= i - 1 THEN a[j] ELSE b[j - (i - 1)]
  <2>1. /\ a \o b \in Seq(Nat) /\ Len(a \o b) = Len(a) + Len(b)
        /\ \A j \in 1..(Len(a) + Len(b)) :
             (a \o b)[j] = IF j <= Len(a) THEN a[j] ELSE b[j - Len(a)]
    BY <1>2, <1>3, ConcatProperties
  <2>2. Len(a) + Len(b) = Len(s) - 1
    BY <1>1, <1>2, <1>3
  <2> QED BY <1>2, <1>4, <2>1, <2>2
<1>6. \A j \in 1..(Len(s) - 1) : r[j] = IF j < i THEN s[j] ELSE s[j + 1]
  <2> SUFFICES ASSUME NEW j \in 1..(Len(s) - 1) PROVE r[j] = IF j < i THEN s[j] ELSE s[j + 1]
    OBVIOUS
  <2>1. CASE j < i
    BY <2>1, <1>1, <1>2, <1>5
  <2>2. CASE ~(j < i)
    <3>1. j - (i - 1) \in 1..(Len(s) - i) /\ i + (j - (i - 1)) = j + 1
      BY <2>2, <1>1
    <3>2. r[j] = b[j - (i - 1)]
      BY <2>2, <1>1, <1>5
    <3> QED BY <2>2, <3>1, <3>2, <1>2, <1>3
  <2> QED BY <2>1, <2>2
<1>7. DOMAIN r = 1..(Len(s) - 1)
  BY <1>5
<1>8. Range(r) \subseteq Range(s)
  <2> SUFFICES ASSUME NEW j \in 1..(Len(s) - 1) PROVE r[j] \in Range(s)
    BY <1>7 DEF Range
  <2>1. (j < i => j \in DOMAIN s) /\ j + 1 \in DOMAIN s
    BY <1>1
  <2> QED BY <2>1, <1>6 DEF Range
<1>9. ASSUME NEW x \in Range(s), x # s[i]
      PROVE  x \in Range(r)
  <2>1. PICK k \in 1..Len(s) : s[k] = x
    BY <1>1 DEF Range
  <2>2. CASE k < i
    <3>1. k \in 1..(Len(s) - 1) /\ r[k] = x
      BY <1>1, <1>6, <2>1, <2>2
    <3> QED BY <3>1, <1>7 DEF Range
  <2>3. CASE ~(k < i)
    <3>1. k # i
      BY <1>9, <2>1
    <3>2. (k - 1) \in 1..(Len(s) - 1) /\ ~(k - 1 < i) /\ (k - 1) + 1 = k
      BY <1>1, <2>1, <2>3, <3>1
    <3>3. r[k - 1] = x
      BY <1>6, <2>1, <3>2
    <3> QED BY <3>2, <3>3, <1>7 DEF Range
  <2> QED BY <2>2, <2>3
<1>10. ASSUME IsInjective(s)
       PROVE  IsInjective(r)
  <2> SUFFICES ASSUME NEW j \in 1..(Len(s) - 1), NEW k \in 1..(Len(s) - 1), r[j] = r[k]
               PROVE  j = k
    BY <1>7 DEF IsInjective
  <2> DEFINE at(m) == IF m < i THEN m ELSE m + 1
  <2>1. at(j) \in DOMAIN s /\ at(k) \in DOMAIN s /\ s[at(j)] = r[j] /\ s[at(k)] = r[k]
    BY <1>1, <1>6
  <2>2. at(j) = at(k)
    BY <2>1, <1>10 DEF IsInjective
  <2> QED BY <2>2, <1>1
<1> QED
  BY <1>5, <1>8, <1>9, <1>10 DEF r

LEMMA SplicedList ==
  ASSUME NEW s \in Seq(Nat), NEW c
  PROVE  /\ Spliced(s, c) \in Seq(Nat)
         /\ Range(Spliced(s, c)) \subseteq Range(s)
         /\ c \in Range(s) => Range(s) \ {c} \subseteq Range(Spliced(s, c))
         /\ IsInjective(s) => IsInjective(Spliced(s, c))
<1>1. CASE c \in Range(s)
  <2> DEFINE i == CHOOSE i \in DOMAIN s : s[i] = c
  <2>1. i \in DOMAIN s /\ s[i] = c
    BY <1>1 DEF Range
  <2>2. Spliced(s, c) = RemoveAt(s, i)
    BY <1>1 DEF Spliced
  <2> HIDE DEF i
  <2> QED BY <2>1, <2>2, ShortenedBy
<1>2. CASE c \notin Range(s) /\ s = <<>>
  BY <1>2 DEF Spliced, Range, IsInjective
<1>3. CASE c \notin Range(s) /\ s # <<>>
  <2>1. Spliced(s, c) = SubSeq(s, 1, Len(s) - 1) /\ Len(s) \in Nat \ {0}
    BY <1>3 DEF Spliced, Front
  <2>2. /\ Spliced(s, c) \in Seq(Nat) /\ DOMAIN Spliced(s, c) = 1..(Len(s) - 1)
        /\ \A j \in 1..(Len(s) - 1) : j \in DOMAIN s /\ Spliced(s, c)[j] = s[j]
    BY <2>1
  <2> QED BY <1>3, <2>2 DEF Range, IsInjective
<1> QED
  BY <1>1, <1>2, <1>3

-----------------------------------------------------------------------------
(* The invariant *)

Typed ==
  /\ mem \in Mems
  /\ rows \in [Games -> States \cup {NULL}] /\ prtc \in [Games -> UserMaps]
  /\ conns \in Seq(Conns)
  /\ begun \in SUBSET Games /\ torn \in SUBSET Games

\* The registry finds an object of the game it is asked for.
Registry ==
  /\ \A n \in DOMAIN mem.objects : mem.objects[n].id \in begun
  /\ \A g \in Games : mem.games[g] # 0 =>
       mem.games[g] \in DOMAIN mem.objects /\ mem.objects[mem.games[g]].id = g
  /\ \A g \in mem.deleting : mem.games[g] # 0

NoRequest(g, stages) == \A c \in DOMAIN conns : conns[c].id = g => conns[c].stage \notin stages

\* A game whose deletion is under way, and one that is deleted: nobody is on
\* the way to making an object of it, unless a snapshot brings it back.
Leaving(g, n) == mem.games[g] = n /\ g \in mem.deleting /\ NoRequest(g, {"game", "users"})
Gone(g) == mem.games[g] = 0 /\ (mem.stopping \/ (rows[g] = NULL /\ NoRequest(g, {"users"})))

\* A game that a server which is going down has had in memory.
Closing(g) == mem.stopping /\ \E n \in DOMAIN mem.objects : mem.objects[n].id = g

\* Of the objects made for a game, all but the registered one are zombies.
Lives ==
  /\ \A n \in DOMAIN mem.objects : LET o == mem.objects[n] IN
       /\ o.zombie => o.clients = <<>>
       /\ ~o.zombie /\ o.id \notin Spoilt => mem.games[o.id] = n
       /\ o.zombie /\ o.id \notin Spoilt => Leaving(o.id, n) \/ Gone(o.id)
  /\ \A g \in mem.deleting \ Spoilt : mem.objects[mem.games[g]].zombie

Lists ==
  \A n \in DOMAIN mem.objects :
    /\ IsInjective(mem.objects[n].clients)
    /\ \A c \in Range(mem.objects[n].clients) :
         c \in DOMAIN conns /\ conns[c].stage \in {"open", "closed"}

Connections ==
  \A c \in DOMAIN conns : LET k == conns[c] IN
    /\ k.id \in begun
    /\ k.stage \in {"session", "open"} =>
         k.obj \in DOMAIN mem.objects /\ mem.objects[k.obj].id = k.id
    /\ k.stage = "users" => k.row # NULL
    /\ k.stage \in Waiting => ~k.greeted /\ ~k.heard /\ k.bye = "no"
    /\ k.stage = "open" /\ k.greeted => k.p \in DOMAIN mem.objects[k.obj].users
    /\ k.stage = "open" /\ k.heard /\ ~mem.objects[k.obj].zombie =>
         c \in Range(mem.objects[k.obj].clients) \/ k.bye # "no" \/ Twice(k.obj) # {}

\* A snapshot under way is of an object of the game, the registered one as long
\* as the game is not deleted.
Saving ==
  \A g \in Games : mem.snaps[g] # NULL => LET snap == mem.snaps[g] IN
    /\ mem.stopping /\ snap.obj \in DOMAIN mem.objects /\ mem.objects[snap.obj].id = g
    /\ Within(prtc[g], mem.objects[snap.obj].users)
    /\ g \notin torn => snap.st.players \subseteq Range(mem.objects[snap.obj].users)
    /\ snap.stage = "users" =>
         /\ rows[g] \in {snap.st, NULL}
         /\ Within(snap.users, mem.objects[snap.obj].users)
         /\ g \notin torn => snap.st.players \subseteq Range(snap.users)

\* The users of a live game are those in the table and more.
Users ==
  \A g \in Games :
    /\ g \notin begun => DOMAIN prtc[g] = {}
    /\ mem.games[g] # 0 /\ g \notin Risen => Within(prtc[g], mem.objects[mem.games[g]].users)

Half(g) == mem.snaps[g] # NULL /\ mem.snaps[g].stage = "users"

\* Whatever a game can be restored from has its players among its users.
Restorable ==
  /\ \A g \in Games \ torn :
       rows[g] # NULL /\ ~Half(g) => rows[g].players \subseteq Range(prtc[g])
  /\ \A c \in DOMAIN conns : LET k == conns[c] IN
       k.stage = "users" /\ k.id \notin torn /\ mem.games[k.id] = 0 /\ ~Closing(k.id) =>
         k.row.players \subseteq Range(prtc[k.id])

Inv ==
  /\ Typed /\ Registry /\ Lives /\ Lists /\ Connections /\ Saving /\ Users /\ Restorable
  /\ PlayersKnown

\* Fields of typed records.
LEMMA Fields ==
  ASSUME Typed
  PROVE  /\ mem.objects \in Seq(Objects) /\ mem.games \in [Games -> Nat]
         /\ mem.participation \in [Principals -> (SUBSET Games) \cup {NULL}]
         /\ mem.deleting \in SUBSET Games /\ mem.stopping \in BOOLEAN
         /\ mem.snaps \in [Games -> Snaps \cup {NULL}]
         /\ \A n \in DOMAIN mem.objects : mem.objects[n] \in Objects /\ n \in Nat \ {0}
         /\ \A c \in DOMAIN conns : conns[c] \in Conns /\ c \in Nat
BY DEF Typed, Mems

LEMMA ClosedConn ==
  ASSUME NEW k \in Conns
  PROVE  LET x == [k EXCEPT !.stage = "closed"] IN
         /\ x \in Conns /\ x.stage = "closed" /\ x.id = k.id /\ x.p = k.p /\ x.obj = k.obj
         /\ x.bye = k.bye
BY DEF Conns

\* What is spoilt stays so while the objects stay what they are of.
LEMMA StillSpoilt ==
  ASSUME DOMAIN mem'.objects = DOMAIN mem.objects, mem'.stopping = mem.stopping,
         \A n \in DOMAIN mem.objects : mem'.objects[n].id = mem.objects[n].id
  PROVE  /\ Risen' = Risen /\ (torn' = torn => Spoilt' = Spoilt)
         /\ (torn \subseteq torn' => Spoilt \subseteq Spoilt')
         /\ \A g : Closing(g)' <=> Closing(g)
<1>1. \A g \in Games : g \in Risen' <=> g \in Risen
  BY DEF Risen
<1>2. Risen' = Risen
  BY <1>1 DEF Risen
<1> QED
  BY <1>2 DEF Spoilt, Closing

\* Outside a shutdown no game is brought back.
LEMMA RisenAtTheEnd ==
  /\ ~mem.stopping => Risen = {} /\ Spoilt = torn
  /\ \A g \in Risen : Closing(g)
BY DEF Risen, Spoilt, Closing

-----------------------------------------------------------------------------
(* A new start *)

LEMMA Rebooted ==
  ASSUME Inv, mem' = Boot, conns' = Ended, begun' = begun,
         torn' \in SUBSET Games, rows' \in [Games -> States \cup {NULL}],
         prtc' \in [Games -> UserMaps],
         \A g \in Games : g \notin begun => DOMAIN prtc'[g] = {},
         \A g \in Games \ torn' : rows'[g] # NULL => rows'[g].players \subseteq Range(prtc'[g])
  PROVE  Inv'
<1>1. Typed
  BY DEF Inv
<1>2. /\ mem'.objects = <<>> /\ mem'.games = [g \in Games |-> 0]
      /\ mem'.deleting = {} /\ mem'.stopping = FALSE
      /\ mem'.snaps = [g \in Games |-> NULL]
      /\ mem' \in Mems
  BY DEF Boot, Mems
<1>3. /\ conns' \in Seq(Conns) /\ DOMAIN conns' = DOMAIN conns
      /\ \A c \in DOMAIN conns : conns'[c].stage = "closed" /\ conns'[c].id = conns[c].id
  <2> DEFINE x(c) == [conns[c] EXCEPT !.stage = "closed", !.bye = "no"]
  <2>1. ASSUME NEW c \in DOMAIN conns
        PROVE  x(c) \in Conns /\ x(c).stage = "closed" /\ x(c).id = conns[c].id
    BY <1>1, Fields DEF Conns
  <2>4. conns' = [c \in DOMAIN conns |-> x(c)]
    BY Zenon DEF Ended
  <2> HIDE DEF x
  <2>2. Len(conns) \in Nat /\ DOMAIN conns = 1..Len(conns)
    BY <1>1 DEF Typed
  <2>3. conns' \in [1..Len(conns) -> Conns]
    BY <2>1, <2>2, <2>4
  <2>5. conns' \in Seq(Conns)
    BY <2>2, <2>3
  <2> QED BY <2>1, <2>4, <2>5
<1>4. DOMAIN mem'.objects = {}
  BY <1>2
<1>5. Typed'
  BY <1>1, <1>2, <1>3 DEF Typed
<1>6. (Registry /\ Lives /\ Lists /\ PlayersKnown)'
  BY <1>2, <1>4 DEF Registry, Lives, Lists, PlayersKnown
<1>7. (Connections /\ Saving)'
  BY <1>2, <1>3 DEF Inv, Connections, Saving, Waiting
<1>8. Users'
  BY <1>2 DEF Users
<1>9. Restorable'
  BY <1>3 DEF Restorable
<1> QED
  BY <1>5, <1>6, <1>7, <1>8, <1>9 DEF Inv

LEMMA CrashedStep ==
  ASSUME Inv, Crashed, UNCHANGED <<rows, prtc, begun>>
  PROVE  Inv'
<1>1. torn' \in SUBSET Games /\ \A g \in Games \ torn' : g \notin torn /\ ~Half(g)
  BY DEF Inv, Typed, Crashed, HalfSaved, Half
<1> QED
  BY <1>1, Rebooted DEF Inv, Typed, Users, Restorable, Crashed

-----------------------------------------------------------------------------
(* Steps on one connection *)

LEMMA Closes ==
  ASSUME Inv, NEW c \in DOMAIN conns, conns' = [conns EXCEPT ![c].stage = "closed"],
         UNCHANGED <<mem, rows, prtc, begun, torn>>
  PROVE  Inv'
<1>1. Typed
  BY DEF Inv
<1>2. conns' \in Seq(Conns) /\ DOMAIN conns' = DOMAIN conns
  <2>1. [conns[c] EXCEPT !.stage = "closed"] \in Conns
    BY <1>1, Fields, ClosedConn
  <2> QED BY <2>1, <1>1 DEF Typed
<1>3. /\ conns'[c].stage = "closed" /\ conns'[c].id = conns[c].id
      /\ conns'[c].obj = conns[c].obj /\ conns'[c].bye = conns[c].bye
      /\ \A d \in DOMAIN conns : d # c => conns'[d] = conns[d]
  BY <1>1, Fields DEF Conns
<1>4. /\ \A d \in DOMAIN conns : conns'[d].id = conns[d].id
      /\ \A d \in DOMAIN conns : conns'[d].obj = conns[d].obj /\ conns'[d].bye = conns[d].bye
  BY <1>3
<1>11. Spoilt' = Spoilt /\ Risen' = Risen /\ (\A g : Closing(g)' <=> Closing(g))
  BY StillSpoilt
<1>5. Typed' /\ Registry'
  BY <1>2 DEF Inv, Typed, Registry
<1>6. Lives'
  <2>1. \A g, S : NoRequest(g, S) /\ "closed" \notin S => NoRequest(g, S)'
    BY <1>2, <1>3, <1>4 DEF NoRequest
  <2>2. \A g \in Games : Gone(g) => Gone(g)'
    BY <2>1 DEF Gone
  <2>3. \A g \in Games, n \in DOMAIN mem.objects : Leaving(g, n) => Leaving(g, n)'
    BY <2>1 DEF Leaving
  <2>4. \A n \in DOMAIN mem.objects : mem.objects[n].id \in Games
    BY <1>1, Fields DEF Objects
  <2> QED BY <1>11, <2>2, <2>3, <2>4 DEF Inv, Lives
<1>7. Lists'
  BY <1>2, <1>3 DEF Inv, Lists
<1>8. Connections'
  <2>1. \A n : Twice(n) # {} => Twice(n)' # {}
    BY <1>2, <1>4 DEF Twice
  <2>2. \A d \in DOMAIN conns : LET k == conns'[d] IN
          /\ k.id \in begun
          /\ k.stage \in {"session", "open"} =>
               k.obj \in DOMAIN mem.objects /\ mem.objects[k.obj].id = k.id
          /\ k.stage = "users" => k.row # NULL
          /\ k.stage \in Waiting => ~k.greeted /\ ~k.heard /\ k.bye = "no"
          /\ k.stage = "open" /\ k.greeted => k.p \in DOMAIN mem.objects[k.obj].users
          /\ k.stage = "open" /\ k.heard /\ ~mem.objects[k.obj].zombie =>
               d \in Range(mem.objects[k.obj].clients) \/ k.bye # "no" \/ Twice(k.obj) # {}
    BY <1>3 DEF Inv, Connections, Waiting
  <2> QED BY <1>2, <1>4, <2>1, <2>2 DEF Connections
<1>9. (Saving /\ Users /\ PlayersKnown)'
  BY <1>11 DEF Inv, Saving, Users, PlayersKnown
<1>10. Restorable'
  BY <1>2, <1>3, <1>11 DEF Inv, Restorable, Half
<1> QED
  BY <1>5, <1>6, <1>7, <1>8, <1>9, <1>10 DEF Inv

\* Once connection c of object n is k, dispose has been run twice for some client.
Again(n, c, k) == k.bye = "again" \/ \E d \in DOMAIN conns \ {c} : conns[d].obj = n /\ conns[d].bye = "again"

\* A handler that hears connection c leaves o of object n, to which c is
\* connected, and k of the connection.
Touched(n, c, o, k) ==
  LET old == mem.objects[n] IN
  /\ n \in DOMAIN mem.objects /\ c \in DOMAIN conns /\ o \in Objects /\ k \in Conns
  /\ mem' \in Mems /\ mem'.objects = [mem.objects EXCEPT ![n] = o]
  /\ mem'.games = mem.games /\ mem'.deleting = mem.deleting
  /\ mem'.stopping = mem.stopping /\ mem'.snaps = mem.snaps
  /\ conns' = [conns EXCEPT ![c] = k]
  /\ rows' = rows /\ prtc' = prtc /\ begun' = begun /\ torn' = torn
  /\ conns[c].stage \in {"session", "open"} /\ conns[c].obj = n
  /\ k.p = conns[c].p /\ k.id = conns[c].id /\ k.obj = n /\ k.stage \in {"open", "closed"}
  /\ o.id = old.id /\ o.zombie = old.zombie /\ Within(old.users, o.users)
  /\ o.zombie => o.clients = <<>>
  /\ IsInjective(o.clients)
  /\ Range(o.clients) \subseteq Range(old.clients) \cup {c}
  /\ ~o.zombie => Range(old.clients) \ {c} \subseteq Range(o.clients) \/ Again(n, c, k)
  /\ conns[c].bye = "again" => k.bye = "again"
  /\ k.stage = "open" /\ k.greeted => k.p \in DOMAIN o.users
  /\ k.stage = "open" /\ k.heard /\ ~o.zombie => c \in Range(o.clients) \/ k.bye # "no" \/ Again(n, c, k)
  /\ o.id \in Spoilt \/ o.st.players \subseteq Range(o.users)

LEMMA ObjectStep ==
  ASSUME Inv, NEW n, NEW c, NEW o, NEW k, Touched(n, c, o, k)
  PROVE  Inv'
<1> USE DEF Touched
<1>1. Typed
  BY DEF Inv
<1>2. /\ DOMAIN mem'.objects = DOMAIN mem.objects
      /\ mem'.objects[n] = o
      /\ \A i \in DOMAIN mem.objects : i # n => mem'.objects[i] = mem.objects[i]
  BY <1>1, Fields
<1>3. \A i \in DOMAIN mem.objects :
        /\ mem'.objects[i].id = mem.objects[i].id
        /\ mem'.objects[i].zombie = mem.objects[i].zombie
        /\ Within(mem.objects[i].users, mem'.objects[i].users)
        /\ Range(mem.objects[i].users) \subseteq Range(mem'.objects[i].users)
  <2>1. Range(mem.objects[n].users) \subseteq Range(o.users)
    BY <1>1, Fields, WithinRange DEF Objects
  <2> QED BY <1>2, <2>1 DEF Within
<1>4. /\ conns' \in Seq(Conns) /\ DOMAIN conns' = DOMAIN conns
      /\ conns'[c] = k
      /\ \A d \in DOMAIN conns : d # c => conns'[d] = conns[d]
  BY <1>1 DEF Typed
<1>13. Spoilt' = Spoilt /\ Risen' = Risen /\ (\A g : Closing(g)' <=> Closing(g))
  BY <1>2, <1>3, StillSpoilt
<1>5. Typed' /\ Registry'
  BY <1>2, <1>3, <1>4 DEF Inv, Typed, Registry
<1>6. Lives'
  <2>1. \A g, S : NoRequest(g, S) /\ S \subseteq Waiting => NoRequest(g, S)'
    BY <1>4 DEF NoRequest, Waiting
  <2>4. \A i \in DOMAIN mem.objects : mem.objects[i].id \in Games
    BY <1>1, Fields DEF Objects
  <2>5. ASSUME NEW i \in DOMAIN mem.objects
        PROVE  LET x == mem.objects[i] IN
               /\ x.zombie => mem'.objects[i].clients = <<>>
               /\ ~x.zombie /\ x.id \notin Spoilt => mem.games[x.id] = i
               /\ x.zombie /\ x.id \notin Spoilt =>
                    \/ /\ mem.games[x.id] = i /\ x.id \in mem.deleting
                       /\ NoRequest(x.id, {"game", "users"})'
                    \/ /\ mem.games[x.id] = 0
                       /\ mem.stopping \/ (rows[x.id] = NULL /\ NoRequest(x.id, {"users"})')
    <3>1. mem.objects[i].zombie => mem'.objects[i].clients = <<>>
      BY <1>2 DEF Inv, Lives
    <3> QED BY <2>1, <2>4, <3>1 DEF Inv, Lives, Leaving, Gone, Waiting
  <2>6. \A g \in mem.deleting \ Spoilt : mem'.objects[mem.games[g]].zombie
    BY <1>1, <1>3, Fields DEF Inv, Lives, Registry
  <2> QED BY <1>2, <1>3, <1>13, <2>5, <2>6 DEF Lives, Leaving, Gone
<1>7. Lists'
  <2>1. ASSUME NEW i \in DOMAIN mem.objects
        PROVE  /\ IsInjective(mem'.objects[i].clients)
               /\ \A d \in Range(mem'.objects[i].clients) :
                    d \in DOMAIN conns /\ conns'[d].stage \in {"open", "closed"}
    BY <1>2, <1>4 DEF Inv, Lists
  <2> QED BY <1>2, <1>4, <2>1 DEF Lists
<1>8. Connections'
  <2> DEFINE Twofold(i) == \E d \in DOMAIN conns : conns'[d].obj = i /\ conns'[d].bye = "again"
  <2>2. \A i : Twice(i) # {} => Twofold(i)
    BY <1>4 DEF Twice
  <2>3. Again(n, c, k) => Twofold(n)
    BY <1>4 DEF Again
  <2> HIDE DEF Twofold
  <2>1. ASSUME NEW d \in DOMAIN conns
        PROVE  LET x == conns'[d] IN
               /\ x.id \in begun
               /\ x.stage \in {"session", "open"} =>
                    x.obj \in DOMAIN mem.objects /\ mem'.objects[x.obj].id = x.id
               /\ x.stage = "users" => x.row # NULL
               /\ x.stage \in Waiting => ~x.greeted /\ ~x.heard /\ x.bye = "no"
               /\ x.stage = "open" /\ x.greeted => x.p \in DOMAIN mem'.objects[x.obj].users
               /\ x.stage = "open" /\ x.heard /\ ~mem'.objects[x.obj].zombie =>
                    d \in Range(mem'.objects[x.obj].clients) \/ x.bye # "no" \/ Twofold(x.obj)
    <3>1. CASE d = c
      BY <3>1, <1>2, <1>4, <2>3 DEF Inv, Connections, Waiting
    <3>2. CASE d # c
      <4>1. /\ conns'[d] = conns[d]
            /\ ~mem'.objects[n].zombie => Range(mem.objects[n].clients) \ {c} \subseteq Range(o.clients)
                                          \/ Twofold(n)
        BY <3>2, <1>2, <1>4, <2>3
      <4> QED BY <3>2, <4>1, <1>2, <1>3, <2>2 DEF Inv, Connections, Within
    <3> QED BY <3>1, <3>2
  <2>4. \A i : Twofold(i) => Twice(i)' # {}
    BY <1>4 DEF Twice, Twofold
  <2> QED BY <1>2, <1>4, <2>1, <2>4 DEF Connections
<1>9. Saving'
  <2>1. \A g \in Games : mem.snaps[g] # NULL =>
          mem.snaps[g].obj \in DOMAIN mem.objects /\ mem.objects[mem.snaps[g].obj].id = g
    BY DEF Inv, Saving
  <2>2. \A g \in Games :
          /\ mem.snaps[g] # NULL
          /\ Within(mem.snaps[g].users, mem.objects[mem.snaps[g].obj].users)
          => Within(mem.snaps[g].users, mem'.objects[mem.snaps[g].obj].users)
    BY <2>1, <1>3 DEF Within
  <2>4. \A g \in Games : mem.snaps[g] # NULL =>
          Within(prtc[g], mem'.objects[mem.snaps[g].obj].users)
    BY <2>1, <1>3 DEF Within, Inv, Saving
  <2>3. ASSUME NEW g \in Games, mem.snaps[g] # NULL, g \notin torn
        PROVE  mem.snaps[g].st.players \subseteq Range(mem'.objects[mem.snaps[g].obj].users)
    BY <2>1, <2>3, <1>3 DEF Inv, Saving
  <2> QED BY <1>2, <1>3, <2>1, <2>2, <2>3, <2>4 DEF Inv, Saving
<1>10. Users'
  <2>1. \A g \in Games : mem.games[g] # 0 /\ g \notin Risen =>
          Within(prtc[g], mem'.objects[mem.games[g]].users)
    BY <1>3 DEF Inv, Users, Registry, Within
  <2> QED BY <1>13, <2>1 DEF Inv, Users
<1>11. Restorable'
  BY <1>4, <1>13 DEF Inv, Restorable, Half
<1>12. PlayersKnown'
  <2>1. ASSUME NEW i \in DOMAIN mem.objects
        PROVE  mem'.objects[i].id \in Spoilt
               \/ mem'.objects[i].st.players \subseteq Range(mem'.objects[i].users)
    BY <1>2 DEF Inv, PlayersKnown
  <2> QED BY <1>2, <1>13, <2>1 DEF PlayersKnown
<1> QED
  BY <1>5, <1>6, <1>7, <1>8, <1>9, <1>10, <1>11, <1>12 DEF Inv

-----------------------------------------------------------------------------
(* The handlers of a connection *)

LEMMA RunsOrCrashes ==
  ASSUME NEW m, NEW cs, Runs(m, cs)
  PROVE  Crashed \/ (m # NULL /\ mem' = m /\ conns' = cs /\ torn' = torn)
BY DEF Runs

LEMMA PartedObject ==
  ASSUME NEW o \in Objects, NEW c, NEW s \in Seq(Nat)
  PROVE  LET x == Parted([o EXCEPT !.clients = s], c) IN
         /\ x \in Objects /\ x.id = o.id /\ x.zombie = o.zombie /\ x.users = o.users
         /\ x.clients = s /\ x.st.players \subseteq o.st.players
<1> DEFINE y == [o EXCEPT !.clients = s]
           seat == o.users[conns[c].p]
<1>1. /\ y \in Objects /\ y.id = o.id /\ y.zombie = o.zombie /\ y.users = o.users
      /\ y.clients = s /\ y.st = o.st
  BY DEF Objects
<1> HIDE DEF y
<1>2. [y EXCEPT !.st.players = @ \ {seat}, !.timer = TRUE] \in Objects
  BY <1>1 DEF Objects, States
<1>3. LET z == [y EXCEPT !.st.players = @ \ {seat}, !.timer = TRUE] IN
      /\ z.id = o.id /\ z.zombie = o.zombie /\ z.users = o.users /\ z.clients = s
      /\ z.st.players \subseteq o.st.players
  BY <1>1 DEF Objects, States
<1> QED
  BY <1>1, <1>2, <1>3 DEF Parted, y

LEMMA Disposed ==
  ASSUME NEW m \in Mems, NEW n \in DOMAIN m.objects, NEW c \in DOMAIN conns, Typed,
         Dispose(m, n, c) # NULL
  PROVE  LET d == Dispose(m, n, c)
             s == Spliced(m.objects[n].clients, c)
         IN
         /\ d \in Mems
         /\ d.objects = [m.objects EXCEPT ![n] = Parted([m.objects[n] EXCEPT !.clients = s], c)]
         /\ d.games = m.games /\ d.deleting = m.deleting /\ d.stopping = m.stopping
         /\ d.snaps = m.snaps
<1> DEFINE s == Spliced(m.objects[n].clients, c)
           o == Parted([m.objects[n] EXCEPT !.clients = s], c)
           p == conns[c].p
           left == Left(s, p)
           part == IF left THEN m.participation[p] \ {m.objects[n].id} ELSE m.participation[p]
<1>1. m.objects \in Seq(Objects) /\ m.objects[n] \in Objects /\ p \in Principals
  BY Fields DEF Mems, Conns
<1>2. s \in Seq(Nat)
  BY <1>1, SplicedList DEF Objects
<1>3. o \in Objects
  BY <1>1, <1>2, PartedObject
<1>4. part \in (SUBSET Games) \cup {NULL}
  <2>1. m.participation[p] \in (SUBSET Games) \cup {NULL}
    BY <1>1 DEF Mems
  <2>2. ~(left /\ m.participation[p] = NULL)
    BY DEF Dispose
  <2> QED BY <2>1, <2>2
<1>5. Dispose(m, n, c) = [m EXCEPT !.objects = [@ EXCEPT ![n] = o],
                                   !.participation = [@ EXCEPT ![p] = part]]
  BY DEF Dispose
<1> HIDE DEF s, o, p, left, part
<1>6. [m.objects EXCEPT ![n] = o] \in Seq(Objects)
  BY <1>1, <1>3
<1>7. [m.participation EXCEPT ![p] = part] \in [Principals -> (SUBSET Games) \cup {NULL}]
  BY <1>1, <1>4 DEF Mems
<1>8. /\ Dispose(m, n, c) \in Mems
      /\ Dispose(m, n, c).objects = [m.objects EXCEPT ![n] = o]
      /\ Dispose(m, n, c).games = m.games /\ Dispose(m, n, c).deleting = m.deleting
      /\ Dispose(m, n, c).stopping = m.stopping /\ Dispose(m, n, c).snaps = m.snaps
  BY <1>5, <1>6, <1>7 DEF Mems
<1> QED
  BY <1>8 DEF s, o

\* dispose, for a connection that is k from then on.
LEMMA DisposeStep ==
  ASSUME Inv, NEW c \in DOMAIN conns, NEW k \in Conns, Heard(c),
         Dispose(mem, conns[c].obj, c) # NULL, mem' = Dispose(mem, conns[c].obj, c),
         conns' = [conns EXCEPT ![c] = k], UNCHANGED <<rows, prtc, begun, torn>>,
         k.p = conns[c].p, k.id = conns[c].id, k.obj = conns[c].obj, k.greeted = conns[c].greeted,
         k.stage \in {"open", "closed"},
         IF conns[c].bye = "no" THEN k.stage = "closed" \/ k.bye = "told" ELSE k.bye = "again"
  PROVE  Inv'
<1> DEFINE n == conns[c].obj
           old == mem.objects[n]
           s == Spliced(old.clients, c)
           o == Parted([old EXCEPT !.clients = s], c)
<1>1. Typed /\ conns[c].stage = "open" /\ conns[c].heard
  BY DEF Inv, Heard
<1>2. n \in DOMAIN mem.objects /\ old \in Objects /\ mem \in Mems
  BY <1>1, Fields DEF Inv, Connections, Typed
<1>3. /\ mem' \in Mems /\ mem'.objects = [mem.objects EXCEPT ![n] = o]
      /\ mem'.games = mem.games /\ mem'.deleting = mem.deleting
      /\ mem'.stopping = mem.stopping /\ mem'.snaps = mem.snaps
  BY <1>1, <1>2, Disposed
<1>4. /\ s \in Seq(Nat) /\ Range(s) \subseteq Range(old.clients) /\ IsInjective(s)
      /\ c \in Range(old.clients) => Range(old.clients) \ {c} \subseteq Range(s)
      /\ old.zombie => s = <<>>
  <2>1. /\ s \in Seq(Nat) /\ Range(s) \subseteq Range(old.clients) /\ IsInjective(s)
        /\ c \in Range(old.clients) => Range(old.clients) \ {c} \subseteq Range(s)
    BY <1>2, SplicedList DEF Inv, Lists, Objects
  <2>2. old.zombie => s = <<>>
    <3>1. old.zombie => old.clients = <<>>
      BY <1>2 DEF Inv, Lives
    <3> QED BY <3>1 DEF Spliced, Range
  <2> QED BY <2>1, <2>2
<1>5. /\ o \in Objects /\ o.id = old.id /\ o.zombie = old.zombie /\ o.users = old.users
      /\ o.clients = s /\ o.st.players \subseteq old.st.players
  BY <1>2, <1>4, PartedObject
<1>6. /\ Within(old.users, o.users) /\ (o.id \in Spoilt \/ o.st.players \subseteq Range(o.users))
      /\ k.stage = "open" /\ k.greeted => k.p \in DOMAIN o.users
  BY <1>1, <1>2, <1>5 DEF Inv, PlayersKnown, Within, Connections
<1> HIDE DEF n, old, s, o
<1>7. conns[c].obj = n /\ old = mem.objects[n]
  BY DEF n, old
<1>8. ~old.zombie => c \in Range(old.clients) \/ Again(n, c, k)
  <2> SUFFICES ASSUME ~old.zombie, c \notin Range(old.clients), conns[c].bye = "no"
               PROVE  Again(n, c, k)
    BY DEF Again
  <2>1. Twice(n) # {}
    BY <1>1, <1>7 DEF Inv, Connections
  <2> QED BY <2>1 DEF Twice, Again
<1>9. /\ ~o.zombie => Range(old.clients) \ {c} \subseteq Range(o.clients) \/ Again(n, c, k)
      /\ conns[c].bye = "again" => k.bye = "again"
      /\ k.stage = "open" => k.bye # "no"
  BY <1>4, <1>5, <1>8
<1>10. Touched(n, c, o, k)
  BY <1>1, <1>2, <1>3, <1>4, <1>5, <1>6, <1>7, <1>9 DEF Touched
<1> QED
  BY <1>10, ObjectStep

LEMMA LoseStep ==
  ASSUME Inv, NEW c \in DOMAIN conns, Lose(c)
  PROVE  Inv'
<1> DEFINE n == conns[c].obj
           lost == IF conns[c].bye = "no" THEN [conns[c] EXCEPT !.stage = "closed"]
                   ELSE [conns[c] EXCEPT !.stage = "closed", !.bye = "again"]
<1>1. Typed /\ UNCHANGED <<rows, prtc, begun>> /\ conns[c] \in Conns
  BY Fields DEF Inv, Lose
<1>2. CASE ~Heard(c)
  BY <1>2, Closes DEF Lose
<1>3. CASE Heard(c)
  <2>1. Runs(Dispose(mem, n, c), [conns EXCEPT ![c] = lost])
    BY <1>1, <1>3 DEF Lose, Told, Typed
  <2>2. /\ lost \in Conns /\ lost.p = conns[c].p /\ lost.id = conns[c].id /\ lost.obj = n
        /\ lost.greeted = conns[c].greeted /\ lost.stage = "closed"
        /\ conns[c].bye # "no" => lost.bye = "again"
    BY <1>1 DEF Conns
  <2> HIDE DEF lost
  <2>3. CASE Crashed
    BY <2>3, <1>1, CrashedStep
  <2>4. CASE /\ Dispose(mem, n, c) # NULL /\ mem' = Dispose(mem, n, c)
             /\ conns' = [conns EXCEPT ![c] = lost] /\ torn' = torn
    BY <1>1, <1>3, <2>2, <2>4, DisposeStep
  <2> QED BY <2>1, <2>3, <2>4, RunsOrCrashes
<1> QED BY <1>2, <1>3

LEMMA ByeStep ==
  ASSUME Inv, NEW c \in DOMAIN conns, Bye(c)
  PROVE  Inv'
<1> DEFINE n == conns[c].obj
           told == [conns[c] EXCEPT !.bye = IF @ = "no" THEN "told" ELSE "again"]
<1>1. /\ Typed /\ UNCHANGED <<rows, prtc, begun>> /\ conns[c] \in Conns
      /\ Heard(c) /\ conns[c].stage = "open"
  BY Fields DEF Inv, Bye, Heard
<1>2. Runs(Dispose(mem, n, c), [conns EXCEPT ![c] = told])
  BY <1>1 DEF Bye, Told, Typed
<1>3. /\ told \in Conns /\ told.p = conns[c].p /\ told.id = conns[c].id /\ told.obj = n
      /\ told.greeted = conns[c].greeted /\ told.stage = "open"
      /\ told.bye = IF conns[c].bye = "no" THEN "told" ELSE "again"
  BY <1>1 DEF Conns
<1> HIDE DEF told
<1>4. CASE Crashed
  BY <1>4, <1>1, CrashedStep
<1>5. CASE /\ Dispose(mem, n, c) # NULL /\ mem' = Dispose(mem, n, c)
           /\ conns' = [conns EXCEPT ![c] = told] /\ torn' = torn
  BY <1>1, <1>3, <1>5, DisposeStep
<1> QED
  BY <1>2, <1>4, <1>5, RunsOrCrashes

LEMMA HelloStep ==
  ASSUME Inv, NEW c \in DOMAIN conns, HearHello(c)
  PROVE  Inv'
<1> DEFINE n == conns[c].obj
           p == conns[c].p
           old == mem.objects[n]
           known == Known(mem, old, p)
           users == IF known THEN old.users ELSE Merged([q \in {p} |-> old.next_uid], old.users)
           uid == IF known THEN old.next_uid ELSE old.next_uid + 1
           o == [old EXCEPT !.users = users, !.next_uid = uid]
           part == (IF mem.participation[p] = NULL THEN {} ELSE mem.participation[p]) \cup {old.id}
           k == [conns[c] EXCEPT !.greeted = TRUE]
<1>1. /\ Typed /\ UNCHANGED <<rows, prtc, begun, torn>>
      /\ conns[c].stage = "open" /\ conns[c].heard
      /\ conns' = [conns EXCEPT ![c] = k]
  BY DEF Inv, HearHello, Heard
<1>2. /\ n \in DOMAIN mem.objects /\ old \in Objects /\ mem \in Mems
      /\ p \in Principals /\ conns[c] \in Conns
  BY <1>1, Fields DEF Inv, Connections, Typed, Conns
<1>3. users \in UserMaps /\ p \in DOMAIN users /\ Within(old.users, users) /\ uid \in Nat
  <2>1. old.users \in UserMaps /\ old.next_uid \in Nat
    BY <1>2 DEF Objects
  <2>2. CASE known
    BY <2>1, <2>2 DEF Within, Known
  <2>3. CASE ~known
    <3> DEFINE v == Merged([q \in {p} |-> old.next_uid], old.users)
    <3>1. v \in UserMaps /\ DOMAIN v = DOMAIN old.users \cup {p} /\ Within(old.users, v)
      BY <1>2, <2>1, <2>3, Newcomer DEF Known
    <3>2. users = v /\ uid = old.next_uid + 1
      BY <2>3
    <3> HIDE DEF v, users, uid, old
    <3> QED BY <2>1, <3>1, <3>2
  <2> QED BY <2>2, <2>3
<1>4. part \in SUBSET Games
  BY <1>1, <1>2, Fields DEF Objects
<1>5. mem' = [mem EXCEPT !.objects = [@ EXCEPT ![n] = o], !.participation = [@ EXCEPT ![p] = part]]
  <2>1. mem' = [mem EXCEPT !.objects[n].users = users, !.objects[n].next_uid = uid,
                           !.participation[p] = part]
    BY DEF HearHello, Hello
  <2>2. mem.objects \in Seq(Objects)
    BY <1>1, Fields
  <2> HIDE DEF n, p, known, users, uid, part
  <2> QED BY <1>2, <2>1, <2>2 DEF Mems
<1> HIDE DEF users, uid, part
<1>6. /\ o \in Objects /\ o.id = old.id /\ o.zombie = old.zombie /\ o.users = users
      /\ o.clients = old.clients /\ o.st = old.st
  BY <1>2, <1>3 DEF Objects
<1>7. /\ k \in Conns /\ k.stage = "open" /\ k.p = p /\ k.id = conns[c].id /\ k.obj = n
      /\ k.heard = conns[c].heard /\ k.bye = conns[c].bye
  BY <1>1, <1>2 DEF Conns
<1> HIDE DEF n, p, old, o, k
<1>8. /\ mem' \in Mems /\ mem'.objects = [mem.objects EXCEPT ![n] = o]
      /\ mem'.games = mem.games /\ mem'.deleting = mem.deleting
      /\ mem'.stopping = mem.stopping /\ mem'.snaps = mem.snaps
  <2>1. [mem.objects EXCEPT ![n] = o] \in Seq(Objects)
    BY <1>1, <1>2, <1>6, Fields
  <2>2. [mem.participation EXCEPT ![p] = part] \in [Principals -> (SUBSET Games) \cup {NULL}]
    BY <1>1, <1>4, Fields
  <2> QED BY <1>2, <1>5, <2>1, <2>2 DEF Mems
<1>9. /\ old.zombie => old.clients = <<>>
      /\ IsInjective(old.clients)
      /\ ~old.zombie => c \in Range(old.clients) \/ conns[c].bye # "no" \/ Twice(n) # {}
  BY <1>1, <1>2 DEF Inv, Lives, Lists, Connections, old, n
<1>10. o.id \in Spoilt \/ o.st.players \subseteq Range(o.users)
  <2>1. Range(old.users) \subseteq Range(users)
    BY <1>2, <1>3, WithinRange DEF Objects
  <2> QED BY <1>2, <1>6, <2>1 DEF Inv, PlayersKnown, old
<1>11. conns[c].obj = n /\ conns[c].p = p /\ mem.objects[n] = old
  BY DEF n, p, old
<1>12. /\ Range(o.clients) \subseteq Range(mem.objects[n].clients) \cup {c}
       /\ Range(mem.objects[n].clients) \ {c} \subseteq Range(o.clients)
       /\ o.zombie => o.clients = <<>>
       /\ IsInjective(o.clients)
       /\ ~o.zombie => c \in Range(o.clients) \/ k.bye # "no" \/ Again(n, c, k)
       /\ o.id = mem.objects[n].id /\ o.zombie = mem.objects[n].zombie
       /\ Within(mem.objects[n].users, o.users)
  <2>1. Twice(n) # {} => Again(n, c, k)
    BY <1>7, <1>11 DEF Twice, Again
  <2> QED BY <1>3, <1>6, <1>7, <1>9, <1>11, <2>1
<1>13. o \in Objects /\ p \in DOMAIN o.users
  BY <1>3, <1>6
<1>14. Touched(n, c, o, k)
  BY <1>1, <1>2, <1>7, <1>8, <1>10, <1>11, <1>12, <1>13 DEF Touched
<1> QED
  BY <1>14, ObjectStep

\* A move that the engine accepts leaves a state of the game with nobody else in it.
LEMMA UpdateStep ==
  ASSUME Inv, NEW c \in DOMAIN conns, HearUpdate(c)
  PROVE  Inv'
<1> DEFINE n == conns[c].obj
           old == mem.objects[n]
           u == old.users[conns[c].p]
<1>1. /\ Typed /\ UNCHANGED <<rows, prtc, conns, begun, torn>>
      /\ conns[c].stage = "open" /\ conns[c].heard /\ conns[c].greeted
  BY DEF Inv, HearUpdate, Heard
<1>2. /\ n \in DOMAIN mem.objects /\ old \in Objects /\ mem \in Mems
      /\ conns[c] \in Conns /\ conns[c].p \in DOMAIN old.users
      /\ mem.objects \in Seq(Objects)
  BY <1>1, Fields DEF Inv, Connections, Typed
<1>3. u \in Nat /\ u \in Range(old.users) /\ old.st \in States
  BY <1>2, UserMap DEF Objects, Range
<1>4. PICK st \in States : /\ st.players \subseteq old.st.players \cup {u}
                           /\ mem' = [mem EXCEPT !.objects[n].st = st, !.objects[n].timer = TRUE]
  <2>1. \/ mem' = [mem EXCEPT !.objects[n].st = [old.st EXCEPT !.players = @ \cup {u}],
                             !.objects[n].timer = TRUE]
        \/ \E ph \in {"INIT", "DRAW"} :
             mem' = [mem EXCEPT !.objects[n].st = [old.st EXCEPT !.phase = ph],
                                !.objects[n].timer = TRUE]
    BY DEF HearUpdate, object
  <2> HIDE DEF n, old, u
  <2>2. /\ [old.st EXCEPT !.players = @ \cup {u}] \in States
        /\ [old.st EXCEPT !.players = @ \cup {u}].players = old.st.players \cup {u}
        /\ \A ph \in {"INIT", "DRAW"} : /\ [old.st EXCEPT !.phase = ph] \in States
                                        /\ [old.st EXCEPT !.phase = ph].players = old.st.players
    BY <1>3 DEF States
  <2>3. CASE mem' = [mem EXCEPT !.objects[n].st = [old.st EXCEPT !.players = @ \cup {u}],
                                !.objects[n].timer = TRUE]
    <3> DEFINE st == [old.st EXCEPT !.players = @ \cup {u}]
    <3>1. /\ st \in States /\ st.players \subseteq old.st.players \cup {u}
          /\ mem' = [mem EXCEPT !.objects[n].st = st, !.objects[n].timer = TRUE]
      BY <2>2, <2>3
    <3> HIDE DEF st
    <3> QED BY <3>1
  <2>4. ASSUME NEW ph \in {"INIT", "DRAW"},
               mem' = [mem EXCEPT !.objects[n].st = [old.st EXCEPT !.phase = ph],
                                  !.objects[n].timer = TRUE]
        PROVE  \E st \in States :
                 /\ st.players \subseteq old.st.players \cup {u}
                 /\ mem' = [mem EXCEPT !.objects[n].st = st, !.objects[n].timer = TRUE]
    <3> DEFINE st == [old.st EXCEPT !.phase = ph]
    <3>1. /\ st \in States /\ st.players \subseteq old.st.players \cup {u}
          /\ mem' = [mem EXCEPT !.objects[n].st = st, !.objects[n].timer = TRUE]
      BY <2>2, <2>4
    <3> HIDE DEF st
    <3> QED BY <3>1
  <2> QED BY <2>1, <2>3, <2>4
<1> DEFINE o == [old EXCEPT !.st = st, !.timer = TRUE]
<1>5. /\ o \in Objects /\ o.id = old.id /\ o.zombie = old.zombie /\ o.users = old.users
      /\ o.clients = old.clients /\ o.st = st
  BY <1>2 DEF Objects
<1>6. mem' = [mem EXCEPT !.objects = [@ EXCEPT ![n] = o]]
  <2> HIDE DEF n
  <2> QED BY <1>2, <1>4 DEF Mems
<1> HIDE DEF n, old, u, o
<1>7. /\ mem' \in Mems /\ mem'.objects = [mem.objects EXCEPT ![n] = o]
      /\ mem'.games = mem.games /\ mem'.deleting = mem.deleting
      /\ mem'.stopping = mem.stopping /\ mem'.snaps = mem.snaps
  <2>1. [mem.objects EXCEPT ![n] = o] \in Seq(Objects)
    BY <1>2, <1>5
  <2> QED BY <1>2, <1>6, <2>1 DEF Mems
<1>8. /\ old.zombie => old.clients = <<>>
      /\ IsInjective(old.clients)
      /\ ~old.zombie => c \in Range(old.clients) \/ conns[c].bye # "no" \/ Twice(n) # {}
  BY <1>1, <1>2 DEF Inv, Lives, Lists, Connections, old, n
<1>9. Within(old.users, o.users) /\ (o.id \in Spoilt \/ o.st.players \subseteq Range(o.users))
  BY <1>2, <1>3, <1>4, <1>5 DEF Inv, PlayersKnown, Within, old
<1>10. conns[c].obj = n /\ mem.objects[n] = old /\ conns' = [conns EXCEPT ![c] = conns[c]]
  <2>1. conns = [conns EXCEPT ![c] = conns[c]]
    BY <1>1 DEF Typed
  <2> QED BY <1>1, <2>1 DEF n, old
<1>11. Twice(n) # {} => Again(n, c, conns[c])
  BY <1>10 DEF Twice, Again
<1>12. /\ Range(o.clients) \subseteq Range(mem.objects[n].clients) \cup {c}
       /\ Range(mem.objects[n].clients) \ {c} \subseteq Range(o.clients)
       /\ o.zombie => o.clients = <<>>
       /\ IsInjective(o.clients)
       /\ ~o.zombie => c \in Range(o.clients) \/ conns[c].bye # "no" \/ Again(n, c, conns[c])
       /\ o.id = mem.objects[n].id /\ o.zombie = mem.objects[n].zombie
       /\ Within(mem.objects[n].users, o.users)
  BY <1>5, <1>8, <1>9, <1>10, <1>11
<1>13. o \in Objects /\ conns[c].p \in DOMAIN o.users
  BY <1>2, <1>5
<1>14. Touched(n, c, o, conns[c])
  BY <1>1, <1>2, <1>7, <1>9, <1>10, <1>12, <1>13 DEF Touched
<1> QED
  BY <1>14, ObjectStep

LEMMA Appended ==
  ASSUME NEW s \in Seq(Nat), NEW c \in Nat, c \notin Range(s)
  PROVE  /\ Append(s, c) \in Seq(Nat) /\ Range(Append(s, c)) = Range(s) \cup {c}
         /\ IsInjective(s) => IsInjective(Append(s, c))
<1> DEFINE r == Append(s, c)
<1>1. Len(s) \in Nat /\ DOMAIN s = 1..Len(s)
  OBVIOUS
<1>2. /\ r \in Seq(Nat) /\ DOMAIN r = 1..(Len(s) + 1) /\ r[Len(s) + 1] = c
      /\ \A i \in 1..Len(s) : r[i] = s[i]
  BY <1>1
<1> HIDE DEF r
<1>3. DOMAIN r = DOMAIN s \cup {Len(s) + 1}
  BY <1>1, <1>2
<1>4. Range(r) = Range(s) \cup {c}
  BY <1>1, <1>2, <1>3 DEF Range
<1>5. ASSUME IsInjective(s)
      PROVE  IsInjective(r)
  <2> SUFFICES ASSUME NEW i \in DOMAIN r, NEW j \in DOMAIN r, r[i] = r[j]
               PROVE  i = j
    BY DEF IsInjective
  <2>1. \A m \in DOMAIN s : s[m] # c
    BY DEF Range
  <2> QED BY <1>1, <1>2, <1>3, <1>5, <2>1 DEF IsInjective
<1> QED
  BY <1>2, <1>4, <1>5 DEF r

LEMMA ConnectStep ==
  ASSUME Inv, NEW c \in DOMAIN conns, Connect(c)
  PROVE  Inv'
<1> DEFINE n == conns[c].obj
           old == mem.objects[n]
           longer == Append(old.clients, c)
           met == [mem EXCEPT !.objects = [@ EXCEPT ![n] = [old EXCEPT !.clients = longer]]]
<1>1. /\ Typed /\ UNCHANGED <<rows, prtc, begun>>
      /\ conns[c].stage = "session" /\ conns[c] \in Conns /\ c \in Nat
      /\ ~conns[c].greeted /\ ~conns[c].heard /\ conns[c].bye = "no"
  BY Fields DEF Inv, Connect, Connections, Waiting
<1>2. /\ n \in DOMAIN mem.objects /\ old \in Objects /\ mem \in Mems
      /\ mem.objects \in Seq(Objects) /\ conns[c].id = old.id
  BY <1>1, Fields DEF Inv, Connections, Typed
<1>3. /\ old.clients \in Seq(Nat) /\ IsInjective(old.clients) /\ c \notin Range(old.clients)
      /\ old.zombie => old.clients = <<>>
      /\ old.id \in Spoilt \/ old.st.players \subseteq Range(old.users)
  BY <1>1, <1>2 DEF Inv, Lists, Lives, PlayersKnown, Objects
<1>4. longer \in Seq(Nat) /\ Range(longer) = Range(old.clients) \cup {c} /\ IsInjective(longer)
  BY <1>1, <1>3, Appended
<1>5. Within(old.users, old.users)
  BY DEF Within
<1>6. /\ met \in Mems /\ met.objects = [mem.objects EXCEPT ![n] = [old EXCEPT !.clients = longer]]
      /\ met.games = mem.games /\ met.deleting = mem.deleting
      /\ met.stopping = mem.stopping /\ met.snaps = mem.snaps
      /\ [old EXCEPT !.clients = longer] \in Objects
  <2>1. [old EXCEPT !.clients = longer] \in Objects
    BY <1>2, <1>4 DEF Objects
  <2>2. [mem.objects EXCEPT ![n] = [old EXCEPT !.clients = longer]] \in Seq(Objects)
    BY <1>2, <2>1
  <2> HIDE DEF n, old, longer
  <2> QED BY <1>2, <2>1, <2>2 DEF Mems
<1>7. met = [mem EXCEPT !.objects[n].clients = Append(@, c)]
  BY <1>2 DEF Mems
<1>8. CASE /\ conns' = [conns EXCEPT ![c].stage = "closed"] /\ UNCHANGED <<mem, torn>>
  BY <1>1, <1>8, Closes
<1>9. CASE /\ old.zombie
           /\ conns' = [conns EXCEPT ![c].stage = "open"] /\ UNCHANGED <<mem, torn>>
  <2> DEFINE k == [conns[c] EXCEPT !.stage = "open"]
  <2>1. /\ k \in Conns /\ k.stage = "open" /\ k.p = conns[c].p /\ k.id = conns[c].id
        /\ k.obj = n /\ ~k.greeted
    BY <1>1 DEF Conns
  <2>2. mem'.objects = [mem.objects EXCEPT ![n] = old] /\ conns' = [conns EXCEPT ![c] = k]
    BY <1>2, <1>9
  <2> HIDE DEF n, old, k
  <2>3. conns[c].obj = n /\ old = mem.objects[n]
    BY DEF n, old
  <2>4. Touched(n, c, old, k)
    BY <1>1, <1>2, <1>3, <1>5, <1>9, <2>1, <2>2, <2>3 DEF Touched
  <2> QED BY <2>4, ObjectStep
<1>10. CASE Crashed
  BY <1>1, <1>10, CrashedStep
<1>11. CASE /\ ~old.zombie /\ Dispose(met, n, c) # NULL /\ mem' = Dispose(met, n, c)
            /\ conns' = [conns EXCEPT ![c] = Kicked(@)] /\ torn' = torn
  <2> DEFINE s == Spliced(longer, c)
             x == [old EXCEPT !.clients = longer]
             o == Parted([x EXCEPT !.clients = s], c)
             k == [conns[c] EXCEPT !.stage = "open"]
  <2>1. /\ s \in Seq(Nat) /\ IsInjective(s) /\ Range(s) \subseteq Range(longer)
        /\ Range(longer) \ {c} \subseteq Range(s)
    BY <1>4, SplicedList
  <2>2. /\ x \in Objects /\ x.id = old.id /\ x.zombie = old.zombie /\ x.users = old.users
        /\ x.st = old.st /\ x.clients = longer
    BY <1>2, <1>4 DEF Objects
  <2>3. /\ o \in Objects /\ o.id = old.id /\ o.zombie = old.zombie /\ o.users = old.users
        /\ o.clients = s /\ o.st.players \subseteq old.st.players
    <3> HIDE DEF s, x, old
    <3> QED BY <2>1, <2>2, PartedObject
  <2>4. n \in DOMAIN met.objects /\ met.objects[n] = x
    BY <1>2, <1>6
  <2>5. /\ mem' \in Mems /\ mem'.objects = [met.objects EXCEPT ![n] = o]
        /\ mem'.games = met.games /\ mem'.deleting = met.deleting
        /\ mem'.stopping = met.stopping /\ mem'.snaps = met.snaps
    <3> HIDE DEF met, n, o, x
    <3>1. /\ mem' \in Mems
          /\ mem'.objects = [met.objects EXCEPT
                ![n] = Parted([met.objects[n] EXCEPT !.clients = Spliced(met.objects[n].clients, c)], c)]
          /\ mem'.games = met.games /\ mem'.deleting = met.deleting
          /\ mem'.stopping = met.stopping /\ mem'.snaps = met.snaps
      <4>1. /\ Typed /\ met \in Mems /\ n \in DOMAIN met.objects
            /\ Dispose(met, n, c) # NULL /\ mem' = Dispose(met, n, c)
        BY <1>1, <1>6, <1>11, <2>4
      <4> QED BY <4>1, Disposed
    <3> QED BY <2>2, <2>4, <3>1 DEF o, s
  <2>6. mem'.objects = [mem.objects EXCEPT ![n] = o]
    <3> HIDE DEF met, o, x
    <3> QED BY <1>2, <1>6, <2>5
  <2>7. /\ k \in Conns /\ k.stage = "open" /\ k.p = conns[c].p /\ k.id = conns[c].id
        /\ k.obj = n /\ ~k.greeted /\ ~k.heard
    BY <1>1 DEF Conns
  <2>8. conns' = [conns EXCEPT ![c] = k]
    BY <1>11 DEF Kicked
  <2> HIDE DEF n, old, met, longer, s, x, o, k
  <2>9. conns[c].obj = n /\ old = mem.objects[n]
    BY DEF n, old
  <2>10. Touched(n, c, o, k)
    BY <1>1, <1>2, <1>3, <1>4, <1>5, <1>6, <1>11, <2>1, <2>3, <2>5, <2>6, <2>7, <2>8, <2>9
    DEF Touched
  <2> QED BY <2>10, ObjectStep
<1>12. CASE /\ ~old.zombie /\ mem' = met /\ torn' = torn
            /\ conns' = [conns EXCEPT ![c].stage = "open", ![c].heard = TRUE]
  <2> DEFINE x == [old EXCEPT !.clients = longer]
             k == [conns[c] EXCEPT !.stage = "open", !.heard = TRUE]
  <2>1. /\ x \in Objects /\ x.id = old.id /\ x.zombie = old.zombie /\ x.users = old.users
        /\ x.st = old.st /\ x.clients = longer
    BY <1>2, <1>4 DEF Objects
  <2>2. /\ k \in Conns /\ k.stage = "open" /\ k.p = conns[c].p /\ k.id = conns[c].id
        /\ k.obj = n /\ ~k.greeted
    BY <1>1 DEF Conns
  <2>3. conns' = [conns EXCEPT ![c] = k]
    BY <1>1, <1>12 DEF Typed
  <2>4. mem'.objects = [mem.objects EXCEPT ![n] = x]
    BY <1>6, <1>12
  <2> HIDE DEF n, old, met, longer, x, k
  <2>5. conns[c].obj = n /\ old = mem.objects[n]
    BY DEF n, old
  <2>6. Touched(n, c, x, k)
    BY <1>1, <1>2, <1>3, <1>4, <1>5, <1>6, <1>12, <2>1, <2>2, <2>3, <2>4, <2>5 DEF Touched
  <2> QED BY <2>6, ObjectStep
<1>13. \/ conns' = [conns EXCEPT ![c].stage = "closed"] /\ UNCHANGED <<mem, torn>>
       \/ /\ old.zombie
          /\ conns' = [conns EXCEPT ![c].stage = "open"] /\ UNCHANGED <<mem, torn>>
       \/ /\ ~old.zombie
          /\ \/ Runs(Dispose(met, n, c), [conns EXCEPT ![c] = Kicked(@)])
             \/ Runs(met, [conns EXCEPT ![c].stage = "open", ![c].heard = TRUE])
  BY <1>7 DEF Connect, object
<1> HIDE DEF n, old, met
<1> QED
  BY <1>8, <1>9, <1>10, <1>11, <1>12, <1>13, RunsOrCrashes

-----------------------------------------------------------------------------
(* Requests on their way *)

\* k is what becomes of a request that has not been connected yet.
Advanced(d, k) ==
  /\ k.id \in begun /\ k.stage \in Waiting \cup {"closed"}
  /\ ~k.greeted /\ ~k.heard /\ k.bye = "no"
  /\ d \in DOMAIN conns => conns[d].stage \in {"game", "users"}
  /\ k.stage = "game" => mem.games[k.id] = 0
  /\ k.stage = "users" => /\ d \in DOMAIN conns /\ conns[d].stage = "game" /\ conns[d].id = k.id
                          /\ k.row = rows[k.id] /\ rows[k.id] # NULL
  /\ k.stage = "session" => mem.games[k.id] # 0 /\ k.obj = mem.games[k.id]

LEMMA RequestStep ==
  ASSUME Inv, UNCHANGED <<mem, rows, prtc, begun, torn>>,
         conns' \in Seq(Conns), DOMAIN conns \subseteq DOMAIN conns',
         \A d \in DOMAIN conns' :
           (d \in DOMAIN conns /\ conns'[d] = conns[d]) \/ Advanced(d, conns'[d])
  PROVE  Inv'
<1>1. Typed /\ \A d \in DOMAIN conns' : conns'[d] \in Conns
  BY DEF Inv
<1>8. Spoilt' = Spoilt /\ Risen' = Risen /\ (\A g : Closing(g)' <=> Closing(g))
  BY StillSpoilt
<1>2. Typed' /\ Registry'
  BY DEF Inv, Typed, Registry
<1>3. Lives'
  <2>1. ASSUME NEW g \in Games, Gone(g)
        PROVE  Gone(g)'
    <3>1. ~mem.stopping => \A d \in DOMAIN conns' : conns'[d].id = g => conns'[d].stage # "users"
      BY <2>1 DEF Gone, NoRequest, Advanced
    <3> QED BY <2>1, <3>1 DEF Gone, NoRequest
  <2>2. ASSUME NEW g \in Games, NEW n \in DOMAIN mem.objects, Leaving(g, n)
        PROVE  Leaving(g, n)'
    <3>1. n # 0
      BY <1>1, Fields
    <3>2. \A d \in DOMAIN conns' : conns'[d].id = g => conns'[d].stage \notin {"game", "users"}
      BY <2>2, <3>1 DEF Leaving, NoRequest, Advanced
    <3> QED BY <2>2, <3>2 DEF Leaving, NoRequest
  <2>3. \A n \in DOMAIN mem.objects : mem.objects[n].id \in Games
    BY <1>1, Fields DEF Objects
  <2> QED BY <1>8, <2>1, <2>2, <2>3 DEF Inv, Lives
<1>4. Lists'
  BY DEF Inv, Lists, Advanced
<1>5. Connections'
  <2>2. \A n : Twice(n) # {} => Twice(n)' # {}
    <3> SUFFICES ASSUME NEW n, NEW d \in DOMAIN conns, conns[d].obj = n, conns[d].bye = "again"
                 PROVE  Twice(n)' # {}
      BY DEF Twice
    <3>1. conns[d].stage \notin {"game", "users"}
      BY DEF Inv, Connections, Waiting
    <3>2. conns'[d] = conns[d]
      BY <3>1 DEF Advanced
    <3> QED BY <3>2 DEF Twice
  <2>1. ASSUME NEW d \in DOMAIN conns', Advanced(d, conns'[d])
        PROVE  LET k == conns'[d] IN
               /\ k.id \in begun
               /\ k.stage \in {"session", "open"} =>
                    k.obj \in DOMAIN mem.objects /\ mem.objects[k.obj].id = k.id
               /\ k.stage = "users" => k.row # NULL
               /\ k.stage \in Waiting => ~k.greeted /\ ~k.heard /\ k.bye = "no"
               /\ k.stage # "open"
    BY <1>1, <2>1 DEF Inv, Registry, Advanced, Waiting, Conns
  <2>3. ASSUME NEW d \in DOMAIN conns, conns'[d] = conns[d]
        PROVE  LET k == conns'[d] IN
               /\ k.id \in begun
               /\ k.stage \in {"session", "open"} =>
                    k.obj \in DOMAIN mem.objects /\ mem.objects[k.obj].id = k.id
               /\ k.stage = "users" => k.row # NULL
               /\ k.stage \in Waiting => ~k.greeted /\ ~k.heard /\ k.bye = "no"
               /\ k.stage = "open" /\ k.greeted => k.p \in DOMAIN mem.objects[k.obj].users
               /\ k.stage = "open" /\ k.heard /\ ~mem.objects[k.obj].zombie =>
                    d \in Range(mem.objects[k.obj].clients) \/ k.bye # "no" \/ Twice(k.obj) # {}
    BY <2>3 DEF Inv, Connections
  <2> QED BY <2>1, <2>2, <2>3 DEF Connections
<1>6. (Saving /\ Users /\ PlayersKnown)'
  BY <1>8 DEF Inv, Saving, Users, PlayersKnown
<1>7. Restorable'
  <2>1. ASSUME NEW d \in DOMAIN conns', conns'[d].stage = "users", conns'[d].id \notin torn,
               mem.games[conns'[d].id] = 0, ~Closing(conns'[d].id)
        PROVE  conns'[d].row.players \subseteq Range(prtc[conns'[d].id])
    <3>1. CASE d \in DOMAIN conns /\ conns'[d] = conns[d]
      BY <2>1, <3>1 DEF Inv, Restorable
    <3>2. CASE Advanced(d, conns'[d])
      <4>1. conns'[d].id \in Games
        BY <1>1 DEF Conns
      <4>2. ~Half(conns'[d].id)
        BY <2>1, <4>1 DEF Inv, Saving, Half, Closing
      <4> QED BY <2>1, <3>2, <4>1, <4>2 DEF Inv, Restorable, Advanced
    <3> QED BY <3>1, <3>2
  <2> QED BY <1>8, <2>1 DEF Inv, Restorable, Half
<1> QED
  BY <1>2, <1>3, <1>4, <1>5, <1>6, <1>7 DEF Inv

LEMMA UpgradeStep ==
  ASSUME Inv, NEW p \in Principals, NEW g \in Games, Upgrade(p, g)
  PROVE  Inv'
<1> DEFINE k == [p |-> p, id |-> g, obj |-> mem.games[g], row |-> NULL, greeted |-> FALSE,
                 heard |-> FALSE, bye |-> "no", stage |-> IF mem.games[g] # 0 THEN "session" ELSE "game"]
<1>1. Typed /\ UNCHANGED <<mem, rows, prtc, begun, torn>> /\ conns' = Append(conns, k) /\ g \in begun
  BY DEF Inv, Upgrade
<1>2. k \in Conns /\ Advanced(Len(conns) + 1, k)
  <2>1. mem.games[g] \in Nat
    BY <1>1, Fields
  <2>2. Len(conns) + 1 \notin DOMAIN conns
    BY <1>1 DEF Typed
  <2> QED BY <1>1, <2>1, <2>2 DEF Conns, Advanced, Waiting
<1> HIDE DEF k
<1>3. /\ conns' \in Seq(Conns) /\ DOMAIN conns \subseteq DOMAIN conns'
      /\ \A d \in DOMAIN conns' : \/ d \in DOMAIN conns /\ conns'[d] = conns[d]
                                  \/ d = Len(conns) + 1 /\ conns'[d] = k
  BY <1>1, <1>2 DEF Typed
<1> QED
  BY <1>1, <1>2, <1>3, RequestStep

LEMMA FetchRowStep ==
  ASSUME Inv, NEW c \in DOMAIN conns, FetchRow(c)
  PROVE  Inv'
<1>1. Typed /\ UNCHANGED <<mem, rows, prtc, begun, torn>> /\ conns[c].stage = "game"
  BY DEF Inv, FetchRow
<1>2. CASE conns' = [conns EXCEPT ![c].stage = "closed"]
  BY <1>1, <1>2, Closes
<1>3. CASE conns' = [conns EXCEPT ![c].row = rows[conns[c].id],
                                  ![c].stage = IF rows[conns[c].id] = NULL THEN "closed" ELSE "users"]
  <2> DEFINE row == rows[conns[c].id]
             k == [conns[c] EXCEPT !.row = row,
                                   !.stage = IF row = NULL THEN "closed" ELSE "users"]
  <2>1. /\ conns[c] \in Conns /\ row \in States \cup {NULL}
        /\ ~conns[c].greeted /\ ~conns[c].heard /\ conns[c].bye = "no"
    <3>1. conns[c] \in Conns /\ conns[c].id \in Games
      BY <1>1, Fields DEF Conns
    <3> QED BY <1>1, <3>1 DEF Inv, Typed, Connections, Waiting
  <2>2. /\ k \in Conns /\ k.id = conns[c].id /\ k.row = row /\ ~k.greeted /\ ~k.heard
        /\ k.bye = "no" /\ k.stage = IF row = NULL THEN "closed" ELSE "users"
    BY <2>1 DEF Conns, Waiting
  <2>3. conns' = [conns EXCEPT ![c] = k]
    BY <1>1, <1>3 DEF Typed
  <2>4. Advanced(c, k)
    BY <1>1, <2>1, <2>2 DEF Advanced, Waiting, Inv, Connections
  <2> HIDE DEF k, row
  <2>5. /\ conns' \in Seq(Conns) /\ DOMAIN conns \subseteq DOMAIN conns'
        /\ \A d \in DOMAIN conns' : \/ d \in DOMAIN conns /\ conns'[d] = conns[d]
                                    \/ d = c /\ conns'[d] = k
    BY <1>1, <2>2, <2>3 DEF Typed
  <2> QED BY <1>1, <2>4, <2>5, RequestStep
<1> QED
  BY <1>2, <1>3 DEF FetchRow

\* x is made for game g, which has no object, and requests for g find it.
Made(g, x) ==
  LET n == Len(mem.objects) + 1 IN
  /\ g \in Games /\ mem.games[g] = 0
  /\ \A i \in DOMAIN mem.objects : mem.objects[i].id = g => g \in torn \/ mem.stopping
  /\ x \in Objects /\ x.id = g /\ ~x.zombie /\ x.clients = <<>>
  /\ Within(prtc[g], x.users)
  /\ x.st.players \subseteq Range(x.users) \/ g \in torn \/ Closing(g)
  /\ mem' = [mem EXCEPT !.objects = Append(@, x), !.games[g] = n]
  /\ rows' = rows /\ prtc' = prtc /\ torn' = torn
  /\ begun \subseteq begun' /\ begun' \subseteq Games /\ g \in begun'
  /\ conns' \in Seq(Conns) /\ DOMAIN conns' = DOMAIN conns
  /\ \A d \in DOMAIN conns : LET k == conns'[d] IN
       \/ k = conns[d]
       \/ /\ conns[d].id = g /\ conns[d].stage = "users"
          /\ k.id = g /\ k.stage = "session" /\ k.obj = n
          /\ ~k.greeted /\ ~k.heard /\ k.bye = "no"

LEMMA MakeStep ==
  ASSUME Inv, NEW g, NEW x, Made(g, x)
  PROVE  Inv'
<1> DEFINE n == Len(mem.objects) + 1
<1>1. /\ Typed /\ g \in Games /\ mem.games[g] = 0 /\ x \in Objects
      /\ rows' = rows /\ prtc' = prtc /\ torn' = torn /\ DOMAIN conns' = DOMAIN conns
  BY DEF Inv, Made
<1>2. mem.objects \in Seq(Objects) /\ Len(mem.objects) \in Nat /\ mem \in Mems /\ n \in Nat \ {0}
      /\ DOMAIN mem.objects = 1..Len(mem.objects)
  BY <1>1, Fields DEF Typed
<1>3. /\ mem' \in Mems
      /\ mem'.objects = Append(mem.objects, x) /\ mem'.games = [mem.games EXCEPT ![g] = n]
      /\ mem'.deleting = mem.deleting /\ mem'.stopping = mem.stopping /\ mem'.snaps = mem.snaps
  <2>1. Append(mem.objects, x) \in Seq(Objects)
    BY <1>1, <1>2
  <2>2. [mem.games EXCEPT ![g] = n] \in [Games -> Nat]
    BY <1>1, <1>2, Fields
  <2>3. mem' = [mem EXCEPT !.objects = Append(mem.objects, x), !.games = [mem.games EXCEPT ![g] = n]]
    BY DEF Made
  <2> HIDE DEF n
  <2> QED BY <1>2, <2>1, <2>2, <2>3 DEF Mems
<1>4. /\ DOMAIN mem'.objects = DOMAIN mem.objects \cup {n} /\ n \notin DOMAIN mem.objects
      /\ mem'.objects[n] = x
      /\ \A i \in DOMAIN mem.objects : mem'.objects[i] = mem.objects[i]
  BY <1>1, <1>2, <1>3
<1>5. /\ mem'.games[g] = n
      /\ \A h \in Games : h # g => mem'.games[h] = mem.games[h]
  BY <1>1, <1>3, Fields
<1> HIDE DEF n
<1>15. /\ Risen \subseteq Risen' /\ Spoilt \subseteq Spoilt'
       /\ \A h : Closing(h) => Closing(h)'
       /\ Closing(g) => g \in Spoilt'
  <2>1. \A i \in DOMAIN mem.objects : i \in DOMAIN mem'.objects /\ mem'.objects[i] = mem.objects[i]
    BY <1>4
  <2>2. Risen \subseteq Risen'
    BY <1>3, <2>1 DEF Risen
  <2>3. \A h : Closing(h) => Closing(h)'
    BY <1>3, <2>1 DEF Closing
  <2>4. Closing(g) => g \in Risen'
    BY <1>1, <1>3, <1>4, <2>1 DEF Closing, Risen, Made
  <2> QED BY <1>1, <2>2, <2>3, <2>4 DEF Spoilt
<1>6. Typed'
  BY <1>1, <1>3 DEF Typed, Made
<1>7. Registry'
  <2>1. \A i \in DOMAIN mem'.objects : mem'.objects[i].id \in begun'
    BY <1>4 DEF Inv, Registry, Made
  <2>2. \A h \in Games : mem'.games[h] # 0 =>
          mem'.games[h] \in DOMAIN mem'.objects /\ mem'.objects[mem'.games[h]].id = h
    BY <1>4, <1>5 DEF Inv, Registry, Made
  <2>3. \A h \in mem'.deleting : mem'.games[h] # 0
    BY <1>1, <1>2, <1>3, <1>5, Fields DEF Inv, Registry
  <2> QED BY <2>1, <2>2, <2>3 DEF Registry
<1>8. Lives'
  <2>1. ASSUME NEW h \in Games, h # g, NEW S
        PROVE  NoRequest(h, S) => NoRequest(h, S)'
    BY <1>1, <2>1 DEF NoRequest, Made
  <2>2. \A h \in Games : h # g /\ Gone(h) => Gone(h)'
    BY <1>1, <1>3, <1>5, <2>1 DEF Gone
  <2>3. \A h \in Games, i \in DOMAIN mem.objects : h # g /\ Leaving(h, i) => Leaving(h, i)'
    BY <1>3, <1>5, <2>1 DEF Leaving
  <2>4. ASSUME NEW i \in DOMAIN mem'.objects
        PROVE  LET o == mem'.objects[i] IN
               /\ o.zombie => o.clients = <<>>
               /\ ~o.zombie /\ o.id \notin Spoilt' => mem'.games[o.id] = i
    <3>1. CASE i = n
      BY <3>1, <1>4, <1>5 DEF Made
    <3>2. CASE i \in DOMAIN mem.objects
      <4>1. mem.objects[i].id \in Games /\ mem'.objects[i] = mem.objects[i]
        BY <1>1, <1>4, <3>2, Fields DEF Objects
      <4>2. mem.objects[i].id = g => g \in Spoilt'
        BY <1>1, <1>15, <3>2 DEF Made, Closing, Spoilt
      <4> QED BY <3>2, <4>1, <4>2, <1>5, <1>15 DEF Inv, Lives
    <3> QED BY <1>4, <3>1, <3>2
  <2>5. ASSUME NEW i \in DOMAIN mem'.objects, NEW h, mem'.objects[i].id = h,
               mem'.objects[i].zombie, h \notin Spoilt'
        PROVE  Leaving(h, i)' \/ Gone(h)'
    <3>1. i \in DOMAIN mem.objects /\ mem'.objects[i] = mem.objects[i]
      BY <1>4, <2>5 DEF Made
    <3>2. h \in Games /\ h # g
      <4>1. h \in Games
        BY <1>1, <3>1, <2>5, Fields DEF Objects
      <4>2. h = g => g \in torn \/ Closing(g)
        BY <3>1, <2>5 DEF Made, Closing
      <4> QED BY <1>1, <1>15, <2>5, <4>1, <4>2 DEF Spoilt
    <3>3. Leaving(h, i) \/ Gone(h)
      BY <1>15, <3>1, <2>5 DEF Inv, Lives
    <3> QED BY <3>1, <3>2, <3>3, <2>2, <2>3
  <2>6. \A h \in mem'.deleting \ Spoilt' : mem'.objects[mem'.games[h]].zombie
    <3>1. ASSUME NEW h \in mem.deleting \ Spoilt
          PROVE  mem'.objects[mem'.games[h]].zombie
      <4>1. h \in Games /\ mem.games[h] # 0 /\ mem.games[h] \in DOMAIN mem.objects
        BY <1>1, Fields DEF Inv, Registry
      <4>2. h # g
        BY <1>1, <4>1
      <4> QED BY <4>1, <4>2, <1>4, <1>5 DEF Inv, Lives
    <3> QED BY <3>1, <1>3, <1>15
  <2>7. \A i \in DOMAIN mem'.objects :
          mem'.objects[i].zombie /\ mem'.objects[i].id \notin Spoilt' =>
            (\/ /\ mem'.games[mem'.objects[i].id] = i /\ mem'.objects[i].id \in mem'.deleting
                /\ \A c \in DOMAIN conns' : conns'[c].id = mem'.objects[i].id =>
                     conns'[c].stage \notin {"game", "users"}
             \/ /\ mem'.games[mem'.objects[i].id] = 0
                /\ \/ mem'.stopping
                   \/ /\ rows'[mem'.objects[i].id] = NULL
                      /\ \A c \in DOMAIN conns' : conns'[c].id = mem'.objects[i].id =>
                           conns'[c].stage \notin {"users"})
    BY <2>5 DEF Leaving, Gone, NoRequest
  <2> QED BY <1>1, <2>4, <2>6, <2>7 DEF Lives, Leaving, Gone, NoRequest
<1>9. Lists'
  <2>1. IsInjective(<<>>) /\ Range(<<>>) = {}
    BY DEF IsInjective, Range
  <2>2. ASSUME NEW i \in DOMAIN mem'.objects
        PROVE  /\ IsInjective(mem'.objects[i].clients)
               /\ \A c \in Range(mem'.objects[i].clients) :
                    c \in DOMAIN conns /\ conns'[c].stage \in {"open", "closed"}
    <3>1. CASE i = n
      BY <3>1, <1>4, <2>1 DEF Made
    <3>2. CASE i \in DOMAIN mem.objects
      BY <3>2, <1>4 DEF Inv, Lists, Made
    <3> QED BY <1>4, <3>1, <3>2
  <2> QED BY <1>1, <2>2 DEF Lists
<1>10. Connections'
  <2>2. \A i : Twice(i) # {} => Twice(i)' # {}
    <3> SUFFICES ASSUME NEW i, NEW d \in DOMAIN conns, conns[d].obj = i, conns[d].bye = "again"
                 PROVE  Twice(i)' # {}
      BY DEF Twice
    <3>1. conns[d].stage # "users"
      BY DEF Inv, Connections, Waiting
    <3>2. conns'[d] = conns[d]
      BY <3>1 DEF Made
    <3> QED BY <1>1, <3>2 DEF Twice
  <2>1. ASSUME NEW d \in DOMAIN conns
        PROVE  LET k == conns'[d] IN
               /\ k.id \in begun'
               /\ k.stage \in {"session", "open"} =>
                    k.obj \in DOMAIN mem'.objects /\ mem'.objects[k.obj].id = k.id
               /\ k.stage = "users" => k.row # NULL
               /\ k.stage \in Waiting => ~k.greeted /\ ~k.heard /\ k.bye = "no"
               /\ k.stage = "open" /\ k.greeted => k.p \in DOMAIN mem'.objects[k.obj].users
               /\ k.stage = "open" /\ k.heard /\ ~mem'.objects[k.obj].zombie =>
                    d \in Range(mem'.objects[k.obj].clients) \/ k.bye # "no" \/ Twice(k.obj) # {}
    <3>1. CASE conns'[d] = conns[d]
      BY <3>1, <1>4 DEF Inv, Connections, Made
    <3>2. CASE /\ conns'[d].id = g /\ conns'[d].stage = "session" /\ conns'[d].obj = n
               /\ ~conns'[d].greeted /\ ~conns'[d].heard /\ conns'[d].bye = "no"
      BY <3>2, <1>4 DEF Made
    <3> QED BY <3>1, <3>2 DEF Made, n
  <2> QED BY <1>1, <2>1, <2>2 DEF Connections
<1>11. Saving'
  <2>1. \A h \in Games : mem.snaps[h] # NULL =>
          /\ mem.snaps[h].obj \in DOMAIN mem'.objects
          /\ mem'.objects[mem.snaps[h].obj] = mem.objects[mem.snaps[h].obj]
    BY <1>4 DEF Inv, Saving
  <2> QED BY <1>1, <1>3, <2>1 DEF Inv, Saving
<1>12. Users'
  <2>1. ASSUME NEW h \in Games, mem'.games[h] # 0, h \notin Risen'
        PROVE  Within(prtc[h], mem'.objects[mem'.games[h]].users)
    <3>1. CASE h = g
      BY <3>1, <1>4, <1>5 DEF Made
    <3>2. CASE h # g
      BY <2>1, <3>2, <1>4, <1>5, <1>15 DEF Inv, Users, Registry
    <3> QED BY <3>1, <3>2
  <2> QED BY <2>1 DEF Inv, Users, Made
<1>13. Restorable'
  <2>1. \A h \in Games \ torn : rows[h] # NULL /\ ~Half(h)' => rows[h].players \subseteq Range(prtc[h])
    BY <1>3 DEF Inv, Restorable, Half
  <2>2. ASSUME NEW d \in DOMAIN conns, conns'[d].stage = "users", conns'[d].id \notin torn,
               mem'.games[conns'[d].id] = 0,
               ~(mem'.stopping /\ \E i \in DOMAIN mem'.objects : mem'.objects[i].id = conns'[d].id)
        PROVE  conns'[d].row.players \subseteq Range(prtc[conns'[d].id])
    <3>1. conns'[d] = conns[d] /\ ~Closing(conns[d].id)
      <4>1. conns'[d] = conns[d]
        BY <2>2 DEF Made
      <4>2. Closing(conns[d].id) => mem'.stopping /\ \E i \in DOMAIN mem'.objects : mem'.objects[i].id = conns[d].id
        BY <1>3, <1>4 DEF Closing
      <4> QED BY <2>2, <4>1, <4>2
    <3>2. conns[d].id \in Games
      BY <1>1, Fields DEF Conns
    <3>3. mem.games[conns[d].id] = 0
      BY <1>1, <1>5, <2>2, <3>1, <3>2
    <3> QED BY <2>2, <3>1, <3>3 DEF Inv, Restorable
  <2> QED BY <1>1, <2>1, <2>2 DEF Restorable, Half, Closing
<1>14. PlayersKnown'
  <2>1. ASSUME NEW i \in DOMAIN mem'.objects
        PROVE  mem'.objects[i].id \in Spoilt'
               \/ mem'.objects[i].st.players \subseteq Range(mem'.objects[i].users)
    <3>1. CASE i = n
      BY <1>1, <1>4, <1>15, <3>1 DEF Made, Spoilt
    <3>2. CASE i \in DOMAIN mem.objects
      BY <1>4, <1>15, <3>2 DEF Inv, PlayersKnown
    <3> QED BY <1>4, <3>1, <3>2
  <2> QED BY <1>1, <2>1 DEF PlayersKnown
<1> QED
  BY <1>6, <1>7, <1>8, <1>9, <1>10, <1>11, <1>12, <1>13, <1>14 DEF Inv

LEMMA BeginGameStep ==
  ASSUME Inv, NEW g \in Games, BeginGame(g)
  PROVE  Inv'
<1> DEFINE x == Game(g, Lobby, NoUsers)
<1>1. /\ Typed /\ g \notin begun /\ begun' = begun \cup {g}
      /\ UNCHANGED <<rows, prtc, conns, torn>>
      /\ mem' = [mem EXCEPT !.objects = Append(@, x), !.games[g] = Len(mem.objects) + 1]
  BY DEF Inv, BeginGame
<1>2. /\ x \in Objects /\ x.id = g /\ ~x.zombie /\ x.clients = <<>>
      /\ x.users = NoUsers /\ x.st.players = {}
  BY NoUsersMap DEF Game, Lobby, Objects, States
<1>3. \A i \in DOMAIN mem.objects : mem.objects[i].id # g
  BY <1>1 DEF Inv, Registry
<1>4. mem.games[g] = 0
  BY <1>3 DEF Inv, Registry
<1>5. Within(prtc[g], NoUsers)
  BY <1>1 DEF Inv, Users, Within
<1>6. begun' \subseteq Games /\ conns' \in Seq(Conns)
  BY <1>1 DEF Typed
<1> HIDE DEF x
<1>7. Made(g, x)
  BY <1>1, <1>2, <1>3, <1>4, <1>5, <1>6 DEF Made
<1> QED
  BY <1>7, MakeStep

LEMMA FetchUsersStep ==
  ASSUME Inv, NEW c \in DOMAIN conns, FetchUsers(c)
  PROVE  Inv'
<1> DEFINE g == conns[c].id
<1>1. /\ Typed /\ UNCHANGED <<rows, prtc, begun>> /\ conns[c].stage = "users"
      /\ conns[c] \in Conns /\ g \in Games /\ conns[c].row \in States
      /\ ~conns[c].greeted /\ ~conns[c].heard /\ conns[c].bye = "no"
  BY Fields DEF Inv, FetchUsers, Connections, Waiting, Conns
<1>2. CASE Crashed
  BY <1>1, <1>2, CrashedStep
<1>3. ASSUME NEW n \in Nat
      PROVE  LET k == [conns[c] EXCEPT !.stage = "session", !.obj = n, !.row = NULL] IN
             /\ k \in Conns /\ k.stage = "session" /\ k.obj = n /\ k.id = g
             /\ ~k.greeted /\ ~k.heard /\ k.bye = "no"
  BY <1>1 DEF Conns, Waiting
<1>4. CASE /\ mem.games[g] # 0
           /\ conns' = [conns EXCEPT ![c].stage = "session", ![c].obj = mem.games[g], ![c].row = NULL]
           /\ UNCHANGED <<mem, torn>>
  <2> DEFINE k == [conns[c] EXCEPT !.stage = "session", !.obj = mem.games[g], !.row = NULL]
  <2>1. conns' = [conns EXCEPT ![c] = k]
    BY <1>1, <1>4 DEF Typed
  <2>2. mem.games[g] \in Nat
    BY <1>1, Fields
  <2>3. k \in Conns /\ Advanced(c, k)
    BY <1>1, <1>3, <1>4, <2>2 DEF Advanced, Waiting, Inv, Connections
  <2> HIDE DEF k
  <2>4. /\ conns' \in Seq(Conns) /\ DOMAIN conns \subseteq DOMAIN conns'
        /\ \A d \in DOMAIN conns' : \/ d \in DOMAIN conns /\ conns'[d] = conns[d]
                                    \/ d = c /\ conns'[d] = k
    BY <1>1, <2>1, <2>3 DEF Typed
  <2> QED BY <1>1, <1>4, <2>3, <2>4, RequestStep
<1>5. CASE /\ mem.games[g] = 0
           /\ mem' = [mem EXCEPT !.objects = Append(@, Game(g, conns[c].row, prtc[g])),
                                 !.games[g] = Len(mem.objects) + 1]
           /\ conns' = [conns EXCEPT ![c].stage = "session", ![c].obj = Len(mem.objects) + 1,
                                     ![c].row = NULL]
           /\ UNCHANGED torn
  <2> DEFINE x == Game(g, conns[c].row, prtc[g])
             n == Len(mem.objects) + 1
             k == [conns[c] EXCEPT !.stage = "session", !.obj = n, !.row = NULL]
  <2>1. conns' = [conns EXCEPT ![c] = k]
    BY <1>1, <1>5 DEF Typed
  <2>2. n \in Nat
    BY <1>1, Fields
  <2>3. /\ k \in Conns /\ k.stage = "session" /\ k.obj = n /\ k.id = g
        /\ ~k.greeted /\ ~k.heard /\ k.bye = "no"
    BY <1>3, <2>2
  <2>4. prtc[g] \in UserMaps
    BY <1>1 DEF Typed
  <2>5. /\ x \in Objects /\ x.id = g /\ ~x.zombie /\ x.clients = <<>>
        /\ x.users = prtc[g] /\ x.st = conns[c].row
    BY <1>1, <2>4 DEF Game, Objects
  <2>6. ASSUME NEW i \in DOMAIN mem.objects, mem.objects[i].id = g, g \notin torn, ~mem.stopping
        PROVE  FALSE
    <3>1. i # 0 /\ g \notin Spoilt
      BY <1>1, <2>6, Fields, RisenAtTheEnd
    <3>2. ~Gone(g) /\ ~Leaving(g, i) /\ mem.games[g] # i
      BY <1>1, <1>5, <2>6, <3>1 DEF Gone, Leaving, NoRequest
    <3> QED BY <2>6, <3>1, <3>2 DEF Inv, Lives
  <2>7. Within(prtc[g], x.users) /\ (x.st.players \subseteq Range(x.users) \/ g \in torn \/ Closing(g))
    BY <1>1, <1>5, <2>5 DEF Inv, Restorable, Within
  <2>8. g \in begun /\ begun \subseteq Games
    BY <1>1 DEF Inv, Connections, Typed
  <2>9. /\ conns' \in Seq(Conns) /\ DOMAIN conns' = DOMAIN conns
        /\ \A d \in DOMAIN conns : conns'[d] = conns[d] \/ (d = c /\ conns'[d] = k)
    <3> HIDE DEF k
    <3> QED BY <1>1, <2>1, <2>3 DEF Typed
  <2>10. mem' = [mem EXCEPT !.objects = Append(@, x), !.games[g] = n]
    BY <1>5
  <2> HIDE DEF x, k
  <2>11. Made(g, x)
    BY <1>1, <1>5, <2>3, <2>5, <2>6, <2>7, <2>8, <2>9, <2>10 DEF Made
  <2> QED BY <2>11, MakeStep
<1> QED
  BY <1>2, <1>4, <1>5 DEF FetchUsers, Present

-----------------------------------------------------------------------------
(* The end of a game *)

\* destroy leaves a zombie without clients, and everything else as it was.
LEMMA Destroyed ==
  ASSUME Typed, NEW n \in DOMAIN mem.objects, Destroy(mem, n) # NULL
  PROVE  \E o \in Objects : LET d == Destroy(mem, n) IN
           /\ o.id = mem.objects[n].id /\ o.zombie /\ o.clients = <<>>
           /\ o.users = mem.objects[n].users /\ o.st.players \subseteq mem.objects[n].st.players
           /\ d \in Mems /\ d.objects = [mem.objects EXCEPT ![n] = o]
           /\ d.games = mem.games /\ d.deleting = mem.deleting
           /\ d.stopping = mem.stopping /\ d.snaps = mem.snaps
<1> DEFINE old     == mem.objects[n]
           victims == Range(old.clients) \ Range(<<>>)
           parted  == {p \in {conns[c].p : c \in victims} : Left(<<>>, p)}
           seats   == IF old.st.phase # "INIT" THEN {}
                      ELSE old.st.players \cap {old.users[conns[c].p] : c \in {d \in victims : conns[d].greeted}}
           runs    == seats # {}
           o       == [old EXCEPT !.zombie = TRUE, !.timer = runs, !.clients = <<>>,
                                  !.st.players = @ \ seats]
           part    == [p \in Principals |-> IF p \in parted THEN mem.participation[p] \ {old.id}
                                            ELSE mem.participation[p]]
<1>1. /\ mem \in Mems /\ mem.objects \in Seq(Objects) /\ old \in Objects
      /\ mem.participation \in [Principals -> (SUBSET Games) \cup {NULL}]
  BY Fields DEF Typed
<1>2. /\ ~ \E p \in parted : mem.participation[p] = NULL
      /\ Destroy(mem, n) = [mem EXCEPT !.objects = [@ EXCEPT ![n] = o], !.participation = part]
  <2>1. Destroy(mem, n) =
          IF \E p \in parted : mem.participation[p] = NULL THEN NULL
          ELSE [mem EXCEPT !.objects[n] = o, !.participation = part]
    BY DEF Destroy, Byes
  <2> HIDE DEF parted, o, part
  <2> QED BY <2>1
<1>3. part \in [Principals -> (SUBSET Games) \cup {NULL}]
  <2> HIDE DEF parted, old
  <2> QED BY <1>1, <1>2
<1>4. /\ o \in Objects /\ o.id = old.id /\ o.zombie /\ o.clients = <<>> /\ o.users = old.users
      /\ o.st.players \subseteq old.st.players
  <2>1. runs \in BOOLEAN
    OBVIOUS
  <2> HIDE DEF runs, seats, old
  <2> DEFINE st == [old.st EXCEPT !.players = @ \ seats]
  <2>2. st \in States /\ st.players \subseteq old.st.players
    BY <1>1 DEF Objects, States
  <2>3. o = [old EXCEPT !.zombie = TRUE, !.timer = runs, !.clients = <<>>, !.st = st]
    BY <1>1 DEF Objects
  <2>4. <<>> \in Seq(Nat)
    OBVIOUS
  <2> HIDE DEF o, st
  <2>5. /\ o \in Objects /\ o.id = old.id /\ o.zombie = TRUE /\ o.clients = <<>>
        /\ o.users = old.users /\ o.st = st
    BY <1>1, <2>1, <2>2, <2>3, <2>4 DEF Objects
  <2> QED BY <2>2, <2>5
<1> HIDE DEF old, o, part, parted
<1>5. [mem.objects EXCEPT ![n] = o] \in Seq(Objects)
  BY <1>1, <1>4
<1> QED
  BY <1>1, <1>2, <1>3, <1>4, <1>5 DEF Mems, old

LEMMA ExpireStep ==
  ASSUME Inv, NEW n \in DOMAIN mem.objects, Expire(n)
  PROVE  Inv'
<1> DEFINE old == mem.objects[n]
           g == old.id
           m == Destroy(mem, n)
<1>1. /\ Typed /\ UNCHANGED <<rows, prtc, begun>> /\ g \notin mem.deleting
      /\ NoRequest(g, {"game", "users"})
      /\ Runs(IF m = NULL THEN NULL ELSE Delete(m, g), conns)
  BY DEF Inv, Expire, NoRequest
<1>2. /\ mem.objects \in Seq(Objects) /\ old \in Objects /\ g \in Games /\ mem \in Mems
      /\ n # 0
  BY <1>1, Fields DEF Objects, Typed
<1>3. CASE Crashed
  BY <1>1, <1>3, CrashedStep
<1>4. CASE m # NULL /\ mem' = Delete(m, g) /\ conns' = conns /\ torn' = torn
  <2>1. PICK o \in Objects :
          /\ o.id = g /\ o.zombie /\ o.clients = <<>>
          /\ o.users = old.users /\ o.st.players \subseteq old.st.players
          /\ m \in Mems /\ m.objects = [mem.objects EXCEPT ![n] = o]
          /\ m.games = mem.games /\ m.deleting = mem.deleting
          /\ m.stopping = mem.stopping /\ m.snaps = mem.snaps
    BY <1>1, <1>4, Destroyed
  <2> HIDE DEF m
  <2>2. /\ mem' \in Mems /\ mem'.objects = m.objects /\ mem'.games = m.games
        /\ mem'.stopping = m.stopping /\ mem'.snaps = m.snaps
        /\ mem'.deleting = IF m.games[g] = 0 \/ m.objects[m.games[g]].clients # <<>> THEN m.deleting
                           ELSE m.deleting \cup {g}
    <3> HIDE DEF g
    <3>1. m.deleting \cup {g} \in SUBSET Games
      BY <1>2, <2>1 DEF Mems
    <3> QED BY <1>4, <2>1, <3>1 DEF Delete, Mems
  <2>3. /\ DOMAIN mem'.objects = DOMAIN mem.objects /\ mem'.objects[n] = o
        /\ \A i \in DOMAIN mem.objects : i # n => mem'.objects[i] = mem.objects[i]
    BY <1>2, <2>1, <2>2
  <2>4. \A i \in DOMAIN mem.objects : /\ mem'.objects[i].id = mem.objects[i].id
                                       /\ mem'.objects[i].users = mem.objects[i].users
    BY <2>1, <2>3
  <2>5. mem.deleting \subseteq mem'.deleting /\ mem'.deleting \subseteq mem.deleting \cup {g}
    BY <2>1, <2>2
  <2>6. g \in mem'.deleting => mem.games[g] # 0
    BY <1>1, <2>1, <2>2
  <2>17. torn' = torn /\ Spoilt' = Spoilt /\ Risen' = Risen /\ (\A h : Closing(h)' <=> Closing(h))
    <3>1. DOMAIN mem'.objects = DOMAIN mem.objects /\ mem'.stopping = mem.stopping
      BY <2>1, <2>2, <2>3
    <3>2. \A i \in DOMAIN mem.objects : mem'.objects[i].id = mem.objects[i].id
      BY <2>4
    <3> QED BY <1>4, <3>1, <3>2, StillSpoilt
  <2>7. g \notin Spoilt =>
          IF old.zombie THEN Gone(g) /\ g \notin mem'.deleting
          ELSE mem.games[g] = n /\ g \in mem'.deleting
    <3>1. CASE old.zombie /\ g \notin Spoilt
      <4>1. Gone(g)
        BY <1>1, <3>1 DEF Inv, Lives, Leaving
      <4> QED BY <3>1, <4>1, <2>6 DEF Gone
    <3>2. CASE ~old.zombie /\ g \notin Spoilt
      <4>1. mem.games[g] = n
        BY <3>2 DEF Inv, Lives
      <4>2. m.objects[m.games[g]].clients = <<>> /\ m.games[g] # 0
        BY <4>1, <1>2, <2>1, <2>2, <2>3
      <4> QED BY <3>2, <4>1, <4>2, <2>2
    <3> QED BY <3>1, <3>2
  <2> HIDE DEF old, g
  <2>8. old = mem.objects[n] /\ g = mem.objects[n].id
    BY DEF old, g
  <2>9. Typed'
    BY <1>1, <1>4, <2>2 DEF Typed
  <2>10. Registry'
    BY <1>1, <2>1, <2>2, <2>3, <2>4, <2>5, <2>6 DEF Inv, Registry
  <2>11. Lives'
    <3>1. ASSUME NEW i \in DOMAIN mem.objects
          PROVE  LET x == mem'.objects[i] IN
                 /\ x.zombie => x.clients = <<>>
                 /\ ~x.zombie /\ x.id \notin Spoilt => mem.games[x.id] = i
      BY <2>1, <2>3 DEF Inv, Lives
    <3>2. ASSUME NEW i \in DOMAIN mem.objects, NEW h, mem'.objects[i].id = h,
                 mem'.objects[i].zombie, h \notin Spoilt
          PROVE  \/ mem.games[h] = i /\ h \in mem'.deleting /\ NoRequest(h, {"game", "users"})
                 \/ Gone(h)
      <4>1. CASE i = n
        BY <4>1, <3>2, <1>1, <2>1, <2>3, <2>7, <2>8
      <4>2. CASE i # n
        BY <4>2, <3>2, <2>3, <2>5 DEF Inv, Lives, Leaving
      <4> QED BY <4>1, <4>2
    <3>3. ASSUME NEW h \in mem'.deleting \ Spoilt
          PROVE  mem'.objects[mem.games[h]].zombie
      <4>1. CASE h = g
        BY <4>1, <3>3, <2>1, <2>3, <2>7
      <4>2. CASE h # g
        <5>1. h \in mem.deleting /\ h \in Games
          BY <4>2, <2>5, <1>1, <3>3, Fields
        <5>2. mem.games[h] \in DOMAIN mem.objects /\ mem.objects[mem.games[h]].id = h
          BY <5>1 DEF Inv, Registry
        <5> QED BY <3>3, <4>2, <5>1, <5>2, <2>3, <2>8 DEF Inv, Lives
      <4> QED BY <4>1, <4>2
    <3>4. \A i \in DOMAIN mem.objects :
            mem'.objects[i].zombie /\ mem'.objects[i].id \notin Spoilt =>
              \/ /\ mem.games[mem'.objects[i].id] = i /\ mem'.objects[i].id \in mem'.deleting
                 /\ NoRequest(mem'.objects[i].id, {"game", "users"})
              \/ Gone(mem'.objects[i].id)
      BY <3>2
    <3> QED BY <1>1, <1>4, <2>1, <2>2, <2>3, <2>17, <3>1, <3>3, <3>4
            DEF Lives, Leaving, Gone, NoRequest
  <2>12. Lists'
    <3>1. IsInjective(<<>>) /\ Range(<<>>) = {}
      BY DEF IsInjective, Range
    <3> QED BY <1>4, <2>1, <2>3, <3>1 DEF Inv, Lists
  <2>13. Connections'
    <3>1. \A i : Twice(i)' = Twice(i)
      BY <1>4 DEF Twice
    <3> QED BY <1>1, <1>4, <2>1, <2>3, <2>4, <3>1 DEF Inv, Connections
  <2>14. Saving' /\ Users'
    <3>1. Saving'
      BY <1>1, <2>1, <2>2, <2>4, <2>17 DEF Inv, Saving
    <3>2. Users'
      BY <1>1, <2>1, <2>2, <2>4, <2>17 DEF Inv, Users, Registry
    <3> QED BY <3>1, <3>2
  <2>15. Restorable'
    BY <1>1, <1>4, <2>1, <2>2, <2>17 DEF Inv, Restorable, Half
  <2>16. PlayersKnown'
    BY <2>1, <2>3, <2>8, <2>17 DEF Inv, PlayersKnown
  <2> QED
    BY <2>9, <2>10, <2>11, <2>12, <2>13, <2>14, <2>15, <2>16 DEF Inv
<1> HIDE DEF m, g
<1> QED
  BY <1>1, <1>3, <1>4, RunsOrCrashes

LEMMA DeletedStep ==
  ASSUME Inv, NEW g \in Games, Deleted(g)
  PROVE  Inv'
<1> DEFINE users == DOMAIN mem.objects[mem.games[g]].users
           part  == [p \in Principals |-> IF p \in users THEN mem.participation[p] \ {g}
                                          ELSE mem.participation[p]]
<1>1. /\ Typed /\ begun' = begun /\ g \in mem.deleting
      /\ mem.games[g] # 0 /\ mem.games[g] \in DOMAIN mem.objects
      /\ mem.objects[mem.games[g]].id = g
  <2>1. g \in mem.deleting /\ begun' = begun
    BY DEF Deleted
  <2> QED BY <2>1 DEF Inv, Registry
<1>2. /\ rows' \in [Games -> States \cup {NULL}] /\ prtc' \in [Games -> UserMaps]
      /\ torn' \in SUBSET Games /\ torn \subseteq torn'
      /\ \A h \in Games : h # g => rows'[h] = rows[h] /\ prtc'[h] = prtc[h]
      /\ g \notin torn' => rows'[g] = NULL
      /\ \A h \in Games : prtc'[h] = prtc[h] \/ DOMAIN prtc'[h] = {}
      /\ rows'[g] \in {rows[g], NULL}
      /\ mem' = Boot => HalfSaved \subseteq torn'
  <2>1. PICK failed \in {{}, {g}} :
          /\ IF failed = {}
             THEN rows' = [rows EXCEPT ![g] = NULL] /\ prtc' = [prtc EXCEPT ![g] = NoUsers]
             ELSE UNCHANGED <<rows, prtc>>
          /\ \/ mem' = Boot /\ torn' = torn \cup HalfSaved \cup failed
             \/ /\ mem' = [mem EXCEPT !.deleting = @ \ {g}, !.games[g] = 0, !.participation = part]
                /\ torn' = torn \cup failed
    BY DEF Deleted
  <2>2. mem' = Boot => HalfSaved \subseteq torn'
    <3>1. CASE mem' = [mem EXCEPT !.deleting = @ \ {g}, !.games[g] = 0, !.participation = part]
      <4>1. mem'.objects = mem.objects
        <5> HIDE DEF part
        <5> QED BY <1>1, <3>1 DEF Typed, Mems
      <4>2. mem' # Boot
        BY <1>1, <4>1 DEF Boot
      <4> QED BY <4>2
    <3> QED BY <2>1, <3>1
  <2> HIDE DEF part
  <2>3. torn' \in SUBSET Games /\ torn \subseteq torn' /\ (failed = {g} => g \in torn')
    BY <2>1, <1>1 DEF Typed, HalfSaved
  <2>4. CASE failed = {}
    BY <2>1, <2>2, <2>3, <2>4, <1>1, NoUsersMap DEF Typed
  <2>5. CASE failed = {g}
    BY <2>1, <2>2, <2>3, <2>5, <1>1 DEF Typed
  <2> QED BY <2>1, <2>4, <2>5
<1>3. \A h \in Games \ torn' : rows'[h] # NULL /\ ~Half(h) =>
        rows'[h].players \subseteq Range(prtc'[h])
  BY <1>1, <1>2 DEF Inv, Restorable
<1>4. \A h \in Games : h \notin begun => DOMAIN prtc'[h] = {}
  BY <1>2 DEF Inv, Users
<1>5. CASE mem' = Boot /\ conns' = Ended
  <2>1. \A h \in Games \ torn' : ~Half(h)
    BY <1>2, <1>5 DEF HalfSaved, Half
  <2> QED BY <1>1, <1>2, <1>3, <1>4, <1>5, <2>1, Rebooted
<1>6. CASE /\ ~ \E p \in users : mem.participation[p] = NULL
           /\ mem' = [mem EXCEPT !.deleting = @ \ {g}, !.games[g] = 0, !.participation = part]
           /\ conns' = conns
  <2>1. /\ mem' \in Mems /\ mem'.objects = mem.objects
        /\ mem'.games = [mem.games EXCEPT ![g] = 0] /\ mem'.deleting = mem.deleting \ {g}
        /\ mem'.stopping = mem.stopping /\ mem'.snaps = mem.snaps
    <3>1. part \in [Principals -> (SUBSET Games) \cup {NULL}]
      <4> HIDE DEF users
      <4> QED BY <1>1, <1>6, Fields
    <3>2. [mem.games EXCEPT ![g] = 0] \in [Games -> Nat] /\ mem.deleting \ {g} \in SUBSET Games
      BY <1>1, Fields
    <3>3. mem \in Mems
      BY <1>1 DEF Typed
    <3> HIDE DEF part
    <3> QED BY <1>6, <3>1, <3>2, <3>3 DEF Mems
  <2>2. mem'.games[g] = 0 /\ \A h \in Games : h # g => mem'.games[h] = mem.games[h]
    BY <1>1, <2>1, Fields
  <2>10. Risen' = Risen /\ Spoilt \subseteq Spoilt' /\ torn' \subseteq Spoilt' /\ (\A h : Closing(h)' <=> Closing(h))
    <3>1. DOMAIN mem'.objects = DOMAIN mem.objects /\ mem'.stopping = mem.stopping
      BY <2>1
    <3>2. \A i \in DOMAIN mem.objects : mem'.objects[i].id = mem.objects[i].id
      BY <2>1
    <3> QED BY <1>2, <3>1, <3>2, StillSpoilt DEF Spoilt
  <2>11. \A h : h \notin Spoilt' => h \notin Spoilt /\ h \notin torn'
    BY <2>10
  <2>3. g \notin Spoilt' =>
          /\ NoRequest(g, {"users"})
          /\ \A n \in DOMAIN mem.objects : mem.objects[n].id = g => mem.objects[n].zombie
    <3> SUFFICES ASSUME g \notin Spoilt'
                 PROVE  /\ NoRequest(g, {"users"})
                        /\ \A n \in DOMAIN mem.objects : mem.objects[n].id = g => mem.objects[n].zombie
      OBVIOUS
    <3>1. mem.objects[mem.games[g]].zombie /\ mem.objects[mem.games[g]].id = g
      BY <1>1, <2>11 DEF Inv, Lives, Registry
    <3>2. \A n \in DOMAIN mem.objects : mem.objects[n].id = g => mem.objects[n].zombie
      BY <3>1, <2>11 DEF Inv, Lives
    <3>3. Leaving(g, mem.games[g])
      BY <3>1, <1>1, <2>11 DEF Inv, Lives, Gone
    <3> QED BY <3>2, <3>3 DEF Leaving, NoRequest
  <2>4. Typed' /\ Registry'
    BY <1>1, <1>2, <1>6, <2>1, <2>2, Fields DEF Inv, Typed, Registry
  <2>5. Lives'
    <3>1. \A n \in DOMAIN mem.objects : mem.objects[n].id \in Games
      BY <1>1, Fields DEF Objects
    <3>2. ASSUME NEW n \in DOMAIN mem.objects
          PROVE  LET o == mem.objects[n] IN
                 /\ o.zombie => o.clients = <<>>
                 /\ ~o.zombie /\ o.id \notin Spoilt' => mem'.games[o.id] = n
      BY <1>2, <2>11, <2>2, <2>3, <3>1 DEF Inv, Lives
    <3>3. ASSUME NEW n \in DOMAIN mem.objects, NEW h, mem.objects[n].id = h,
                 mem.objects[n].zombie, h \notin Spoilt'
          PROVE  \/ mem'.games[h] = n /\ h \in mem'.deleting /\ NoRequest(h, {"game", "users"})
                 \/ mem'.games[h] = 0 /\ (mem.stopping \/ (rows'[h] = NULL /\ NoRequest(h, {"users"})))
      <4>1. CASE h = g
        BY <4>1, <3>3, <1>2, <2>11, <2>2, <2>3
      <4>2. CASE h # g
        <5>1. Leaving(h, n) \/ Gone(h)
          BY <3>3, <1>2, <2>11 DEF Inv, Lives
        <5> QED BY <4>2, <3>1, <3>3, <5>1, <1>2, <2>11, <2>1, <2>2 DEF Leaving, Gone
      <4> QED BY <4>1, <4>2
    <3>4. ASSUME NEW h \in mem'.deleting \ Spoilt'
          PROVE  mem.objects[mem'.games[h]].zombie
      <4>1. h \in mem.deleting /\ h \in Games /\ h # g /\ h \notin Spoilt
        BY <1>1, <1>2, <2>11, <2>1, <3>4, Fields
      <4> QED BY <4>1, <2>2 DEF Inv, Lives
    <3>5. \A n \in DOMAIN mem.objects : mem.objects[n].zombie /\ mem.objects[n].id \notin Spoilt' =>
            \/ /\ mem'.games[mem.objects[n].id] = n /\ mem.objects[n].id \in mem'.deleting
               /\ NoRequest(mem.objects[n].id, {"game", "users"})
            \/ /\ mem'.games[mem.objects[n].id] = 0
               /\ \/ mem.stopping
                  \/ rows'[mem.objects[n].id] = NULL /\ NoRequest(mem.objects[n].id, {"users"})
      BY <3>3
    <3> QED BY <1>6, <2>1, <3>2, <3>4, <3>5 DEF Lives, Leaving, Gone, NoRequest
  <2>6. Lists' /\ Connections'
    <3>1. \A n : Twice(n)' = Twice(n)
      BY <1>6 DEF Twice
    <3> QED BY <1>1, <1>6, <2>1, <3>1 DEF Inv, Lists, Connections
  <2>7. Saving' /\ Users'
    <3>1. \A h \in Games : \A u : Within(prtc[h], u) => Within(prtc'[h], u)
      BY <1>2 DEF Within
    <3>2. Saving'
      BY <1>2, <2>1, <3>1 DEF Inv, Saving
    <3>3. ASSUME NEW h \in Games, mem'.games[h] # 0, h \notin Risen
          PROVE  Within(prtc'[h], mem.objects[mem'.games[h]].users)
      BY <3>1, <3>3, <2>2 DEF Inv, Users
    <3> QED BY <1>1, <1>4, <2>1, <2>10, <3>2, <3>3 DEF Users
  <2>8. Restorable'
    <3>1. ASSUME NEW c \in DOMAIN conns, conns[c].stage = "users", conns[c].id \notin torn',
                 mem'.games[conns[c].id] = 0, ~Closing(conns[c].id)
          PROVE  conns[c].row.players \subseteq Range(prtc'[conns[c].id])
      <4>1. conns[c].id \in Games
        BY <1>1, Fields DEF Conns
      <4>2. conns[c].id # g
        <5>1. conns[c].id \notin Spoilt'
          BY <3>1, <2>10, RisenAtTheEnd DEF Spoilt
        <5> QED BY <3>1, <5>1, <2>3 DEF NoRequest
      <4> QED BY <3>1, <4>1, <4>2, <1>2, <2>2 DEF Inv, Restorable
    <3> QED BY <1>3, <1>6, <2>1, <2>10, <3>1 DEF Restorable, Half
  <2>9. PlayersKnown'
    BY <2>1, <2>11 DEF Inv, PlayersKnown
  <2> QED
    BY <2>4, <2>5, <2>6, <2>7, <2>8, <2>9 DEF Inv
<1> QED
  BY <1>5, <1>6 DEF Deleted

-----------------------------------------------------------------------------
(* The end of the server *)

LEMMA ShutdownStep ==
  ASSUME Inv, Shutdown
  PROVE  Inv'
<1> DEFINE snaps == [g \in Games |-> IF mem.games[g] = 0 THEN NULL
                       ELSE [stage |-> "game", obj |-> mem.games[g],
                             st |-> mem.objects[mem.games[g]].st, users |-> NoUsers]]
<1>1. /\ Typed /\ UNCHANGED <<rows, prtc, conns, begun, torn>> /\ ~mem.stopping
      /\ mem' = [mem EXCEPT !.stopping = TRUE, !.snaps = snaps]
  BY DEF Inv, Shutdown
<1>2. \A g \in Games : mem.games[g] # 0 =>
        /\ mem.games[g] \in DOMAIN mem.objects /\ mem.objects[mem.games[g]].id = g
        /\ mem.objects[mem.games[g]].st \in States /\ mem.games[g] \in Nat
  BY <1>1, Fields DEF Inv, Registry, Objects
<1>3. snaps \in [Games -> Snaps \cup {NULL}]
  BY <1>2, NoUsersMap DEF Snaps
<1>4. \A g \in Games : snaps[g] # NULL => LET snap == snaps[g] IN
        /\ mem.games[g] # 0 /\ snap.obj = mem.games[g] /\ snap.stage = "game"
        /\ snap.st = mem.objects[mem.games[g]].st
  OBVIOUS
<1> HIDE DEF snaps
<1>5. /\ mem' \in Mems /\ mem'.objects = mem.objects /\ mem'.games = mem.games
      /\ mem'.deleting = mem.deleting /\ mem'.stopping = TRUE /\ mem'.snaps = snaps
  BY <1>1, <1>3 DEF Typed, Mems
<1>9. Risen = {} /\ Spoilt = torn /\ torn' = torn /\ \A h : h \notin Spoilt' => h \notin Spoilt
  BY <1>1, RisenAtTheEnd DEF Spoilt
<1>6. (Typed /\ Registry /\ Lives /\ Lists /\ Connections /\ Users /\ PlayersKnown)'
  <2>1. Typed' /\ Registry' /\ Users' /\ PlayersKnown'
    BY <1>1, <1>5, <1>9 DEF Inv, Typed, Registry, Users, PlayersKnown
  <2>2. Lives'
    BY <1>1, <1>5, <1>9 DEF Inv, Lives, Leaving, Gone, NoRequest
  <2>3. \A n : Twice(n)' = Twice(n)
    BY <1>1 DEF Twice
  <2>4. Lists' /\ Connections'
    BY <1>1, <1>5, <2>3 DEF Inv, Lists, Connections
  <2> QED BY <2>1, <2>2, <2>4
<1>7. Saving'
  <2>1. ASSUME NEW g \in Games, snaps[g] # NULL, g \notin torn
        PROVE  snaps[g].st.players \subseteq Range(mem.objects[snaps[g].obj].users)
    BY <2>1, <1>2, <1>4, <1>9 DEF Inv, PlayersKnown
  <2>2. ASSUME NEW g \in Games, snaps[g] # NULL
        PROVE  /\ snaps[g].obj \in DOMAIN mem.objects /\ mem.objects[snaps[g].obj].id = g
               /\ Within(prtc[g], mem.objects[snaps[g].obj].users) /\ snaps[g].stage = "game"
    BY <2>2, <1>2, <1>4, <1>9 DEF Inv, Users
  <2> QED BY <1>1, <1>5, <2>1, <2>2 DEF Saving
<1>8. Restorable'
  <2>1. \A g \in Games : ~Half(g) /\ ~Half(g)'
    <3>1. ASSUME NEW g \in Games
          PROVE  ~Half(g)
      BY <1>1 DEF Inv, Saving, Half
    <3>2. ASSUME NEW g \in Games
          PROVE  ~Half(g)'
      BY <1>4, <1>5 DEF Half
    <3> QED BY <3>1, <3>2
  <2>2. \A g : Closing(g) => Closing(g)'
    BY <1>5 DEF Closing
  <2> QED BY <1>1, <1>5, <2>1, <2>2 DEF Inv, Restorable
<1> QED
  BY <1>6, <1>7, <1>8 DEF Inv

\* A query of the snapshot of g has returned, with t left to do.
Snapped(g, t) ==
  /\ g \in Games /\ mem.snaps[g] # NULL /\ t \in Snaps \cup {NULL}
  /\ mem' = [mem EXCEPT !.snaps = [@ EXCEPT ![g] = t]]
  /\ conns' = conns /\ begun' = begun
  /\ rows' \in [Games -> States \cup {NULL}] /\ prtc' \in [Games -> UserMaps]
  /\ torn' \in SUBSET Games /\ torn \subseteq torn'
  /\ \A h \in Games : h # g => rows'[h] = rows[h] /\ prtc'[h] = prtc[h]
  /\ Within(prtc'[g], mem.objects[mem.snaps[g].obj].users)
  /\ t # NULL => /\ t.stage = "users" /\ t.obj = mem.snaps[g].obj /\ rows'[g] \in {t.st, NULL}
                 /\ Within(t.users, mem.objects[t.obj].users)
                 /\ g \notin torn' => t.st.players \subseteq Range(t.users)
  /\ t = NULL /\ g \notin torn' /\ rows'[g] # NULL => rows'[g].players \subseteq Range(prtc'[g])

LEMMA SnappedStep ==
  ASSUME Inv, NEW g, NEW t, Snapped(g, t)
  PROVE  Inv'
<1>1. /\ Typed /\ g \in Games /\ mem.snaps[g] # NULL /\ mem.stopping
      /\ mem.snaps[g].obj \in DOMAIN mem.objects /\ mem.objects[mem.snaps[g].obj].id = g
      /\ conns' = conns /\ begun' = begun /\ torn \subseteq torn'
  BY DEF Inv, Saving, Snapped
<1>2. /\ mem' \in Mems /\ mem'.objects = mem.objects /\ mem'.games = mem.games
      /\ mem'.deleting = mem.deleting /\ mem'.stopping = mem.stopping
      /\ mem'.snaps = [mem.snaps EXCEPT ![g] = t]
  <2>1. [mem.snaps EXCEPT ![g] = t] \in [Games -> Snaps \cup {NULL}] /\ mem \in Mems
    BY <1>1, Fields DEF Snapped, Typed
  <2> QED BY <2>1 DEF Snapped, Mems
<1>3. mem'.snaps[g] = t /\ \A h \in Games : h # g => mem'.snaps[h] = mem.snaps[h]
  BY <1>1, <1>2, Fields
<1>9. Risen' = Risen /\ (\A h : Closing(h)' <=> Closing(h)) /\ \A h : h \notin Spoilt' => h \notin Spoilt
  <2>1. DOMAIN mem'.objects = DOMAIN mem.objects /\ mem'.stopping = mem.stopping
    BY <1>2
  <2>2. \A i \in DOMAIN mem.objects : mem'.objects[i].id = mem.objects[i].id
    BY <1>2
  <2> QED BY <1>1, <2>1, <2>2, StillSpoilt
<1>4. Typed' /\ Registry' /\ Lists' /\ Connections' /\ PlayersKnown'
  <2>1. \A n : Twice(n)' = Twice(n)
    BY <1>1 DEF Twice
  <2> QED BY <1>1, <1>2, <1>9, <2>1
          DEF Inv, Typed, Registry, Lists, Connections, PlayersKnown, Snapped
<1>5. Lives'
  BY <1>1, <1>2, <1>9 DEF Inv, Lives, Leaving, Gone, NoRequest
<1>6. Saving'
  <2>1. ASSUME NEW h \in Games, mem'.snaps[h] # NULL
        PROVE  LET snap == mem'.snaps[h] IN
               /\ snap.obj \in DOMAIN mem.objects /\ mem.objects[snap.obj].id = h
               /\ Within(prtc'[h], mem.objects[snap.obj].users)
               /\ h \notin torn' => snap.st.players \subseteq Range(mem.objects[snap.obj].users)
               /\ snap.stage = "users" =>
                    /\ rows'[h] \in {snap.st, NULL}
                    /\ Within(snap.users, mem.objects[snap.obj].users)
                    /\ h \notin torn' => snap.st.players \subseteq Range(snap.users)
    <3>1. CASE h # g
      BY <2>1, <3>1, <1>1, <1>3 DEF Inv, Saving, Snapped
    <3>2. CASE h = g
      <4>1. t \in Snaps /\ t # NULL
        BY <2>1, <3>2, <1>3 DEF Snapped
      <4>2. t.users \in UserMaps /\ mem.objects[t.obj].users \in UserMaps
        BY <4>1, <1>1, Fields DEF Snaps, Objects, Snapped
      <4>3. Range(t.users) \subseteq Range(mem.objects[t.obj].users)
        BY <4>1, <4>2, WithinRange DEF Snapped
      <4> QED BY <3>2, <4>1, <4>3, <1>1, <1>3 DEF Snapped
    <3> QED BY <3>1, <3>2
  <2> QED BY <1>1, <1>2, <2>1 DEF Saving
<1>7. Users'
  <2>1. ASSUME NEW h \in Games, h \notin begun
        PROVE  DOMAIN prtc'[h] = {}
    BY <2>1, <1>1 DEF Inv, Users, Registry, Snapped
  <2>2. ASSUME NEW h \in Games, mem.games[h] # 0, h \notin Risen
        PROVE  Within(prtc'[h], mem.objects[mem.games[h]].users)
    <3>1. CASE h # g
      BY <2>2, <3>1 DEF Inv, Users, Snapped
    <3>2. CASE h = g
      <4>1. mem.games[g] = mem.snaps[g].obj
        BY <2>2, <3>2, <1>1 DEF Inv, Registry, Risen
      <4> QED BY <3>2, <4>1 DEF Snapped
    <3> QED BY <3>1, <3>2
  <2> QED BY <1>1, <1>2, <1>9, <2>1, <2>2 DEF Users
<1>8. Restorable'
  <2>1. ASSUME NEW h \in Games \ torn', rows'[h] # NULL,
               ~(mem'.snaps[h] # NULL /\ mem'.snaps[h].stage = "users")
        PROVE  rows'[h].players \subseteq Range(prtc'[h])
    <3>1. CASE h # g
      BY <2>1, <3>1, <1>1, <1>3 DEF Inv, Restorable, Half, Snapped
    <3>2. CASE h = g
      BY <2>1, <3>2, <1>3 DEF Snapped
    <3> QED BY <3>1, <3>2
  <2>2. ASSUME NEW c \in DOMAIN conns, conns[c].stage = "users", conns[c].id \notin torn',
               mem.games[conns[c].id] = 0, ~Closing(conns[c].id)
        PROVE  conns[c].row.players \subseteq Range(prtc'[conns[c].id])
    <3>1. conns[c].id \in Games /\ conns[c].id # g
      BY <1>1, <2>2, Fields DEF Conns, Closing
    <3> QED BY <2>2, <3>1, <1>1 DEF Inv, Restorable, Snapped
  <2> QED BY <1>1, <1>2, <1>9, <2>1, <2>2 DEF Restorable, Half
<1> QED
  BY <1>4, <1>5, <1>6, <1>7, <1>8 DEF Inv

\* What is known of a snapshot under way.
LEMMA SnapFacts ==
  ASSUME Inv, NEW g \in Games, mem.snaps[g] # NULL
  PROVE  LET snap == mem.snaps[g]
             users == mem.objects[snap.obj].users
         IN  /\ snap \in Snaps /\ snap.st \in States /\ snap.users \in UserMaps
             /\ users \in UserMaps
             /\ g \notin torn => snap.st.players \subseteq Range(users)
             /\ Within(prtc[g], users) /\ prtc[g] \in UserMaps
<1>1. Typed /\ mem.snaps[g] \in Snaps
  BY Fields DEF Inv
<1>2. mem.snaps[g].obj \in DOMAIN mem.objects
  BY DEF Inv, Saving
<1>3. mem.objects[mem.snaps[g].obj].users \in UserMaps
  BY <1>1, <1>2, Fields DEF Objects
<1> QED
  BY <1>1, <1>3 DEF Inv, Saving, Snaps, Typed

LEMMA SnapshotGameStep ==
  ASSUME Inv, NEW g \in Games, SnapshotGame(g)
  PROVE  Inv'
<1> DEFINE snap  == mem.snaps[g]
           users == mem.objects[snap.obj].users
           half  == [snap EXCEPT !.stage = "users", !.users = users]
<1>1. /\ Typed /\ UNCHANGED <<prtc, conns, begun, torn>> /\ snap # NULL /\ snap.stage = "game"
      /\ mem.snaps \in [Games -> Snaps \cup {NULL}] /\ mem \in Mems
  BY Fields DEF Inv, SnapshotGame, Typed
<1>2. /\ snap \in Snaps /\ snap.st \in States /\ users \in UserMaps
      /\ g \notin torn => snap.st.players \subseteq Range(users)
      /\ Within(prtc[g], users)
  BY <1>1, SnapFacts
<1>3. /\ half \in Snaps /\ half.stage = "users" /\ half.users = users /\ half.st = snap.st
      /\ half.obj = snap.obj
  BY <1>2 DEF Snaps
<1>4. Within(users, users)
  BY DEF Within
<1>5. CASE /\ rows' = [rows EXCEPT ![g] = snap.st] /\ DOMAIN users = {}
           /\ mem' = [mem EXCEPT !.snaps[g] = NULL]
  <2>1. Range(users) = {}
    BY <1>5 DEF Range
  <2>2. rows' \in [Games -> States \cup {NULL}] /\ rows'[g] = snap.st
        /\ \A h \in Games : h # g => rows'[h] = rows[h]
    BY <1>1, <1>2, <1>5 DEF Typed
  <2> HIDE DEF snap, users
  <2>3. users = mem.objects[snap.obj].users /\ snap = mem.snaps[g]
    BY DEF users, snap
  <2>4. Snapped(g, NULL)
    BY <1>1, <1>2, <1>5, <2>1, <2>2, <2>3 DEF Snapped, Typed
  <2> QED BY <2>4, SnappedStep
<1>6. CASE /\ rows' = [rows EXCEPT ![g] = snap.st]
           /\ mem' = [mem EXCEPT !.snaps[g].stage = "users", !.snaps[g].users = users]
  <2>1. mem' = [mem EXCEPT !.snaps = [@ EXCEPT ![g] = half]]
    <3> HIDE DEF users
    <3> QED BY <1>1, <1>6 DEF Mems
  <2>2. rows' \in [Games -> States \cup {NULL}] /\ rows'[g] = snap.st
        /\ \A h \in Games : h # g => rows'[h] = rows[h]
    BY <1>1, <1>2, <1>6 DEF Typed
  <2>3. users = mem.objects[snap.obj].users /\ snap = mem.snaps[g]
    OBVIOUS
  <2>6. half # NULL
    BY <1>3, GameServerAssumption
  <2>5. mem.snaps[g] # NULL /\ half \in Snaps \cup {NULL} /\ half # NULL /\ torn' = torn
        /\ torn' \in SUBSET Games /\ prtc' = prtc /\ prtc' \in [Games -> UserMaps]
    BY <1>1, <1>3, <2>6 DEF Typed
  <2> HIDE DEF snap, users, half
  <2>4. Snapped(g, half)
    BY <1>1, <1>2, <1>3, <1>4, <2>1, <2>2, <2>3, <2>5 DEF Snapped
  <2> QED BY <2>4, SnappedStep
<1>7. CASE /\ rows' = rows /\ mem' = [mem EXCEPT !.snaps[g] = NULL]
  <2>1. rows[g] # NULL /\ g \notin torn => rows[g].players \subseteq Range(prtc[g])
    BY <1>1 DEF Inv, Restorable, Half
  <2>2. Within(prtc[g], mem.objects[mem.snaps[g].obj].users)
    BY <1>1, <1>2
  <2>3. Snapped(g, NULL)
    BY <1>1, <1>7, <2>1, <2>2 DEF Snapped, Typed
  <2> QED BY <2>3, SnappedStep
<1> QED
  BY <1>5, <1>6, <1>7 DEF SnapshotGame, UserRows

LEMMA SnapshotUsersStep ==
  ASSUME Inv, NEW g \in Games, SnapshotUsers(g)
  PROVE  Inv'
<1> DEFINE snap  == mem.snaps[g]
           users == mem.objects[snap.obj].users
           all   == Merged(prtc[g], snap.users)
<1>1. /\ Typed /\ UNCHANGED <<rows, conns, begun>> /\ snap # NULL /\ snap.stage = "users"
      /\ mem' = [mem EXCEPT !.snaps = [@ EXCEPT ![g] = NULL]]
  BY DEF Inv, SnapshotUsers
<1>2. /\ users \in UserMaps /\ Within(prtc[g], users)
      /\ prtc[g] \in UserMaps /\ snap.users \in UserMaps
  BY <1>1, SnapFacts
<1>3. /\ rows[g] \in {snap.st, NULL} /\ Within(snap.users, users)
      /\ g \notin torn => snap.st.players \subseteq Range(snap.users)
  BY <1>1, <1>2 DEF Inv, Saving
<1>4. CASE rows[g] # NULL /\ prtc' = [prtc EXCEPT ![g] = all] /\ torn' = torn
  <2>1. /\ all \in UserMaps /\ DOMAIN all = DOMAIN prtc[g] \cup DOMAIN snap.users
        /\ Within(prtc[g], all) /\ \A p \in DOMAIN snap.users \ DOMAIN prtc[g] : all[p] = snap.users[p]
    BY <1>2, Joined
  <2> HIDE DEF all, users
  <2>2. Within(all, users) /\ Within(snap.users, all)
    BY <1>2, <1>3, <2>1 DEF Within
  <2>3. Range(snap.users) \subseteq Range(all)
    BY <1>2, <2>1, <2>2, WithinRange
  <2>4. prtc' \in [Games -> UserMaps] /\ prtc'[g] = all /\ \A h \in Games : h # g => prtc'[h] = prtc[h]
    BY <1>1, <1>4, <2>1 DEF Typed
  <2>5. Snapped(g, NULL)
    BY <1>1, <1>3, <1>4, <2>2, <2>3, <2>4 DEF Snapped, Typed, users
  <2> QED BY <2>5, SnappedStep
<1>5. CASE prtc' = prtc /\ torn' = torn \cup {g}
  <2>1. Snapped(g, NULL)
    BY <1>1, <1>2, <1>5 DEF Snapped, Typed
  <2> QED BY <2>1, SnappedStep
<1>6. CASE rows[g] = NULL /\ prtc' = prtc /\ torn' = torn
  <2>1. Snapped(g, NULL)
    BY <1>1, <1>2, <1>6 DEF Snapped, Typed
  <2> QED BY <2>1, SnappedStep
<1>7. prtc[g] = prtc[g] /\ [prtc EXCEPT ![g] = prtc[g]] = prtc
  BY <1>1 DEF Typed
<1> HIDE DEF snap, all
<1>8. \/ prtc' = [prtc EXCEPT ![g] = IF rows[g] = NULL THEN prtc[g] ELSE all] /\ torn' = torn
      \/ prtc' = prtc /\ torn' = torn \cup {g}
  BY DEF SnapshotUsers, snap, all
<1> QED
  BY <1>4, <1>5, <1>6, <1>7, <1>8

LEMMA ExitStep ==
  ASSUME Inv, Exit
  PROVE  Inv'
<1>1. /\ mem' = Boot /\ conns' = Ended /\ UNCHANGED <<rows, prtc, begun, torn>>
      /\ \A g \in Games : mem.snaps[g] = NULL
  BY DEF Exit
<1> QED
  BY <1>1, Rebooted DEF Inv, Typed, Users, Restorable, Half

-----------------------------------------------------------------------------
(* The theorems *)

LEMMA InitInv == Init => Inv
<1> SUFFICES ASSUME Init PROVE Inv
  OBVIOUS
<1>1. /\ mem.objects = <<>> /\ mem.games = [g \in Games |-> 0] /\ mem.deleting = {}
      /\ mem.stopping = FALSE /\ mem.snaps = [g \in Games |-> NULL] /\ mem \in Mems
  BY DEF Init, Boot, Mems
<1>2. /\ rows = [g \in Games |-> NULL] /\ prtc = [g \in Games |-> NoUsers]
      /\ conns = <<>> /\ begun = {} /\ torn = {}
  BY DEF Init
<1>3. Typed
  BY <1>1, <1>2, NoUsersMap DEF Typed
<1>4. Registry /\ Lives /\ Lists /\ PlayersKnown /\ Connections /\ Saving /\ Restorable
  BY <1>1, <1>2 DEF Registry, Lives, Lists, PlayersKnown, Connections, Saving, Restorable
<1>5. Users
  BY <1>1, <1>2, NoUsersMap DEF Users
<1> QED
  BY <1>3, <1>4, <1>5 DEF Inv

LEMMA NextInv == Inv /\ [Next]_vars => Inv'
<1> SUFFICES ASSUME Inv, [Next]_vars PROVE Inv'
  OBVIOUS
<1>1. CASE UNCHANGED vars
  <2>1. UNCHANGED <<mem, rows, prtc, conns, begun, torn>>
    BY <1>1 DEF vars
  <2>2. Risen' = Risen /\ Spoilt' = Spoilt /\ (\A g : Closing(g)' <=> Closing(g))
    BY <2>1, StillSpoilt
  <2>3. \A n : Twice(n)' = Twice(n)
    BY <2>1 DEF Twice
  <2> QED BY <2>1, <2>2, <2>3
          DEF Inv, Typed, Registry, Lives, Leaving, Gone, NoRequest, Lists, Connections,
              Saving, Users, Restorable, Half, PlayersKnown
<1>2. ASSUME NEW g \in Games, BeginGame(g) \/ Deleted(g) \/ Snapshots(g)
      PROVE  Inv'
  BY <1>2, BeginGameStep, DeletedStep, SnapshotGameStep, SnapshotUsersStep DEF Snapshots
<1>3. ASSUME NEW p \in Principals, NEW g \in Games, Upgrade(p, g)
      PROVE  Inv'
  BY <1>3, UpgradeStep
<1>4. ASSUME NEW c \in DOMAIN conns, Queries(c)
      PROVE  Inv'
  BY <1>4, FetchRowStep, FetchUsersStep, ConnectStep DEF Queries
<1>5. ASSUME NEW c \in DOMAIN conns, Clients(c)
      PROVE  Inv'
  <2>1. CloseDone(c) => Inv'
    BY Closes DEF CloseDone
  <2> QED BY <1>5, <2>1, HelloStep, UpdateStep, ByeStep, LoseStep DEF Clients
<1>6. ASSUME NEW n \in DOMAIN mem.objects, Expire(n)
      PROVE  Inv'
  BY <1>6, ExpireStep
<1>7. CASE Shutdown \/ Exit \/ Crash
  <2>1. Crash => Inv'
    BY CrashedStep DEF Crash
  <2> QED BY <1>7, <2>1, ShutdownStep, ExitStep
<1> QED
  BY <1>1, <1>2, <1>3, <1>4, <1>5, <1>6, <1>7 DEF Next

LEMMA InvAlways == Spec => []Inv
BY InitInv, NextInv, PTL DEF Spec

\* The registry, the objects and the record of participation are of their types,
\* at every step of the server.
THEOREM ServerTypes == Spec => []TypeOK
<1>1. Inv => TypeOK
  <2> SUFFICES ASSUME Inv PROVE TypeOK
    OBVIOUS
  <2>1. Typed
    BY DEF Inv
  <2>2. ASSUME NEW n \in DOMAIN mem.objects
        PROVE  LET o == mem.objects[n] IN
               /\ o.id \in begun /\ o.zombie \in BOOLEAN /\ o.timer \in BOOLEAN
               /\ DOMAIN o.users \subseteq Principals
               /\ Range(o.clients) \subseteq DOMAIN conns /\ IsInjective(o.clients)
    <3>1. mem.objects[n] \in Objects
      BY <2>1, Fields
    <3>2. DOMAIN mem.objects[n].users \subseteq Principals
      BY <3>1, UserMap DEF Objects
    <3> QED BY <3>1, <3>2 DEF Inv, Registry, Lists, Objects
  <2>3. \A g \in Games : mem.games[g] \in 0..Len(mem.objects)
    BY <2>1, Fields DEF Inv, Registry
  <2>4. \A p \in Principals : mem.participation[p] \in (SUBSET Games) \cup {NULL}
    BY <2>1, Fields
  <2>5. mem.deleting \subseteq {g \in Games : mem.games[g] # 0}
    BY <2>1, Fields DEF Inv, Registry
  <2> QED BY <2>2, <2>3, <2>4, <2>5 DEF TypeOK
<1> QED
  BY <1>1, InvAlways, PTL

\* Whoever is connected to a game is connected to the one object that new
\* connections get, whatever waited for the database in between.
THEOREM OneObjectAlways == Spec => []OneObject
<1>1. Inv => OneObject
  BY DEF Inv, Lives, OneObject
<1> QED
  BY <1>1, InvAlways, PTL

\* Every player of a game is a user of it, also in what a restart finds.
THEOREM PlayersKnownAlways == Spec => []PlayersKnown
<1>1. Inv => PlayersKnown
  BY DEF Inv
<1> QED
  BY <1>1, InvAlways, PTL

\* A principal is the same user in the object of a game and in the table.
THEOREM SameUserAlways == Spec => []SameUser
<1>1. Inv => SameUser
  BY DEF Inv, Users, SameUser, Within
<1> QED
  BY <1>1, InvAlways, PTL
-----------------------------------------------------------------------------
(* Who stays *)

\* What OthersStay says of a step.
Stay ==
  \A n \in DOMAIN mem.objects :
    n \in DOMAIN mem'.objects /\ ~mem'.objects[n].zombie /\ Twice(n)' = {} =>
      \A c \in Range(mem.objects[n].clients) \ Range(mem'.objects[n].clients) :
        conns'[c].stage = "closed" \/ conns'[c].bye # "no"

LEMMA StayUnchanged ==
  ASSUME mem'.objects = mem.objects
  PROVE  Stay
BY DEF Stay

LEMMA StayBoot ==
  ASSUME mem' = Boot
  PROVE  Stay
<1>1. mem'.objects = <<>>
  BY DEF Boot
<1>2. DOMAIN mem'.objects = {}
  BY <1>1
<1> QED
  BY <1>2 DEF Stay

LEMMA StayMade ==
  ASSUME Typed, NEW x, mem'.objects = Append(mem.objects, x)
  PROVE  Stay
<1>1. mem.objects \in Seq(Objects)
  BY Fields
<1>2. \A n \in DOMAIN mem.objects : mem'.objects[n] = mem.objects[n]
  BY <1>1
<1> QED
  BY <1>2 DEF Stay

\* One object changes, and only a client whose connection ends, or is told bye,
\* is taken out of its list.
LEMMA StayTouched ==
  ASSUME Typed, NEW n \in DOMAIN mem.objects, NEW o,
         mem'.objects = [mem.objects EXCEPT ![n] = o],
         \/ o.zombie \/ Twice(n)' # {}
         \/ \A c \in Range(mem.objects[n].clients) \ Range(o.clients) :
              conns'[c].stage = "closed" \/ conns'[c].bye # "no"
  PROVE  Stay
<1>1. mem.objects \in Seq(Objects)
  BY Fields
<1>2. mem'.objects[n] = o /\ \A i \in DOMAIN mem.objects : i # n => mem'.objects[i] = mem.objects[i]
  BY <1>1
<1> QED
  BY <1>2 DEF Stay

\* What becomes of a connection that dispose has been run for.
Apart(c, k) ==
  /\ k.obj = conns[c].obj
  /\ IF conns[c].bye = "no" THEN k.stage = "closed" \/ k.bye = "told" ELSE k.bye = "again"

LEMMA DisposeStays ==
  ASSUME Inv, NEW c \in DOMAIN conns, NEW k, NEW n, conns[c].obj = n, Heard(c), Apart(c, k),
         Dispose(mem, n, c) # NULL, mem' = Dispose(mem, n, c),
         conns' = [conns EXCEPT ![c] = k]
  PROVE  Stay
<1> DEFINE old == mem.objects[n]
           s == Spliced(old.clients, c)
           o == Parted([old EXCEPT !.clients = s], c)
<1>1. /\ Typed /\ conns \in Seq(Conns) /\ mem \in Mems /\ conns[c].stage = "open" /\ conns[c].heard
      /\ conns'[c] = k /\ DOMAIN conns' = DOMAIN conns
      /\ \A d \in DOMAIN conns : d # c => conns'[d] = conns[d]
  BY DEF Inv, Typed, Heard
<1>2. n \in DOMAIN mem.objects /\ old \in Objects
  BY <1>1, Fields DEF Inv, Connections
<1>3. mem'.objects = [mem.objects EXCEPT ![n] = o]
  BY <1>1, <1>2, Disposed
<1>4. s \in Seq(Nat) /\ (c \in Range(old.clients) => Range(old.clients) \ {c} \subseteq Range(s))
  BY <1>2, SplicedList DEF Objects
<1>5. o.clients = s /\ o.zombie = old.zombie /\ old.zombie \in BOOLEAN
  BY <1>2, <1>4, PartedObject DEF Objects
<1>6. conns[c].obj = n
  OBVIOUS
<1> HIDE DEF o, s
<1>7. Twice(n) # {} => Twice(n)' # {}
  BY <1>1, <1>6 DEF Twice, Apart
<1>8. CASE c \in Range(old.clients)
  <2>1. k.stage = "closed" \/ k.bye # "no" \/ Twice(n)' # {}
    BY <1>1, <1>6 DEF Apart, Twice
  <2> QED BY <1>1, <1>2, <1>3, <1>4, <1>5, <1>8, <2>1, StayTouched
<1>9. CASE c \notin Range(old.clients)
  <2>1. old.zombie \/ conns[c].bye # "no" \/ Twice(n) # {}
    BY <1>1, <1>6, <1>9 DEF Inv, Connections
  <2>2. conns[c].bye # "no" => Twice(n)' # {}
    BY <1>1, <1>6 DEF Apart, Twice
  <2> QED BY <1>1, <1>2, <1>3, <1>5, <1>7, <2>1, <2>2, StayTouched
<1> QED
  BY <1>8, <1>9

LEMMA LoseStays ==
  ASSUME Inv, NEW c \in DOMAIN conns, Lose(c) \/ Bye(c)
  PROVE  Stay
<1>1. Typed /\ conns[c] \in Conns
  BY Fields DEF Inv
<1>2. CASE mem' = mem
  BY <1>2, StayUnchanged
<1>3. CASE Crashed
  BY <1>3, StayBoot DEF Crashed
<1>4. ASSUME NEW k, Apart(c, k), Heard(c), Runs(Dispose(mem, conns[c].obj, c), [conns EXCEPT ![c] = k])
      PROVE  Stay
  BY <1>3, <1>4, RunsOrCrashes, DisposeStays
<1>5. CASE Bye(c)
  <2> DEFINE k == [conns[c] EXCEPT !.bye = IF @ = "no" THEN "told" ELSE "again"]
  <2>1. Apart(c, k)
    BY <1>1 DEF Apart, Conns
  <2>2. Heard(c) /\ Runs(Dispose(mem, conns[c].obj, c), [conns EXCEPT ![c] = k])
    BY <1>1, <1>5 DEF Bye, Told, Typed
  <2> QED BY <1>4, <2>1, <2>2
<1>6. CASE Lose(c) /\ Heard(c)
  <2> DEFINE k == IF conns[c].bye = "no" THEN [conns[c] EXCEPT !.stage = "closed"]
                  ELSE [conns[c] EXCEPT !.stage = "closed", !.bye = "again"]
  <2>1. Apart(c, k)
    BY <1>1 DEF Apart, Conns
  <2>2. Runs(Dispose(mem, conns[c].obj, c), [conns EXCEPT ![c] = k])
    BY <1>1, <1>6 DEF Lose, Told, Typed
  <2> QED BY <1>4, <1>6, <2>1, <2>2
<1>7. Lose(c) /\ ~Heard(c) => mem' = mem
  BY DEF Lose
<1> QED
  BY <1>2, <1>5, <1>6, <1>7

LEMMA ConnectStays ==
  ASSUME Inv, NEW c \in DOMAIN conns, Connect(c)
  PROVE  Stay
<1> DEFINE n == conns[c].obj
           old == mem.objects[n]
           longer == Append(old.clients, c)
           x == [old EXCEPT !.clients = longer]
           s == Spliced(longer, c)
           met == [mem EXCEPT !.objects = [@ EXCEPT ![n] = x]]
<1>1. /\ Typed /\ mem \in Mems /\ mem.objects \in Seq(Objects)
      /\ conns[c].stage = "session" /\ c \in Nat
  BY Fields DEF Inv, Typed, Connect
<1>2. n \in DOMAIN mem.objects /\ old \in Objects
  BY <1>1, Fields DEF Inv, Connections
<1>3. old.clients \in Seq(Nat) /\ c \notin Range(old.clients)
  BY <1>1, <1>2 DEF Inv, Lists, Objects
<1>4. longer \in Seq(Nat) /\ Range(longer) = Range(old.clients) \cup {c}
  BY <1>1, <1>3, Appended
<1>5. x \in Objects /\ x.clients = longer
  BY <1>2, <1>4 DEF Objects
<1>6. met \in Mems /\ met.objects = [mem.objects EXCEPT ![n] = x]
  <2>1. [mem.objects EXCEPT ![n] = x] \in Seq(Objects)
    BY <1>1, <1>2, <1>5
  <2> HIDE DEF n, x
  <2> QED BY <1>1, <2>1 DEF Mems
<1>7. met = [mem EXCEPT !.objects[n].clients = Append(@, c)]
  BY <1>2 DEF Mems
<1>8. CASE mem' = mem
  BY <1>8, StayUnchanged
<1>9. CASE Crashed
  BY <1>9, StayBoot DEF Crashed
<1>10. CASE mem' = met
  <2> HIDE DEF x, longer, met
  <2> QED BY <1>1, <1>2, <1>4, <1>5, <1>6, <1>10, StayTouched
<1>11. CASE Dispose(met, n, c) # NULL /\ mem' = Dispose(met, n, c)
  <2> DEFINE o == Parted([x EXCEPT !.clients = s], c)
  <2>1. s \in Seq(Nat) /\ Range(old.clients) \subseteq Range(s)
    BY <1>3, <1>4, SplicedList
  <2>2. o.clients = s
    <3> HIDE DEF x, s
    <3> QED BY <1>5, <2>1, PartedObject
  <2> HIDE DEF x, met
  <2>3. n \in DOMAIN met.objects /\ met.objects[n] = x
    BY <1>1, <1>2, <1>6
  <2>4. mem'.objects = [met.objects EXCEPT ![n] = o]
    <3> HIDE DEF longer
    <3> QED BY <1>1, <1>5, <1>6, <1>11, <2>3, Disposed
  <2> HIDE DEF o
  <2>5. mem'.objects = [mem.objects EXCEPT ![n] = o]
    BY <1>6, <2>4
  <2> QED BY <1>1, <1>2, <2>1, <2>2, <2>5, StayTouched
<1> HIDE DEF met
<1>12. \/ mem' = mem
       \/ \E m : m \in {met, Dispose(met, n, c)} /\ \E cs : Runs(m, cs)
  BY <1>7 DEF Connect
<1>13. ASSUME NEW m \in {met, Dispose(met, n, c)}, NEW cs, Runs(m, cs)
       PROVE  Stay
  BY <1>9, <1>10, <1>11, <1>13, RunsOrCrashes
<1> QED
  BY <1>8, <1>12, <1>13

LEMMA ExpireStays ==
  ASSUME Inv, NEW n \in DOMAIN mem.objects, Expire(n)
  PROVE  Stay
<1> DEFINE m == Destroy(mem, n)
           g == mem.objects[n].id
<1>1. Typed /\ Runs(IF m = NULL THEN NULL ELSE Delete(m, g), conns)
  BY DEF Inv, Expire
<1>2. CASE Crashed
  BY <1>2, StayBoot DEF Crashed
<1>3. CASE m # NULL /\ mem' = Delete(m, g)
  <2>1. PICK o \in Objects : o.zombie /\ m \in Mems /\ m.objects = [mem.objects EXCEPT ![n] = o]
    BY <1>1, <1>3, Destroyed
  <2> HIDE DEF m
  <2>2. mem'.objects = m.objects
    BY <1>3, <2>1 DEF Delete, Mems
  <2> QED BY <1>1, <2>1, <2>2, StayTouched
<1> HIDE DEF m
<1> QED
  BY <1>1, <1>2, <1>3, RunsOrCrashes

LEMMA HearStays ==
  ASSUME Inv, NEW c \in DOMAIN conns, HearHello(c) \/ HearUpdate(c)
  PROVE  Stay
<1> DEFINE n == conns[c].obj
           old == mem.objects[n]
<1>1. Typed /\ mem \in Mems /\ mem.objects \in Seq(Objects) /\ conns[c].stage = "open"
  BY Fields DEF Inv, Typed, HearHello, HearUpdate, Heard
<1>2. n \in DOMAIN mem.objects /\ old \in Objects
  BY <1>1, Fields DEF Inv, Connections
<1> DEFINE Kept(o) == o.clients = old.clients /\ mem' = [mem EXCEPT !.objects = [@ EXCEPT ![n] = o],
                                                                    !.participation = mem'.participation]
<1>3. ASSUME HearHello(c)
      PROVE  \E o : Kept(o)
  <2> DEFINE users == IF Known(mem, old, conns[c].p) THEN old.users
                      ELSE Merged([q \in {conns[c].p} |-> old.next_uid], old.users)
             uid == IF Known(mem, old, conns[c].p) THEN old.next_uid ELSE old.next_uid + 1
             part == [mem.participation EXCEPT ![conns[c].p] = (IF @ = NULL THEN {} ELSE @) \cup {old.id}]
             o == [old EXCEPT !.users = users, !.next_uid = uid]
  <2>1. mem' = [mem EXCEPT !.objects[n].users = users, !.objects[n].next_uid = uid,
                           !.participation = part]
    BY <1>3 DEF HearHello, Hello
  <2> HIDE DEF n, users, uid, part
  <2>2. mem' = [mem EXCEPT !.objects = [@ EXCEPT ![n] = o], !.participation = part]
    BY <1>1, <1>2, <2>1 DEF Mems
  <2>3. mem'.participation = part /\ o.clients = old.clients
    BY <1>1, <1>2, <2>2 DEF Mems, Objects
  <2> QED BY <2>2, <2>3
<1>4. ASSUME HearUpdate(c)
      PROVE  \E o : Kept(o)
  <2>1. PICK st : mem' = [mem EXCEPT !.objects[n].st = st, !.objects[n].timer = TRUE]
    BY <1>4 DEF HearUpdate, object
  <2> DEFINE o == [old EXCEPT !.st = st, !.timer = TRUE]
  <2> HIDE DEF n
  <2>2. mem' = [mem EXCEPT !.objects = [@ EXCEPT ![n] = o]]
    BY <1>1, <1>2, <2>1 DEF Mems
  <2>3. mem'.participation = mem.participation /\ o.clients = old.clients
    BY <1>1, <1>2, <2>2 DEF Mems, Objects
  <2> HIDE DEF o
  <2>4. mem' = [mem EXCEPT !.objects = [@ EXCEPT ![n] = o], !.participation = mem'.participation]
    BY <1>1, <2>2, <2>3 DEF Mems
  <2> QED BY <2>3, <2>4
<1>5. PICK o : Kept(o)
  BY <1>3, <1>4
<1>6. mem'.objects = [mem.objects EXCEPT ![n] = o] /\ o.clients = old.clients
  <2> HIDE DEF n, old
  <2> QED BY <1>1, <1>5 DEF Mems
<1> QED
  BY <1>1, <1>2, <1>6, StayTouched

LEMMA FetchUsersStays ==
  ASSUME Inv, NEW c \in DOMAIN conns, FetchUsers(c)
  PROVE  Stay
<1>1. Typed /\ mem \in Mems
  BY DEF Inv, Typed
<1>2. CASE mem' = mem
  BY <1>2, StayUnchanged
<1>3. CASE Crashed
  BY <1>3, StayBoot DEF Crashed
<1>4. CASE mem' = [mem EXCEPT !.objects = Append(@, Game(conns[c].id, conns[c].row, prtc[conns[c].id])),
                              !.games[conns[c].id] = Len(mem.objects) + 1]
  BY <1>1, <1>4, StayMade DEF Mems
<1> QED
  BY <1>2, <1>3, <1>4 DEF FetchUsers

LEMMA GameStays ==
  ASSUME Inv, NEW g \in Games, BeginGame(g) \/ Deleted(g) \/ Snapshots(g)
  PROVE  Stay
<1>1. Typed /\ mem \in Mems
  BY DEF Inv, Typed
<1>2. CASE BeginGame(g)
  BY <1>1, <1>2, StayMade DEF BeginGame, Mems
<1>3. CASE Deleted(g)
  BY <1>1, <1>3, StayUnchanged, StayBoot DEF Deleted, Mems
<1>4. CASE Snapshots(g)
  <2>1. mem'.objects = mem.objects
    BY <1>1, <1>4 DEF Snapshots, SnapshotGame, SnapshotUsers, Mems
  <2> QED BY <2>1, StayUnchanged
<1> QED
  BY <1>2, <1>3, <1>4

\* A client leaves the list of a live game when its own connection ends or is told
\* bye and for nobody else's sake, as long as dispose has not been run twice for a
\* client of that game.
THEOREM OthersStayAlways == Spec => OthersStay
<1>1. ASSUME Inv, [Next]_vars
      PROVE  [Stay]_vars
  <2>1. ASSUME NEW c \in DOMAIN conns, Queries(c) \/ Clients(c)
        PROVE  Stay
    <3>1. FetchRow(c) \/ CloseDone(c) => mem'.objects = mem.objects
      BY DEF FetchRow, CloseDone
    <3> QED
      BY <1>1, <2>1, <3>1, StayUnchanged, FetchUsersStays, ConnectStays, HearStays, LoseStays
      DEF Queries, Clients
  <2>2. ASSUME NEW p \in Principals, NEW g \in Games, Upgrade(p, g)
        PROVE  Stay
    BY <2>2, StayUnchanged DEF Upgrade
  <2>3. CASE Shutdown \/ Exit \/ Crash
    <3>1. Shutdown => mem'.objects = mem.objects
      BY <1>1 DEF Shutdown, Inv, Typed, Mems
    <3> QED BY <2>3, <3>1, StayUnchanged, StayBoot DEF Exit, Crash, Crashed
  <2> QED
    BY <1>1, <2>1, <2>2, <2>3, GameStays, ExpireStays DEF Next
<1>2. [Stay]_vars <=> [\A n \in DOMAIN mem.objects :
       n \in DOMAIN mem'.objects /\ ~mem'.objects[n].zombie /\ Twice(n)' = {} =>
         \A c \in Range(mem.objects[n].clients) \ Range(mem'.objects[n].clients) :
           conns'[c].stage = "closed" \/ conns'[c].bye # "no"]_vars
  BY DEF Stay
<1> QED
  BY <1>1, <1>2, InvAlways, PTL DEF Spec, OthersStay

-----------------------------------------------------------------------------
(* Who takes part *)

Takes(p, g) == mem.participation[p] # NULL /\ g \in mem.participation[p]

\* A client of an object is connected to that object.
Members ==
  \A n \in DOMAIN mem.objects : \A c \in Range(mem.objects[n].clients) :
    conns[c].obj = n /\ conns[c].id = mem.objects[n].id

\* Whoever said hello and is there takes part.
Counted ==
  \A n \in DOMAIN mem.objects : LET o == mem.objects[n] IN
    \A c \in Range(o.clients) :
      conns[c].greeted => o.id \in Spoilt \/ Takes(conns[c].p, o.id)

\* Connection c shows why p takes part in g.
Shows(c, p, g) == LET k == conns[c] IN
  /\ k.p = p /\ k.id = g /\ k.obj \in DOMAIN mem.objects
  /\ \/ c \in Range(mem.objects[k.obj].clients)
     \/ mem.objects[k.obj].zombie /\ k.greeted
     \/ k.stage \in {"open", "closed"} /\ Twice(k.obj) # {}

Accounted ==
  \A p \in Principals, g \in Games \ Spoilt :
    Takes(p, g) => \E c \in DOMAIN conns : Shows(c, p, g)

\* Only who has said hello is told bye.
Dismissed == \A c \in DOMAIN conns : conns[c].bye # "no" => conns[c].greeted

Record == Members /\ Counted /\ Accounted /\ Dismissed

\* Of the objects of one game, only one has clients, and then the others are gone.
LEMMA Alone ==
  ASSUME Inv, NEW i \in DOMAIN mem.objects, NEW j \in DOMAIN mem.objects,
         mem.objects[i].id = mem.objects[j].id, mem.objects[i].id \notin Spoilt,
         NEW c \in Range(mem.objects[j].clients)
  PROVE  i = j
<1>1. mem.objects[j].clients # <<>>
  BY DEF Range
<1>2. mem.games[mem.objects[j].id] = j
  BY <1>1 DEF Inv, Lives
<1>3. i # 0 /\ j # 0
  BY Fields DEF Inv
<1> QED
  BY <1>2, <1>3 DEF Inv, Lives, Leaving, Gone

LEMMA RecordExact == Typed /\ Record => ParticipationExact
<1> SUFFICES ASSUME Typed, Record, NEW p \in Principals, NEW g \in Games \ Spoilt
             PROVE  LET mine == {c \in DOMAIN conns : conns[c].p = p /\ conns[c].id = g /\ conns[c].obj \in DOMAIN mem.objects}
                        client(c) == c \in Range(object(c).clients)
                        takesPart == mem.participation[p] # NULL /\ g \in mem.participation[p]
                    IN  /\ (\E c \in mine : client(c) /\ conns[c].greeted) => takesPart
                        /\ takesPart => \E c \in mine : client(c) \/ (object(c).zombie /\ conns[c].greeted)
                                                                \/ Twice(conns[c].obj) # {}
  BY DEF ParticipationExact
<1>1. ASSUME NEW c \in DOMAIN conns, conns[c].p = p, conns[c].id = g,
             conns[c].obj \in DOMAIN mem.objects, c \in Range(object(c).clients), conns[c].greeted
      PROVE  Takes(p, g)
  BY <1>1 DEF Record, Members, Counted, object
<1>2. ASSUME Takes(p, g)
      PROVE  \E c \in DOMAIN conns : Shows(c, p, g)
  BY <1>2 DEF Record, Accounted
<1> QED
  BY <1>1, <1>2 DEF Takes, Shows, object

LEMMA RecordBoot ==
  ASSUME Typed, mem' = Boot, conns' = Ended
  PROVE  Record'
<1>1. mem'.objects = <<>> /\ mem'.participation = [p \in Principals |-> NULL]
  BY DEF Boot
<1>2. DOMAIN mem'.objects = {}
  BY <1>1
<1>3. Dismissed'
  <2> USE DEF Ended
  <2>1. DOMAIN conns' = DOMAIN conns
    OBVIOUS
  <2>2. \A c \in DOMAIN conns : conns[c] \in Conns /\ conns'[c].bye = "no"
    BY Fields DEF Conns
  <2> QED BY <2>1, <2>2 DEF Dismissed
<1> QED
  BY <1>1, <1>2, <1>3 DEF Record, Members, Counted, Accounted, Takes

\* Nobody comes or goes: requests advance and connections close, and an object
\* that is new has no clients.
LEMMA RecordKept ==
  ASSUME Inv, Record, mem'.participation = mem.participation, torn \subseteq torn',
         mem.stopping => mem'.stopping,
         DOMAIN mem.objects \subseteq DOMAIN mem'.objects,
         \A n \in DOMAIN mem'.objects : LET o == mem'.objects[n] IN
           \/ /\ n \in DOMAIN mem.objects
              /\ o.id = mem.objects[n].id /\ o.clients = mem.objects[n].clients
              /\ o.zombie = mem.objects[n].zombie
           \/ n \notin DOMAIN mem.objects /\ o.clients = <<>>,
         DOMAIN conns \subseteq DOMAIN conns',
         \A c \in DOMAIN conns : LET k == conns'[c] IN
           /\ k.p = conns[c].p /\ k.id = conns[c].id /\ k.greeted = conns[c].greeted
           /\ k.bye = conns[c].bye
           /\ conns[c].stage \in {"open", "closed"} => k.stage \in {"open", "closed"}
           /\ conns[c].stage \in {"open", "closed"} \/ conns[c].greeted => k.obj = conns[c].obj,
         \A c \in DOMAIN conns' \ DOMAIN conns : conns'[c].bye = "no"
  PROVE  Record'
<1>1. \A n \in DOMAIN mem'.objects : \A c \in Range(mem'.objects[n].clients) :
        /\ n \in DOMAIN mem.objects /\ c \in Range(mem.objects[n].clients)
        /\ c \in DOMAIN conns /\ conns'[c].obj = conns[c].obj
  <2>1. Range(<<>>) = {}
    BY DEF Range
  <2> QED BY <2>1 DEF Inv, Lists
<1>2. Members'
  BY <1>1 DEF Record, Members
<1>6. Spoilt \subseteq Spoilt'
  <2>1. \A n \in DOMAIN mem.objects : n \in DOMAIN mem'.objects /\ mem'.objects[n].id = mem.objects[n].id
    OBVIOUS
  <2>2. Risen \subseteq Risen'
    BY <2>1 DEF Risen
  <2> QED BY <2>2 DEF Spoilt
<1>7. \A n : Twice(n) # {} => Twice(n)' # {}
  BY DEF Twice, Inv, Connections, Record, Dismissed
<1>8. Dismissed'
  BY DEF Record, Dismissed
<1>3. Counted'
  BY <1>1, <1>6 DEF Record, Counted, Takes
<1>4. ASSUME NEW p \in Principals, NEW g \in Games, NEW c \in DOMAIN conns, Shows(c, p, g)
      PROVE  Shows(c, p, g)'
  <2> DEFINE n == conns[c].obj
  <2>1. n \in DOMAIN mem.objects /\ n \in DOMAIN mem'.objects
    BY <1>4 DEF Shows
  <2>2. conns'[c].obj = n
    BY <1>4, <2>1 DEF Shows, Inv, Lists
  <2>3. Twice(n) # {} => Twice(conns[c].obj)' # {}
    BY <1>7, <2>2
  <2> QED BY <1>4, <2>1, <2>2, <2>3 DEF Shows
<1>5. Accounted'
  BY <1>4, <1>6 DEF Record, Accounted, Takes
<1> QED
  BY <1>2, <1>3, <1>5, <1>8 DEF Record

\* A handler of connection c leaves o of object n and k of c, and part is what
\* c's principal takes part in.
Changes(n, c, o, k, part) ==
  LET old == mem.objects[n]
      p   == conns[c].p
      g   == old.id
  IN
  /\ n \in DOMAIN mem.objects /\ c \in DOMAIN conns /\ torn' = torn
  /\ mem'.stopping = mem.stopping
  /\ conns[c].obj = n /\ conns[c].id = g
  /\ mem'.objects = [mem.objects EXCEPT ![n] = o] /\ o.id = g /\ o.zombie = old.zombie
  /\ Range(o.clients) \subseteq Range(old.clients) \cup {c}
  /\ Range(old.clients) \ {c} \subseteq Range(o.clients) \/ Again(n, c, k)
  /\ conns' = [conns EXCEPT ![c] = k]
  /\ k.p = p /\ k.id = g /\ k.obj = n /\ (conns[c].greeted => k.greeted)
  /\ k.stage \in {"open", "closed"} /\ (k.bye # "no" => k.greeted)
  /\ conns[c].bye = "again" => k.bye = "again"
  /\ mem'.participation = [mem.participation EXCEPT ![p] = part]
  /\ \A h \in Games : h # g => (part # NULL /\ h \in part <=> Takes(p, h))
  /\ \A d \in Range(o.clients) :
       conns[d].p = p /\ conns'[d].greeted => g \in Spoilt \/ (part # NULL /\ g \in part)
  /\ part # NULL /\ g \in part =>
       \/ \E d \in Range(o.clients) : conns[d].p = p
       \/ o.zombie /\ k.greeted
       \/ Takes(p, g) /\ Range(old.clients) \subseteq Range(o.clients)
       \/ Again(n, c, k)

LEMMA RecordChanged ==
  ASSUME Inv, Record, NEW n, NEW c, NEW o, NEW k, NEW part, Changes(n, c, o, k, part)
  PROVE  Record'
<1> DEFINE p == conns[c].p
           old == mem.objects[n]
           g == old.id
           After(q, h) == mem'.participation[q] # NULL /\ h \in mem'.participation[q]
<1>1. /\ Typed /\ n \in DOMAIN mem.objects /\ c \in DOMAIN conns /\ torn' = torn
      /\ p \in Principals /\ g \in Games
      /\ mem.objects \in Seq(Objects) /\ conns \in Seq(Conns)
      /\ mem.participation \in [Principals -> (SUBSET Games) \cup {NULL}]
  <2>1. Typed /\ n \in DOMAIN mem.objects /\ c \in DOMAIN conns /\ torn' = torn
    BY DEF Inv, Changes
  <2>2. old \in Objects /\ conns[c] \in Conns
    BY <2>1, Fields
  <2> QED BY <2>1, <2>2, Fields DEF Objects, Conns, Typed
<1>2. /\ DOMAIN mem'.objects = DOMAIN mem.objects /\ mem'.objects[n] = o
      /\ \A i \in DOMAIN mem.objects : i # n => mem'.objects[i] = mem.objects[i]
  BY <1>1 DEF Changes
<1>3. /\ DOMAIN conns' = DOMAIN conns /\ conns'[c] = k
      /\ \A d \in DOMAIN conns : d # c => conns'[d] = conns[d]
  BY <1>1 DEF Changes
<1>4. \A d \in DOMAIN conns : /\ conns'[d].p = conns[d].p /\ conns'[d].id = conns[d].id
                              /\ conns'[d].obj = conns[d].obj
  BY <1>3 DEF Changes
<1>10. Spoilt' = Spoilt
  <2>1. \A i \in DOMAIN mem.objects : mem'.objects[i].id = mem.objects[i].id
    BY <1>2 DEF Changes
  <2> QED BY <1>1, <1>2, <2>1, StillSpoilt DEF Changes
<1>11. /\ Again(n, c, k) => Twice(n)' # {}
       /\ \A i : Twice(i) # {} => Twice(i)' # {}
  <2>1. Again(n, c, k) => Twice(n)' # {}
    BY <1>1, <1>3, <1>4 DEF Again, Twice, Changes
  <2>2. \A d \in DOMAIN conns : conns[d].bye = "again" => conns'[d].bye = "again"
    BY <1>3 DEF Changes
  <2> QED BY <1>3, <1>4, <2>1, <2>2 DEF Twice
<1>12. Dismissed'
  BY <1>3 DEF Dismissed, Record, Changes
<1>5. /\ \A h \in Games : After(p, h) <=> part # NULL /\ h \in part
      /\ \A q \in Principals, h \in Games : q # p => (After(q, h) <=> Takes(q, h))
  BY <1>1 DEF Changes, Takes
<1>6. \A d \in Range(o.clients) : d \in DOMAIN conns /\ conns[d].obj = n /\ conns[d].id = g
  BY <1>1 DEF Changes, Record, Members, Inv, Lists
<1>7. Members'
  <2>1. ASSUME NEW i \in DOMAIN mem.objects, NEW d \in Range(mem'.objects[i].clients)
        PROVE  conns'[d].obj = i /\ conns'[d].id = mem'.objects[i].id
    <3>1. CASE i = n
      BY <2>1, <3>1, <1>2, <1>4, <1>6 DEF Changes
    <3>2. CASE i # n
      BY <2>1, <3>2, <1>2, <1>4 DEF Record, Members, Inv, Lists
    <3> QED BY <3>1, <3>2
  <2> QED BY <1>2, <2>1 DEF Members
<1>8. Counted'
  <2>1. ASSUME NEW i \in DOMAIN mem.objects, NEW d \in Range(mem'.objects[i].clients),
               conns'[d].greeted, mem'.objects[i].id \notin Spoilt
        PROVE  After(conns'[d].p, mem'.objects[i].id)
    <3>1. CASE i = n /\ conns[d].p = p
      BY <2>1, <3>1, <1>1, <1>2, <1>4, <1>5, <1>6 DEF Changes
    <3>2. CASE i = n /\ conns[d].p # p
      <4>1. d \in DOMAIN conns /\ d # c /\ d \in Range(old.clients) /\ mem'.objects[i].id = g
        BY <2>1, <3>2, <1>2, <1>6 DEF Changes
      <4>2. conns[d].p \in Principals
        BY <4>1, <1>1, Fields DEF Conns
      <4>3. Takes(conns[d].p, g)
        BY <4>1, <2>1, <3>2, <1>1, <1>3 DEF Record, Counted
      <4> QED BY <3>2, <4>1, <4>2, <4>3, <1>1, <1>4, <1>5
    <3>3. CASE i # n
      <4>1. d \in Range(mem.objects[i].clients) /\ mem'.objects[i] = mem.objects[i]
        BY <2>1, <3>3, <1>2
      <4>2. mem.objects[i].id # g
        BY <2>1, <3>3, <4>1, <1>1, Alone
      <4>3. d \in DOMAIN conns /\ d # c
        BY <4>1, <3>3 DEF Inv, Lists, Record, Members, Changes
      <4>4. Takes(conns[d].p, mem.objects[i].id)
        BY <2>1, <4>1, <4>3, <1>3 DEF Record, Counted
      <4>5. conns[d].p \in Principals /\ mem.objects[i].id \in Games
        BY <4>3, <1>1, Fields DEF Conns, Objects
      <4>6. After(conns[d].p, mem.objects[i].id)
        BY <4>2, <4>4, <4>5, <1>1, <1>5 DEF Changes
      <4> QED BY <4>1, <4>3, <4>6, <1>4
    <3> QED BY <3>1, <3>2, <3>3
  <2> QED BY <1>2, <1>10, <2>1 DEF Counted, Takes
<1>9. Accounted'
  <2> SUFFICES ASSUME NEW q \in Principals, NEW h \in Games \ Spoilt, After(q, h)
               PROVE  \E d \in DOMAIN conns : Shows(d, q, h)'
    BY <1>3, <1>10 DEF Accounted, Takes
  <2>1. \* Whoever shows it before and is not taken out of the list shows it after.
        ASSUME NEW d \in DOMAIN conns, Shows(d, q, h),
               conns[d].obj = n => d # c \/ c \in Range(o.clients) \/ c \notin Range(old.clients)
        PROVE  Shows(d, q, h)'
    <3> DEFINE i == conns[d].obj
    <3>1. i \in DOMAIN mem.objects /\ mem'.objects[i].zombie = mem.objects[i].zombie
      BY <2>1, <1>2 DEF Shows, Changes
    <3>2. d \in Range(mem.objects[i].clients) =>
            d \in Range(mem'.objects[i].clients) \/ (Twice(n)' # {} /\ i = n)
      BY <2>1, <3>1, <1>2, <1>11 DEF Changes
    <3>4. /\ conns[d].stage \in {"open", "closed"} => conns'[d].stage \in {"open", "closed"}
          /\ d \in Range(mem.objects[i].clients) => conns[d].stage \in {"open", "closed"}
      BY <1>3, <3>1 DEF Changes, Inv, Lists
    <3>5. conns'[d].obj = i /\ (Twice(i) # {} => Twice(conns[d].obj)' # {})
          /\ (Twice(n)' # {} /\ i = n => Twice(conns[d].obj)' # {})
      BY <1>4, <1>11
    <3>3. conns[d].greeted => conns'[d].greeted
      BY <1>3 DEF Changes
    <3> HIDE DEF i
    <3> QED BY <2>1, <3>1, <3>2, <3>3, <3>4, <3>5, <1>2, <1>4 DEF Shows, i
  <2>2. CASE q # p \/ h # g
    <3>1. Takes(q, h)
      BY <2>2, <1>1, <1>5 DEF Changes
    <3>2. PICK d \in DOMAIN conns : Shows(d, q, h)
      BY <3>1 DEF Record, Accounted
    <3>3. d # c
      BY <2>2, <3>2 DEF Shows, Changes
    <3> QED BY <2>1, <3>2, <3>3
  <2>3. CASE q = p /\ h = g
    <3>1. ASSUME NEW d \in Range(o.clients), conns[d].p = p
          PROVE  Shows(d, q, h)' /\ d \in DOMAIN conns
      BY <3>1, <2>3, <1>1, <1>2, <1>4, <1>6 DEF Shows
    <3>2. CASE o.zombie /\ k.greeted
      BY <3>2, <2>3, <1>1, <1>2, <1>3 DEF Shows, Changes
    <3>3. CASE Takes(p, g) /\ Range(old.clients) \subseteq Range(o.clients)
      <4>1. PICK d \in DOMAIN conns : Shows(d, q, h)
        BY <2>3, <3>3 DEF Record, Accounted
      <4> QED BY <2>1, <3>3, <4>1
    <3>4. CASE Again(n, c, k)
      <4>1. Twice(conns[c].obj)' # {} /\ conns'[c].obj = n
        BY <3>4, <1>1, <1>4, <1>11 DEF Changes
      <4> QED BY <2>3, <4>1, <1>1, <1>2, <1>3 DEF Shows, Changes
    <3> QED BY <2>3, <3>1, <3>2, <3>3, <3>4, <1>5 DEF Changes
  <2> QED BY <2>2, <2>3
<1> QED
  BY <1>7, <1>8, <1>9, <1>12 DEF Record

LEMMA DisposedPart ==
  ASSUME NEW m \in Mems, NEW n \in DOMAIN m.objects, NEW c \in DOMAIN conns, Typed,
         Dispose(m, n, c) # NULL
  PROVE  LET p == conns[c].p
             left == Left(Spliced(m.objects[n].clients, c), p)
         IN
         /\ left => m.participation[p] # NULL
         /\ Dispose(m, n, c).participation =
              [m.participation EXCEPT ![p] = IF left THEN m.participation[p] \ {m.objects[n].id}
                                             ELSE m.participation[p]]
<1> DEFINE p == conns[c].p
           s == Spliced(m.objects[n].clients, c)
           left == Left(s, p)
           o == Parted([m.objects[n] EXCEPT !.clients = s], c)
           part == IF left THEN m.participation[p] \ {m.objects[n].id} ELSE m.participation[p]
<1>1. ~(left /\ m.participation[p] = NULL)
  BY DEF Dispose
<1>2. Dispose(m, n, c) = [m EXCEPT !.objects = [@ EXCEPT ![n] = o],
                                   !.participation = [@ EXCEPT ![p] = part]]
  BY DEF Dispose
<1> HIDE DEF s, o, left, part
<1>3. Dispose(m, n, c).participation = [m.participation EXCEPT ![p] = part]
  BY <1>2 DEF Mems
<1> QED
  BY <1>1, <1>3 DEF left, part, s

\* A departure takes g from what somebody takes part in, or leaves all as it was.
LEMMA PartGone ==
  ASSUME NEW P \in (SUBSET Games) \cup {NULL}, NEW g \in Games, NEW left \in BOOLEAN, left => P # NULL
  PROVE  LET part == IF left THEN P \ {g} ELSE P IN
         /\ \A h \in Games : h # g => (part # NULL /\ h \in part <=> P # NULL /\ h \in P)
         /\ part # NULL /\ g \in part <=> ~left /\ P # NULL /\ g \in P
BY GameServerAssumption

\* Nothing that the record is about changes but the end of a connection.
LEMMA QuietRecord ==
  ASSUME Inv, Record, mem'.participation = mem.participation, torn \subseteq torn',
         mem.stopping => mem'.stopping,
         mem'.objects = mem.objects,
         conns' = conns \/ \E c \in DOMAIN conns : conns' = [conns EXCEPT ![c].stage = "closed"]
  PROVE  Record'
<1>1. Typed /\ conns \in Seq(Conns) /\ \A c \in DOMAIN conns : conns[c] \in Conns
  BY Fields DEF Inv, Typed
<1>2. ASSUME NEW c \in DOMAIN conns
      PROVE  LET k == [conns[c] EXCEPT !.stage = "closed"] IN
             /\ k.p = conns[c].p /\ k.id = conns[c].id /\ k.greeted = conns[c].greeted
             /\ k.obj = conns[c].obj /\ k.bye = conns[c].bye /\ k.stage = "closed"
  BY <1>1 DEF Conns
<1>3. /\ DOMAIN conns' = DOMAIN conns
      /\ \A d \in DOMAIN conns : LET k == conns'[d] IN
           /\ k.p = conns[d].p /\ k.id = conns[d].id /\ k.greeted = conns[d].greeted
           /\ k.obj = conns[d].obj /\ k.bye = conns[d].bye /\ k.stage \in {conns[d].stage, "closed"}
  BY <1>1, <1>2
<1> QED
  BY <1>3, RecordKept

\* dispose, for a connection that is k from then on.
LEMMA DisposeRecord ==
  ASSUME Inv, Record, NEW c \in DOMAIN conns, NEW k \in Conns, Heard(c),
         Dispose(mem, conns[c].obj, c) # NULL, mem' = Dispose(mem, conns[c].obj, c),
         conns' = [conns EXCEPT ![c] = k], torn' = torn,
         k.p = conns[c].p, k.id = conns[c].id, k.obj = conns[c].obj, k.greeted = conns[c].greeted,
         k.stage \in {"open", "closed"}, k.bye # "no" => k.greeted,
         IF conns[c].bye = "no" THEN k.stage = "closed" \/ k.bye = "told" ELSE k.bye = "again"
  PROVE  Record'
<1> DEFINE n == conns[c].obj
           p == conns[c].p
           old == mem.objects[n]
           s == Spliced(old.clients, c)
           o == Parted([old EXCEPT !.clients = s], c)
           left == Left(s, p)
           part == IF left THEN mem.participation[p] \ {old.id} ELSE mem.participation[p]
<1>1. /\ Typed /\ conns[c].stage = "open" /\ conns[c].heard /\ conns[c] \in Conns
      /\ p \in Principals /\ mem \in Mems
      /\ n \in DOMAIN mem.objects /\ old \in Objects /\ old.id \in Games /\ conns[c].id = old.id
  <2>1. Typed /\ conns[c].stage = "open" /\ conns[c].heard /\ conns[c] \in Conns
    BY Fields DEF Inv, Heard
  <2> QED BY <2>1, Fields DEF Inv, Typed, Connections, Conns, Objects
<1>2. k.p = p /\ k.id = conns[c].id /\ k.obj = n /\ k.greeted = conns[c].greeted
  OBVIOUS
<1>3. mem'.objects = [mem.objects EXCEPT ![n] = o] /\ mem'.stopping = mem.stopping
  BY <1>1, Disposed
<1>4. /\ left => mem.participation[p] # NULL
      /\ mem'.participation = [mem.participation EXCEPT ![p] = part]
  BY <1>1, DisposedPart
<1>5. /\ s \in Seq(Nat) /\ Range(s) \subseteq Range(old.clients)
      /\ Range(old.clients) \ {c} \subseteq Range(s) \/ Again(n, c, k)
  <2>1. /\ s \in Seq(Nat) /\ Range(s) \subseteq Range(old.clients)
        /\ c \in Range(old.clients) => Range(old.clients) \ {c} \subseteq Range(s)
    BY <1>1, SplicedList DEF Objects
  <2>2. old.zombie => Range(old.clients) = {}
    BY <1>1 DEF Inv, Lives, Range
  <2>3. ~old.zombie => c \in Range(old.clients) \/ conns[c].bye # "no" \/ Twice(n) # {}
    BY <1>1 DEF Inv, Connections
  <2>4. conns[c].bye # "no" \/ Twice(n) # {} => Again(n, c, k)
    BY DEF Twice, Again
  <2> HIDE DEF s
  <2> QED BY <2>1, <2>2, <2>3, <2>4
<1>6. o.id = old.id /\ o.zombie = old.zombie /\ o.clients = s
  BY <1>1, <1>5, PartedObject
<1>7. /\ \A h \in Games : h # old.id => (part # NULL /\ h \in part <=> Takes(p, h))
      /\ part # NULL /\ old.id \in part <=> ~left /\ Takes(p, old.id)
  <2>1. mem.participation[p] \in (SUBSET Games) \cup {NULL} /\ left \in BOOLEAN
    BY <1>1, Fields DEF Left
  <2> DEFINE P == mem.participation[p]
             g == old.id
  <2>2. (left => P # NULL) /\ part = IF left THEN P \ {g} ELSE P
    BY <1>4
  <2> HIDE DEF left, P, g, part
  <2>3. P \in (SUBSET Games) \cup {NULL} /\ left \in BOOLEAN /\ g \in Games
    BY <1>1, <2>1 DEF P, g
  <2>4. /\ \A h \in Games : h # g => (part # NULL /\ h \in part <=> P # NULL /\ h \in P)
        /\ part # NULL /\ g \in part <=> ~left /\ P # NULL /\ g \in P
    BY <2>2, <2>3, PartGone
  <2> QED BY <2>4 DEF Takes, P, g
<1>8. left <=> \A d \in Range(s) : conns[d].p # p
  BY DEF Left
<1>9. \A d \in Range(s) : conns'[d].greeted = conns[d].greeted
  <2>1. \A d \in Range(old.clients) : d \in DOMAIN conns
    BY <1>1 DEF Inv, Lists
  <2> HIDE DEF s
  <2> QED BY <1>1, <1>2, <1>5, <2>1 DEF Typed
<1>10. \A d \in Range(s) :
        conns[d].p = p /\ conns'[d].greeted => old.id \in Spoilt \/ (part # NULL /\ old.id \in part)
  <2> HIDE DEF s, part, left
  <2> QED BY <1>1, <1>5, <1>7, <1>8, <1>9 DEF Record, Counted
<1>11. part # NULL /\ old.id \in part => \E d \in Range(s) : conns[d].p = p
  <2> HIDE DEF s, part, left
  <2> QED BY <1>7, <1>8
<1> HIDE DEF s, o, left, part
<1>12. Changes(n, c, o, k, part)
  BY <1>1, <1>2, <1>3, <1>4, <1>5, <1>6, <1>7, <1>10, <1>11 DEF Changes
<1> QED
  BY <1>12, RecordChanged

LEMMA LoseRecord ==
  ASSUME Inv, Record, NEW c \in DOMAIN conns, Lose(c) \/ Bye(c)
  PROVE  Record'
<1> DEFINE n == conns[c].obj
<1>1. Typed /\ conns[c] \in Conns
  BY Fields DEF Inv
<1>2. CASE Crashed
  BY <1>1, <1>2, RecordBoot DEF Crashed
<1>3. CASE Lose(c) /\ ~Heard(c)
  <2>1. conns' = [conns EXCEPT ![c].stage = "closed"] /\ UNCHANGED <<mem, torn>>
    BY <1>3 DEF Lose
  <2> QED BY <2>1, QuietRecord
<1>4. CASE Lose(c) /\ Heard(c)
  <2> DEFINE k == IF conns[c].bye = "no" THEN [conns[c] EXCEPT !.stage = "closed"]
                  ELSE [conns[c] EXCEPT !.stage = "closed", !.bye = "again"]
  <2>1. /\ k \in Conns /\ k.p = conns[c].p /\ k.id = conns[c].id /\ k.obj = n
        /\ k.greeted = conns[c].greeted /\ k.stage = "closed"
        /\ IF conns[c].bye = "no" THEN k.bye = "no" ELSE k.bye = "again"
    BY <1>1 DEF Conns
  <2>2. Runs(Dispose(mem, n, c), [conns EXCEPT ![c] = k])
    BY <1>1, <1>4 DEF Lose, Told, Typed
  <2>3. k.bye # "no" => k.greeted
    BY <2>1 DEF Record, Dismissed
  <2> HIDE DEF k
  <2> QED BY <1>2, <1>4, <2>1, <2>2, <2>3, RunsOrCrashes, DisposeRecord
<1>5. CASE Bye(c)
  <2> DEFINE k == [conns[c] EXCEPT !.bye = IF @ = "no" THEN "told" ELSE "again"]
  <2>1. /\ k \in Conns /\ k.p = conns[c].p /\ k.id = conns[c].id /\ k.obj = n
        /\ k.greeted = conns[c].greeted /\ k.stage = conns[c].stage
        /\ k.bye = IF conns[c].bye = "no" THEN "told" ELSE "again"
    BY <1>1 DEF Conns
  <2>2. /\ Heard(c) /\ conns[c].greeted /\ conns[c].stage = "open"
        /\ Runs(Dispose(mem, n, c), [conns EXCEPT ![c] = k])
    BY <1>1, <1>5 DEF Bye, Told, Typed, Heard
  <2> HIDE DEF k
  <2>3. /\ k.stage \in {"open", "closed"} /\ (k.bye # "no" => k.greeted)
        /\ IF conns[c].bye = "no" THEN k.stage = "closed" \/ k.bye = "told" ELSE k.bye = "again"
    BY <2>1, <2>2
  <2>4. CASE /\ Dispose(mem, n, c) # NULL /\ mem' = Dispose(mem, n, c)
             /\ conns' = [conns EXCEPT ![c] = k] /\ torn' = torn
    BY <2>1, <2>2, <2>3, <2>4, DisposeRecord
  <2> QED BY <1>2, <2>2, <2>4, RunsOrCrashes
<1> QED
  BY <1>3, <1>4, <1>5

LEMMA HelloRecord ==
  ASSUME Inv, Record, NEW c \in DOMAIN conns, HearHello(c)
  PROVE  Record'
<1> DEFINE n == conns[c].obj
           p == conns[c].p
           old == mem.objects[n]
           known == Known(mem, old, p)
           users == IF known THEN old.users ELSE Merged([q \in {p} |-> old.next_uid], old.users)
           uid == IF known THEN old.next_uid ELSE old.next_uid + 1
           o == [old EXCEPT !.users = users, !.next_uid = uid]
           P == mem.participation[p]
           part == (IF P = NULL THEN {} ELSE P) \cup {old.id}
           k == [conns[c] EXCEPT !.greeted = TRUE]
<1>1. /\ Typed /\ UNCHANGED torn /\ conns' = [conns EXCEPT ![c] = k]
      /\ conns[c].stage = "open" /\ conns[c].heard /\ conns[c] \in Conns
      /\ n \in DOMAIN mem.objects /\ old \in Objects /\ mem \in Mems /\ mem.objects \in Seq(Objects)
      /\ p \in Principals /\ old.id \in Games /\ conns[c].id = old.id
      /\ P \in (SUBSET Games) \cup {NULL}
  <2>1. /\ Typed /\ UNCHANGED torn /\ conns' = [conns EXCEPT ![c] = k]
        /\ conns[c].stage = "open" /\ conns[c].heard /\ conns[c] \in Conns
    BY Fields DEF Inv, HearHello, Heard
  <2>2. n \in DOMAIN mem.objects /\ conns[c].id = old.id /\ p \in Principals
    BY <2>1 DEF Inv, Connections, Conns
  <2>3. old \in Objects
    BY <2>1, <2>2, Fields
  <2> QED BY <2>1, <2>2, <2>3, Fields DEF Typed, Objects
<1>2. mem' = [mem EXCEPT !.objects = [@ EXCEPT ![n] = o], !.participation = [@ EXCEPT ![p] = part]]
  <2>1. mem' = [mem EXCEPT !.objects[n].users = users, !.objects[n].next_uid = uid,
                           !.participation[p] = part]
    BY DEF HearHello, Hello
  <2> HIDE DEF n, p, known, users, uid, part
  <2> QED BY <1>1, <2>1 DEF Mems
<1> HIDE DEF users, uid
<1>3. o.id = old.id /\ o.zombie = old.zombie /\ o.clients = old.clients
  BY <1>1 DEF Objects
<1>4. /\ k.p = p /\ k.id = conns[c].id /\ k.obj = n /\ k.greeted
      /\ k.stage = "open" /\ k.bye = conns[c].bye
  BY <1>1 DEF Conns
<1>5. ~old.zombie => c \in Range(old.clients) \/ Again(n, c, k)
  <2>1. conns[c].bye = "no"
    BY <1>1 DEF HearHello, Record, Dismissed
  <2>2. Twice(n) # {} => Again(n, c, k)
    BY <2>1 DEF Twice, Again
  <2> QED BY <1>1, <2>1, <2>2 DEF Inv, Connections
<1>6. part # NULL /\ old.id \in part
  BY <1>1, GameServerAssumption
<1>7. \A h \in Games : h # old.id => (part # NULL /\ h \in part <=> Takes(p, h))
  BY <1>6 DEF Takes
<1> HIDE DEF o, k, part, P
<1>8. /\ mem'.objects = [mem.objects EXCEPT ![n] = o] /\ mem'.stopping = mem.stopping
      /\ mem'.participation = [mem.participation EXCEPT ![p] = part]
  <2> HIDE DEF n, p
  <2> QED BY <1>1, <1>2 DEF Mems
<1>9. Changes(n, c, o, k, part)
  BY <1>1, <1>3, <1>4, <1>5, <1>6, <1>7, <1>8 DEF Changes
<1> QED
  BY <1>9, RecordChanged

LEMMA ConnectRecord ==
  ASSUME Inv, Record, NEW c \in DOMAIN conns, Connect(c)
  PROVE  Record'
<1> DEFINE n == conns[c].obj
           p == conns[c].p
           old == mem.objects[n]
           P == mem.participation[p]
           longer == Append(old.clients, c)
           x == [old EXCEPT !.clients = longer]
           s == Spliced(longer, c)
           met == [mem EXCEPT !.objects = [@ EXCEPT ![n] = x]]
<1>1. /\ Typed /\ conns[c].stage = "session" /\ conns[c] \in Conns /\ p \in Principals
      /\ mem \in Mems /\ mem.objects \in Seq(Objects) /\ conns \in Seq(Conns) /\ c \in Nat
      /\ n \in DOMAIN mem.objects /\ old \in Objects /\ old.id \in Games /\ conns[c].id = old.id
      /\ ~conns[c].greeted /\ conns[c].bye = "no" /\ P \in (SUBSET Games) \cup {NULL}
  <2>1. Typed /\ conns[c].stage = "session" /\ conns[c] \in Conns /\ c \in Nat
    BY Fields DEF Inv, Connect
  <2>2. /\ n \in DOMAIN mem.objects /\ conns[c].id = old.id /\ p \in Principals
        /\ ~conns[c].greeted /\ conns[c].bye = "no"
    BY <2>1 DEF Inv, Connections, Conns, Waiting
  <2>3. old \in Objects
    BY <2>1, <2>2, Fields
  <2> QED BY <2>1, <2>2, <2>3, Fields DEF Typed, Objects
<1>2. /\ old.clients \in Seq(Nat) /\ c \notin Range(old.clients)
      /\ \A d \in Range(old.clients) : d \in DOMAIN conns
  BY <1>1 DEF Inv, Lists, Objects
<1>3. longer \in Seq(Nat) /\ Range(longer) = Range(old.clients) \cup {c}
  BY <1>1, <1>2, Appended
<1>4. x \in Objects /\ x.clients = longer /\ x.id = old.id /\ x.zombie = old.zombie
  BY <1>1, <1>3 DEF Objects
<1>5. /\ met \in Mems /\ met.objects = [mem.objects EXCEPT ![n] = x]
      /\ met.participation = mem.participation /\ met.stopping = mem.stopping
  <2>1. [mem.objects EXCEPT ![n] = x] \in Seq(Objects)
    BY <1>1, <1>4
  <2> HIDE DEF n, x
  <2> QED BY <1>1, <2>1 DEF Mems
<1>6. met = [mem EXCEPT !.objects[n].clients = Append(@, c)]
  BY <1>1 DEF Mems
<1>7. ASSUME NEW stage, mem' = mem, torn' = torn,
             conns' = [conns EXCEPT ![c] = [conns[c] EXCEPT !.stage = stage]]
      PROVE  Record'
  <2>1. LET k == [conns[c] EXCEPT !.stage = stage]
        IN  /\ k.p = p /\ k.id = conns[c].id /\ k.greeted = conns[c].greeted
            /\ k.obj = n /\ k.bye = conns[c].bye
    BY <1>1 DEF Conns
  <2>2. DOMAIN conns' = DOMAIN conns /\ \A d \in DOMAIN conns : d # c => conns'[d] = conns[d]
    BY <1>1, <1>7
  <2>3. /\ conns'[c].p = p /\ conns'[c].id = conns[c].id /\ conns'[c].greeted = conns[c].greeted
        /\ conns'[c].obj = n /\ conns'[c].bye = conns[c].bye
    BY <1>1, <1>7, <2>1
  <2> QED BY <1>1, <1>7, <2>2, <2>3, RecordKept
<1>8. CASE Crashed
  BY <1>1, <1>8, RecordBoot DEF Crashed
<1> DEFINE Opened(heard) == [conns[c] EXCEPT !.stage = "open", !.heard = heard]
<1>9. ASSUME NEW heard
      PROVE  LET k == Opened(heard) IN
             /\ k.p = p /\ k.id = conns[c].id /\ k.obj = n /\ k.greeted = FALSE
             /\ k.stage = "open" /\ k.bye = "no"
  BY <1>1 DEF Conns
<1>10. ASSUME NEW heard, conns' = [conns EXCEPT ![c] = Opened(heard)]
       PROVE  \A d \in Range(longer) : /\ conns'[d].greeted => conns[d].greeted /\ d \in Range(old.clients)
  <2> HIDE DEF longer, Opened, n, p, old
  <2> QED BY <1>1, <1>2, <1>3, <1>9, <1>10
<1>11. CASE mem' = met /\ torn' = torn /\ conns' = [conns EXCEPT ![c] = Opened(TRUE)]
  <2>1. mem'.participation = [mem.participation EXCEPT ![p] = P]
    BY <1>1, <1>5, <1>11, Fields
  <2>2. \A d \in Range(longer) : conns[d].p = p /\ conns'[d].greeted =>
          old.id \in Spoilt \/ (P # NULL /\ old.id \in P)
    <3> HIDE DEF longer, Opened
    <3> QED BY <1>1, <1>10, <1>11 DEF Record, Counted, Takes
  <2> HIDE DEF met, x, longer, Opened
  <2>3. Changes(n, c, x, Opened(TRUE), P)
    BY <1>1, <1>3, <1>4, <1>5, <1>9, <1>11, <2>1, <2>2 DEF Changes, Takes
  <2> QED BY <2>3, RecordChanged
<1>12. CASE /\ Dispose(met, n, c) # NULL /\ mem' = Dispose(met, n, c) /\ torn' = torn
            /\ conns' = [conns EXCEPT ![c] = Opened(conns[c].heard)]
  <2> DEFINE o == Parted([x EXCEPT !.clients = s], c)
             left == Left(s, p)
             g == old.id
             part == IF left THEN P \ {g} ELSE P
             k == Opened(conns[c].heard)
  <2>1. s \in Seq(Nat) /\ Range(old.clients) \subseteq Range(s) /\ Range(s) \subseteq Range(longer)
    BY <1>2, <1>3, SplicedList
  <2>2. o.clients = s /\ o.id = g /\ o.zombie = old.zombie
    <3> HIDE DEF x, s, g
    <3> QED BY <1>4, <2>1, PartedObject DEF g
  <2>3. n \in DOMAIN met.objects /\ met.objects[n] = x
    BY <1>1, <1>5
  <2>4. met.objects[n].clients = longer /\ met.objects[n].id = g
    BY <1>4, <2>3
  <2>5. mem'.objects = [met.objects EXCEPT ![n] = o] /\ mem'.stopping = met.stopping
    <3> HIDE DEF longer, met, x
    <3>1. mem'.objects = [met.objects EXCEPT ![n] = o]
      BY <1>1, <1>4, <1>5, <1>12, <2>3, Disposed
    <3>2. Dispose(met, n, c).stopping = met.stopping
      <4> HIDE DEF n
      <4>1. Typed /\ met \in Mems /\ n \in DOMAIN met.objects /\ Dispose(met, n, c) # NULL
        BY <1>1, <1>5, <1>12, <2>3
      <4> QED BY <4>1, Disposed
    <3> QED BY <1>12, <3>1, <3>2
  <2>6. /\ left => P # NULL
        /\ mem'.participation = [mem.participation EXCEPT ![p] = part]
    <3>1. left = Left(Spliced(met.objects[n].clients, c), p)
      BY <2>4
    <3>2. part = IF left THEN met.participation[p] \ {met.objects[n].id} ELSE met.participation[p]
      BY <1>5, <2>4
    <3> HIDE DEF met, longer, left, part, x
    <3>3. LET out == Left(Spliced(met.objects[n].clients, c), conns[c].p) IN
          /\ out => met.participation[conns[c].p] # NULL
          /\ Dispose(met, n, c).participation =
               [met.participation EXCEPT ![conns[c].p] = IF out THEN met.participation[conns[c].p] \ {met.objects[n].id}
                                                        ELSE met.participation[conns[c].p]]
      <4> HIDE DEF n
      <4>1. Typed /\ met \in Mems /\ n \in DOMAIN met.objects /\ Dispose(met, n, c) # NULL
        BY <1>1, <1>5, <1>12, <2>3
      <4> QED BY <4>1, DisposedPart, Zenon
    <3> QED BY <1>5, <1>12, <3>1, <3>2, <3>3
  <2>7. mem'.objects = [mem.objects EXCEPT ![n] = o] /\ mem'.stopping = mem.stopping
    <3> HIDE DEF met, o, x
    <3> QED BY <1>5, <2>5
  <2>8. left <=> \A d \in Range(s) : conns[d].p # p
    BY DEF Left
  <2>9. left \in BOOLEAN
    BY DEF Left
  <2> HIDE DEF left, part, s, longer, met, o, x, k, Opened
  <2>10. /\ \A h \in Games : h # g => (part # NULL /\ h \in part <=> P # NULL /\ h \in P)
         /\ part # NULL /\ g \in part <=> ~left /\ P # NULL /\ g \in P
    <3> HIDE DEF P, g
    <3>1. g \in Games
      BY <1>1 DEF g
    <3> QED BY <1>1, <2>6, <2>9, <3>1, PartGone DEF part
  <2>11. conns' = [conns EXCEPT ![c] = k]
    BY <1>12 DEF k
  <2>12. \A d \in Range(s) : conns[d].p = p /\ conns'[d].greeted =>
           g \in Spoilt \/ (part # NULL /\ g \in part)
    BY <1>1, <1>10, <1>12, <2>1, <2>8, <2>10 DEF Record, Counted, Takes
  <2>13. part # NULL /\ g \in part => \E d \in Range(s) : conns[d].p = p
    BY <2>8, <2>10
  <2>14. /\ k.p = p /\ k.id = g /\ k.obj = n /\ (conns[c].greeted => k.greeted)
         /\ k.stage = "open" /\ k.bye = "no"
    BY <1>1, <1>9 DEF k
  <2>15. Changes(n, c, o, k, part)
    BY <1>1, <1>3, <1>12, <2>1, <2>2, <2>6, <2>7, <2>10, <2>11, <2>12, <2>13, <2>14 DEF Changes, Takes
  <2> QED BY <2>15, RecordChanged
<1>13. /\ Opened(conns[c].heard) = Kicked(conns[c])
       /\ [conns EXCEPT ![c].stage = "open", ![c].heard = TRUE] = [conns EXCEPT ![c] = Opened(TRUE)]
  BY <1>1 DEF Kicked, Conns
<1>14. ASSUME NEW st, conns' = [conns EXCEPT ![c] = [conns[c] EXCEPT !.stage = st]],
              UNCHANGED <<mem, torn>>
       PROVE  Record'
  BY <1>7, <1>14
<1>15. \/ \E st : conns' = [conns EXCEPT ![c] = [conns[c] EXCEPT !.stage = st]] /\ UNCHANGED <<mem, torn>>
       \/ Runs(Dispose(met, n, c), [conns EXCEPT ![c] = Kicked(conns[c])])
       \/ Runs(met, [conns EXCEPT ![c].stage = "open", ![c].heard = TRUE])
  BY <1>6 DEF Connect
<1> HIDE DEF n, met, Opened
<1>16. CASE Runs(Dispose(met, n, c), [conns EXCEPT ![c] = Kicked(conns[c])])
  BY <1>8, <1>12, <1>13, <1>16, RunsOrCrashes
<1>17. CASE Runs(met, [conns EXCEPT ![c].stage = "open", ![c].heard = TRUE])
  BY <1>8, <1>11, <1>13, <1>17, RunsOrCrashes
<1> QED
  BY <1>14, <1>15, <1>16, <1>17

\* destroy takes the game from everybody who has a client in it.
LEMMA DestroyedPart ==
  ASSUME Typed, NEW n \in DOMAIN mem.objects, Destroy(mem, n) # NULL
  PROVE  LET parted == {conns[c].p : c \in Range(mem.objects[n].clients)} IN
         \A p \in Principals :
           /\ p \in parted => mem.participation[p] # NULL
           /\ Destroy(mem, n).participation[p] =
                IF p \in parted THEN mem.participation[p] \ {mem.objects[n].id} ELSE mem.participation[p]
<1> DEFINE old     == mem.objects[n]
           victims == Range(old.clients) \ Range(<<>>)
           parted  == {p \in {conns[c].p : c \in victims} : Left(<<>>, p)}
           seats   == IF old.st.phase # "INIT" THEN {}
                      ELSE old.st.players \cap {old.users[conns[c].p] : c \in {d \in victims : conns[d].greeted}}
           o       == [old EXCEPT !.zombie = TRUE, !.timer = seats # {}, !.clients = <<>>,
                                  !.st.players = @ \ seats]
           part    == [p \in Principals |-> IF p \in parted THEN mem.participation[p] \ {old.id}
                                            ELSE mem.participation[p]]
<1>1. parted = {conns[c].p : c \in Range(old.clients)}
  <2>1. Range(<<>>) = {}
    BY DEF Range
  <2> QED BY <2>1 DEF Left
<1>2. Destroy(mem, n) =
        IF \E p \in parted : mem.participation[p] = NULL THEN NULL
        ELSE [mem EXCEPT !.objects[n] = o, !.participation = part]
  BY DEF Destroy, Byes
<1>3. mem \in Mems
  BY DEF Typed
<1> HIDE DEF parted, o, part
<1>4. (\A p \in parted : mem.participation[p] # NULL) /\ Destroy(mem, n).participation = part
  BY <1>2, <1>3 DEF Mems
<1> QED
  BY <1>1, <1>4 DEF part

LEMMA ExpireRecord ==
  ASSUME Inv, Record, NEW n \in DOMAIN mem.objects, Expire(n)
  PROVE  Record'
<1> DEFINE m == Destroy(mem, n)
           old == mem.objects[n]
           g == old.id
           parted == {conns[c].p : c \in Range(old.clients)}
<1>1. /\ Typed /\ Runs(IF m = NULL THEN NULL ELSE Delete(m, g), conns)
      /\ mem.participation \in [Principals -> (SUBSET Games) \cup {NULL}]
      /\ mem.objects \in Seq(Objects) /\ g \in Games
  BY Fields DEF Inv, Expire, Objects
<1>2. CASE Crashed
  BY <1>1, <1>2, RecordBoot DEF Crashed
<1>3. CASE m # NULL /\ mem' = Delete(m, g) /\ conns' = conns /\ torn' = torn
  <2>1. PICK o \in Objects : /\ o.id = g /\ o.zombie /\ o.clients = <<>>
                             /\ m \in Mems /\ m.objects = [mem.objects EXCEPT ![n] = o]
                             /\ m.stopping = mem.stopping
    BY <1>1, <1>3, Destroyed
  <2>2. \A p \in Principals :
          /\ p \in parted => mem.participation[p] # NULL
          /\ m.participation[p] = IF p \in parted THEN mem.participation[p] \ {g}
                                  ELSE mem.participation[p]
    BY <1>1, <1>3, DestroyedPart
  <2> HIDE DEF m
  <2>3. /\ mem'.objects = m.objects /\ mem'.participation = m.participation
        /\ mem'.stopping = m.stopping
    BY <1>3, <2>1 DEF Delete, Mems
  <2>4. /\ DOMAIN mem'.objects = DOMAIN mem.objects /\ mem'.objects[n] = o
        /\ \A i \in DOMAIN mem.objects : i # n => mem'.objects[i] = mem.objects[i]
    BY <1>1, <2>1, <2>3
  <2>10. Spoilt' = Spoilt
    <3>1. \A i \in DOMAIN mem.objects : mem'.objects[i].id = mem.objects[i].id
      BY <2>1, <2>4
    <3> QED BY <1>3, <2>1, <2>3, <2>4, <3>1, StillSpoilt
  <2>11. \A i : Twice(i)' = Twice(i)
    BY <1>3 DEF Twice
  <2> DEFINE After(p, h) == mem'.participation[p] # NULL /\ h \in mem'.participation[p]
  <2>5. ASSUME NEW p \in Principals, NEW h \in Games
        PROVE  After(p, h) <=> Takes(p, h) /\ (h = g => p \notin parted)
    <3>1. mem.participation[p] \in (SUBSET Games) \cup {NULL}
      BY <1>1
    <3> HIDE DEF parted, g
    <3>2. CASE p \in parted
      BY <3>1, <3>2, <2>2, <2>3, GameServerAssumption DEF Takes
    <3>3. CASE p \notin parted
      BY <3>3, <2>2, <2>3 DEF Takes
    <3> QED BY <3>2, <3>3
  <2>6. \A i \in DOMAIN mem.objects : \A c \in Range(mem'.objects[i].clients) :
          i # n /\ c \in Range(mem.objects[i].clients) /\ c \in DOMAIN conns
    <3>1. Range(o.clients) = {}
      BY <2>1 DEF Range
    <3> QED BY <2>4, <3>1 DEF Inv, Lists
  <2>7. Members'
    BY <1>3, <2>4, <2>6 DEF Record, Members
  <2>8. Counted'
    <3>1. ASSUME NEW i \in DOMAIN mem.objects, NEW c \in Range(mem'.objects[i].clients),
                 conns[c].greeted, mem.objects[i].id \notin Spoilt
          PROVE  After(conns[c].p, mem.objects[i].id)
      <4>1. i # n /\ c \in Range(mem.objects[i].clients) /\ c \in DOMAIN conns
        BY <2>6
      <4>2. mem.objects[i].id # g
        BY <3>1, <4>1, Alone
      <4>3. conns[c].p \in Principals /\ mem.objects[i].id \in Games
        BY <4>1, <1>1, Fields DEF Conns, Objects
      <4>4. Takes(conns[c].p, mem.objects[i].id)
        BY <3>1, <4>1 DEF Record, Counted
      <4> QED BY <4>2, <4>3, <4>4, <2>5
    <3>2. \A i \in DOMAIN mem.objects : mem'.objects[i].id = mem.objects[i].id
      BY <2>1, <2>4
    <3> QED BY <1>3, <2>4, <2>6, <2>10, <3>1, <3>2 DEF Counted, Takes
  <2>9. Accounted'
    <3> SUFFICES ASSUME NEW p \in Principals, NEW h \in Games \ Spoilt, After(p, h)
                 PROVE  \E c \in DOMAIN conns : Shows(c, p, h)'
      BY <1>3, <2>10 DEF Accounted, Takes
    <3>1. PICK c \in DOMAIN conns : Shows(c, p, h)
      BY <2>5 DEF Record, Accounted
    <3>2. CASE conns[c].obj # n
      BY <3>1, <3>2, <1>3, <2>4, <2>11 DEF Shows
    <3>3. CASE conns[c].obj = n
      <4>1. c \notin Range(old.clients)
        <5>1. c \in Range(old.clients) => h = g /\ p \in parted
          BY <3>1 DEF Shows, Record, Members
        <5> QED BY <5>1, <2>5
      <4>2. conns[c].greeted \/ (conns[c].stage \in {"open", "closed"} /\ Twice(n) # {})
        BY <3>1, <3>3, <4>1 DEF Shows
      <4> QED BY <3>1, <3>3, <4>2, <1>3, <2>1, <2>4, <2>11 DEF Shows
    <3> QED BY <3>2, <3>3
  <2>12. Dismissed'
    BY <1>3 DEF Record, Dismissed
  <2> QED BY <2>7, <2>8, <2>9, <2>12 DEF Record
<1> HIDE DEF m, g
<1> QED
  BY <1>1, <1>2, <1>3, RunsOrCrashes

LEMMA DeletedRecord ==
  ASSUME Inv, Record, NEW g \in Games, Deleted(g)
  PROVE  Record'
<1> DEFINE users == DOMAIN mem.objects[mem.games[g]].users
           part  == [p \in Principals |-> IF p \in users THEN mem.participation[p] \ {g}
                                          ELSE mem.participation[p]]
<1>1. /\ Typed /\ g \in mem.deleting /\ mem \in Mems
      /\ mem.participation \in [Principals -> (SUBSET Games) \cup {NULL}]
      /\ torn \subseteq torn'
  BY Fields DEF Inv, Typed, Deleted
<1>2. CASE mem' = Boot /\ conns' = Ended
  BY <1>1, <1>2, RecordBoot
<1>3. CASE /\ \A p \in users : mem.participation[p] # NULL
           /\ mem' = [mem EXCEPT !.deleting = @ \ {g}, !.games[g] = 0, !.participation = part]
           /\ conns' = conns
  <2> HIDE DEF users
  <2>1. /\ mem'.objects = mem.objects /\ mem'.participation = part /\ mem'.stopping = mem.stopping
    <3> HIDE DEF part
    <3> QED BY <1>1, <1>3 DEF Mems
  <2>10. \A h : h \notin Spoilt' => h \notin Spoilt
    <3>1. /\ DOMAIN mem'.objects = DOMAIN mem.objects
          /\ \A i \in DOMAIN mem.objects : mem'.objects[i].id = mem.objects[i].id
      BY <2>1
    <3> QED BY <1>1, <2>1, <3>1, StillSpoilt
  <2>11. \A i : Twice(i)' = Twice(i)
    BY <1>3 DEF Twice
  <2> DEFINE After(p, h) == mem'.participation[p] # NULL /\ h \in mem'.participation[p]
  <2>2. ASSUME NEW p \in Principals, NEW h \in Games
        PROVE  /\ After(p, h) => Takes(p, h)
               /\ Takes(p, h) /\ h # g => After(p, h)
    <3>1. mem.participation[p] \in (SUBSET Games) \cup {NULL}
      BY <1>1
    <3>2. CASE p \in users
      BY <3>1, <3>2, <1>3, <2>1, GameServerAssumption DEF Takes
    <3>3. CASE p \notin users
      BY <3>3, <2>1 DEF Takes
    <3> QED BY <3>2, <3>3
  <2>3. \* Nobody is in a game that is deleted.
        \A i \in DOMAIN mem.objects : \A c \in Range(mem.objects[i].clients) :
          mem.objects[i].id # g \/ g \in Spoilt
    <3> SUFFICES ASSUME NEW i \in DOMAIN mem.objects, NEW c \in Range(mem.objects[i].clients),
                        mem.objects[i].id = g, g \notin Spoilt
                 PROVE  FALSE
      OBVIOUS
    <3>1. mem.objects[i].clients # <<>>
      BY DEF Range
    <3> QED BY <3>1, <1>1 DEF Inv, Lives
  <2>4. Members'
    BY <1>3, <2>1 DEF Record, Members
  <2>5. Counted'
    <3>1. ASSUME NEW i \in DOMAIN mem.objects, NEW c \in Range(mem.objects[i].clients),
                 conns[c].greeted, mem.objects[i].id \notin Spoilt'
          PROVE  After(conns[c].p, mem.objects[i].id)
      <4>1. mem.objects[i].id \notin Spoilt /\ mem.objects[i].id # g
        BY <3>1, <2>3, <2>10
      <4>2. conns[c].p \in Principals /\ mem.objects[i].id \in Games
        BY <1>1, Fields DEF Inv, Lists, Conns, Objects
      <4> QED BY <3>1, <4>1, <4>2, <2>2 DEF Record, Counted
    <3> QED BY <1>3, <2>1, <3>1 DEF Counted, Takes
  <2>6. Accounted'
    BY <1>3, <2>1, <2>2, <2>10, <2>11 DEF Record, Accounted, Takes, Shows
  <2>12. Dismissed'
    BY <1>3 DEF Record, Dismissed
  <2> QED BY <2>4, <2>5, <2>6, <2>12 DEF Record
<1> QED
  BY <1>2, <1>3 DEF Deleted

\* The steps that make or save objects and advance requests.
LEMMA MakeRecord ==
  ASSUME Inv, Record, NEW x, x.clients = <<>>, UNCHANGED torn,
         mem'.objects = Append(mem.objects, x), mem'.participation = mem.participation,
         mem'.stopping = mem.stopping,
         DOMAIN conns' = DOMAIN conns,
         \A c \in DOMAIN conns : LET k == conns'[c] IN
           /\ k.p = conns[c].p /\ k.id = conns[c].id /\ k.greeted = conns[c].greeted
           /\ k.bye = conns[c].bye
           /\ k = conns[c] \/ conns[c].stage = "users"
  PROVE  Record'
<1>1. Typed /\ mem.objects \in Seq(Objects)
  BY Fields DEF Inv
<1>2. /\ DOMAIN mem.objects \subseteq DOMAIN mem'.objects
      /\ \A n \in DOMAIN mem'.objects : IF n \in DOMAIN mem.objects THEN mem'.objects[n] = mem.objects[n]
                                        ELSE mem'.objects[n] = x
  BY <1>1
<1>3. \A c \in DOMAIN conns : conns[c].stage = "users" => ~conns[c].greeted
  BY DEF Inv, Connections, Waiting
<1> QED
  BY <1>2, <1>3, RecordKept

LEMMA RequestRecord ==
  ASSUME Inv, Record, NEW c \in DOMAIN conns, FetchRow(c) \/ FetchUsers(c)
  PROVE  Record'
<1> DEFINE g == conns[c].id
<1>1. /\ Typed /\ conns \in Seq(Conns) /\ conns[c] \in Conns /\ mem \in Mems
      /\ conns[c].stage \in {"game", "users"} /\ ~conns[c].greeted
  BY Fields DEF Inv, Typed, FetchRow, FetchUsers, Connections, Waiting
<1>2. CASE Crashed
  BY <1>1, <1>2, RecordBoot DEF Crashed
<1>3. ASSUME ~Crashed
      PROVE  \E k : /\ conns' = [conns EXCEPT ![c] = k]
                    /\ k.p = conns[c].p /\ k.id = g /\ k.greeted = conns[c].greeted /\ k.bye = conns[c].bye
  <2>1. ASSUME NEW stage
        PROVE  LET k == [conns[c] EXCEPT !.stage = stage]
               IN  k.p = conns[c].p /\ k.id = g /\ k.greeted = conns[c].greeted /\ k.bye = conns[c].bye
    BY <1>1 DEF Conns
  <2>2. CASE FetchRow(c)
    <3> DEFINE stage == IF rows[g] = NULL THEN "closed" ELSE "users"
    <3>1. CASE conns' = [conns EXCEPT ![c].stage = "closed"]
      BY <3>1, <2>1
    <3>2. CASE conns' = [conns EXCEPT ![c].row = rows[g], ![c].stage = stage]
      <4> DEFINE k == [conns[c] EXCEPT !.row = rows[g], !.stage = stage]
      <4> HIDE DEF stage
      <4>1. conns' = [conns EXCEPT ![c] = k]
        BY <1>1, <3>2
      <4>2. k.p = conns[c].p /\ k.id = g /\ k.greeted = conns[c].greeted /\ k.bye = conns[c].bye
        BY <1>1 DEF Conns
      <4> QED BY <4>1, <4>2
    <3> QED BY <2>2, <3>1, <3>2 DEF FetchRow
  <2>3. CASE FetchUsers(c)
    <3>1. CASE conns' = [conns EXCEPT ![c].stage = "session", ![c].obj = mem.games[g], ![c].row = NULL]
      <4> DEFINE k == [conns[c] EXCEPT !.stage = "session", !.obj = mem.games[g], !.row = NULL]
      <4>1. conns' = [conns EXCEPT ![c] = k]
        BY <1>1, <3>1
      <4>2. k.p = conns[c].p /\ k.id = g /\ k.greeted = conns[c].greeted /\ k.bye = conns[c].bye
        BY <1>1 DEF Conns
      <4> QED BY <4>1, <4>2
    <3>2. CASE conns' = [conns EXCEPT ![c].stage = "session", ![c].obj = Len(mem.objects) + 1, ![c].row = NULL]
      <4> DEFINE n == Len(mem.objects) + 1
                 k == [conns[c] EXCEPT !.stage = "session", !.obj = n, !.row = NULL]
      <4> HIDE DEF n
      <4>1. conns' = [conns EXCEPT ![c].stage = "session", ![c].obj = n, ![c].row = NULL]
        BY <3>2 DEF n
      <4>2. conns' = [conns EXCEPT ![c] = k]
        BY <1>1, <4>1
      <4>3. k.p = conns[c].p /\ k.id = g /\ k.greeted = conns[c].greeted /\ k.bye = conns[c].bye
        BY <1>1 DEF Conns
      <4> QED BY <4>2, <4>3
    <3> QED BY <2>3, <1>3, <3>1, <3>2 DEF FetchUsers
  <2> QED BY <2>2, <2>3
<1>4. ASSUME ~Crashed
      PROVE  /\ DOMAIN conns' = DOMAIN conns
             /\ \A d \in DOMAIN conns : LET k == conns'[d] IN
                  /\ k.p = conns[d].p /\ k.id = conns[d].id /\ k.greeted = conns[d].greeted /\ k.bye = conns[d].bye
                  /\ d # c => k = conns[d]
  BY <1>1, <1>3, <1>4
<1>5. CASE ~Crashed /\ mem' = mem /\ torn' = torn
  BY <1>1, <1>4, <1>5, RecordKept
<1>6. CASE /\ ~Crashed /\ torn' = torn /\ conns[c].stage = "users"
           /\ mem' = [mem EXCEPT !.objects = Append(@, Game(g, conns[c].row, prtc[g])),
                                 !.games[g] = Len(mem.objects) + 1]
  <2>1. Game(g, conns[c].row, prtc[g]).clients = <<>>
    BY DEF Game
  <2>2. /\ mem'.objects = Append(mem.objects, Game(g, conns[c].row, prtc[g]))
        /\ mem'.participation = mem.participation /\ mem'.stopping = mem.stopping
    BY <1>1, <1>6 DEF Mems
  <2>3. \A d \in DOMAIN conns : conns'[d] = conns[d] \/ conns[d].stage = "users"
    BY <1>4, <1>6
  <2> QED BY <1>4, <1>6, <2>1, <2>2, <2>3, MakeRecord
<1> QED
  BY <1>2, <1>5, <1>6 DEF FetchRow, FetchUsers

LEMMA UpgradeRecord ==
  ASSUME Inv, Record, NEW p \in Principals, NEW g \in Games, Upgrade(p, g)
  PROVE  Record'
<1>1. conns \in Seq(Conns) /\ mem' = mem /\ torn' = torn /\ \E k : k.bye = "no" /\ conns' = Append(conns, k)
  BY DEF Inv, Typed, Upgrade
<1>2. /\ DOMAIN conns \subseteq DOMAIN conns' /\ \A c \in DOMAIN conns : conns'[c] = conns[c]
      /\ \A c \in DOMAIN conns' \ DOMAIN conns : conns'[c].bye = "no"
  BY <1>1
<1> QED
  BY <1>1, <1>2, RecordKept

LEMMA UpdateRecord ==
  ASSUME Inv, Record, NEW c \in DOMAIN conns, HearUpdate(c)
  PROVE  Record'
<1> DEFINE n == conns[c].obj
           old == mem.objects[n]
<1>1. /\ Typed /\ mem \in Mems /\ mem.objects \in Seq(Objects) /\ conns[c].stage = "open"
      /\ UNCHANGED <<conns, torn>>
  BY Fields DEF Inv, Typed, HearUpdate, Heard
<1>2. n \in DOMAIN mem.objects /\ old \in Objects
  BY <1>1, Fields DEF Inv, Connections
<1>3. PICK st : mem' = [mem EXCEPT !.objects[n].st = st, !.objects[n].timer = TRUE]
  BY DEF HearUpdate, object
<1> DEFINE o == [old EXCEPT !.st = st, !.timer = TRUE]
<1>4. o.id = old.id /\ o.clients = old.clients /\ o.zombie = old.zombie
  BY <1>2 DEF Objects
<1>5. mem' = [mem EXCEPT !.objects = [@ EXCEPT ![n] = o]]
  <2> HIDE DEF n
  <2> QED BY <1>1, <1>2, <1>3 DEF Mems
<1> HIDE DEF o, n
<1>6. /\ mem'.objects = [mem.objects EXCEPT ![n] = o] /\ mem'.participation = mem.participation
      /\ mem'.stopping = mem.stopping
  BY <1>1, <1>5 DEF Mems
<1>7. /\ DOMAIN mem'.objects = DOMAIN mem.objects
      /\ \A i \in DOMAIN mem.objects : /\ mem'.objects[i].id = mem.objects[i].id
                                       /\ mem'.objects[i].clients = mem.objects[i].clients
                                       /\ mem'.objects[i].zombie = mem.objects[i].zombie
  BY <1>1, <1>2, <1>4, <1>6
<1> QED
  BY <1>1, <1>6, <1>7, RecordKept

LEMMA NextRecord == Inv /\ Record /\ [Next]_vars => Record'
<1> SUFFICES ASSUME Inv, Record, [Next]_vars PROVE Record'
  OBVIOUS
<1>1. mem \in Mems /\ Typed
  BY DEF Inv, Typed
<1>2. CASE UNCHANGED vars
  BY <1>2, QuietRecord DEF vars
<1>3. ASSUME NEW g \in Games, BeginGame(g) \/ Deleted(g) \/ Snapshots(g)
      PROVE  Record'
  <2>1. CASE BeginGame(g)
    <3>1. /\ mem'.objects = Append(mem.objects, Game(g, Lobby, NoUsers))
          /\ mem'.participation = mem.participation /\ mem'.stopping = mem.stopping
          /\ UNCHANGED <<conns, torn>>
      BY <1>1, <2>1 DEF BeginGame, Mems
    <3>2. Game(g, Lobby, NoUsers).clients = <<>>
      BY DEF Game
    <3> QED BY <3>1, <3>2, MakeRecord
  <2>2. CASE Snapshots(g)
    <3>1. /\ mem'.objects = mem.objects /\ mem'.participation = mem.participation
          /\ conns' = conns /\ torn \subseteq torn' /\ mem'.stopping = mem.stopping
      BY <1>1, <2>2 DEF Snapshots, SnapshotGame, SnapshotUsers, Mems
    <3> QED BY <3>1, QuietRecord
  <2> QED BY <1>3, <2>1, <2>2, DeletedRecord
<1>4. ASSUME NEW p \in Principals, NEW g \in Games, Upgrade(p, g)
      PROVE  Record'
  BY <1>4, UpgradeRecord
<1>5. ASSUME NEW c \in DOMAIN conns, Queries(c) \/ Clients(c)
      PROVE  Record'
  <2>1. CloseDone(c) => Record'
    BY QuietRecord DEF CloseDone
  <2> QED BY <1>5, <2>1, RequestRecord, ConnectRecord, HelloRecord, UpdateRecord, LoseRecord
          DEF Queries, Clients
<1>6. ASSUME NEW n \in DOMAIN mem.objects, Expire(n)
      PROVE  Record'
  BY <1>6, ExpireRecord
<1>7. CASE Shutdown \/ Exit \/ Crash
  <2>1. ASSUME Shutdown
        PROVE  Record'
    <3>1. /\ mem'.objects = mem.objects /\ mem'.participation = mem.participation
          /\ UNCHANGED <<conns, torn>> /\ mem'.stopping
      BY <1>1, <2>1 DEF Shutdown, Mems
    <3> QED BY <3>1, QuietRecord
  <2> QED BY <1>1, <1>7, <2>1, RecordBoot DEF Exit, Crash, Crashed
<1> QED
  BY <1>2, <1>3, <1>4, <1>5, <1>6, <1>7 DEF Next

LEMMA InitRecord == Init => Record
<1> SUFFICES ASSUME Init PROVE Record
  OBVIOUS
<1>1. mem.objects = <<>> /\ mem.participation = [p \in Principals |-> NULL]
  BY DEF Init, Boot
<1>2. DOMAIN mem.objects = {}
  BY <1>1
<1> QED
  BY <1>1, <1>2 DEF Record, Members, Counted, Accounted, Takes, Dismissed, Init

\* Whoever said hello to a game and has a client there takes part in it, with
\* however many tabs, and whoever takes part has a client there or was one when
\* the game came to its end: what hello, dispose and delete_game do to the record
\* that connect counts, whatever order they come in.
THEOREM ParticipationAlways == Spec => []ParticipationExact
<1>1. Inv /\ Record => ParticipationExact
  BY RecordExact DEF Inv
<1> QED
  BY <1>1, InitRecord, NextRecord, InvAlways, PTL DEF Spec
=============================================================================
