----------------------------- MODULE WebServer ------------------------------
(***************************************************************************)
(* What a client of the web server is told, and what it shows.             *)
(*                                                                         *)
(* A client gets a snapshot when it connects and every change from then on *)
(* over a socket that keeps the order.  The web app merges what it gets    *)
(* into what it shows, and goes on showing it over reconnects.  A message  *)
(* carries values of some entries; the snapshot, sent as several messages  *)
(* at once, is one message here, and ends with the history of the site.    *)
(***************************************************************************)
EXTENDS ConfigRepository, Integers, Sequences

CONSTANT MaxQueue  \* bound: messages under way to the client

VARIABLES
  history,  \* Site::history is not empty
  online,   \* the client is connected
  deaf,     \* its stream of messages ended with an exception
  queue,    \* messages under way to it
  view      \* what it shows

webVars == <<history, online, deaf, queue, view>>

Updates == UNION {[S -> Values] : S \in SUBSET Entries}

WebTypeOK ==
  /\ history \in BOOLEAN /\ online \in BOOLEAN /\ deaf \in BOOLEAN
  /\ queue \in Seq([update : Updates, breaks : BOOLEAN])
  /\ view \in Tables

WebInit ==
  /\ history = FALSE /\ online = FALSE /\ deaf = FALSE
  /\ queue = <<>>
  /\ view = Empty

(* The entries of S that have a value in tab.  *)
Restricted(tab, S) == [e \in {x \in S : tab[x] # Unset} |-> tab[e]]

Message(update) == [update |-> update, breaks |-> FALSE]

(* All properties of all things, those of the site, and its history, of    *)
(* which the app takes the last element: it throws if there is none.       *)
Snapshot(update) == [update |-> update, breaks |-> ~history]

-----------------------------------------------------------------------------

(* uWS publishes to the sockets that are subscribed to "broadcast".  What  *)
(* is sent to a client that is deaf makes no difference and is left out.   *)
Broadcast(update) ==
  /\ queue' = IF online /\ ~deaf THEN Append(queue, Message(update)) ELSE queue
  /\ Len(queue') <= MaxQueue
  /\ UNCHANGED <<online, deaf, view>>

(* What open would send if it left the site to the broadcasts.  *)
OpenWithoutSite(current) ==
  /\ ~online
  /\ online' = TRUE /\ deaf' = FALSE
  /\ queue' = <<Snapshot(Restricted(current, Entries \ {Interval}))>>
  /\ UNCHANGED <<history, view>>

(* WebAppBehavior::open: subscribe, and send the snapshot.                 *)
Open(current) ==
  /\ ~online
  /\ online' = TRUE /\ deaf' = FALSE
  /\ queue' = <<Snapshot(Restricted(current, Entries))>>
  /\ UNCHANGED <<history, view>>

(* The connection is lost or left, and what was under way with it.  *)
Close ==
  /\ online
  /\ online' = FALSE /\ deaf' = FALSE /\ queue' = <<>>
  /\ UNCHANGED <<history, view>>

(* The web app merges the values into those it has.  If it throws, the     *)
(* stream ends and the socket stays.                                       *)
Receive ==
  /\ queue # <<>>
  /\ LET message == Head(queue)
     IN  /\ view' = [e \in Entries |-> IF e \in DOMAIN message.update
                                          THEN message.update[e] ELSE view[e]]
         /\ deaf' = message.breaks
         /\ queue' = IF message.breaks THEN <<>> ELSE Tail(queue)
  /\ UNCHANGED <<history, online>>

(* A site update is broadcast, with none of the entries.  *)
SiteUpdate ==
  /\ history' = TRUE
  /\ Broadcast(Restricted(Empty, {}))

(* The daemon ends: its sockets close, its history is lost.  *)
WebDown ==
  /\ history' = FALSE /\ online' = FALSE /\ deaf' = FALSE /\ queue' = <<>>
  /\ UNCHANGED view
=============================================================================
