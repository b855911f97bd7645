-------------------------------- MODULE Routes --------------------------------
(***************************************************************************)
(* src/wasmpg: how a notification finds the connections that asked for it. *)
(* LISTEN is session-global against the one PGlite session, so the         *)
(* multiplexer keeps its own table (routes), filled by watching Query and  *)
(* Parse messages on their way out (handleLocally, observeListen, apply)   *)
(* and emptied by UNLISTEN and by forget.  The backend's own view is       *)
(* backendListens; wants is what a connection with a session of its own    *)
(* would be listening for.                                                 *)
(*                                                                         *)
(* Statements travel in batches: a Write observes each message when it     *)
(* decodes it and executes the batch in one round trip.  The backend lock  *)
(* is the subject of Multiplexer; here a round trip is one step.           *)
(***************************************************************************)
EXTENDS Naturals, Sequences, FiniteSets

CONSTANTS Conn, Channel,
          MaxNotes,     \* bound on the notifications raised
          MaxBatch      \* bound on the messages of one Write

ASSUME RoutesAssumption == MaxNotes \in Nat /\ MaxBatch \in Nat

VARIABLES life,           \* each connection: open, mid-shutdown or closed
          batch,          \* the operations its Write has observed, in order
          writing,        \* connections inside Write
          routes,         \* m.routes, as pairs of connection and channel
          backendListens, \* the channels the PGlite session listens to
          wants,          \* channels each connection's own statements left it listening to
          refused,        \* connections one of whose UNLISTENs the backend refused
          notes,          \* notifications raised so far: their channels
          due,            \* for each, the connections listening when it was raised
          targets,        \* for each, the copy of m.routes[channel] still to deliver
          inbox           \* for each connection, the notifications delivered

connVars == <<life, batch, writing>>
noteVars == <<notes, due, targets, inbox>>
routesVars == <<connVars, routes, backendListens, wants, refused, noteVars>>

Op == [kind : {"listen", "unlisten"}, channel : Channel]
        \cup {[kind |-> "unlistenAll"]}

\* The messages handleLocally looks into.
Message == {"Query", "Parse"}

RoutesInit ==
    /\ life = [c \in Conn |-> "open"]
    /\ batch = [c \in Conn |-> <<>>]
    /\ writing = {}
    /\ routes = {} /\ backendListens = {}
    /\ wants = [c \in Conn |-> {}]
    /\ refused = {}
    /\ notes = <<>> /\ due = <<>> /\ targets = <<>>
    /\ inbox = [c \in Conn |-> {}]

RoutesTypeOK ==
    /\ life \in [Conn -> {"open", "forgotten", "closed"}]
    /\ batch \in [Conn -> Seq(Op)]
    /\ writing \subseteq Conn
    /\ routes \subseteq Conn \X Channel
    /\ backendListens \subseteq Channel
    /\ wants \in [Conn -> SUBSET Channel]
    /\ refused \subseteq Conn
    /\ notes \in Seq(Channel)
    /\ due \in Seq(SUBSET Conn) /\ targets \in Seq(SUBSET Conn)
    /\ inbox \in [Conn -> SUBSET DOMAIN notes]
    /\ Len(due) = Len(notes) /\ Len(targets) = Len(notes)

Done(c) == life[c] = "closed"

\* What an operation leaves listening, out of a set of channels.
After(op, channels) ==
    CASE op.kind = "listen" -> channels \cup {op.channel}
      [] op.kind = "unlisten" -> channels \ {op.channel}
      [] OTHER -> {}

\* A batch leaves a channel listening when its last word on it is a LISTEN, or
\* when it never leaves a channel that was listening.
AfterBatch(b, channels) ==
    {ch \in Channel : \E i \in 0..Len(b) :
        /\ IF i = 0 THEN ch \in channels ELSE b[i] = [kind |-> "listen", channel |-> ch]
        /\ \A j \in i + 1..Len(b) : ch \in After(b[j], {ch})}

\* The channels a connection's unfinished batch asks to leave.
Leaving(c) ==
    {ch \in Channel : \E i \in DOMAIN batch[c] : ch \notin After(batch[c][i], {ch})}
-----------------------------------------------------------------------------
(* Mutated forms. *)

\* unregisterLocked drops the channel's whole map, not one connection's entry.
applyUnregistersAll(c, op) ==
    CASE op.kind = "listen" -> routes \cup {<<c, op.channel>>}
      [] op.kind = "unlisten" -> {r \in routes : r[2] # op.channel}
      [] OTHER -> {}

\* handleLocally watches feQuery only.
ObserveQueryOnly(c, m, op) ==
    /\ c \in writing /\ Len(batch[c]) < MaxBatch
    /\ batch' = [batch EXCEPT ![c] = Append(@, op)]
    /\ IF m = "Query"
       THEN routes' = routes \cup {<<c, ch>> : ch \in After(op, {})}
       ELSE UNCHANGED routes
    /\ UNCHANGED <<life, writing, backendListens, wants, refused, noteVars>>
-----------------------------------------------------------------------------
(* The write path.                                                         *)

\* Write has passed its check of c.done.
WriteStart(c) ==
    /\ c \notin writing /\ ~Done(c)
    /\ writing' = writing \cup {c}
    /\ UNCHANGED <<life, batch, routes, backendListens, wants, refused, noteVars>>

\* m.routes after apply(c, op); the connection may be gone by now.
apply(c, op) ==
    CASE op.kind = "listen" -> routes \cup {<<c, op.channel>>}
      [] op.kind = "unlisten" -> routes \ {<<c, op.channel>>}
      [] OTHER -> {r \in routes : r[1] # c}

\* handleLocally on one Query or Parse message that observeListen recognises.
Observe(c, m, op) ==
    /\ c \in writing /\ Len(batch[c]) < MaxBatch
    /\ batch' = [batch EXCEPT ![c] = Append(@, op)]
    /\ routes' = apply(c, op)
    /\ UNCHANGED <<life, writing, backendListens, wants, refused, noteVars>>

\* flush: the backend executes the batch and the Write returns.
ExecOK(c) ==
    /\ c \in writing /\ batch[c] # <<>> /\ ~Done(c)
    /\ backendListens' = AfterBatch(batch[c], backendListens)
    /\ wants' = [wants EXCEPT ![c] = AfterBatch(batch[c], @)]
    /\ batch' = [batch EXCEPT ![c] = <<>>]
    /\ writing' = writing \ {c}
    /\ UNCHANGED <<life, routes, refused, noteVars>>

\* flush: the batch has no effect, because the backend refuses it (an error, or
\* a transaction that is later rolled back) or because beginRoundTrip finds the
\* connection closed.
ExecRefused(c) ==
    /\ c \in writing /\ batch[c] # <<>>
    /\ batch' = [batch EXCEPT ![c] = <<>>]
    /\ writing' = writing \ {c}
    /\ refused' = IF Leaving(c) = {} \/ Done(c) THEN refused ELSE refused \cup {c}
    /\ UNCHANGED <<life, routes, backendListens, wants, noteVars>>

\* shutdown: forget takes the connection out of the table, then done closes.
forget(c) ==
    /\ life[c] = "open"
    /\ life' = [life EXCEPT ![c] = "forgotten"]
    /\ routes' = {r \in routes : r[1] # c}
    /\ UNCHANGED <<batch, writing, backendListens, wants, refused, noteVars>>

\* A closed connection wants nothing more.
closeDone(c) ==
    /\ life[c] = "forgotten"
    /\ life' = [life EXCEPT ![c] = "closed"]
    /\ wants' = [wants EXCEPT ![c] = {}]
    /\ refused' = refused \ {c}
    /\ UNCHANGED <<batch, writing, routes, backendListens, noteVars>>
-----------------------------------------------------------------------------
(* The read path.                                                          *)

\* onNotification: PGlite reports a channel its session listens to, and Notify
\* copies the channel's connections under m.mu.
Notify(ch) ==
    /\ Len(notes) < MaxNotes
    /\ ch \in backendListens
    /\ notes' = Append(notes, ch)
    /\ due' = Append(due, {c \in Conn : /\ life[c] = "open"
                                        /\ ch \in wants[c] \ Leaving(c)
                                        /\ c \notin refused})
    /\ targets' = Append(targets, {c \in Conn : <<c, ch>> \in routes})
    /\ UNCHANGED <<connVars, routes, backendListens, wants, refused, inbox>>

\* deliver: a connection that has closed drops the frame.
Deliver(n, c) ==
    /\ n \in DOMAIN targets /\ c \in targets[n]
    /\ targets' = [targets EXCEPT ![n] = @ \ {c}]
    /\ inbox' = IF Done(c) THEN inbox ELSE [inbox EXCEPT ![c] = @ \cup {n}]
    /\ UNCHANGED <<connVars, routes, backendListens, wants, refused, notes, due>>

RoutesNext ==
    \/ \E c \in Conn :
          \/ WriteStart(c) \/ ExecOK(c) \/ ExecRefused(c)
          \/ \E m \in Message, op \in Op : Observe(c, m, op)
          \/ forget(c) \/ closeDone(c)
          \/ \E n \in DOMAIN targets : Deliver(n, c)
    \/ \E ch \in Channel : Notify(ch)

RoutesSpec == RoutesInit /\ [][RoutesNext]_routesVars
-----------------------------------------------------------------------------
(* Properties.                                                             *)

\* Once a connection's LISTEN has run it is in the table for as long as it is
\* open and has not asked to leave: neither another connection's UNLISTEN nor
\* another connection's close takes its entry (apply, unregisterLocked, forget).
\* An UNLISTEN the backend refused has moved the table ahead of the session.
ListenerStaysRouted ==
    \A c \in Conn : (life[c] = "open" /\ c \notin refused)
        => \A ch \in wants[c] \ Leaving(c) : <<c, ch>> \in routes

\* A notification raised while a connection was listening reaches it unless the
\* connection closes first: the LISTEN is registered before it runs, so not
\* even one raised the moment it takes effect is lost (apply, Notify, deliver).
NoNotificationLost ==
    \A n \in DOMAIN notes : \A c \in due[n] :
        n \in inbox[c] \/ c \in targets[n] \/ life[c] # "open"
=============================================================================
