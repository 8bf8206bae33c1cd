------------------------------ MODULE Forwarder ------------------------------
(***************************************************************************)
(* LocalForwarder: a local port whose connections are carried by one SSH   *)
(* session.  The accept loop hands every connection to a task of its own;  *)
(* the task asks SessionProvider for the session, which opens a new one if *)
(* there is none or it has died, holding its mutex for as long as that     *)
(* takes.  stop() ends the loop and then closes the session, for which it  *)
(* needs the mutex.                                                        *)
(*                                                                         *)
(* Forwarders are numbers, and a number is used again when nothing is left *)
(* of the forwarder that had it.                                           *)
(***************************************************************************)
EXTENDS Naturals, FiniteSets

CONSTANTS
  MaxForwarders,  \* bound: forwarders at a time
  MaxConns,       \* bound: connections at a time
  MaxOutages      \* bound: times the host goes away

ASSUME ForwarderAssumption ==
  MaxForwarders \in Nat \ {0} /\ MaxConns \in Nat /\ MaxOutages \in Nat

VARIABLES
  up,        \* the host answers
  outages,   \* so far (bound)
  listening, \* forwarders whose accept loop runs
  session,   \* SessionProvider.current of each
  closed,    \* whether stop() has closed it, "late" if a task was yet to ask
  fetching,  \* forwarders whose mutex is held over a reconnect
  conn       \* the tasks of the connections

forwarderVars == <<up, outages, listening, session, closed, fetching, conn>>

F == 1..MaxForwarders
Conn == 1..MaxConns
Idle == [of |-> 0, pc |-> "free"]

ForwarderTypeOK ==
  /\ up \in BOOLEAN /\ outages \in 0..MaxOutages
  /\ listening \subseteq F /\ fetching \subseteq F
  /\ session \in [F -> {"none", "live", "dead"}]
  /\ closed \in [F -> {"open", "closed", "late"}]
  /\ conn \in [Conn -> [of : F \cup {0}, pc : {"free", "asking", "connecting", "open"}]]

ForwarderInit ==
  /\ up = TRUE /\ outages = 0
  /\ listening = {} /\ fetching = {}
  /\ session = [f \in F |-> "none"] /\ closed = [f \in F |-> "closed"]
  /\ conn = [c \in Conn |-> Idle]

TasksOf(f) == {c \in Conn : conn[c].of = f}

-----------------------------------------------------------------------------
\* LocalForwarder::start: an SSH session, then the port, then the loop.  Without
\* a session there is no forwarder.
Open(f) ==
  /\ up
  /\ listening' = listening \cup {f}
  /\ session' = [session EXCEPT ![f] = "live"]
  /\ closed' = [closed EXCEPT ![f] = "open"]
  /\ UNCHANGED <<up, outages, fetching, conn>>

\* stop(), first half: the flag, and the end of the loop.
Shut(f) ==
  /\ listening' = listening \ {f}
  /\ UNCHANGED <<up, outages, session, closed, fetching, conn>>

\* Second half: SessionProvider::close, behind whoever reconnects.
Close(f) ==
  /\ f \notin fetching
  /\ session' = [session EXCEPT ![f] = "none"]
  /\ closed' = [closed EXCEPT ![f] =
                  IF \E c \in TasksOf(f) : conn[c].pc = "asking" THEN "late" ELSE "closed"]
  /\ UNCHANGED <<up, outages, listening, fetching, conn>>

\* A client connects.
Accept(f, c) ==
  /\ f \in listening /\ conn[c] = Idle
  /\ conn' = [conn EXCEPT ![c] = [of |-> f, pc |-> "asking"]]
  /\ UNCHANGED <<up, outages, listening, session, closed, fetching>>

\* SessionProvider::get: the session if it lives, or else the mutex is kept and
\* the connect loop entered.
Ask(c) ==
  /\ conn[c].pc = "asking" /\ conn[c].of \notin fetching
  /\ IF session[conn[c].of] = "live"
     THEN /\ conn' = [conn EXCEPT ![c].pc = "open"]
          /\ UNCHANGED <<session, fetching>>
     ELSE /\ conn' = [conn EXCEPT ![c].pc = "connecting"]
          /\ session' = [session EXCEPT ![conn[c].of] = "none"]
          /\ fetching' = fetching \cup {conn[c].of}
  /\ UNCHANGED <<up, outages, listening, closed>>

Reconnected(c) ==
  /\ conn[c].pc = "connecting" /\ up
  /\ conn' = [conn EXCEPT ![c].pc = "open"]
  /\ session' = [session EXCEPT ![conn[c].of] = "live"]
  /\ fetching' = fetching \ {conn[c].of}
  /\ UNCHANGED <<up, outages, listening, closed>>

\* Mutant of GivesUp: the loop has no deadline.
NeverGivesUp(c) == Reconnected(c)

\* RECONNECT_DEADLINE: the connection is dropped.
GivesUp(c) ==
  /\ conn[c].pc = "connecting"
  /\ conn' = [conn EXCEPT ![c] = Idle]
  /\ fetching' = fetching \ {conn[c].of}
  /\ UNCHANGED <<up, outages, listening, session, closed>>

\* Either end closes, or the session has ended.  The last task of a stopped
\* forwarder drops the session with it.
Hangup(c) ==
  /\ conn[c].pc = "open"
  /\ conn' = [conn EXCEPT ![c] = Idle]
  /\ LET f == conn[c].of
     IN  session' = IF f \notin listening /\ closed[f] # "open" /\ TasksOf(f) = {c}
                    THEN [session EXCEPT ![f] = "none"] ELSE session
  /\ UNCHANGED <<up, outages, listening, closed, fetching>>

Outage ==
  /\ up /\ outages < MaxOutages
  /\ up' = FALSE /\ outages' = outages + 1
  /\ UNCHANGED <<listening, session, closed, fetching, conn>>

Return ==
  /\ ~up /\ up' = TRUE
  /\ UNCHANGED <<outages, listening, session, closed, fetching, conn>>

\* After three keepalives without an answer.
SessionsDie ==
  /\ ~up /\ \E f \in F : session[f] = "live"
  /\ session' = [f \in F |-> IF session[f] = "live" THEN "dead" ELSE session[f]]
  /\ UNCHANGED <<up, outages, listening, closed, fetching, conn>>

TaskStep(c) == Ask(c) \/ Reconnected(c) \/ GivesUp(c)
Network == Outage \/ Return \/ SessionsDie

-----------------------------------------------------------------------------
\* A session that is there after stop() has closed it was opened by a connection
\* that the loop had accepted and that had not asked yet: nothing else brings a
\* stopped tunnel back, and it ends with its connections.
SessionsAccounted ==
  \A f \in F \ listening :
    closed[f] # "open" /\ session[f] # "none" =>
      closed[f] = "late" /\ TasksOf(f) # {}
=============================================================================
