------------------------------- MODULE Tunnels -------------------------------
(***************************************************************************)
(* The tunnels of one server: the commands of the application over the     *)
(* registry of forwarders, each on a worker thread of its own, and the two *)
(* hooks that send them.  useManagementTunnel keeps the tunnel of the      *)
(* management service while its page is shown; useServerTunnels has the    *)
(* buttons of the others, here one, `svc`.  The hooks do not wait for the  *)
(* answer to one command before they send the next, except that a button   *)
(* is off while its own start or stop is under way.                        *)
(*                                                                         *)
(* A command looks a tunnel up, starts a forwarder and enters it in three  *)
(* critical sections; it stops one inside the last.                        *)
(***************************************************************************)
EXTENDS Forwarder, Sequences

CONSTANTS
  MaxCalls,    \* bound: commands under way at a time
  MaxPresses   \* bound: what the user does

ASSUME TunnelsAssumption == MaxCalls \in Nat \ {0} /\ MaxPresses \in Nat

VARIABLES
  registry,  \* TunnelRegistry.tunnels: the forwarder of each id, 0: none
  lock,      \* the command that holds its mutex, 0: none
  calls,     \* the commands under way
  hook,      \* ManagementTunnelState, and the start whose answer counts
  shown,     \* serverTunnels[svc], 0: none
  busy,      \* serverTunnelBusy[svc]
  place,     \* "here", the server "removed" from the list, the window "closing"
  overlap,   \* ids whose latest command was sent beside another, or met one
  strayed,   \* the server was removed while its button was busy
  presses

tunnelVars == <<registry, lock, calls, hook, shown, busy, place, overlap, strayed, presses>>
vars == <<forwarderVars, tunnelVars>>

Ids == {"mgmt", "svc"}
Slots == 1..MaxCalls
NoCall == [kind |-> "none", id |-> "mgmt", pc |-> "sent", f |-> 0, port |-> 1]

Call ==
  [kind : {"none", "start", "stop", "status", "stop_all"}, id : Ids,
   pc : {"sent", "connect", "probe", "next_port", "insert", "close", "answered"},
   f : F \cup {0}, port : {1, 2}]

TypeOK ==
  /\ ForwarderTypeOK
  /\ registry \in [Ids -> F \cup {0}] /\ lock \in Slots \cup {0}
  /\ calls \in [Slots -> Call]
  /\ hook \in [kind : {"idle", "connecting", "ready", "error"}, call : Slots \cup {0}, f : F \cup {0}]
  /\ shown \in F \cup {0} /\ busy \in BOOLEAN /\ place \in {"here", "removed", "closing"}
  /\ overlap \subseteq Ids /\ strayed \in BOOLEAN /\ presses \in 0..MaxPresses

Init ==
  /\ ForwarderInit
  /\ registry = [i \in Ids |-> 0] /\ lock = 0 /\ calls = [k \in Slots |-> NoCall]
  /\ hook = [kind |-> "idle", call |-> 0, f |-> 0] /\ shown = 0 /\ busy = FALSE
  /\ place = "here" /\ overlap = {} /\ strayed = FALSE /\ presses = 0

UnderWay(id) == {k \in Slots : calls[k].kind # "none" /\ (calls[k].id = id \/ calls[k].kind = "stop_all")}

\* Numbers nothing refers to.
FreeForwarders ==
  F \ (listening \cup fetching
       \cup {f \in F : session[f] # "none" \/ TasksOf(f) # {}}
       \cup {registry[i] : i \in Ids} \cup {calls[k].f : k \in Slots} \cup {hook.f, shown})

Least(s) == CHOOSE x \in s : \A y \in s : x <= y

Goes(k, pc) == calls' = [calls EXCEPT ![k].pc = pc]
GoesWith(k, pc, f) == calls' = [calls EXCEPT ![k].pc = pc, ![k].f = f]

-----------------------------------------------------------------------------
\* The commands.
At(k, kinds, pc) == calls[k].kind \in kinds /\ calls[k].pc = pc
Quiet == UNCHANGED <<hook, shown, busy, place, overlap, strayed, presses>>

\* existing_running_tunnel: a tunnel that runs is the answer.
LookUp(k) ==
  /\ At(k, {"start", "status"}, "sent") /\ lock = 0
  /\ LET f == registry[calls[k].id]
     IN  IF f \in listening \/ calls[k].kind = "status"
         THEN GoesWith(k, "answered", f)
         ELSE Goes(k, "connect")
  /\ Quiet /\ UNCHANGED <<forwarderVars, registry, lock>>

\* The remote port is found, the forwarder started; the management service is
\* tried on its port and on that of earlier releases.
Connect(k) ==
  /\ At(k, {"start"}, "connect")
  /\ FreeForwarders # {}
  /\ Open(Least(FreeForwarders))
  /\ GoesWith(k, IF calls[k].id = "mgmt" THEN "probe" ELSE "insert", Least(FreeForwarders))
  /\ Quiet /\ UNCHANGED <<registry, lock>>

\* No host, no service in the cluster, or the local port is taken.
ConnectFails(k) ==
  /\ At(k, {"start"}, "connect")
  /\ GoesWith(k, "answered", 0)
  /\ Quiet /\ UNCHANGED <<forwarderVars, registry, lock>>

Probe(k) ==
  /\ At(k, {"start"}, "probe")
  /\ \/ Goes(k, "insert") /\ UNCHANGED forwarderVars
     \/ Goes(k, "next_port") /\ Shut(calls[k].f)
  /\ Quiet /\ UNCHANGED <<registry, lock>>

\* forwarder.stop() after a probe without an answer.
NextPort(k) ==
  /\ At(k, {"start"}, "next_port")
  /\ Close(calls[k].f)
  /\ calls' = [calls EXCEPT ![k].f = 0, ![k].port = 2,
                            ![k].pc = IF calls[k].port = 1 THEN "connect" ELSE "answered"]
  /\ Quiet /\ UNCHANGED <<registry, lock>>

\* Mutant of Insert: an entry that is there is only overwritten.
Overwrite(k) ==
  /\ At(k, {"start"}, "insert") /\ lock = 0
  /\ registry' = [registry EXCEPT ![calls[k].id] = calls[k].f]
  /\ Goes(k, "answered")
  /\ Quiet /\ UNCHANGED <<forwarderVars, lock>>

\* A tunnel that another start has entered in the meantime is stopped, under the
\* mutex.
Insert(k) ==
  /\ At(k, {"start"}, "insert") /\ lock = 0
  /\ LET id == calls[k].id
         old == registry[id]
     IN  /\ registry' = [registry EXCEPT ![id] = IF old = 0 THEN calls[k].f ELSE old]
         /\ IF old = 0
            THEN Goes(k, "answered") /\ UNCHANGED <<forwarderVars, lock>>
            ELSE Goes(k, "close") /\ Shut(old) /\ lock' = k
  /\ Quiet

\* Mutant of StopServerTunnel: the entry stays.
StopEntry(k) ==
  /\ At(k, {"stop"}, "sent") /\ lock = 0
  /\ IF registry[calls[k].id] = 0
     THEN Goes(k, "answered") /\ UNCHANGED <<forwarderVars, lock>>
     ELSE Goes(k, "close") /\ Shut(registry[calls[k].id]) /\ lock' = k
  /\ Quiet /\ UNCHANGED registry

\* stop_server_tunnel: a tunnel that is not entered yet is not found.
StopServerTunnel(k) ==
  /\ At(k, {"stop"}, "sent") /\ lock = 0
  /\ LET f == registry[calls[k].id]
     IN  /\ registry' = [registry EXCEPT ![calls[k].id] = 0]
         /\ IF f = 0
            THEN Goes(k, "answered") /\ UNCHANGED <<forwarderVars, lock>>
            ELSE GoesWith(k, "close", f) /\ Shut(f) /\ lock' = k
  /\ Quiet

\* TunnelRegistry::stop_all, from the window's close request: one by one.
StopAll(k) ==
  /\ At(k, {"stop_all"}, "sent") /\ lock \in {0, k}
  /\ IF \E i \in Ids : registry[i] # 0
     THEN \E i \in Ids :
            /\ registry[i] # 0
            /\ registry' = [registry EXCEPT ![i] = 0]
            /\ GoesWith(k, "close", registry[i]) /\ Shut(registry[i]) /\ lock' = k
     ELSE Goes(k, "answered") /\ lock' = 0 /\ UNCHANGED <<forwarderVars, registry>>
  /\ Quiet

\* The second half of stop(), with the registry's mutex held.
CloseStopped(k) ==
  /\ calls[k].pc = "close"
  /\ CASE calls[k].kind = "start" ->
            /\ Close(registry[calls[k].id])
            /\ registry' = [registry EXCEPT ![calls[k].id] = calls[k].f]
            /\ Goes(k, "answered") /\ lock' = 0
       [] calls[k].kind = "stop" ->
            /\ Close(calls[k].f)
            /\ GoesWith(k, "answered", 0) /\ lock' = 0 /\ UNCHANGED registry
       [] calls[k].kind = "stop_all" ->
            /\ Close(calls[k].f)
            /\ GoesWith(k, "sent", 0) /\ UNCHANGED <<registry, lock>>
  /\ Quiet

Works(k) ==
  \/ LookUp(k) \/ Connect(k) \/ ConnectFails(k) \/ Probe(k) \/ NextPort(k)
  \/ Insert(k) \/ StopServerTunnel(k) \/ StopAll(k) \/ CloseStopped(k)

-----------------------------------------------------------------------------
\* The hooks.
Press ==
  /\ presses < MaxPresses /\ presses' = presses + 1
  /\ UNCHANGED <<forwarderVars, registry, lock>>

Slot == Least({k \in Slots : calls[k].kind = "none"})
Command(kind, id) == [NoCall EXCEPT !.kind = kind, !.id = id]

\* The commands `new` are sent together; which ids are now crowded.
Send(new) ==
  /\ Cardinality({k \in Slots : calls[k].kind = "none"}) >= Len(new)
  /\ LET Rank(k) == Cardinality({j \in 1..k : calls[j].kind = "none"})
     IN  calls' = [k \in Slots |->
                    IF calls[k].kind = "none" /\ Rank(k) <= Len(new) THEN new[Rank(k)] ELSE calls[k]]
  /\ overlap' = {i \in Ids :
                  LET mine == {n \in DOMAIN new : new[n].id = i \/ new[n].kind = "stop_all"}
                  IN  IF mine = {} THEN i \in overlap
                      ELSE Cardinality(mine) > 1 \/ UnderWay(i) # {}}

\* The effect of useManagementTunnel; its clean-up comes first, and the two
\* commands are on their way together.
ShowManagement ==
  /\ place = "here" /\ Press
  /\ Send(<<Command("start", "mgmt")>>
            \o IF hook.kind = "idle" THEN <<>> ELSE <<Command("stop", "mgmt")>>)
  /\ hook' = [kind |-> "connecting", call |-> Slot, f |-> 0]
  /\ UNCHANGED <<shown, busy, place, strayed>>

LeaveManagement ==
  /\ place = "here" /\ hook.kind # "idle" /\ Press
  /\ Send(<<Command("stop", "mgmt")>>)
  /\ hook' = [kind |-> "idle", call |-> 0, f |-> 0]
  /\ UNCHANGED <<shown, busy, place, strayed>>

PressButton ==
  /\ place = "here" /\ ~busy /\ Press
  /\ Send(<<Command(IF shown = 0 THEN "start" ELSE "stop", "svc")>>)
  /\ busy' = TRUE
  /\ UNCHANGED <<hook, shown, place, strayed>>

\* openServerTunnel asks for the status first; nothing waits for it.
OpenTunnel ==
  /\ place = "here" /\ shown # 0 /\ Press
  /\ Send(<<Command("status", "svc")>>)
  /\ UNCHANGED <<hook, shown, busy, place, strayed>>

\* The server is removed: its page goes, and stopTunnelsForServer stops what is
\* shown.
RemoveServer ==
  /\ place = "here" /\ Press
  /\ Send((IF hook.kind = "idle" THEN <<>> ELSE <<Command("stop", "mgmt")>>)
            \o (IF shown = 0 THEN <<>> ELSE <<Command("stop", "svc")>>))
  /\ hook' = [kind |-> "idle", call |-> 0, f |-> 0]
  /\ place' = "removed"
  /\ strayed' = (UnderWay("svc") # {})
  /\ busy' = (busy \/ shown # 0)
  /\ UNCHANGED shown

CloseWindow ==
  /\ place # "closing" /\ Press
  /\ Send(<<Command("stop_all", "svc")>>)
  /\ place' = "closing"
  /\ UNCHANGED <<hook, shown, busy, strayed>>

\* An answer arrives.
Deliver(k) ==
  /\ At(k, {"start", "stop", "status", "stop_all"}, "answered")
  /\ calls' = [calls EXCEPT ![k] = NoCall]
  /\ LET c == calls[k]
         mine == c.kind = "start" /\ hook.call = k
     IN  /\ hook' = IF mine
                    THEN [kind |-> IF c.f = 0 THEN "error" ELSE "ready", call |-> 0, f |-> c.f]
                    ELSE hook
         /\ shown' = IF c.id = "mgmt" \/ c.kind = "stop_all" \/ (c.kind = "start" /\ c.f = 0)
                     THEN shown ELSE c.f
         /\ busy' = (busy /\ ~(c.id = "svc" /\ c.kind \in {"start", "stop"}))
  /\ UNCHANGED <<forwarderVars, registry, lock, place, overlap, strayed, presses>>

User ==
  ShowManagement \/ LeaveManagement \/ PressButton \/ OpenTunnel \/ RemoveServer \/ CloseWindow

-----------------------------------------------------------------------------
\* tunnel_local_port: a request to the management service takes the registry's
\* mutex to find the port; a browser only needs to know it.
Client(f, c) ==
  /\ \/ f = hook.f /\ registry["mgmt"] = f /\ lock = 0
     \/ f = shown
  /\ Accept(f, c)

Next ==
  \/ User
  \/ \E k \in Slots : Works(k) \/ Deliver(k)
  \/ /\ \/ \E c \in Conn : TaskStep(c) \/ Hangup(c) \/ (\E f \in F : Client(f, c))
        \/ Network
     /\ UNCHANGED tunnelVars

Fairness ==
  /\ WF_vars(\E k \in Slots : Works(k) \/ Deliver(k))
  /\ WF_vars(\E c \in Conn : TaskStep(c) /\ UNCHANGED tunnelVars)

Spec == Init /\ [][Next]_vars /\ Fairness

-----------------------------------------------------------------------------
\* Nothing is left behind that no one can stop: a loop runs for a tunnel that is
\* entered or for a start that is about to enter it, whatever starts and stops
\* ran side by side; and SessionsAccounted, for the sessions.
NothingOrphaned ==
  /\ SessionsAccounted
  /\ \A f \in listening :
       \/ \E i \in Ids : registry[i] = f
       \/ \E k \in Slots : calls[k].f = f /\ calls[k].pc \in {"probe", "insert", "close"}

\* What the two hooks show is what runs, once nothing is under way and if the
\* last command was sent after the answers to those before it, and a server that
\* was removed has no tunnel left: the clean-up that does not wait, the status
\* that is read beside a stop or a start, and a removal while a command of the
\* button is under way are the ways to a screen that is wrong, or to a tunnel
\* that a removal does not stop because the screen does not show it.
ScreenTruthful ==
  place # "closing" =>
    /\ UnderWay("mgmt") = {} /\ "mgmt" \notin overlap =>
         registry["mgmt"] = IF hook.kind = "ready" THEN hook.f ELSE 0
    /\ UnderWay("svc") = {} /\ "svc" \notin overlap =>
         /\ registry["svc"] = shown /\ ~busy
         /\ place = "removed" /\ ~strayed => shown = 0

\* Every command is answered, also one that waits for the mutex of the registry
\* behind a stop that waits for the mutex of a session behind a reconnect to a
\* host that is gone.
CommandsAnswered ==
  (\E k \in Slots : calls[k].kind # "none") ~> (\A k \in Slots : calls[k].kind = "none")
=============================================================================
