------------------------------- MODULE Events -------------------------------
(***************************************************************************)
(* Connections and events: the serve loop of one connection                *)
(* (handleConn, pkg/ipc/server.go:86-133), the hub that hands tree_changed  *)
(* events to subscribers (cmd/bmd/events.go), and the programs at the      *)
(* other end: the native-messaging bridge (cmd/bmd-bridge), which forwards *)
(* frames until one carries "ok", with the browser extension behind it     *)
(* (ui/chrome/src/background.ts); a command of s0f, which takes the first  *)
(* frame for its answer; and `s0f watch`, which reads frames for ever.     *)
(*                                                                         *)
(* registerHandlers registers no stream, so StreamMethods is empty in the  *)
(* program; the run gives it subscribe_events to check the hub and the     *)
(* stream path of the server, which are there for it.                      *)
(***************************************************************************)
EXTENDS Integers, Sequences, FiniteSets

CONSTANTS
    Conns,          \* connections, numbered in the order they are made
    None,           \* the extension has no port
    StreamMethods,  \* methods registered with RegisterStream
    Cap,            \* buffer of a subscriber's channel (16)
    WireCap,        \* frames the socket takes before a write blocks
    MaxEvents,      \* bound: events broadcast
    MaxPosts        \* bound: messages the extension posts

ASSUME EventConstants ==
    /\ Conns \subseteq Nat /\ None \notin Conns
    /\ StreamMethods \subseteq {"subscribe_events"}
    /\ Cap \in Nat \ {0} /\ WireCap \in Nat \ {0}
    /\ MaxEvents \in Nat /\ MaxPosts \in Nat

VARIABLES
    clients,  \* connections whose eventClient is in the hub's map
    chan,     \* events buffered in a connection's channel
    open,     \* connections whose channel is not closed
    watch,    \* connections whose goroutine waits for the daemon's shutdown
    up,       \* the daemon's process runs
    shut,     \* its context is done
    sent,     \* events broadcast so far (bounded by MaxEvents)
    serve,    \* where the serve loop of a connection is
    inbox,    \* the request the serve loop has not read yet
    wire,     \* frames written and not read by the other end
    far,      \* what is at the other end, and where it is
    got,      \* the last event the other end read
    port,     \* the connection of the extension's port, or None
    pipe,     \* messages posted to the port that its bridge has not read
    posts     \* messages posted so far (bounded by MaxPosts)

hub    == <<clients, chan, open, watch>>
daemon == <<up, shut, sent>>
ext    == <<port, pipe, posts>>
vars   == <<hub, daemon, serve, inbox, wire, far, got, ext>>

(* stdin, forward: a bridge; answer: a command; watch: a watch; gone: the program
   has ended *)
Ends == {"none", "stdin", "forward", "answer", "watch", "gone"}

Methods  == {"get_tree", "subscribe_events", "unknown"}
Handlers == {"get_tree"}                 \* the methods given to Register

(* Frames: the two kinds of response carry "ok"; a positive number is an event. *)
OkFrame    == 0
ErrorFrame == -1
Frames     == {OkFrame, ErrorFrame} \cup 1 .. MaxEvents
IsResponse(frame) == frame \in {OkFrame, ErrorFrame}

Init ==
    /\ clients = {} /\ open = {} /\ watch = {} /\ chan = [c \in Conns |-> <<>>]
    /\ up = TRUE /\ shut = FALSE /\ sent = 0
    /\ serve = [c \in Conns |-> "read"]
    /\ inbox = [c \in Conns |-> "none"] /\ wire = [c \in Conns |-> <<>>]
    /\ far = [c \in Conns |-> "none"] /\ got = [c \in Conns |-> 0]
    /\ port = None /\ pipe = 0 /\ posts = 0

Turns(c, from, to) == far[c] = from /\ far' = [far EXCEPT ![c] = to]

-----------------------------------------------------------------------------
New(c, end) ==
    /\ \A d \in Conns : d < c => far[d] # "none"
    /\ Turns(c, "none", end)

(* The extension: ensurePort starts a bridge, which ends at once if it cannot dial. *)
Dial(c) ==
    \/ up /\ New(c, "stdin")
    \/ (shut \/ ~up) /\ New(c, "gone")

EnsurePort(c) ==
    /\ port = None
    /\ port' = c /\ Dial(c)
    /\ UNCHANGED <<hub, daemon, serve, inbox, wire, got, pipe, posts>>

(* sendNative *)
Post(c) ==
    /\ posts < MaxPosts /\ posts' = posts + 1
    /\ pipe' = pipe + 1
    /\ \/ port = None /\ port' = c /\ Dial(c)
       \/ port = c /\ UNCHANGED <<port, far>>
    /\ UNCHANGED <<hub, daemon, serve, inbox, wire, got>>

(* onDisconnect: what the bridge had not read is lost. *)
Disconnected ==
    /\ port # None /\ far[port] = "gone"
    /\ port' = None /\ pipe' = 0
    /\ UNCHANGED <<hub, daemon, serve, inbox, wire, far, got, posts>>

-----------------------------------------------------------------------------
(* The other end of a connection *)

(* The bridge: one message from the browser, written to the daemon if it is there,
   then frames until one has "ok". *)
Ask(m) ==
    /\ port # None /\ pipe > 0
    /\ pipe' = pipe - 1
    /\ IF serve[port] = "gone"
       THEN Turns(port, "stdin", "gone") /\ UNCHANGED inbox
       ELSE Turns(port, "stdin", "forward") /\ inbox' = [inbox EXCEPT ![port] = m]
    /\ UNCHANGED <<hub, daemon, serve, wire, got, port, posts>>

(* A command dials, and sends its one request (rpcCall); watch likewise. *)
Call(c, m) ==
    /\ up
    /\ New(c, IF m = "subscribe_events" THEN "watch" ELSE "answer")
    /\ inbox' = [inbox EXCEPT ![c] = m]
    /\ UNCHANGED <<hub, daemon, serve, wire, got, ext>>

(* A frame is read: the answer the other end waits for, which ends a command, or
   something to forward or print. *)
ForwardUntilOk(c) ==                                            \* mutant
    /\ wire[c] # <<>>
    /\ wire' = [wire EXCEPT ![c] = Tail(@)]
    /\ \/ Head(wire[c]) = OkFrame /\ Turns(c, "forward", "stdin")
       \/ Head(wire[c]) # OkFrame /\ Turns(c, "forward", "forward")
       \/ Turns(c, "answer", "gone") \/ Turns(c, "watch", "watch")
    /\ UNCHANGED <<hub, daemon, serve, inbox, got, ext>>
Forward(c) ==
    /\ wire[c] # <<>>
    /\ wire' = [wire EXCEPT ![c] = Tail(@)]
    /\ \/ IsResponse(Head(wire[c])) /\ Turns(c, "forward", "stdin") /\ UNCHANGED got
       \/ ~IsResponse(Head(wire[c])) /\ Turns(c, "forward", "forward")
          /\ got' = [got EXCEPT ![c] = Head(wire[c])]
       \/ Turns(c, "answer", "gone") /\ UNCHANGED got
       \/ Turns(c, "watch", "watch")
          /\ got' = [got EXCEPT ![c] = IF IsResponse(Head(wire[c])) THEN @ ELSE Head(wire[c])]
    /\ UNCHANGED <<hub, daemon, serve, inbox, ext>>

(* The daemon has closed the connection, and all it wrote has been read. *)
Closed(c) ==
    /\ serve[c] = "gone" /\ wire[c] = <<>>
    /\ far[c] \in {"forward", "answer", "watch"}
    /\ far' = [far EXCEPT ![c] = "gone"]
    /\ UNCHANGED <<hub, daemon, serve, inbox, wire, got, ext>>

(* The browser ends the bridge, the user the command; or it is killed. *)
HangUp(c) ==
    /\ far[c] \in {"stdin", "forward", "answer", "watch"}
    /\ far' = [far EXCEPT ![c] = "gone"]
    /\ wire' = [wire EXCEPT ![c] = <<>>]
    /\ UNCHANGED <<hub, daemon, serve, inbox, got, ext>>

-----------------------------------------------------------------------------
(* The serve loop *)

CanWrite(c) == far[c] = "gone" \/ Len(wire[c]) < WireCap

(* A write to a connection the peer has closed fails. *)
Write(c, frame) ==
    IF far[c] = "gone"
    THEN serve' = [serve EXCEPT ![c] = "gone"] /\ UNCHANGED wire
    ELSE wire' = [wire EXCEPT ![c] = Append(@, frame)] /\ UNCHANGED serve

(* A request is answered, or refused as unknown. *)
AnswerKnownOnly(c) ==                                           \* mutant
    /\ serve[c] = "read" /\ inbox[c] \in Handlers
    /\ CanWrite(c)
    /\ Write(c, OkFrame)
    /\ inbox' = [inbox EXCEPT ![c] = "none"]
    /\ UNCHANGED <<hub, daemon, far, got, ext>>
AnswerFallsThrough(c) ==                                        \* mutant
    /\ serve[c] = "read" /\ inbox[c] \in Handlers /\ CanWrite(c)
    /\ wire' = [wire EXCEPT ![c] = @ \o <<OkFrame, ErrorFrame>>]
    /\ inbox' = [inbox EXCEPT ![c] = "none"]
    /\ UNCHANGED <<hub, daemon, serve, far, got, ext>>
Answer(c) ==
    /\ serve[c] = "read" /\ inbox[c] # "none" /\ inbox[c] \notin StreamMethods
    /\ CanWrite(c)
    /\ Write(c, IF inbox[c] \in Handlers THEN OkFrame ELSE ErrorFrame)
    /\ inbox' = [inbox EXCEPT ![c] = "none"]
    /\ UNCHANGED <<hub, daemon, far, got, ext>>

(* handleSubscribeEvents: register, and unregister when the daemon shuts down. *)
Subscribe(c) ==
    /\ serve[c] = "read" /\ inbox[c] \in StreamMethods
    /\ inbox' = [inbox EXCEPT ![c] = "none"]
    /\ serve' = [serve EXCEPT ![c] = "stream"]
    /\ clients' = clients \cup {c} /\ open' = open \cup {c} /\ watch' = watch \cup {c}
    /\ chan' = [chan EXCEPT ![c] = <<>>]
    /\ UNCHANGED <<daemon, wire, far, got, ext>>

(* for event := range ch: the failed write of an event ends the loop, and the
   channel stays registered. *)
DeliverAgain(c) ==                                              \* mutant
    /\ serve[c] = "stream" /\ chan[c] # <<>> /\ CanWrite(c)
    /\ Write(c, Head(chan[c]))
    /\ UNCHANGED <<hub, daemon, inbox, far, got, ext>>
Deliver(c) ==
    /\ serve[c] = "stream" /\ chan[c] # <<>> /\ CanWrite(c)
    /\ Write(c, Head(chan[c]))
    /\ chan' = [chan EXCEPT ![c] = Tail(@)]
    /\ UNCHANGED <<clients, open, watch, daemon, inbox, far, got, ext>>

StreamEnds(c) ==
    /\ serve[c] = "stream" /\ chan[c] = <<>> /\ c \notin open
    /\ serve' = [serve EXCEPT ![c] = "read"]
    /\ UNCHANGED <<hub, daemon, inbox, wire, far, got, ext>>

(* readFrame fails: the loop returns. *)
ReadEnds(c) ==
    /\ serve[c] = "read" /\ inbox[c] = "none" /\ far[c] = "gone"
    /\ serve' = [serve EXCEPT ![c] = "gone"]
    /\ UNCHANGED <<hub, daemon, inbox, wire, far, got, ext>>

-----------------------------------------------------------------------------
(* The hub *)

(* eventHub.broadcast never blocks: a full channel misses the event. *)
BroadcastBlocking ==                                            \* mutant
    /\ up /\ sent < MaxEvents /\ sent' = sent + 1
    /\ \A c \in clients : Len(chan[c]) < Cap
    /\ chan' = [c \in Conns |-> IF c \in clients THEN Append(chan[c], sent + 1) ELSE chan[c]]
    /\ UNCHANGED <<clients, open, watch, up, shut, serve, inbox, wire, far, got, ext>>
BroadcastUnbounded ==                                           \* mutant
    /\ up /\ sent < MaxEvents /\ sent' = sent + 1
    /\ chan' = [c \in Conns |-> IF c \in clients THEN Append(chan[c], sent + 1) ELSE chan[c]]
    /\ UNCHANGED <<clients, open, watch, up, shut, serve, inbox, wire, far, got, ext>>
Broadcast ==
    /\ up /\ sent < MaxEvents /\ sent' = sent + 1
    /\ chan' = [c \in Conns |->
                  IF c \in clients /\ Len(chan[c]) < Cap
                  THEN Append(chan[c], sent + 1) ELSE chan[c]]
    /\ UNCHANGED <<clients, open, watch, up, shut, serve, inbox, wire, far, got, ext>>

Shutdown ==
    /\ up /\ ~shut
    /\ shut' = TRUE
    /\ UNCHANGED <<hub, up, sent, serve, inbox, wire, far, got, ext>>

(* The process ends, after a shutdown or without: its connections close, and what it
   has written can still be read. *)
End ==
    /\ up /\ up' = FALSE
    /\ clients' = {} /\ open' = {} /\ watch' = {} /\ chan' = [c \in Conns |-> <<>>]
    /\ serve' = [c \in Conns |-> "gone"]
    /\ inbox' = [c \in Conns |-> "none"]
    /\ UNCHANGED <<shut, sent, wire, far, got, ext>>

(* <-ctx.Done(), then eventHub.unregister: out of the map and closed at once. *)
UnregisterClosesFirst(c) ==                                     \* mutant
    /\ shut /\ c \in open
    /\ open' = open \ {c}
    /\ UNCHANGED <<clients, watch, chan, daemon, serve, inbox, wire, far, got, ext>>
UnregisterLeavesOpen(c) ==                                      \* mutant
    /\ shut /\ c \in watch
    /\ watch' = watch \ {c} /\ clients' = clients \ {c}
    /\ UNCHANGED <<open, chan, daemon, serve, inbox, wire, far, got, ext>>
Unregister(c) ==
    /\ shut /\ c \in watch
    /\ watch' = watch \ {c} /\ clients' = clients \ {c} /\ open' = open \ {c}
    /\ UNCHANGED <<chan, daemon, serve, inbox, wire, far, got, ext>>

Serve(c) == Answer(c) \/ Subscribe(c) \/ Deliver(c) \/ StreamEnds(c) \/ ReadEnds(c)

Next ==
    \/ \E c \in Conns : EnsurePort(c) \/ Post(c) \/ (\E m \in Methods \ {"unknown"} : Call(c, m))
    \/ \E m \in Methods : Ask(m)
    \/ \E c \in Conns :
          Forward(c) \/ Closed(c) \/ HangUp(c) \/ Serve(c) \/ Unregister(c)
    \/ Disconnected \/ Broadcast \/ Shutdown \/ End

Spec == Init /\ [][Next]_vars
FairSpec ==
    /\ Spec
    /\ WF_vars(Broadcast) /\ WF_vars(Disconnected) /\ WF_vars(\E m \in Methods : Ask(m))
    /\ \A c \in Conns : /\ WF_vars(Serve(c)) /\ WF_vars(Unregister(c))
                        /\ WF_vars(Forward(c) \/ Closed(c))

-----------------------------------------------------------------------------
(* Channels and sockets stay within their buffers, and a channel is in the hub's
   map only with a goroutine that will take it out. *)
TypeOK ==
    /\ clients \subseteq watch /\ watch \subseteq Conns /\ open \subseteq Conns
    /\ \A c \in Conns : /\ chan[c] \in Seq(1 .. MaxEvents) /\ Len(chan[c]) <= Cap
                        /\ wire[c] \in Seq(Frames) /\ Len(wire[c]) <= WireCap
    /\ up \in BOOLEAN /\ shut \in BOOLEAN /\ sent \in 0 .. MaxEvents
    /\ serve \in [Conns -> {"read", "stream", "gone"}]
    /\ inbox \in [Conns -> Methods \cup {"none"}]
    /\ far \in [Conns -> Ends] /\ got \in [Conns -> 0 .. MaxEvents]
    /\ port \in Conns \cup {None} /\ pipe \in 0 .. posts /\ posts \in 0 .. MaxPosts

(* No event is sent on a closed channel, which would panic: a channel leaves the
   map in the step that closes it (events.go:36-43). *)
NoSendOnClosed == clients \subseteq open

(* What the other end has read, and what is on its way, are events in the order
   they were broadcast, none twice: some may be missing. *)
OnItsWay(c) == wire[c] \o chan[c]
IsEvent(frame) == frame > 0
EventsInOrder == \A c \in Conns :
    \A i \in DOMAIN OnItsWay(c) : IsEvent(OnItsWay(c)[i]) =>
        /\ got[c] < OnItsWay(c)[i]
        /\ \A j \in 1 .. i - 1 : OnItsWay(c)[j] < OnItsWay(c)[i]

(* The answer to a request is read by the program that is waiting for it: no frame
   is left over for a bridge's next message, and the first frame a command reads,
   which it takes for the answer whatever it is, is one. *)
AnswersMatchRequests == \A c \in Conns :
    /\ far[c] = "stdin" => \A i \in DOMAIN wire[c] : ~IsResponse(wire[c][i])
    /\ far[c] = "answer" => \A i \in DOMAIN wire[c] : IsResponse(wire[c][i])
    /\ Cardinality({i \in DOMAIN wire[c] : IsResponse(wire[c][i])}) <= 1

(* The hub is never held up by a subscriber that reads slowly or not at all. *)
EveryEventIsBroadcast == <>(sent = MaxEvents \/ ~up)

(* A subscription does not outlast the shutdown: the hub lets go of it, also of one
   whose loop a failed write has ended, what its channel still has is written, and the
   serve loop takes requests again (events.go:36-43, pkg/ipc/server.go:118-129).  run
   does not wait for any of this (main.go:108-110): the process may end first. *)
ShutdownEndsStreams == \A c \in Conns :
    shut /\ (c \in clients \/ serve[c] = "stream")
        ~> ~up \/ (c \notin clients /\ serve[c] # "stream")

(* A request that starts no stream is answered, known or not, or the daemon ends:
   the bridge goes back to the browser, and the command ends. *)
EveryRequestEnds == \A c \in Conns :
    inbox[c] \in Methods \ StreamMethods ~> far[c] \notin {"forward", "answer"}

(* A message posted to the port is read, or the port is found disconnected: until
   the shutdown one waits for ever only behind a subscription, which the extension
   never asks for (bmd-bridge/main.go:60-80). *)
EveryMessageIsRead == pipe > 0 ~> (pipe = 0 \/ shut \/ port \in watch)
=============================================================================
