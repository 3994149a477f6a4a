---------------------------- MODULE FlameServer ----------------------------
(***************************************************************************)
(* d3flame.Web: the goroutine that waits on the channel stop, the one that *)
(* runs server.ListenAndServe, and a caller that sends on stop when it is  *)
(* done.  server is net/http's; shutdown is its flag inShutdown.           *)
(***************************************************************************)
EXTENDS Integers

CONSTANT MaxSends       \* how often the caller may send on stop

VARIABLES
    stopper,    \* "waiting" on stop, "closing" the server, "ended"
    server,     \* "starting", "bound", "listening", "closed", "panic"
    shutdown,
    caller,     \* "idle", "sending"
    sent        \* sends the stopper has taken

serverVars == <<stopper, server, shutdown, caller, sent>>

Web == /\ stopper = "waiting" /\ server = "starting" /\ shutdown = FALSE
       /\ caller = "idle" /\ sent = 0

Stop == /\ caller = "idle" /\ sent < MaxSends
        /\ caller' = "sending"
        /\ UNCHANGED <<stopper, server, shutdown, sent>>

(* stop has no buffer: the send and <-stop are one step. *)
Rendezvous == /\ caller = "sending" /\ stopper = "waiting"
              /\ caller' = "idle" /\ sent' = sent + 1
              /\ stopper' = "closing"
              /\ UNCHANGED <<server, shutdown>>

(* A wrong variant: only a server that listens is closed. *)
Close_listening == /\ stopper = "closing" /\ stopper' = "ended"
                   /\ shutdown' = (server = "listening")
                   /\ server' = IF server = "listening" THEN "closed" ELSE server
                   /\ UNCHANGED <<caller, sent>>

(* server.Close: the flag first, then the listeners it knows of. *)
Close == /\ stopper = "closing" /\ stopper' = "ended"
         /\ shutdown' = TRUE
         /\ server' = IF server = "listening" THEN "closed" ELSE server
         /\ UNCHANGED <<caller, sent>>

(* ListenAndServe: net.Listen fails when the port is taken, and the        *)
(* goroutine panics; ErrServerClosed is no reason to.                      *)
Listen == /\ server = "starting"
          /\ server' \in IF shutdown THEN {"closed"} ELSE {"bound", "panic"}
          /\ UNCHANGED <<stopper, shutdown, caller, sent>>

(* Serve adds the listener to those Close knows of, unless it is too late. *)
Serve == /\ server = "bound"
         /\ server' = IF shutdown THEN "closed" ELSE "listening"
         /\ UNCHANGED <<stopper, shutdown, caller, sent>>

ServerNext == /\ server # "panic"       \* a panic ends the process
              /\ Stop \/ Rendezvous \/ Close \/ Listen \/ Serve
=============================================================================
