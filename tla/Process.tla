------------------------------ MODULE Process ------------------------------
(***************************************************************************)
(* The life of the exporter's process around the handlers of Exporter:      *)
(* main() validates its options, starts the goroutine that listens and      *)
(* serves, waits for SIGINT or SIGTERM and lets http.Server.Shutdown drain   *)
(* the requests for at most ten seconds.  With TLS every handshake reads    *)
(* the server's certificate and key files again, which are renewed one      *)
(* after the other while the process runs.                                  *)
(***************************************************************************)
EXTENDS Exporter

CONSTANTS
  Tls,           \* --tls-server-cert-file and --tls-server-key-file are set
  Clients,       \* the requests by client: each sends one at a time
  MaxRenewals    \* bound: renewals of the server's key pair

ASSUME ProcessAssumption == /\ Tls \in BOOLEAN /\ MaxRenewals \in Nat
                            /\ Clients \subseteq SUBSET Requests
                            /\ Nothing \notin 0 .. MaxRenewals

Pairs == 0 .. MaxRenewals

VARIABLES
  main,        \* main(), from its first checks to its end
  listener,    \* the goroutine in ListenAndServe or ListenAndServeTLS
  conn,        \* the client's connection of each request
  certFile,    \* version of the certificate on disk
  keyFile,     \* version of the key on disk
  certRead,    \* the certificate a handshake has read; Nothing before and after
  inForce,     \* auxiliary: the last whole pair on disk when the handshake began
  outdated     \* auxiliary: the requests that were presented an older one

files == <<certFile, keyFile>>
handshake == <<certRead, inForce, outdated>>
process == <<main, listener, conn, files, handshake>>
allVars == <<vars, process>>

MainStates == {"starting", "started", "waiting", "draining", "stopped", "killed"}

ConnStates == {"none", "hello", "open", "refused"}

Alive == main \notin {"stopped", "killed"}

(* os.Exit in log.Fatal, or the default action of a signal: nothing deferred *)
(* runs, and the kernel closes the connections.                             *)
Kill == /\ main' = "killed"
        /\ conn' = [r \in Requests |-> "refused"]
        /\ certRead' = [r \in Requests |-> Nothing]
        /\ inForce' = [r \in Requests |-> Nothing]
        /\ UNCHANGED <<listener, files, outdated>>

PInit ==
  /\ Init
  /\ main = "starting" /\ listener = "none"
  /\ conn = [r \in Requests |-> "none"]
  /\ certFile = 0 /\ keyFile = 0
  /\ certRead = [r \in Requests |-> Nothing]
  /\ inForce = [r \in Requests |-> Nothing]
  /\ outdated = {}

-----------------------------------------------------------------------------
(* main().                                                                  *)

(* The password file, the scripts, the options and the client's TLS files   *)
(* are checked first; any of them may be refused.                           *)
Start == /\ main = "starting"
         /\ \/ main' = "started" /\ UNCHANGED <<listener, conn, files, handshake>>
            \/ Kill
         /\ UNCHANGED vars

NotifySignals == /\ main = "started"
                 /\ main' = "waiting"
                 /\ UNCHANGED <<vars, listener, conn, files, handshake>>

(* SIGINT or SIGTERM: Shutdown closes the listener at once.  A second one   *)
(* is buffered and never read.                                              *)
Signal == /\ Alive /\ main # "draining"
          /\ IF main = "waiting"
             THEN /\ main' = "draining"
                  /\ listener' = IF listener = "up" THEN "closed" ELSE listener
                  /\ UNCHANGED <<conn, files, handshake>>
             ELSE Kill
          /\ UNCHANGED vars

(* Were the connections without a request alone waited for.                 *)
InFlightNew(r) == conn[r] = "hello"

(* Shutdown waits for a connection with a request in a handler, and for one *)
(* that has not sent its request yet.                                       *)
InFlight(r) == conn[r] = "hello" \/ (conn[r] = "open" /\ ~ Answered(r))

Drained == /\ main = "draining"
           /\ \A r \in Requests : ~ InFlight(r)
           /\ main' = "stopped"
           /\ UNCHANGED <<vars, listener, conn, files, handshake>>

DrainTimeout == /\ main = "draining"
                /\ Kill
                /\ UNCHANGED vars

-----------------------------------------------------------------------------
(* The goroutine that serves: with TLS it verifies the initial key pair; a  *)
(* pair, a port or a TLS version it cannot use ends the process.            *)
PairReadable == Tls => certFile = keyFile

Listen ==
  /\ Alive /\ main # "starting" /\ listener = "none"
  /\ \/ /\ PairReadable
        /\ listener' = IF main = "draining" THEN "closed" ELSE "up"
        /\ UNCHANGED <<main, conn, files, handshake>>
     \/ Kill
  /\ UNCHANGED vars

(* A handshake begins: the pair to expect is the last one wholly on disk.   *)
LastWhole == IF certFile <= keyFile THEN certFile ELSE keyFile

(* Were the pair verified when the server started kept.                     *)
AcceptCached(r) ==
  /\ Alive /\ listener = "up" /\ conn[r] = "none"
  /\ \A c \in Clients : r \in c => \A q \in c : ~ InFlight(q)
  /\ conn' = [conn EXCEPT ![r] = "open"]
  /\ outdated' = IF Tls /\ LastWhole > 0 THEN outdated \cup {r} ELSE outdated
  /\ UNCHANGED <<vars, main, listener, files, certRead, inForce>>

Accept(r) ==
  /\ Alive /\ listener = "up" /\ conn[r] = "none"
  /\ \A c \in Clients : r \in c => \A q \in c : ~ InFlight(q)
  /\ conn' = [conn EXCEPT ![r] = IF Tls THEN "hello" ELSE "open"]
  /\ inForce' = IF Tls THEN [inForce EXCEPT ![r] = LastWhole] ELSE inForce
  /\ UNCHANGED <<vars, main, listener, files, certRead, outdated>>

(* LoadKeyPair reads the certificate and then the key, and refuses a key    *)
(* that is not the certificate's: the handshake fails.                      *)
ReadCert(r) ==
  /\ Alive /\ conn[r] = "hello" /\ certRead[r] = Nothing
  /\ certRead' = [certRead EXCEPT ![r] = certFile]
  /\ UNCHANGED <<vars, main, listener, conn, files, inForce, outdated>>

HandshakeOver(r) == /\ certRead' = [certRead EXCEPT ![r] = Nothing]
                    /\ inForce' = [inForce EXCEPT ![r] = Nothing]

ReadKey(r) ==
  /\ Alive /\ conn[r] = "hello" /\ certRead[r] # Nothing
  /\ IF keyFile = certRead[r]
     THEN /\ conn' = [conn EXCEPT ![r] = "open"]
          /\ outdated' = IF certRead[r] < inForce[r] THEN outdated \cup {r} ELSE outdated
     ELSE /\ conn' = [conn EXCEPT ![r] = "refused"]
          /\ UNCHANGED outdated
  /\ HandshakeOver(r)
  /\ UNCHANGED <<vars, main, listener, files>>

(* A connection that has sent no request for five seconds is closed by      *)
(* Shutdown.                                                                *)
CloseNew(r) ==
  /\ main = "draining" /\ conn[r] = "hello"
  /\ conn' = [conn EXCEPT ![r] = "refused"]
  /\ HandshakeOver(r)
  /\ UNCHANGED <<vars, main, listener, files, outdated>>

(* A request is handled once its connection is open, draining or not.       *)
Served(r) == /\ Alive /\ conn[r] = "open"
             /\ Handle(r) \/ Unauthorized(r)
             /\ UNCHANGED process

-----------------------------------------------------------------------------
(* The operator renews the pair, in two writes of either order, and edits   *)
(* the password file (its first version is the one main() loads); Redis     *)
(* fails over.                                                              *)
RenewCert == /\ certFile < MaxRenewals /\ certFile <= keyFile
             /\ certFile' = certFile + 1
             /\ UNCHANGED <<vars, main, listener, conn, keyFile, handshake>>

RenewKey == /\ keyFile < MaxRenewals /\ keyFile <= certFile
            /\ keyFile' = keyFile + 1
            /\ UNCHANGED <<vars, main, listener, conn, certFile, handshake>>

Environment == main # "starting" /\ (EditFile \/ Failover) /\ UNCHANGED process

Over == ~ Alive /\ UNCHANGED allVars

PNext == \/ Start \/ NotifySignals \/ Signal \/ Drained \/ DrainTimeout \/ Listen
         \/ \E r \in Requests : \/ Accept(r) \/ ReadCert(r) \/ ReadKey(r) \/ CloseNew(r)
                                \/ Served(r)
         \/ RenewCert \/ RenewKey \/ Environment
         \/ Over

ProcessSpec == PInit /\ [][PNext]_allVars

(* Goroutines are scheduled and a starving mutex is handed over (a /scrape  *)
(* shares none); Shutdown polls its connections, closes the new ones after  *)
(* five seconds and ends when none is left.  No client is owed a            *)
(* connection, no handshake has to go on and no signal has to come.         *)
ServedFairly == /\ \A r \in Requests : WF_allVars(Served(r))
                /\ \A r \in Metrics \cup Reloads : SF_allVars(Served(r) /\ (Lock(r) \/ StoreMap(r)))

ShutdownPolls == WF_allVars(Drained \/ \E r \in Requests : CloseNew(r))

FairProcess == ProcessSpec /\ ServedFairly /\ ShutdownPolls

-----------------------------------------------------------------------------
ProcessTypeOK ==
  /\ main \in MainStates /\ listener \in {"none", "up", "closed"}
  /\ conn \in [Requests -> ConnStates]
  /\ certFile \in Pairs /\ keyFile \in Pairs
  /\ certRead \in [Requests -> Pairs \cup {Nothing}]
  /\ inForce \in [Requests -> Pairs \cup {Nothing}]
  /\ outdated \subseteq Requests

(* Every request whose connection was accepted is answered, shutdown or     *)
(* not, unless the process is killed: no error path keeps the mutex, and a  *)
(* graceful shutdown lets the handlers finish; nor does it wait for ever.   *)
AcceptedAnswered ==
  <>[](main # "draining" /\ \A r \in Requests : conn[r] = "open" => Answered(r))

(* The process ends by itself only with no request in a handler, no         *)
(* handshake under way and no connection to Redis left open.                *)
DrainedBeforeExit ==
  main = "stopped" => \A r \in Requests :
    conn[r] # "hello" /\ (conn[r] = "open" => Answered(r)) /\ conns[r] = {}

(* A renewed key pair is in force without a restart: no handshake presents  *)
(* a pair older than the last one that was wholly on disk when it began.    *)
RenewalInForce == outdated = {}
=============================================================================
