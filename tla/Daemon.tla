------------------------------- MODULE Daemon -------------------------------
(***************************************************************************)
(* The process of cmd/serve/main.go around the machine manager: the HTTP   *)
(* requests and SSH sessions it serves, the host key it makes when it      *)
(* starts, and its ordered shutdown of the HTTP server, the SSH server and *)
(* the manager under one deadline.                                         *)
(*                                                                         *)
(* The manager's steps are those of VmManager; the ones whose moment the   *)
(* daemon decides (Create, Shutdown, the end of the process) are guarded   *)
(* here, a DELETE being one of the requests.  net/http and gliderlabs/ssh  *)
(* are external: Shutdown closes the listener and waits for what is being  *)
(* served, without interrupting it.                                        *)
(***************************************************************************)
EXTENDS VmManager

CONSTANT Session    \* SSH connections there may be at one time

VARIABLES
  phase,      \* where run() of cmd/serve is
  deadline,   \* the 30 seconds of shutdownCtx are over
  http,       \* http[c]: the request of caller c, and the machine it is about
  ssh,        \* ssh[s]: the connection s, and the machine it is attached to
  key,        \* the host key file: 0 absent, Torn, or the number of the key
  served,     \* history: the host key clients of the gateway last met
  misread     \* history: since they met it, reading the file has failed

keyVars    == <<key, served, misread>>
serverVars == <<phase, deadline, http, ssh, keyVars>>
allVars    == <<vars, serverVars>>

NoRequest == [at |-> "none", m |-> NoMachine]
Torn == 0 - 1

Phase == {"starting", "writingKey", "keyed", "serving", "http", "ssh", "manager"}

\* The listeners: Shutdown of each server begins with closing its own.
HttpAccepts == daemon = "up" /\ phase = "serving"
SshAccepts  == daemon = "up" /\ phase \in {"serving", "http"}

DInit ==
  /\ Init
  /\ phase = "starting" /\ deadline = FALSE
  /\ http = [c \in Caller |-> NoRequest]
  /\ ssh = [s \in Session |-> NoRequest]
  /\ key = 0 /\ served = 0 /\ misread = FALSE

-----------------------------------------------------------------------------
(* Faulty variants of operations below, each a bug the code could have had *)
(* and a property catches; no specification uses them.                     *)

\* A key is generated at every start.
CreateKeyAlways ==
  /\ Loaded /\ phase = "starting" /\ key >= 0
  /\ phase' = "writingKey" /\ key' = Torn
  /\ UNCHANGED <<vars, deadline, http, ssh, served, misread>>

\* The HTTP server is closed instead of drained.
HttpCloses ==
  /\ phase = "http"
  /\ phase' = "ssh"
  /\ UNCHANGED <<vars, deadline, http, ssh, keyVars>>

\* The SSH server is shut down without the deadline.
SshShutdownNoDeadline ==
  /\ phase = "ssh"
  /\ \A s \in Session : ssh[s].at = "none"
  /\ phase' = "manager"
  /\ UNCHANGED <<vars, deadline, http, ssh, keyVars>>

-----------------------------------------------------------------------------
(* Start: Load, then the host key, then both servers.                      *)

Loading(m) == LoadRecord(m) /\ UNCHANGED serverVars

\* A key file that can be read and parsed is used as it is.
FindKey ==
  /\ Loaded /\ phase = "starting" /\ key > 0
  /\ phase' = "keyed"
  /\ UNCHANGED <<vars, deadline, http, ssh, keyVars>>

\* Any error of os.ReadFile leads here, that of a file that is there included.
\* os.WriteFile creates or truncates the file, then writes it, in place.
CreateKeyFile ==
  /\ Loaded /\ phase = "starting"
  /\ key = 0 \/ "read" \in HostFaults
  /\ phase' = "writingKey" /\ key' = Torn
  /\ misread' = (misread \/ key # 0)
  /\ UNCHANGED <<vars, deadline, http, ssh, served>>

\* A fresh key: numbered by the process that generates it.
WriteKeyFile ==
  /\ phase = "writingKey"
  /\ phase' = "keyed" /\ key' = restarts + 1
  /\ UNCHANGED <<vars, deadline, http, ssh, served, misread>>

Serve ==
  /\ phase = "keyed"
  /\ DaemonServes
  /\ phase' = "serving" /\ served' = key /\ misread' = FALSE
  /\ UNCHANGED <<deadline, http, ssh, key>>

-----------------------------------------------------------------------------
(* HTTP requests.                                                          *)

Accept(c) ==
  /\ HttpAccepts
  /\ http[c].at = "none"
  /\ http' = [http EXCEPT ![c].at = "open"]
  /\ UNCHANGED <<vars, phase, deadline, ssh, keyVars>>

Answer(c) == http' = [http EXCEPT ![c] = NoRequest]

ServeCreate(c, m) ==
  /\ http[c].at = "open"
  /\ Create(m)
  /\ Answer(c)
  /\ UNCHANGED <<phase, deadline, ssh, keyVars>>

\* InitdClient: the vsock path is set with the console and never cleared.
ServeExec(c, m) ==
  /\ http[c].at = "open"
  /\ m \in machines /\ console[m] # "nil" /\ vm[m] = "up"
  /\ http' = [http EXCEPT ![c] = [at |-> "exec", m |-> m]]
  /\ UNCHANGED <<vars, phase, deadline, ssh, keyVars>>

\* The command has ended or its client has left.
ExecEnds(c) ==
  /\ http[c].at = "exec"
  /\ Answer(c)
  /\ UNCHANGED <<vars, phase, deadline, ssh, keyVars>>

\* The guest's end of the connection is gone with its VM.
ExecLosesGuest(c) == http[c].at = "exec" /\ vm[http[c].m] # "up" /\ ExecEnds(c)

\* Any other request, one that is refused, or one whose client has left.
ServeOther(c) ==
  /\ http[c].at = "open"
  /\ Answer(c)
  /\ UNCHANGED <<vars, phase, deadline, ssh, keyVars>>

ServeDelete(c, m) ==
  /\ http[c].at = "open"
  /\ DeleteFinds(c, m)
  /\ http' = [http EXCEPT ![c].at = "delete"]
  /\ UNCHANGED <<phase, deadline, ssh, keyVars>>

DeleteGoesOn(c) == (DeleteCancels(c) \/ DeleteUnlists(c)) /\ UNCHANGED serverVars

DeleteReturns(c) ==
  /\ DeleteAnswers(c) \/ DeleteAbandoned(c)
  /\ Answer(c)
  /\ UNCHANGED <<phase, deadline, ssh, keyVars>>

-----------------------------------------------------------------------------
(* SSH connections.  Attach refuses a machine without a console, and one   *)
(* whose console is closed.                                                *)

Connect(s) ==
  /\ SshAccepts
  /\ ssh[s].at = "none"
  /\ ssh' = [ssh EXCEPT ![s].at = "open"]
  /\ UNCHANGED <<vars, phase, deadline, http, keyVars>>

AttachSession(s, m) ==
  /\ ssh[s].at = "open"
  /\ m \in machines /\ console[m] = "open"
  /\ ssh' = [ssh EXCEPT ![s] = [at |-> "attached", m |-> m]]
  /\ UNCHANGED <<vars, phase, deadline, http, keyVars>>

\* Either copy ends: the console is closed, or the client's input is.
SessionEnds(s) ==
  /\ ssh[s].at = "attached"
  /\ ssh' = [ssh EXCEPT ![s] = [at |-> "open", m |-> NoMachine]]
  /\ UNCHANGED <<vars, phase, deadline, http, keyVars>>

SessionLosesConsole(s) ==
  ssh[s].at = "attached" /\ console[ssh[s].m] = "closed" /\ SessionEnds(s)

Disconnect(s) ==
  /\ ssh[s].at # "none"
  /\ ssh' = [ssh EXCEPT ![s] = NoRequest]
  /\ UNCHANGED <<vars, phase, deadline, http, keyVars>>

-----------------------------------------------------------------------------
(* Shutdown.                                                               *)

\* A signal, or one of the servers failed.
BeginShutdown ==
  /\ daemon = "up" /\ phase = "serving"
  /\ phase' = "http"
  /\ UNCHANGED <<vars, deadline, http, ssh, keyVars>>

DeadlinePasses ==
  /\ phase \in {"http", "ssh", "manager"} /\ ~deadline
  /\ deadline' = TRUE
  /\ UNCHANGED <<vars, phase, http, ssh, keyVars>>

HttpShutdownReturns ==
  /\ phase = "http"
  /\ deadline \/ \A c \in Caller : http[c].at = "none"
  /\ phase' = "ssh"
  /\ UNCHANGED <<vars, deadline, http, ssh, keyVars>>

SshShutdownReturns ==
  /\ phase = "ssh"
  /\ deadline \/ \A s \in Session : ssh[s].at = "none"
  /\ phase' = "manager"
  /\ UNCHANGED <<vars, deadline, http, ssh, keyVars>>

ManagerShutdown ==
  /\ phase = "manager"
  /\ ShutdownCollects \/ ShutdownCancels \/ ShutdownDrained
     \/ (deadline /\ ShutdownExpires)
  /\ UNCHANGED serverVars

-----------------------------------------------------------------------------
(* The process ends: run() has returned, the host key cannot be parsed or  *)
(* written, or it crashes, at any moment.  Connections end with it.        *)
ProcessEnds ==
  /\ DaemonEnds
  /\ phase' = "starting" /\ deadline' = FALSE
  /\ http' = [c \in Caller |-> NoRequest]
  /\ ssh' = [s \in Session |-> NoRequest]
  /\ UNCHANGED keyVars

ProcessStarts == DaemonStarts /\ UNCHANGED serverVars

MachineStep(m) ==
  (RunStep(m) \/ RenewerReturns(m) \/ HostStep(m)) /\ UNCHANGED serverVars

StartStep ==
  (\E m \in Machine : Loading(m)) \/ FindKey \/ CreateKeyFile \/ WriteKeyFile \/ Serve

StopStep == HttpShutdownReturns \/ SshShutdownReturns \/ ManagerShutdown

DNext ==
  \/ \E m \in Machine : MachineStep(m)
  \/ StartStep
  \/ \E c \in Caller :
       \/ Accept(c) \/ ExecEnds(c) \/ ServeOther(c)
       \/ DeleteGoesOn(c) \/ DeleteReturns(c)
       \/ \E m \in Machine : ServeCreate(c, m) \/ ServeExec(c, m) \/ ServeDelete(c, m)
  \/ \E s \in Session :
       \/ Connect(s) \/ SessionEnds(s) \/ Disconnect(s)
       \/ \E m \in Machine : AttachSession(s, m)
  \/ BeginShutdown \/ DeadlinePasses \/ StopStep
  \/ ProcessEnds \/ ProcessStarts

DSafetySpec == DInit /\ [][DNext]_allVars

(* The main goroutine runs and time passes.  A client owes nothing: it may *)
(* keep a request, a session or a connection open for ever.                *)
DFairness ==
  /\ WF_allVars(StartStep) /\ WF_allVars(StopStep) /\ WF_allVars(DeadlinePasses)
  /\ \A s \in Session : WF_allVars(SessionLosesConsole(s))
  /\ \A c \in Caller : WF_allVars(ExecLosesGuest(c))

DSpec == DSafetySpec /\ DFairness

-----------------------------------------------------------------------------
(* Properties.                                                             *)

(* A shutdown in which the deadline does not pass leaves no machine        *)
(* provisioning or running: no request served meanwhile has added one that *)
(* Shutdown did not collect, cancel and wait for.                          *)
PromptShutdownLeavesNothing ==
  shut = "drained" /\ ~deadline => \A m \in Machine : ~InFlight(m)

(* A shutdown that has begun comes to its end, whatever requests, sessions *)
(* and machines do meanwhile.                                              *)
ShutdownEnds ==
  phase = "http" ~> (shut \in {"drained", "expired"} \/ daemon # "up")

(* The host key that clients have met is replaced by another only after    *)
(* reading its file has failed since: restarts, and starts cut short while *)
(* the file is written, reuse it.                                          *)
HostKeyKept == [][served # 0 /\ served' # served => misread]_allVars
=============================================================================
