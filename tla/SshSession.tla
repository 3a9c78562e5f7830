----------------------------- MODULE SshSession -----------------------------
(***************************************************************************)
(* One connection to the SSH server: authentication, channels, the exec    *)
(* timeout and the tasks that serve commands.  A channel is named after    *)
(* the client program that uses it; its number may be used again once it   *)
(* is closed.                                                              *)
(***************************************************************************)
EXTENDS Naturals

CONSTANTS Sessions

VARIABLES
  link,      \* "down" before the connection and after its end
  channels,  \* the handler's map: open channels on which no command has arrived
  timer,     \* exec_timeout: no task, one that sleeps, or one that has fired
  notice,    \* is a disconnect queued for the session loop
  serving,   \* the protocol version the task of each channel speaks; 0: no task
  version    \* git_protocol_version

sshVars == <<link, channels, timer, notice, serving, version>>

SshInit ==
  /\ link = "down"
  /\ channels = {}
  /\ serving = [s \in Sessions |-> 0]
  /\ timer = "none" /\ notice = FALSE
  /\ version = 1

\* new_client, then auth_publickey, which accepts every key.
Connect ==
  /\ link = "down"
  /\ link' = "up"
  /\ version' = 1
  /\ UNCHANGED <<channels, timer, notice, serving>>

\* env_request with GIT_PROTOCOL=version=2: of the whole connection.
EnvRequest ==
  /\ link = "up" /\ channels # {}
  /\ version' = 2
  /\ UNCHANGED <<link, channels, timer, notice, serving>>

\* channel_open_session starts the timeout unless there is one.
ChannelOpen(s) ==
  /\ link = "up"
  /\ s \notin channels /\ serving[s] = 0
  /\ channels' = channels \union {s}
  /\ timer' = IF timer = "none" THEN "sleeping" ELSE timer
  /\ UNCHANGED <<link, notice, serving, version>>

\* The connection is over: channels, messages and streams go with it.  A
\* timeout that still sleeps has nobody to tell.
Hangup ==
  /\ link = "up"
  /\ link' = "down"
  /\ channels' = {}
  /\ serving' = [s \in Sessions |-> 0]
  /\ timer' = "none" /\ notice' = FALSE
  /\ UNCHANGED version

NoAbort(s) ==                                                   \* mutant
  /\ link = "up" /\ s \in channels
  /\ channels' = channels \ {s}
  /\ serving' = [serving EXCEPT ![s] = version]
  /\ UNCHANGED <<link, timer, notice, version>>

\* exec_request of an authorised command: the timeout is aborted, which takes
\* back no disconnect it has sent, the channel is taken from the map and a
\* task serves it, in the version known by now.
Exec(s) ==
  /\ link = "up" /\ s \in channels
  /\ timer' = "none"
  /\ channels' = channels \ {s}
  /\ serving' = [serving EXCEPT ![s] = version]
  /\ UNCHANGED <<link, notice, version>>

\* authorize says no: an exit status is sent and the channel closed.  Its
\* entry stays in the map and is never looked up again.
ExecDenied(s) ==
  /\ link = "up" /\ s \in channels
  /\ timer' = "none"
  /\ channels' = channels \ {s}
  /\ UNCHANGED <<link, notice, serving, version>>

\* parse_git_command fails, or the channel has been taken by an earlier
\* command: the handler's error ends the connection.
ExecFails(s) ==
  /\ s \in channels \/ serving[s] # 0
  /\ Hangup

\* The deadline passes: the task sends a disconnect to the session loop.
Deadline ==
  /\ timer = "sleeping"
  /\ timer' = "fired" /\ notice' = TRUE
  /\ UNCHANGED <<link, channels, serving, version>>

\* The session loop comes to the message, with whatever the client has sent in
\* between taken care of.
DropLate ==
  /\ notice
  /\ Hangup

\* The task has written its answer: exit status, EOF, close.
TaskEnds(s) ==
  /\ serving[s] # 0
  /\ serving' = [serving EXCEPT ![s] = 0]
  /\ UNCHANGED <<link, channels, timer, notice, version>>

\* The client or the network closes the connection.
Disconnect == Hangup

\* The exec timeout sends its disconnect only while some channel of the
\* connection has had no command: every command, the refused ones too, has
\* aborted the timeout that was running.  A command that comes after the
\* disconnect was sent, and before the loop gets to it, is cut off all the same.
DeadlineNeedsSilence ==
  [][timer = "sleeping" /\ timer' = "fired" => channels # {}]_sshVars
=============================================================================
